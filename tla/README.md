# Verification of the Keycloak extensions

TLA+ models of the extensions in `src/main/java/nrw/sit/keycloak` and of the programs
that test them against Keycloak releases in `ci` (compatibility check, API
comparison, smoke test, end-to-end tests), with the TLC runs that check them and the
TLAPS proofs of the properties that matter most. `PROJECT.json` lists the runs,
the line each definition stands for, the hazards and the theorems.

## 1. The system

The jar adds providers to a Keycloak server. Keycloak calls them in the request
of one user; they keep no state of their own and work on Keycloak's: the store of
the realm (groups, memberships, roles), the authentication session of a login,
and what the browser brings with each request. What is hard about them is
therefore what lies between two of their calls: other requests, administrators,
the browser, the upstream identity provider.

| Component | State it works on | Operations | Talks to | What makes it correct |
|---|---|---|---|---|
| Identity provider group mapper (`mapper/IdpGroupMapper`) | groups and memberships of the realm; per sync the list of claimed paths, the remembered lookups, the five lists of the summary line | `importNewUser`, `updateBrokeredUser`: `syncGroups` resolves each claimed path, creates, joins, skips admin groups, leaves what is managed and not claimed | store transaction of the request, `isAdminGroupJoinAllowed` (external) | memberships follow the claim, only within the scope; nothing joined and left again; an unchanged claim changes nothing and leaves no INFO line; the realm stays a tree |
| Group paths (`mapper/GroupPath`) | none | segments, normal form, prefix match, strip | group mapper, prefix stripping | matching and lookup agree on what a path is |
| Claim extraction (`IdpGroupMapper.parsePrefixes`, `stripPrefix`) | none | try prefixes longest first, cut one off, drop an empty rest | group mapper | the longest matching prefix wins |
| SPNEGO button (`authenticator/SpnegoButtonAuthenticator`) | execution statuses of the authentication session, the note "requested" | `authenticate` (fallback form, click, redirect, challenge, ticket), `action` (fallback) | flow engine (external), browser | no mandatory step bypassed; tickets count only on demand; no click ends in a dead end; challenges answer a GET |
| ACR forwarding (`ForwardAcrToBrokerAuthenticator`) | client note `acr_values` | choose between requested and configured value | redirect to the upstream provider, through the browser | never less sent on than configured, nor than the application asked for |
| ACR enforcement (`EnforceBrokerAcrAuthenticator`) | level in the session | compare the level of the upstream token with the client's | `AcrStore` (external) | honest logins pass, and record what they reached |
| Compatibility check (`ci/kc-compat/run-all.sh`, `keycloak-compat.yml`) | jars, classes and status files of a kept working directory; `results.tsv`; the shell variables `st`, `txt` | seven checks, report, exit code; then three end-to-end tests and the job's conclusion | Maven, `api_diff.py`, `smoke-test.sh`, the runner | green means checked, in this invocation, on its own artifacts |
| Requested-LoA condition, OTP form without setup, username/password alternative, WebAuthn registration, filtered group claim, legacy lookup warning | none worth the name | one decision each | Keycloak | left out, see section 8 |
| API comparison (`ci/kc-compat/api_diff.py`) | two class paths, our classes; the report; the issue as far as it is written | read class files, collect what is relevant, seven comparisons, status, issue within a budget | status file read by `run-all.sh` | PASS only when the old jars link, override and are called as before; every problem named; the details stay within the issue's budget, and nothing that fits is omitted |
| Smoke test (`smoke-test.sh`, `smoke_exercise.py`) | distribution, run directory, server process, log, status file; the test realm | download, start, poll, exercise every provider, stop, evaluate | a Keycloak server, the ports | a pass is about this jar; a jar in order passes; nothing is left running; it ends unless the server never answers |
| Kerberos end-to-end test (`kerberos_e2e.py`) | realm flows, credential cache, session of a scripted browser, list of failures | seven scenarios of checks | the SPNEGO button, the flow engine | green means every check was made on what it names; the button passes |
| Group mapper end-to-end test (`idp_mapper_e2e.py`, `kc_e2e.py`) | groups on both sides, sync modes, expected summary lines, cached administrator token with its age | scenarios per sync mode, log checks | Keycloak's broker, the group mapper, its log | a wrong mapper is found, the right one passes; no prompt call is refused for its token |
| Login end-to-end test, choice of release | none worth the name | independent checks; one query | Keycloak, Maven Central | left out, see section 8 |

Hard behaviours: concurrent logins of one user and administrators in the console
(group mapper); resets, redirects, repeated requests and tickets nobody asked for
(button); values that pass through a browser twice, a client configuration read
twice (ACR); killed and repeated invocations, programs that end without a trace
(compatibility check); servers that come up late, die, or belong to somebody else
(smoke test); members that move in a class hierarchy between two releases (API
comparison); time between a look at a token and its use, checks that fail half-way
through a scenario (end-to-end tests). `PROJECT.json` has them line by line under "hazards".

## 2. Modules

    GroupPath ──── GroupSync            abstract: one login = one atomic change
        │              ▲ refines
        ├──── IdpGroupMapper            MCIdpGroupMapper, IdpGroupMapper_proofs
        └──── PrefixStripping           MCPrefixStripping, PrefixStripping_proofs
    SpnegoButton                        MCSpnegoButton
      └──── KerberosE2E                 the test composed with what it tests; SpnegoButton_proofs
    BrokerAcr                           MCBrokerAcr, BrokerAcr_proofs
    CompatCheck                         CompatCheck_proofs
    JavaLinking                         what the Java runtime does with a class path
      └──── ApiDiff                     MCApiDiff, ApiDiff_proofs
    AdminToken
      └──── IdpMapperE2E                IdpMapperE2E_proofs
    SmokeExercise
      └──── SmokeTest                   MCSmokeTest, SmokeTest_proofs

`MC...` modules hold values for the constants and nothing else. Definitions
marked "Faulty:" are variants of the definition that follows them, each wrong the
way a plausible slip in the code would be; `PROJECT.json` names for every checked
property the variant that breaks it.

### GroupPath, IdpGroupMapper, GroupSync

A path is a non-empty sequence of names. `Segments` turns what was typed (names
and slashes) into it, `Matches` and `Strip` are the methods of `GroupPath.java`.

`IdpGroupMapper` has the committed realm (`groups`, `adminGroups`, `members`) and,
per login, one sync record `tx[l]` with the local variables of `syncGroups`. A
login runs in its own store transaction: it sees the committed realm plus its own
changes (`VisibleGroups`, `Memberships`) and its effects become visible in one
step, `Commit`.

| Action | Code |
|---|---|
| `Begin` | `importNewUser` / `updateBrokeredUser` up to the head of `syncGroups` |
| `AddNotFound`, `AddHeld`, `AddSkipped`, `AddAllowed` | one turn of the loop over the claim: unresolved, already a member, admin group, allowed. Creation of missing groups on the way belongs to the turn |
| `JoinAllowed` | the join after the admin-role check (line 267): roles may have been granted in between |
| `LeaveNotListed` | the removal loop, over the snapshot of memberships it takes |
| `Commit`, `Fail` | the end of the request: committed, or rolled back because a sibling of the same name or the same membership row exists by now (external) |
| `AdminCreateGroup`, `AdminToggleRole`, `AdminToggleMembership` | the console (external) |

Decisions: a group is its canonical path, since the store does not accept two
siblings of one name, and groups are neither deleted nor renamed. `groupPath`
(lines 413-427), which builds the path from the parents, is therefore not modelled, and
`SelfAndAncestors` stands for the parents the store knows (external). Within one sync
the cache `resolved` matters only for the top-level lookup of the legacy mode,
where different groups may be found (`anchors`); below that a path has one group.
The order of the loop is left open. `isMemberOf` counts members of subgroups, as
in Keycloak (the mock of `IdpGroupMapperSyncTest` counts direct members only). The
admin-role check is external: roles of parents count. Two auxiliary variables
say when a promise about a login is meant: `disturbed` collects logins whose user
or roles someone else changed while they ran, `settled` the sync that an
undisturbed, complete login has left the user's memberships in.

`GroupSync` is the contract: a login changes, in one step, the memberships of its
own user, joins only claimed groups, leaves only managed unclaimed ones and
creates only on the way to claimed ones. `SyncIsAtomic` is this contract with
`groups` and `members` for themselves and the transactions hidden.

### PrefixStripping

One claim value, one configured list. `TryPrefix` is a turn of the loop with the
prefix whose turn it is, `KeepWhole` the end of it without a match. Prefixes are
ordered by the characters typed (`Length`) and matched by segments, as in the code.

### SpnegoButton

A flow is the path of levels from the top-level flow to the button, with the
executions next to it. `ButtonDoes` is `authenticate`: the ticket branch
(`Validated`), the click (`Skipped`, `ClickAnswer`), the challenge, the fallback
form; `PostFallback` is `action`. `LevelPass` is Keycloak's flow engine
(external): mandatory executions in order, or alternatives until one succeeds,
statuses kept in the session, conditional executions. `Browser` follows the
redirect, answers a challenge with a ticket, or posts the fallback form;
`User` loads a page, submits a form, clicks, or restarts the login. Tickets may
come along unasked with any request; evaluated, one is valid, rejected, or the mechanism
asks for a further one (`Outcomes`). `asked` says that the user has clicked since the session
was last reset (`Resets`, `StartOver`), be it by another click, a rejected ticket or the
fallback form.

### BrokerAcr

`Forward` chooses `note`, `Redirect` carries it through the browser, which may
change it, `UpstreamLogin` yields a token, `EnforceGrants` / `EnforceDenies`
decide; `Reconfigure` changes the client meanwhile, `StartOver` begins again with the
note of the attempt before. `asked` is what the application sent. `disturbed` says that,
since `Forward`, the value was changed, the client was changed, or upstream fell short.

### CompatCheck

One action per check of `run-all.sh`, in order. A line records for which check,
with which status and on evidence of which invocation; `made` says from which
invocation each artifact in the working directory is, Keycloak's sources (`deps-$v`)
included, with 0 for one that is incomplete. `Reports` is a program that writes its status
file and the `read` that picks it up. `FailsSilently` is a program (of the constant
`Unreported`) that ends before: `ReadBack` finds an old file, or leaves `st` and `txt` as they
were, or the file was opened and not written (`"empty"`), or `set -u` stops the script. In the
same way the copies of jars and classes (`Place`: lines 62, 67-68, 78-79) and of the sources
(`FetchSources`) may fail unnoticed, since nothing looks at their exit status: what was there
may stay and counts as made. `silent` collects such steps. `CompareApi` rests on complete
sources (`ApiEvidence`); a directory that is there is taken as it is (line 176).
A developer starts in a kept directory, the workflow in an empty one and goes on
with `Test` and `Conclude`. `Kill` may end anything, in the middle of a step as well: what the
step writes is then as before, incomplete or done, in any combination. Each status stands for
one decision of its program; the report's text is left out.

### JavaLinking, ApiDiff

`JavaLinking` is the reference: what a reference resolves to, whether it links
with the access it needs, what a method overrides and clashes with, what is not
implemented, and from where a method is called, by the rules of the Java runtime
(external). `ApiDiff` is the program: `parse_class`, `supertypes`, `resolve`,
`callers_in`, `inheritance_paths` and the seven steps of `analyse` are operators
named like the functions; the two differ in how they search the hierarchy and in
what they look at, and the properties compare their answers.

| Action | Code |
|---|---|
| `Develop` | one change of Keycloak between the releases (external): a member added, dropped or with other modifiers, another parent, a class gone or new, a method body |
| `Compare` | `main` up to the head of the issue: `analyse`, `Status` |
| `RenderClass`, `Shorten`, `AppendClass`, `SkipClass` | the loop of `render_issue`: details of the next class, its diff halved while too long, appended or left out |
| `Finish` | the rest of `render_issue`, with the paragraph about classes left out (line 855), and of `main` |

A method is one name for name and descriptor, source is a version per file, and
lengths count in lines.

### SmokeExercise, SmokeTest

`SmokeExercise` is the Python program: `main` is the sequence of its checks,
`Needs` and `Creates` say what a check finds and leaves in the test realm. It talks to
whatever server answers (`Answering`). `SmokeTest` is the script around it: `Fetch`,
`Unpack`, `Prepare`, `Start`, `Poll`, `NotReady`, `Stop`, `Evaluate`; servers open their
ports or find them taken (`Bind`), answer the poll (`Answer`) and die (`Die`) when they like;
the jar may fail to be copied (`Prepare`; lines 57-58 are not checked); `Kill` is a SIGKILL,
after which no trap runs and the server stays.

### KerberosE2E

`kerberos_e2e.py` plays the browser for the modelled button: a scenario is a
sequence of steps grouped into checks, and each step is the action of
`SpnegoButton` it triggers, judged by what the page shows. `Judge` is `check()` with the
early returns; `Begin` binds the flow, sets the credential cache and opens a new browser;
`Abort` is an exception outside of a check. The flows of `build_flow`,
`build_nested_flow` and `build_stepup_flow` are flows of `SpnegoButton`.

### AdminToken, IdpMapperE2E

`AdminToken` is `api(token=ADMIN)` with time: `age` counts from the time noted,
`issued` from the time the server issued the token, and a request arrives after a
while, which its timeout bounds. A call is `Prompt` if the time it takes, fetching a token
included, fits between the age limit and the lifespan; one that is not may be refused
(`SlowCall`). `IdpMapperE2E` makes its calls through it; `Refused` is a slow one in the test. The mapper under test is a
variable: the right one or one of seven wrong ones (`Faults`), since what a test is
worth shows on wrong programs. `configure`, `scenario_update`, `scenario_late`,
`scenario_sibling` and `federated_link` are sequences of steps like those of the program.

## 3. Runs

| Run | Question | Answer |
|---|---|---|
| `logins` | two concurrent logins of one user, three mappers (plain, with target and managed prefix, legacy), an administrator who creates, grants, assigns | `LoginReflectsClaim`, `ResyncIsQuiet` hold |
| `commits` | two concurrent logins that create, one adding only | `ScopeInv`, `NoJoinThenLeave`, the refinement `SyncIsAtomic`, and `LoginEnds` hold |
| `inherited_membership` | does every login reflect its claim? | no: see finding 1 |
| `prefixes_written` | prefixes as documented, every order | the longest match wins |
| `button_flows` | the README's flows and all flows of two levels and three executions that offer the button as a choice; tickets valid, rejected, or not the last | five safety properties, `NoDeadEnd` and `ClickIsAnswered` hold |
| `acr_logins` | mapped, unmapped and numeric values, logins that start over, a browser and an administrator that interfere | `LoginAsAsked`, `HonestLoginGranted`, `ForwardNeverLowers` hold |
| `compat_runs` | two invocations, each killed anywhere or not, at most one step each that fails unnoticed | green means checked, unless a step failed unnoticed, and tested with the rebuilt jar |
| `compat_silent_failure` | is every result that of its own check, when `api_diff.py` may end without a status? | no: finding 2 |
| `api_releases` | every release up to two changes away from two small Keycloaks, with and without sources, for a class that extends and one that implements | the eight properties hold |
| `kerberos_e2e` | the test's scenarios against the button, a failure anywhere | `GreenMeansAllPassed`, `ButtonPassesAllScenarios`, `PassedMeansTested` hold |
| `mapper_e2e` | the test against right and wrong mappers, calls as slow as the timeout allows, one failure anywhere | `PromptCallsAuthorized`, `GreenMeansMapperRight`, `RightMapperIsGreen` hold |
| `smoke_tests` | two invocations with jars right and wrong, servers that are late or die, one kill anywhere | `PassMeansExercised`, `GoodJarPasses`, `NothingLeftRunning`, `SmokeEnds` hold |

Deadlock is checked for the group mapper, whose server never stops; the others
have a natural end (a value stripped, a login granted or denied, the last
allowed invocation, the issue written); the two end-to-end tests stutter explicitly
once they have ended, so that getting stuck on the way would be reported.

**Bounds.** Group mapper: two names, paths up to two segments, one user, two
logins at a time and any number in sequence. Conflicts are between two parties,
a third adds no new kind; two names give a parent and a child, two roots, and a
name at two places for the legacy lookup; one user suffices since syncs of
different users only share `groups`, which `commits` exercises with two
logins that create the same groups in a realm without any. The claims of `logins` are the
empty one, a group with its subgroup, and another root group, which the legacy lookup finds
below the first; those of `commits` a root group, and a nested one with a root of the same name. Logins are symmetric in `logins`
(safety only), not in `commits` (liveness). Prefixes: lists of three, names of
different length. Button: two levels show an alternative below an alternative and
below a mandatory step; the README's deepest flow, with three, is in the set.
ACR: one value per case of the two comparison functions. CompatCheck: `MaxRuns` =
2, since stale evidence needs one earlier invocation, and `MaxSilent` = 1, one step per
invocation that fails unnoticed, which is enough to leave something stale or empty to a
later step; the first holds also of the smoke
test's directories and servers (`MaxRuns` = 2, `MaxKills` = 1), whose waiting loop is
cut to two turns: before the server is up and after. Its jars are in order but for one
provider, or one kind of log line; with one provider per kind of check each check
can be the only one to fail. ApiDiff: a hierarchy of four classes and two interfaces,
one of them nested, is enough for a member to be declared at, above and below its
owner, in a class and in an interface; in a second base release the interface that
declares the method comes before the class that does, breadth first. `MaxEdits` = 2, since one change can hide another
(a member that moves is one dropped and one added). Budget and sizes let a diff be
uncut, cut once and twice, and left out, and the head alone, or the paragraph about what
was left out, exceed the budget. The top
of the hierarchy extends a class of another package; constructors are declared at two
levels, and an interface has a default method that a private one can hide.
AdminToken: `MaxAge` = 2 and `Lifespan` = 4 are the 30 and 60 seconds of the program in
units of 15; requests take no time, 15 seconds (prompt with a token held, and not when one
has to be fetched as slowly) or their whole timeout of 60, pauses 15 or 45. IdpMapperE2E: at most one
disturbance per run (`MaxDisturb`), which lets every scenario fail. KerberosE2E
has no bound of its own: the script is finite.

**Fairness.** `IdpGroupMapper!FairSpec`: weak fairness of each login's own steps;
the loops of `syncGroups` have no condition that waits. `SpnegoButton!FairSpec`:
weak fairness of the browser's automatic steps (following a redirect, answering
a challenge, the script that posts the fallback form), none of the user's.
`SmokeTest!FairSpec`: weak fairness of the script's own commands but one: the requests of
`smoke_exercise.py` have a time limit (`timeout=60`), the loops are counted, but the `curl` of the
waiting loop (`smoke-test.sh:82`) has none. It ends when the server answers (`Answer`, which is
not fair) or dies. So `SmokeEnds` says: an invocation ends, or waits for ever for one answer.
Nothing is assumed of the server, which may stay starting for ever, or of the kill. The others claim no liveness.

## 4. What the properties say

- `LoginReflectsClaim`, `ResyncIsQuiet` and `NoJoinThenLeave` are about mappers
  that look up the first segment at the realm root. The legacy lookup may find
  another group of the name, which the README announces; its effects stay within
  `ScopeInv` all the same.
- `ResyncIsQuiet`: nothing joined, left, created or unresolved when the claim has not
  changed, and a DEBUG summary, unless the claim names a group the user may not join: that one
  is skipped again (section 6, observation k).
- `LoginReflectsClaim` excepts a claimed group the user was in through a subgroup when
  its turn came, be it one held before or one of the same claim (finding 1 shows why), and
  groups skipped or not found.
- `ChallengeAnswersGet`, `FormOffersButton` and `ClickIsAnswered` are about the
  placement the class comment and the README describe (`PlacedAsDescribed`): an
  alternative after a form, and nothing mandatory before it. When a REQUIRED form
  comes before the button's sub-flow, the reset of the click brings that form
  back, and the challenge answers its POST.
- `LongestPrefixWins` is about prefixes written with one slash before each name
  (`Documented`; section 6, observation a).
- `NoDeadEnd` and `ClickIsAnswered` except one page: the error after a mechanism has asked
  for a further ticket (`AsksForMore`; section 6, observation b).
- `LoginAsAsked` compares the level recorded with what the application sent, over all attempts
  of a login. It needs no `Comparable`: a value without an entry in the map is never replaced.
  It is about undisturbed attempts; whether the level of a granted login suffices for the
  client is one comparison in `EnforceGrants` and not stated again.
- `HonestLoginGranted` and `ForwardNeverLowers` are about values the realm's
  `acr.loa.map` gives a level (`Comparable`).
- `GreenMeansChecked`, and what `GreenJobMeansTested` says of results and jars of the same
  invocation, are about invocations none of whose steps has failed unnoticed (`silent` empty); what
  such a step does to the others is finding 2. `GreenMeansChecked` excepts the API comparison
  on sources an earlier invocation left incomplete (section 6, observation l). A job of the
  workflow starts in an empty directory, so `GreenJobMeansTested` has no such exception.
- `IssueFits`: the details stay within the budget. The issue exceeds it if its head does, or by
  the paragraph about classes left out (section 6, observation i).
- `PromptCallsAuthorized` is about calls that are `Prompt` themselves. Whatever was slow before
  them makes no difference to it: that is what the noted age is for.
- `PassMeansNothingBreaks` and `PassMeansNothingNew` relate the status of the program to
  the runtime of `JavaLinking`. A superclass that became final, a call from above that is
  no longer made, and a new private member that hides an inherited one (`Hidden`) are visible
  in the sources only, and are claimed only for types whose sources are compared: both
  releases have them, and the type is not nested (`SourcesCompared`). Classes outside of
  `org/keycloak` that Keycloak's jars bring along are searched, not compared; the two
  properties assume that they stayed the same (`LibrariesUnchanged`).
- `ReferencesJudgedRight` excepts constructors (section 6, observation j).
- `OverridesJudgedRight` is about classes that only extend, and about methods whose first
  declaration breadth first stands for the others (`Plain`); section 6, observations e and g.
  What calls a method is claimed for methods a class above declares (`OfClass`) only: the
  program leaves those of interfaces to the framework (`api_diff.py:599`).
- `PassMeansExercised` and `GoodJarPasses` except invocations that found a server of an
  earlier, killed invocation on the ports (section 6, observation f).
- `GreenMeansMapperRight` excepts faults only the log shows when there is no log
  (`KC_LOG` unset: the program skips the two checks and says so).
- `RightMapperIsGreen`, `GoodJarPasses` and `ButtonPassesAllScenarios` are the other
  direction: no false alarm unless something else (`disturbed`) has gone wrong.

## 5. Proofs

All proofs are for arbitrary values of the constants: any number of users,
logins, names, path depths, mappers, claims, ACR values, maps, invocations,
releases, budgets, delays.

- **`IdpGroupMapper_proofs`** (`ConfigAssumption`: mappers and claims are well-typed, the
  initial groups a tree). `TypeCorrect`. `ScopeHolds`: `ScopeInv` is
  inductive; it strengthens "joins only claimed groups" by what the removal and
  the commit need: the list of claimed paths never changes, what is left to add
  is a part of it, the remembered lookups are root groups (`anchors`), and
  everything joined or created has its parents in sight, so that a commit keeps
  the realm a tree even though others committed groups meanwhile (groups only
  grow). `RealmStaysConsistent` and `NeverJoinThenLeave` follow.
  `KeepsPromise`: assuming `AllRootOnly`, every step is a step of `GroupSync` or a
  stutter; `Commit` is the only one of a login that is not a stutter.
  `FaithHolds`: of an undisturbed sync, every claimed path no longer to do is held,
  skipped or not found, what was skipped or joined was judged by the roles still in
  force, and a settled user has exactly what the claim gives (`FaithInv`). That
  every step of any other party keeps this is where `disturbed` and `settled` are used.
  `EachLoginReflectsClaim` and `ResyncStaysQuiet` follow.
- **`PrefixStripping_proofs`** (`PrefixAssumption`: names have at least one character, no
  prefix is empty). `StripTypeCorrect` and `LongestWins`. The loops of `segments` and
  `String.length` are recursive functions; what each has after every turn (`SegmentsTurns`,
  `LengthTurns`) gives that a documented prefix with more segments of the same path has more
  characters (`MoreSegmentsAreLonger`), so the first that matches is the longest.
- **`BrokerAcr_proofs`.** `TypeCorrect`, `ForwardKeepsTheFloor`, `HonestLoginsAreGranted`
  and `ApplicationsGetWhatTheyAsk`. The second and third rest on `Carried`: what is
  known about note, url and token, compared with the client, at each stage of a login
  nobody interfered with. The last needs two invariants: over all attempts the note is what
  the application asked for or a higher value of the map (`NoteCoversAsked`), and in an
  undisturbed attempt the url, then the token, then the level cover the note (`NoteReached`).
- **`CompatCheck_proofs`.** `TypeCorrect`, whatever fails silently. `CheckInv` is inductive,
  for any `Unreported`, and gives `GreenRunsAreChecked` and `GreenJobsAreTested`.
  `GreenMeansChecked` speaks of the end; on the way there a result may rest on a stale
  artifact, and what makes that harmless is that, as long as `silent` is empty, a
  stale artifact is only there beside a failed build, whose failure stays in
  `results.tsv` (`Sound`, `AtWork`). It is also why the checks not yet made have
  no line: a line left over would outlive the step that should replace it.

- **`SpnegoButton_proofs`**, for every flow (`FlowAssumption`: it is well-formed).
  The flow engine recurs from the button up to the top-level flow, and so do the proofs,
  by the least level of which a statement fails (`Upwards`). `ButtonInv`: the session
  records as passed only what was passed (`Honest`), a note means a click, and who is
  logged in has passed the flow; it gives `ButtonTypeCorrect`, `NobodyPassesBy` and
  `TicketsOnlyOnDemand`. `ClickInv` adds what a pending click looks like with the button
  placed as described (nothing asks, the next request is a GET), `FormInv` that a session
  is either skipping alternatives or untouched, `SafeInv` that whatever is out of the way
  has something to come back to: `TicketsCanBeSent`, `FormKeepsButton`, `ClicksEndWell`.
  The last one is about flows with nothing mandatory next to the button (`SafeFlow`) and any
  outcome of a ticket: only where a mechanism has asked for a further one is an error page left.
  The module ends with the end-to-end test (`KerberosE2E`), whose script is one more user
  of the button. `GreenIsComplete`, from `ChecksInv`: as long as nothing has failed, every
  check of the scenarios behind has passed, and every step behind in the current one
  belongs to a check that has passed or still goes on. `ChecksTestTheButton`, if the
  realm's four flows are flows and a valid ticket is possible: each step of the script keeps
  `ButtonInv`, only the button is ever proved (the script submits no form) and no flow is
  passed by somebody who has proved nothing (`NothingWinsNothing`), so a login in the
  test is one by ticket; and since the engine never answers a valid ticket with a
  challenge (`ServedNegotiates`), the challenge expected without a ticket shows that there was none.
  `ClicksAreServed`, again for every flow: from the session a click leaves (`Clear`) a valid
  ticket leads through every level to a login where nothing else is mandatory
  (`ByTicketAlone`), no ticket leads to a challenge, and the fallback form or a new start
  to the login form with the button. Each is followed from the button up: above the form a
  new session leads to the button and stops at the form's level (`FreshLeadsOn`,
  `FreshStopsAtForm`); with the alternatives out of the way every level comes to what its
  step on the path comes to (`WayDecides`, `LevelAccepts`).
  `ButtonPassesTheTest` rests on that. The realm's four flows have the button as described,
  alone or before one more step, or behind a condition that is false (`FlowsPlaced`).
  `Expected` says what each step of each scenario finds: a new session, the form with or
  without the button, a waiting click, a proof. Every action leaves what the next step
  expects and passes its check (`StepPasses`), so `PassingInv`: nothing fails unless
  something else has gone wrong before.
- **`ApiDiff_proofs`.** `IssuesFit` and `NothingIsOmittedThatFits`, for every budget and
  all sizes of head, details and final paragraph. The strengthening is an account: `issue.full`, what the
  issue would have with everything uncut, never falls behind what is written plus
  what is in hand, and exceeds the budget as soon as a limit below `MaxDiff` is tried.
  `ReportTypeCorrect`, `ReferencesAreJudgedRight` and `RowsNameOurClasses`, for every
  program and every pair of releases (`InputAssumption`: finitely many class files, named
  apart, as a compiler leaves them; every member the constant pool names is used; the
  releases compile). Each rests on one fact about the loop of `supertypes`: it ends
  (`LoopEnds`: what is on the list and not seen yet decreases), and then has seen the least
  set that contains the type and with a type its parents (`SupertypesIsHull`). The
  ancestors of the runtime are the same set (`AncestorsIsHull`), so that what the program
  finds is what the runtime finds.
  `OverridesAreJudgedRight` compares the program's breadth-first list with the runtime's chain
  of superclasses. In a release that compiles the classes of the list are the chain, in
  its order (`ClassesInOrder`: a class is a parent only as the superclass, so it is found
  before the classes above it), and the chain is complete (`ChainIsComplete`: fewer types are
  above each superclass than above the class). As a class can declare again neither a final
  nor a static method it inherits, the first declaration of a plain method tells
  whether any of them bars the override (`RowIs`).
  `PassIsEarned`: after the verdict PASS the old jars keep working. What can matter lies
  above the relevant types and the parents of our classes (`Seen`), a set that contains
  with a type its parents. Each of its types is in both releases, with the same parents,
  kind and visible members (`AllSeen`, from the report without findings and, for types of
  other packages, from `LibrariesUnchanged`), so the ancestors and the chain of superclasses
  are the same (`SameAncestors`, `SameChain`), with our classes put before either class path
  as well (`SameWithOwn`). What a reference finds differs then by a hidden member at most
  (`HiddenIfBroken`), and an unimplemented method would have been in the report or unimplemented
  before (`NothingMissing`). Where private members or code decide, an equal source gives
  equal classes: a guard of `Develop` (`SourcesTell`), since a class file is what the
  compiler makes of its source.
  `PassIsQuiet`: nor is there anything new. That an override is declared where it was is the
  hard part, since interfaces may have been listed in another order, which the report does not
  look at, and breadth first the first of several declarations counts. The classes are found
  in the same place all the same: of the types above a class of ours only one has a given
  class as its superclass (`OneSubclass`), and the class has its turn when all that came
  before this one, and their parents, have had theirs (`FoundInTurn`). So the types in front
  of it are the same in both releases (`SameOrder`).
- **`IdpMapperE2E_proofs`.** The token, assuming only that the age limit is below the
  lifespan (`TimeAssumption`), for any timeout: `PromptCallsAreAuthorized`. The inductive invariant is
  that the token is never older than the program believes, which is so because the time is
  noted before the token is asked for; noting it afterwards (`NotedAfter`) breaks it.
  `TestUsesToken` shows that the test uses the token as `AdminToken` says (`Spec => TokenSpec`),
  which carries the theorem over to the test (`TestCallsAreAuthorized`).
  `GreenIsEarned` and `RightIsGreen`, for any mappers under test (`MapperAssumption`), with
  or without a log and any number of failing requests. `TestInv` has what Keycloak holds before
  each step of each scenario (`Situation`), a function of the step and of the mapper, since
  every scenario starts from scratch; that every summary line a regular mapper writes was
  expected, as often as it writes it (`Log`); and the scenario a wrong mapper does not
  get past without a failure (`Caught`): the first one in mode IMPORT for one that always
  syncs, the first in mode FORCE for one that syncs once or never leaves a group, the sibling
  scenario for one that compares characters, the checks of the log for the others.
- **`SmokeTest_proofs`**, for every list of providers (`ExpectedAssumption`: no
  duplicates, at most one protocol mapper, as in `expected-providers.txt`), all jars and any
  number of invocations, polls and kills. `SmokeInv` relates the script's position to what
  has been seen: a check behind `at` was answered by this invocation's server or by one
  recognised as shared (`Exercised`), the realm has what the checks behind have created
  (`InOrderSoFar`, `Made`), and outside its own steps the script has no server of its own
  (`OwnServer`). `VerdictIsEarned`, `OrderIsRewarded` and `ServerIsStopped` follow.

Induction over data (levels of a flow, turns of a loop, items of a list) is done by the
least counterexample, from the library's theorem on minimal elements of a well-founded
relation; recursive functions are shown to exist where that is in question (`Iterates`).

Only model-checked: `LoginEnds`, `ClickIsAnswered` and `SmokeEnds`, which are liveness and
out of the prover's reach. Every other property of the passing runs has its theorem. That
the right answer to a click comes, should the browser send anything at all, is
`ClicksAreServed`; that the browser does send it is the fairness `ClickIsAnswered` adds.

## 6. Findings

Shown by a run that expects the violation:

1. **Inherited membership** (`IdpGroupMapper.java:259`). A direct member of `A/B`
   whose claim becomes `A`: the join is skipped since `isMemberOf` counts the
   subgroup, then the removal ends `A/B`. The login ends without a claimed group;
   the next one joins `A`. `src/README.md` line 118 promises that every login reflects the
   claim. Run `inherited_membership`. The same happens within one claim of `A` and `A/B`:
   if `A/B` has its turn first, `A` is not joined, so the order of the claim decides.
2. **Status of another check** (`run-all.sh:204`). The exit status of `api_diff.py`
   is not looked at, and `api.status` not removed: another line is recorded as its
   result. Run `compat_silent_failure`. The same happens when the program has opened the file
   and ends before it has written it: an empty status is recorded, which counts neither as
   a failure nor as a warning.

Observations, met while modelling and kept out of the runs; each can be repeated by
checking the property named with the values named:

a. **Superfluous slashes** (`IdpGroupMapper.java:485`). The help text says slashes
   do not matter and the longest prefix wins; `A//` is tried before `A/A`
   (`LongestPrefixWins` without `Documented`, `PrefixLists <- AnyPrefixes`, `Values <-
   ShortValues`).
b. **Second leg** (`SpnegoButtonAuthenticator.java:113`). When the mechanism asks for a
   further ticket, the note is gone when it arrives and the alternatives are still
   skipped: error page. `button_flows` has this outcome; it is the exception `AsksForMore`
   of `NoDeadEnd` and `ClickIsAnswered`.
c. **Unmapped value** (`ForwardAcrToBrokerAuthenticator.java:72`). A requested
   value without an entry in the map replaces the configured one (`NeverLowered`).
d. **Unheeded test** (`keycloak-compat.yml:242`). The outcome of the group mapper's
   end-to-end test is not part of the job's conclusion (`GreenJobMeansAllPassed`).
e. **Interfaces of our own** (`api_diff.py:570`). Overrides are looked for along the
   superclass only: a method that implements one of an interface our class names
   itself may be dropped from it, and the status is WARN, not FAIL
   (`LostOverridesFail`). For the same reason a default method of such an interface does
   not count as the implementation of a new abstract method (line 624): a FAIL too many.
f. **Whose server** (`smoke-test.sh:82`). The health check asks a port, not the process: a
   server left by a killed invocation answers for the one started, and its jar is
   what passes, unless the log of the new server has its failure to bind in time
   (`PassMeansExercised` without `~shared`).
g. **Breadth first** (`api_diff.py:276`, 575). The program looks a member up breadth
   first, the runtime superclasses first. When a method we override is declared by an
   interface near our class and by a class further up, that it became final in the class
   is not reported as a problem (it is noted as a change, so the status is WARN where the
   old jar no longer loads); a private method found first hides an override altogether
   (`OverridesJudgedRight` without `Plain`).
h. **Hidden members** (`api_diff.py:651`). Private additions are not compared, though a
   private field hides a visible one further up, and a private method of a superclass
   the default method of an interface: without sources the status can be PASS
   (`PassMeansNothingBreaks` with `Broken(f) = {}`).
i. **Small ones.** `--issue-budget` is described as "max characters of the issue variant"
   (`api_diff.py:871`); the head alone may exceed it, and whenever a class was left out the
   paragraph of line 855 is added without looking at it (`IssueFits` with `issue.size +
   issue.notice <= Budget` alone). A partly unpacked distribution is used for ever when `kc.sh` is
   there (`smoke-test.sh:42`). A second protocol mapper in `expected-providers.txt` would
   find the client of the first (`smoke_exercise.py:192`). `kerberos_e2e.py` and
   `smoke_exercise.py` fetch the administrator token once and never renew it: a run of more
   than its lifespan ends in a failure, never in a pass.
j. **Constructors** (`api_diff.py:276`). `resolve` looks for them in the superclasses, too:
   a removed constructor whose parameters one of a superclass has is reported as a change of
   the class (WARN), not as a broken reference (`ReferencesJudgedRight` without the
   exception of `"<init>"`).

k. **Admin groups at every login** (`IdpGroupMapper.java:298`). A claim that names a group
   with administrative roles is logged at INFO at each login, as the table of `src/README.md:151`
   says, though the comment (290-293) says "INFO when memberships changed" and line 152 that an
   unchanged sync does not cost an INFO line (`ResyncIsQuiet` without its condition). And a group whose role is granted between check and
   join (263, 267) is joined and stays joined at later logins, which find the user in it.
l. **Incomplete sources** (`run-all.sh:176`). `fetch_kc` takes directories that are there; one left
   half filled by a killed invocation, or by a failed download (line 181), stays, and every
   later comparison is made without the missing sources (`GreenMeansChecked` without its
   exception).
m. **Unchecked copies** (`run-all.sh:62-65`, 67-68, 78-79; `smoke-test.sh:57-58`). The exit status
   of `cp`, and of the compiler in line 64, is not looked at: PASS is recorded, and later steps go
   on with the jar of an earlier invocation, or none.
n. **No time limit** (`smoke-test.sh:82`, also `ci/lib/run-keycloak-e2e.sh:89` and
   `ci/kerberos-e2e/run.sh:94`). `curl` runs without `--max-time`: a server that accepts the
   connection and never answers stops the script; `START_TIMEOUT` counts turns.
o. **Margin of the token** (`kc_e2e.py:35`, 73). The token is renewed after 30 of its 60 seconds, but
   a request may take 60: a slow call can be refused, one slow fetch of a token is enough, and
   nothing renews it and tries again. The scenario then fails, which is no false pass.

## 7. Plan

Done, in this order: group paths, group mapper with its abstract specification and
proofs, prefixes, button, ACR, compatibility check, API comparison, Kerberos test,
group mapper test with the administrator token, smoke test.

What would come next, most important first:

1. One login with several mappers and overlapping scopes (`IdpGroupMapper.java:313`).
   The order in which Keycloak calls them decides; no document promises a result.
2. `SpnegoButton`: several tabs of one session.
3. `FilteredGroupClaim` against a reference definition: its path building
   follows loaded parents only, unlike that of the group mapper.

## 8. Not modelled

- Deletion and renaming of groups while a sync runs: Keycloak's store decides what
  the sync then sees.
- Log text, help text, tooltips, theme messages, provider metadata, the text of
  reports and issues, the git history of upstream commits.
- Types of claim values other than paths; the quoting of prefixes.
- `EnforceBrokerAcrAuthenticator` in a flow without a brokered context: the step
  then only lets the login pass.
- Username/password alternative, OTP form without setup, requested-LoA condition,
  WebAuthn registration, filtered claim: one overridden method, one comparison or a
  pure function around Keycloak's own logic, without state.
- `login_e2e.py`: seven independent checks of Keycloak's login form behind other
  metadata; nothing of this repository keeps state in them.
- The choice of the release and the filing of issues: queries of services outside.
- The set of mapper ids already warned about (`IdpGroupMapper.java:315`): two requests
  may both write the warning; only the log shows it.
- The KDC of the Kerberos test, the parsing of HTML pages and REST payloads.

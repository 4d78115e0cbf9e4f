----------------------------- MODULE IdpMapperE2E -----------------------------
(***************************************************************************)
(* The end-to-end test of the group mapper (idp_mapper_e2e.py): scenarios  *)
(* of logins through the broker in every sync mode, a check of the summary *)
(* lines in Keycloak's log at the end, and the administrator token the     *)
(* calls in between are made with (AdminToken).                            *)
(*                                                                         *)
(* Under test is one of several mappers: the right one, or one with a      *)
(* fault the test is there to find.  Groups: user and admin are those of   *)
(* /SSO/ORG, x is /SSO/ORGX/x, under is /SSO/ORG/SSO/ORGX/x and mangled is *)
(* /SSO/ORG/X/x.                                                           *)
(***************************************************************************)
EXTENDS AdminToken, Sequences

CONSTANTS
  Mappers,     \* mappers that may be under test, see Faults
  MaxDisturb   \* bound on requests that fail for another reason

Faults == {"syncs_always", "syncs_once", "never_leaves", "compares_characters",
           "writes_two_lines", "always_INFO", "warns"}

ASSUME MapperAssumption == Mappers \subseteq Faults \cup {"right"} /\ MaxDisturb \in Nat

VARIABLES
  mapper,      \* the mapper under test
  config,      \* [idp, mode, prefixed]: sync modes and prefixes
  upstream,    \* alice's groups in the upstream realm
  broker,      \* her groups in the broker realm, or NoUser
  lines,       \* level -> summary lines of the mapper in Keycloak's log
  warned,      \* the log has the warning about sync modes
  hasLog,      \* KC_LOG is set
  expected,    \* expected_log
  at,          \* [scenario, step] the script has come to; scenario 0: setup
  passed,      \* checks printed as OK
  failures,    \* checks printed as FAIL
  disturbed,   \* number of failures that are not the mapper's
  exit         \* exit code, or "none"

server == <<mapper, config, upstream, broker, lines, warned, hasLog>>
script == <<expected, at, passed, failures, disturbed, exit>>

-----------------------------------------------------------------------------
(***************************************************************************)
(* Keycloak with the mapper.                                               *)
(***************************************************************************)

NoUser == {"no_user"}
Groups == {"user", "admin", "x", "under", "mangled"}
Levels == {"DEBUG", "INFO", "WARN"}
NoLines == [l \in Levels |-> 0]

Mode == IF config.mode = "INHERIT" THEN config.idp ELSE config.mode

\* Whether a login syncs: the first one always, later ones by mode.
SyncsNow ==
  \/ broker = NoUser
  \/ mapper = "syncs_always"
  \/ mapper # "syncs_once" /\ Mode \in {"FORCE", "LEGACY"}

\* The groups of the claim below the target, and the managed ones.
Claimed ==
  {IF g # "x" \/ ~config.prefixed THEN g
   ELSE IF mapper = "compares_characters" THEN "mangled" ELSE "under" : g \in upstream}
Managed ==
  IF mapper = "never_leaves" THEN {}
  ELSE {"user", "admin", "under", "mangled"} \cup IF mapper = "compares_characters" THEN {"x"} ELSE {}

\* A login of alice through the broker, in Keycloak.
ServerLogin ==
  LET had == IF broker = NoUser THEN {} ELSE broker
      has == Claimed \cup (had \ Managed)
      level == IF has # had \/ mapper = "always_INFO" THEN "INFO" ELSE "DEBUG"
      count == IF mapper = "writes_two_lines" THEN 2 ELSE 1
  IN  /\ broker' = IF SyncsNow THEN has ELSE had
      /\ lines' = IF SyncsNow THEN [lines EXCEPT ![level] = @ + count] ELSE lines
      /\ warned' = (warned \/ mapper = "warns")
      /\ UNCHANGED <<mapper, config, upstream, hasLog>>

-----------------------------------------------------------------------------
(***************************************************************************)
(* The scenarios.                                                          *)
(***************************************************************************)

configure(idp, mode, prefixed) ==
  [does |-> "configure", config |-> [idp |-> idp, mode |-> mode, prefixed |-> prefixed]]
set_upstream_groups(groups) == [does |-> "upstream", groups |-> groups]
login(level) == [does |-> "login", level |-> level]   \* and expect_sync
expect_groups(groups) == [does |-> "groups", groups |-> groups]
Do(what) == [does |-> what]

Row(idp, mode, syncs) == [idp |-> idp, mode |-> mode, syncs |-> syncs]
MODES ==
  << Row("IMPORT", "IMPORT", FALSE), Row("IMPORT", "INHERIT", FALSE),
     Row("IMPORT", "FORCE", TRUE), Row("IMPORT", "LEGACY", TRUE), Row("FORCE", "INHERIT", TRUE) >>

scenario_update(m) ==
  << configure(m.idp, m.mode, FALSE), set_upstream_groups({"user"}), login("INFO"),
     expect_groups({"user"}), set_upstream_groups({"admin"}),
     login(IF m.syncs THEN "INFO" ELSE "none"),
     expect_groups(IF m.syncs THEN {"admin"} ELSE {"user"}) >>

scenario_late(m) ==
  << configure(m.idp, m.mode, FALSE), login("DEBUG"), expect_groups({}),
     set_upstream_groups({"user"}), login(IF m.syncs THEN "INFO" ELSE "none"),
     expect_groups(IF m.syncs THEN {"user"} ELSE {}) >>

scenario_sibling ==
  << configure("IMPORT", "FORCE", TRUE), set_upstream_groups({"user", "x"}), login("INFO"),
     expect_groups({"under", "user"}), Do("not_mangled"), Do("join_sibling"), login("DEBUG"),
     expect_groups({"under", "user", "x"}) >>

federated_link == <<configure("IMPORT", "IMPORT", FALSE), login("DEBUG"), Do("link")>>

Scenarios ==
  << scenario_update(MODES[1]), scenario_late(MODES[1]), scenario_update(MODES[2]), scenario_late(MODES[2]),
     scenario_update(MODES[3]), scenario_late(MODES[3]), scenario_update(MODES[4]), scenario_late(MODES[4]),
     scenario_update(MODES[5]), scenario_late(MODES[5]), scenario_sibling, federated_link >>

log_checks == IF hasLog THEN << <<Do("warning_free")>>, <<Do("one_summary_per_sync")>> >> ELSE << >>

main == Scenarios \o log_checks

-----------------------------------------------------------------------------
(***************************************************************************)
(* Steps of the script.                                                    *)
(***************************************************************************)

Running == exit = "none" /\ at.scenario \in DOMAIN main
Now == main[at.scenario][at.step]
Does(what) == Running /\ Now.does = what
MakesCalls == Running /\ Now.does \notin {"login", "warning_free", "one_summary_per_sync"}
LastStep == at.step = Len(main[at.scenario])

\* check(): a scenario is one check; the first deviation ends it.
Judge(ok) ==
  /\ passed' = IF ok /\ LastStep THEN passed \cup {at.scenario} ELSE passed
  /\ failures' = IF ok THEN failures ELSE failures \cup {at.scenario}
  /\ at' = IF ok /\ ~LastStep THEN [at EXCEPT !.step = @ + 1]
           ELSE [scenario |-> at.scenario + 1, step |-> 1]
  /\ UNCHANGED exit

\* A step that makes admin calls; a call that is refused raises.
Calling(ok) == AdminCall /\ Judge(ok /\ (rejected' = rejected)) /\ UNCHANGED disturbed

\* setup() fails: nothing catches it.
Abort ==
  /\ exit = "none" /\ at.scenario = 0 /\ disturbed < MaxDisturb
  /\ exit' = "1" /\ disturbed' = disturbed + 1
  /\ UNCHANGED <<server, token, expected, at, passed, failures>>

Setup ==
  /\ exit = "none" /\ at.scenario = 0
  /\ AdminCall
  /\ at' = [scenario |-> 1, step |-> 1]
  /\ UNCHANGED <<server, expected, passed, failures, disturbed, exit>>

\* One more of the calls that make up a step.
CallAgain ==
  /\ MakesCalls
  /\ AdminCall
  /\ \/ rejected' = rejected /\ UNCHANGED script
     \/ rejected' # rejected /\ Judge(FALSE) /\ UNCHANGED <<expected, disturbed>>
  /\ UNCHANGED server

Configure ==
  /\ Does("configure")
  /\ config' = Now.config /\ broker' = NoUser /\ upstream' = {}
  /\ Calling(TRUE)
  /\ UNCHANGED <<mapper, lines, warned, hasLog, expected>>

SetUpstreamGroups ==
  /\ Does("upstream")
  /\ upstream' = Now.groups
  /\ Calling(TRUE)
  /\ UNCHANGED <<mapper, config, broker, lines, warned, hasLog, expected>>

\* Faulty: a login that does not sync is expected to leave a line, too.
ExpectAlways(level) == [expected EXCEPT ![IF level = "none" THEN "DEBUG" ELSE level] = @ + 1]

expect_sync(level) ==
  IF level = "none" THEN expected ELSE [expected EXCEPT ![level] = @ + 1]

\* A login in the browser, and the summary line it should have left.
Login ==
  /\ Does("login")
  /\ ServerLogin /\ Wait
  /\ expected' = expect_sync(Now.level)
  /\ Judge(TRUE)
  /\ UNCHANGED disturbed

\* Faulty: a group too many is not noticed.
SomeGroups(got, want) == want \subseteq got

SameGroups(got, want) == got = want

CheckGroups ==
  /\ Does("groups")
  /\ Calling(SameGroups(broker, Now.groups))
  /\ UNCHANGED <<server, expected>>

\* /SSO/ORG/X must not exist: the mapper under test would have created it.
CheckNotMangled ==
  /\ Does("not_mangled")
  /\ Calling("mangled" \notin broker)
  /\ UNCHANGED <<server, expected>>

JoinSibling ==
  /\ Does("join_sibling")
  /\ broker' = broker \cup {"x"}
  /\ Calling(TRUE)
  /\ UNCHANGED <<mapper, config, upstream, lines, warned, hasLog, expected>>

\* Keycloak stores the plain sub, whatever the mapper does.
CheckLink == Does("link") /\ Calling(TRUE) /\ UNCHANGED <<server, expected>>

\* The two checks of the log; the summary lines are compared only when no
\* scenario has failed.
CheckLog ==
  /\ \/ Does("warning_free") /\ Judge(~warned)
     \/ /\ Does("one_summary_per_sync")
        /\ Judge(failures \cap DOMAIN Scenarios = {} /\ lines = expected)
  /\ UNCHANGED <<server, token, expected, disturbed>>

\* A request fails, before or after Keycloak has acted on it.
Disturb ==
  /\ Running /\ disturbed < MaxDisturb
  /\ disturbed' = disturbed + 1
  /\ UNCHANGED server \/ (Now.does = "login" /\ ServerLogin)
  /\ Judge(FALSE)
  /\ Wait
  /\ UNCHANGED expected

\* A call takes so long that it is refused.
Refused ==
  /\ MakesCalls /\ disturbed < MaxDisturb
  /\ disturbed' = disturbed + 1
  /\ SlowCall
  /\ Judge(FALSE)
  /\ UNCHANGED <<server, expected>>

End ==
  /\ exit = "none" /\ at.scenario > Len(main)
  /\ exit' = IF failures # {} THEN "1" ELSE "0"
  /\ UNCHANGED <<server, token, expected, at, passed, failures, disturbed>>

\* The program has ended.
Ended == exit # "none" /\ UNCHANGED <<server, token, script>>

Init ==
  /\ TokenInit
  /\ mapper \in Mappers
  /\ config = [idp |-> "IMPORT", mode |-> "IMPORT", prefixed |-> FALSE]
  /\ upstream = {} /\ broker = NoUser /\ lines = NoLines /\ warned = FALSE
  /\ hasLog \in BOOLEAN
  /\ expected = NoLines
  /\ at = [scenario |-> 0, step |-> 1]
  /\ passed = {} /\ failures = {} /\ disturbed = 0 /\ exit = "none"

Next ==
  \/ Abort \/ Setup \/ CallAgain \/ Configure \/ SetUpstreamGroups \/ Login \/ CheckGroups
  \/ CheckNotMangled \/ JoinSibling \/ CheckLink \/ CheckLog \/ Disturb \/ Refused
  \/ End \/ Ended

Spec == Init /\ [][Next]_<<server, token, script>>

-----------------------------------------------------------------------------
(***************************************************************************)
(* Properties.                                                             *)
(***************************************************************************)

\* Exit code 0: every scenario has been made and has passed, and the mapper
\* has none of the faults; those that only the log shows are excluded when
\* there is a log to look at.
OnlyInLog == {"writes_two_lines", "always_INFO", "warns"}
GreenMeansMapperRight ==
  exit = "0" =>
    /\ DOMAIN main \subseteq passed
    /\ mapper = "right" \/ (mapper \in OnlyInLog /\ ~hasLog)

\* The right mapper passes all scenarios, and the summary lines expected are
\* those it writes, unless something else fails.
RightMapperIsGreen ==
  exit # "none" /\ mapper = "right" /\ disturbed = 0 => exit = "0"

=============================================================================

---------------------------- MODULE SpnegoButton ----------------------------
(***************************************************************************)
(* Kerberos on demand (SpnegoButtonAuthenticator.java): one browser, one   *)
(* authentication session, and Keycloak's flow engine between them.        *)
(*                                                                         *)
(* A flow is the path from the top-level flow down to the button: level 1  *)
(* is the top-level flow, the "path" execution of a level is the sub-flow  *)
(* that makes up the next level, that of the last level is the button.     *)
(* Every other execution is a single step: it stays silent, or it asks the *)
(* user for something (a whole forms sub-flow counts as one).  Disabled    *)
(* executions are left out.                                                *)
(***************************************************************************)
EXTENDS Naturals, FiniteSetsExt, SequencesExt

CONSTANTS
  Flows,       \* flows in use, each a sequence of levels
  Outcomes     \* what validating a ticket can end with

Execution ==
  [req: {"ALTERNATIVE", "REQUIRED", "CONDITIONAL"},
   does: {"path", "asks", "stays silent", "condition"},
   on: BOOLEAN]   \* the condition of a CONDITIONAL step holds

\* Exactly one execution per level is on the path, and mandatory steps ask.
IsFlow(f) ==
  /\ f \in Seq(Seq(Execution)) \ {<< >>}
  /\ \A k \in DOMAIN f : \E i \in DOMAIN f[k] :
       \A j \in DOMAIN f[k] : f[k][j].does = "path" <=> j = i
  /\ \A k \in DOMAIN f : \A i \in DOMAIN f[k] :
       /\ f[k][i].does = "stays silent" => f[k][i].req = "ALTERNATIVE"
       /\ ~f[k][i].on => f[k][i].req = "CONDITIONAL" /\ f[k][i].does \in {"asks", "path"}

ASSUME FlowAssumption ==
  /\ \A f \in Flows : IsFlow(f)
  /\ Outcomes \subseteq {"valid", "rejected", "continue"}

VARIABLES
  flow,       \* the realm's browser flow; never changes
  status,     \* execution -> what the auth session records of it
  requested,  \* the note REQUESTED_NOTE
  page,       \* what the browser shows
  proven,     \* steps the user has passed since the flow was last reset
  asked       \* the user has clicked the button since then

vars == <<flow, status, requested, page, proven, asked>>

-----------------------------------------------------------------------------
(***************************************************************************)
(* Flows, pages and requests.                                              *)
(***************************************************************************)

Levels == DOMAIN flow
Depth == Len(flow)
Executions == UNION {{k} \X DOMAIN flow[k] : k \in Levels}
Exec(e) == flow[e[1]][e[2]]
OnPath(k) == CHOOSE i \in DOMAIN flow[k] : flow[k][i].does = "path"
Button == <<Depth, OnPath(Depth)>>

\* The steps the flow engine looks at; conditions only decide about their
\* flow, and a conditional step whose condition is false does not exist.
Steps(k) == {i \in DOMAIN flow[k] : flow[k][i].on /\ flow[k][i].does # "condition"}
Mandatory(k) == {i \in Steps(k) : flow[k][i].req # "ALTERNATIVE"}

Fresh == [e \in Executions |-> "none"]
Processed(st, e) == st[e] \in {"success", "attempted"}

Asking(e) == [kind |-> "asks", step |-> e]
Negotiating(method) == [kind |-> "negotiate", answers |-> method]
Showing(kind) == [kind |-> kind]

Pages ==
  {Asking(e) : e \in Executions} \cup {Negotiating(m) : m \in {"GET", "POST"}}
    \cup {Showing(k) : k \in {"start", "redirect", "expired", "error", "done"}}

\* A request, the ticket the browser adds to it (it may do so unasked), and
\* whether it names the button as the selected execution.
Get(ticket) == [method |-> "GET", ticket |-> ticket, selects |-> FALSE]
Post(ticket) == [method |-> "POST", ticket |-> ticket, selects |-> FALSE]
Click(ticket) == [method |-> "POST", ticket |-> ticket, selects |-> TRUE]
Headers == Outcomes \cup {"none"}

-----------------------------------------------------------------------------
(***************************************************************************)
(* The button.                                                             *)
(***************************************************************************)

\* The levels whose step on the path is an alternative, and what is next to it.
AlternativeLevels == {k \in Levels : flow[k][OnPath(k)].req = "ALTERNATIVE"}
Siblings(k) ==
  {<<k, i>> : i \in {j \in DOMAIN flow[k] : flow[k][j].does \notin {"path", "condition"}}}

\* An alternative next to a mandatory step: the click is refused.
Misplaced ==
  \E k \in AlternativeLevels : \E e \in Siblings(k) : Exec(e).req # "ALTERNATIVE"

ExecutionsToSkip == UNION {Siblings(k) : k \in AlternativeLevels}

\* Faulty: the skipped executions count as passed.
SkippedAsPassed ==
  [e \in Executions |-> IF e \in ExecutionsToSkip THEN "success" ELSE "none"]

\* The session after a click: reset, with the alternatives out of the way.
Skipped ==
  [e \in Executions |-> IF e \in ExecutionsToSkip THEN "attempted"
                        ELSE IF e = Button THEN "challenged" ELSE "none"]

\* Faulty: whatever the browser sends is evaluated.
EvaluatesAlways(r, note) == r.ticket # "none"

\* A header is evaluated when the note is set, and only then.
Evaluates(r, note) == r.ticket # "none" /\ note

\* Faulty: a rejected ticket leaves the flow as it is.
ValidatedWithoutReset(r) ==
  CASE r.ticket = "valid"    -> "succeeds"
    [] r.ticket = "continue" -> "goes on"
    [] r.ticket = "rejected" -> "attempted"

\* Validation is the built-in one; a rejected ticket resets the flow.
Validated(r) ==
  CASE r.ticket = "valid"    -> "succeeds"
    [] r.ticket = "continue" -> "goes on"
    [] r.ticket = "rejected" -> "resets"

\* What authenticate does with request r when the note is, or is not, set.
ButtonDoes(r, note) ==
  CASE Evaluates(r, note)                       -> Validated(r)
    [] ~Evaluates(r, note) /\ r.selects         -> IF Misplaced THEN "attempted" ELSE "redirects"
    [] ~Evaluates(r, note) /\ ~r.selects        -> IF note THEN "challenges" ELSE "attempted"

-----------------------------------------------------------------------------
(***************************************************************************)
(* The flow engine (DefaultAuthenticationFlow).  A pass goes through the   *)
(* steps of a level in order: mandatory ones until one has not succeeded,  *)
(* else alternatives until one has not been merely attempted.  Its result  *)
(* is that of the step it stops at; status is what the session records     *)
(* after it, answer what the browser is sent, and used says that the       *)
(* ticket was evaluated.                                                   *)
(***************************************************************************)

Nothing == Showing("nothing")

\* The pass below the last level: the button.
ButtonPass(st, r, note) ==
  LET does == ButtonDoes(r, note) IN
  [result |-> CASE does = "succeeds"  -> "success"
                [] does = "attempted" -> "attempted"
                [] does \in {"challenges", "goes on", "redirects", "resets"} -> "challenged",
   answer |-> CASE does \in {"succeeds", "attempted"} -> Nothing
                [] does \in {"challenges", "goes on"} -> Negotiating(r.method)
                [] does \in {"redirects", "resets"}   -> Showing(does),
   status |-> st,
   used |-> Evaluates(r, note)]

\* What step e comes to when the pass over the level below it comes to sub.
Result(st, sub, e) ==
  CASE Processed(st, e)                                    -> st[e]
    [] ~Processed(st, e) /\ Exec(e).does = "asks"          -> "challenged"
    [] ~Processed(st, e) /\ Exec(e).does = "stays silent"  -> "attempted"
    [] ~Processed(st, e) /\ Exec(e).does = "path"          -> sub.result

LevelPass(st, k, sub) ==
  LET sequence == Mandatory(k) # {}
      candidates == IF sequence THEN Mandatory(k) ELSE Steps(k)
      goesOn == IF sequence THEN "success" ELSE "attempted"
      settled == ~sequence /\ \E i \in candidates : st[<<k, i>>] = "success"
      stops == {i \in candidates : Result(st, sub, <<k, i>>) # goesOn}
      reached == {i \in candidates : ~settled /\ \A j \in stops : i <= j}
      entered == OnPath(k) \in reached /\ ~Processed(st, <<k, OnPath(k)>>)
      result == IF settled THEN "success"
                ELSE IF stops = {} THEN goesOn
                ELSE Result(st, sub, <<k, Min(stops)>>)
  IN  [result |-> result,
       answer |-> IF result # "challenged" THEN Nothing
                  ELSE IF Min(stops) = OnPath(k) THEN sub.answer
                  ELSE Asking(<<k, Min(stops)>>),
       status |-> [e \in DOMAIN st |->
                     IF e[1] = k /\ e[2] \in reached THEN Result(st, sub, e)
                     ELSE IF entered THEN sub.status[e] ELSE st[e]],
       used |-> entered /\ sub.used]

\* From the button up to the top-level flow.
Pass(st, r, note) ==
  LET pass[k \in 1..Depth + 1] ==
        IF k > Depth THEN ButtonPass(st, r, note)
        ELSE CHOOSE p \in {LevelPass(st, k, sub) : sub \in {pass[k + 1]}} : TRUE
  IN  pass[1]

\* The session and the page once the engine has served request r, starting
\* from statuses st, the note and the steps passed so far.  A reset starts a
\* second pass in the same request.
Served(st, note, r, passed) ==
  LET first == Pass(st, r, note)
      again == first.answer = Showing("resets")
      last == IF again THEN Pass(Fresh, r, FALSE) ELSE first
  IN  [status |-> last.status,
       page |-> IF last.answer # Nothing THEN last.answer
                ELSE Showing(IF last.result = "success" THEN "done" ELSE "error"),
       requested |-> note /\ ~first.used,
       proven |-> IF again THEN {}
                  ELSE IF first.used /\ r.ticket = "valid" THEN passed \cup {Button}
                  ELSE passed]

Serve(st, note, r, passed) ==
  \E s \in {Served(st, note, r, passed)} :
    /\ status' = s.status
    /\ page' = s.page
    /\ requested' = s.requested
    /\ proven' = s.proven
    /\ UNCHANGED flow

\* A request to the session as it is; the button may reset the flow on it.
Resets(st, note, r) == Pass(st, r, note).answer = Showing("resets")

Continue(st, r, passed) ==
  /\ Serve(st, requested, r, passed)
  /\ asked' = (asked /\ ~Resets(st, requested, r))

\* A request with which the flow starts over.
StartOver(r) == Serve(Fresh, FALSE, r, {}) /\ asked' = FALSE

\* The login page lists the button next to an alternative the user is asked
\* for, as long as no step on the way to it has been processed or is behind a
\* condition that is false.
Offered(e) ==
  /\ Exec(e).req = "ALTERNATIVE"
  /\ \A k \in Levels : k >= e[1] =>
       ~Processed(status, <<k, OnPath(k)>>) /\ OnPath(k) \in Steps(k)

-----------------------------------------------------------------------------
(***************************************************************************)
(* The browser and its user.                                               *)
(***************************************************************************)

Init ==
  /\ flow \in Flows
  /\ status = Fresh
  /\ requested = FALSE
  /\ page = Showing("start")
  /\ proven = {}
  /\ asked = FALSE

\* The first request, a reload, or "continue" on an expired page.
Load(ticket) ==
  /\ page.kind \in {"start", "asks", "negotiate", "expired"}
  /\ Continue(status, Get(ticket), proven)

\* The browser follows the redirect to the refresh URL.
FollowRedirect(ticket) ==
  /\ page.kind = "redirect"
  /\ Continue(status, Get(ticket), proven)

\* The user passes the step the page asks for; failing it changes nothing.
Submit(ticket) ==
  /\ page.kind = "asks"
  /\ LET e == page.step IN
     Continue([status EXCEPT ![e] = "success"], Post(ticket), proven \cup {e})

\* Faulty: the flow is reset, and the browser is not sent on.
ClickAnswerOfReset == Showing("resets")

\* Faulty: the challenge answers the click.
ChallengeAtOnce == Negotiating("POST")

ClickAnswer == Showing("redirect")

\* The click, as authenticate handles it when the engine has switched to the
\* button: start over without the alternatives, and redirect.  The note of an
\* earlier click is never set here (FormOffersButton).
ClickButton(ticket) ==
  /\ page.kind = "asks"
  /\ Offered(page.step)
  /\ ButtonDoes(Click(ticket), requested) = "redirects"
  /\ status' = Skipped
  /\ requested' = TRUE
  /\ page' = ClickAnswer
  /\ proven' = {}
  /\ asked' = TRUE
  /\ UNCHANGED flow

\* Refused, the button has been tried in vain, and the flow goes on.
ClickRefused(ticket) ==
  /\ page.kind = "asks"
  /\ Offered(page.step)
  /\ ButtonDoes(Click(ticket), requested) = "attempted"
  /\ Continue([status EXCEPT ![Button] = "attempted"], Post(ticket), proven)

\* The browser repeats the challenged request with a ticket.  The session code
\* of a POST is used up: the page has expired.
SendTicket(ticket) ==
  /\ page.kind = "negotiate"
  /\ ticket # "none"
  /\ \/ /\ page.answers = "GET"
        /\ Continue(status, Get(ticket), proven)
     \/ /\ page.answers = "POST"
        /\ page' = Showing("expired")
        /\ UNCHANGED <<flow, status, requested, proven, asked>>

\* Faulty: without a ticket the flow goes on as it is.
PostFallbackWithoutReset ==
  /\ page.kind = "negotiate"
  /\ Serve(status, FALSE, Post("none"), proven)
  /\ asked' = FALSE

\* Faulty: the note stays.
PostFallbackKeepsNote ==
  /\ page.kind = "negotiate"
  /\ Serve(Fresh, TRUE, Post("none"), {})
  /\ asked' = FALSE

\* Without a ticket the fallback form posts to the button: action().
PostFallback == page.kind = "negotiate" /\ StartOver(Post("none"))

\* The user restarts the login.
Restart(ticket) ==
  /\ page.kind \in {"asks", "negotiate", "expired", "error"}
  /\ StartOver(Get(ticket))

\* What the browser does by itself.
Browser ==
  \/ \E ticket \in Headers : FollowRedirect(ticket) \/ SendTicket(ticket)
  \/ PostFallback

User == \E ticket \in Headers :
  Load(ticket) \/ Submit(ticket) \/ ClickButton(ticket) \/ ClickRefused(ticket)
    \/ Restart(ticket)

Next == Browser \/ User

Spec == Init /\ [][Next]_vars

\* Browsers follow redirects and answer challenges without being told to.
FairSpec == Spec /\ WF_vars(Browser)

-----------------------------------------------------------------------------
(***************************************************************************)
(* Properties.                                                             *)
(***************************************************************************)

TypeOK ==
  /\ flow \in Flows
  /\ status \in [Executions -> {"none", "challenged", "attempted", "success"}]
  /\ requested \in BOOLEAN
  /\ page \in Pages
  /\ proven \subseteq Executions
  /\ asked \in BOOLEAN

\* Whether the flow, read as a formula over the steps the user has passed, is
\* satisfied: all mandatory steps of a level, or one alternative without any.
Satisfied ==
  LET passes(k, i, below) == IF i = OnPath(k) THEN below ELSE <<k, i>> \in proven
      level[k \in 1..Depth + 1] ==
        IF k > Depth THEN Button \in proven
        ELSE IF Mandatory(k) # {} THEN \A i \in Mandatory(k) : passes(k, i, level[k + 1])
        ELSE \E i \in Steps(k) : passes(k, i, level[k + 1])
  IN  level[1]

\* Whatever the click skips, nobody is logged in without having passed, since
\* the last reset, every mandatory step and one of each set of alternatives.
MandatoryStepsPassed == page.kind = "done" => Satisfied

\* A ticket counts only for a user who has clicked the button since the flow was
\* last reset: tickets the browser adds by itself, or that outlive a reset by the
\* user, by the fallback form or by a rejected ticket, are ignored.
TicketOnlyOnDemand == Button \in proven => asked

\* The mechanism has asked for a further ticket: the note is gone, and what the
\* click has skipped is still out of the way.
AsksForMore == page.kind \in {"negotiate", "expired"} /\ ~requested

\* However a click ends, the user is not left with an error page because the steps
\* that were skipped for it are all the flow had to offer: only the mechanism's
\* own request for a further ticket leads there.
LeadsOn == page'.kind = "error" => AsksForMore

NoDeadEnd == [][LeadsOn]_vars

\* The placement the class comment and the README describe: after a form the
\* button is an alternative to, and after nothing mandatory; its conditions hold.
PlacedAsDescribed ==
  /\ \A k \in Levels : OnPath(k) \in Steps(k)
  /\ \E k \in AlternativeLevels : \E i \in 1..OnPath(k) - 1 : flow[k][i].does = "asks"
  /\ \A k \in Levels : \A i \in Mandatory(k) : i >= OnPath(k)

\* The challenge answers a request that can be repeated with a ticket.
ChallengeAnswersGet ==
  PlacedAsDescribed /\ page.kind = "negotiate" => page.answers = "GET"

\* Back on the form, after whatever has happened to an earlier click, the
\* button is on the page, and no earlier click is still pending.
FormOffersButton ==
  PlacedAsDescribed /\ page.kind = "asks" /\ Exec(page.step).req = "ALTERNATIVE"
      /\ page.step \in ExecutionsToSkip /\ ~Misplaced
    => Offered(page.step) /\ ~requested

\* Every click ends on a page that asks the user for something or logged in,
\* unless the mechanism asks for a further ticket.
ClickIsAnswered ==
  PlacedAsDescribed /\ page.kind \in {"redirect", "negotiate"}
    ~> page.kind \in {"asks", "done"} \/ AsksForMore

=============================================================================

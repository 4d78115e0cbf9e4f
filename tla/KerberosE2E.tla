----------------------------- MODULE KerberosE2E -----------------------------
(***************************************************************************)
(* The end-to-end test of the Kerberos button (kerberos_e2e.py) composed   *)
(* with the button and Keycloak's flow engine (SpnegoButton), which it     *)
(* plays the browser for.  A scenario binds a browser flow, opens a new    *)
(* browser and makes checks, each of one or more requests; a check that    *)
(* fails ends its scenario.                                                *)
(***************************************************************************)
EXTENDS SpnegoButton

VARIABLES
  at,         \* [scenario, step] the script has come to; step 0: not begun
  cached,     \* the credential cache holds a ticket
  passed,     \* checks printed as OK
  failures,   \* checks printed as FAIL
  disturbed,  \* something other than the button has gone wrong
  exit        \* exit code, or "none"

script == <<at, cached, passed, failures, disturbed, exit>>

-----------------------------------------------------------------------------
(***************************************************************************)
(* The realm's flows: setup_realm.                                         *)
(***************************************************************************)

Flow(req, does) == [req |-> req, does |-> does, on |-> TRUE]
Silent == Flow("ALTERNATIVE", "stays silent")
Asks(req) == Flow(req, "asks")
Below(req) == Flow(req, "path")

\* A copy of the browser flow: cookie, identity provider redirector, forms,
\* and a passkey behind the execution under test.
TopLevel(execution) == <<Silent, Silent, Asks("ALTERNATIVE"), execution, Asks("ALTERNATIVE")>>

build_flow == <<TopLevel(Below("ALTERNATIVE"))>>

build_nested_flow(holds) ==
  << TopLevel(Below("ALTERNATIVE")),
     <<[req |-> "CONDITIONAL", does |-> "path", on |-> holds]>>,
     <<Flow("REQUIRED", "condition"), Below("ALTERNATIVE")>> >>

build_stepup_flow ==
  << <<Silent, Below("ALTERNATIVE")>>,
     <<Below("REQUIRED"), Asks("CONDITIONAL")>>,
     <<Asks("ALTERNATIVE"), Below("ALTERNATIVE")>> >>

E2eFlows == {build_flow, build_nested_flow(TRUE), build_nested_flow(FALSE), build_stepup_flow}

-----------------------------------------------------------------------------
(***************************************************************************)
(* The script.                                                             *)
(***************************************************************************)

Step(check, does) == [check |-> check, does |-> does]
OpenAndSelect(check) == <<Step(check, "open"), Step(check, "offered")>>

scenario_a ==
  OpenAndSelect(1) \o
    <<Step(2, "select"), Step(3, "refresh"), Step(4, "log in"), Step(5, "token")>>
scenario_b ==
  OpenAndSelect(1) \o
    <<Step(1, "select"), Step(2, "refresh without ticket"), Step(3, "fall back"), Step(4, "offered")>>
scenario_f_off ==
  <<Step(6, "open"), Step(6, "hidden"), Step(7, "forge"), Step(7, "no login")>>
scenario_g == OpenAndSelect(1) \o <<Step(1, "select"), Step(1, "step up")>>
scenario_c == OpenAndSelect(1) \o <<Step(1, "select built-in"), Step(1, "expire")>>

Scenario(name, bound, ticket, steps) ==
  [name |-> name, flow |-> bound, ticket |-> ticket, steps |-> steps]

main ==
  << Scenario("A", build_flow, TRUE, scenario_a),
     Scenario("B", build_flow, FALSE, scenario_b),
     Scenario("F", build_nested_flow(TRUE), TRUE, scenario_a),
     Scenario("FB", build_nested_flow(TRUE), FALSE, scenario_b),
     Scenario("F", build_nested_flow(FALSE), TRUE, scenario_f_off),
     Scenario("G", build_stepup_flow, TRUE, scenario_g),
     Scenario("C", build_flow, TRUE, scenario_c) >>

AllChecks ==
  UNION {{<<s.name, s.steps[j].check>> : j \in DOMAIN s.steps} : s \in Range(main)}

Running == exit = "none" /\ at.scenario \in DOMAIN main
Now == main[at.scenario]
Does(what) == Running /\ at.step > 0 /\ Now.steps[at.step].does = what

LastStep == at.step = Len(Now.steps)
EndsCheck == LastStep \/ Now.steps[at.step + 1].check # Now.steps[at.step].check
Check == <<Now.name, Now.steps[at.step].check>>
NextScenario == [scenario |-> at.scenario + 1, step |-> 0]

\* Faulty: the return value of check is ignored, and the last one is kept.
JudgeLenient(ok) ==
  /\ passed' = IF ok /\ EndsCheck THEN passed \cup {Check} ELSE passed
  /\ failures' = IF ok \/ ~LastStep THEN failures ELSE failures \cup {Check}
  /\ at' = IF ok /\ ~LastStep THEN [at EXCEPT !.step = @ + 1] ELSE NextScenario
  /\ UNCHANGED <<cached, exit>>

\* check(): the function returns, or raises; the scenario goes on or returns.
Judge(ok) ==
  /\ passed' = IF ok /\ EndsCheck THEN passed \cup {Check} ELSE passed
  /\ failures' = IF ok THEN failures ELSE failures \cup {Check}
  /\ at' = IF ok /\ ~LastStep THEN [at EXCEPT !.step = @ + 1] ELSE NextScenario
  /\ UNCHANGED <<cached, exit>>

\* What curl --negotiate adds to a request.
Ticket == IF cached THEN "valid" ELSE "none"

\* The login form, which shows the password field.
LoginPage(p) ==
  p.kind = "asks" /\ Exec(p.step).req = "ALTERNATIVE" /\ p.step[2] < OnPath(p.step[1])

\* admin_token, setup_realm, kinit, kdestroy and the admin calls around a
\* scenario: nothing catches what they raise but the end of the program.
Abort ==
  /\ exit = "none" /\ at.step = 0
  /\ exit' = "1"
  /\ disturbed' = TRUE
  /\ UNCHANGED <<vars, at, cached, passed, failures>>

\* The credential cache after kinit, or after kdestroy, which may fail unnoticed.
CacheAfter(ticket) == IF ticket THEN {TRUE} ELSE {FALSE, cached}

\* bind_flow, set_condition, kinit or kdestroy, and a new browser.
Begin ==
  /\ Running /\ at.step = 0
  /\ flow' = Now.flow
  /\ status' = Fresh'
  /\ requested' = FALSE /\ page' = Showing("start") /\ proven' = {} /\ asked' = FALSE
  /\ cached' \in CacheAfter(Now.ticket)
  /\ disturbed' = (disturbed \/ cached' # Now.ticket)
  /\ at' = [at EXCEPT !.step = 1]
  /\ UNCHANGED <<passed, failures, exit>>

\* A request times out, or an answer makes no sense.
Disturb ==
  /\ Running /\ at.step > 0
  /\ disturbed' = TRUE
  /\ Judge(FALSE)
  /\ UNCHANGED vars

\* open_login_and_select wants the login form, F6 only that of "try another way".
Opened(p) ==
  LoginPage(p) \/ (p.kind = "asks" /\ Now.steps[at.step + 1].does = "hidden")

OpenLogin ==
  /\ Does("open") /\ Load("none")
  /\ Judge(Opened(page'))
  /\ UNCHANGED disturbed

\* The page of "try another way" does not touch the session.
TryAnotherWay ==
  /\ \/ Does("offered") /\ Judge(page.kind = "asks" /\ Offered(page.step))
     \/ Does("hidden") /\ Judge(page.kind = "asks" /\ ~Offered(page.step))
  /\ UNCHANGED <<vars, disturbed>>

Select ==
  /\ Does("select") /\ (ClickButton("none") \/ ClickRefused("none"))
  /\ Judge(page'.kind = "redirect")
  /\ UNCHANGED disturbed

\* Faulty: 200 and 401 are not told apart.
ChallengeOrLogin(p) == p.kind \in {"negotiate", "done"}

\* 401 with Negotiate and the fallback form.
Challenge(p) == p.kind = "negotiate"

FetchRefresh(ticket) == FollowRedirect(ticket) \/ (page.kind = "negotiate" /\ Load(ticket))

Refresh ==
  /\ \/ Does("refresh") /\ FetchRefresh("none")
     \/ Does("refresh without ticket") /\ FetchRefresh(Ticket)
  /\ Judge(Challenge(page'))
  /\ UNCHANGED disturbed

LogIn ==
  /\ Does("log in") /\ FetchRefresh(Ticket)
  /\ Judge(page'.kind = "done")
  /\ UNCHANGED disturbed

\* The token is that of the user the flow has identified by the ticket.
Token ==
  /\ Does("token")
  /\ Judge(Button \in proven)
  /\ UNCHANGED <<vars, disturbed>>

FallBack ==
  /\ Does("fall back") /\ PostFallback
  /\ Judge(LoginPage(page'))
  /\ UNCHANGED disturbed

\* Another option's form with the id of the button: Keycloak's engine finds no
\* such selection and serves the current step again.
Forge ==
  /\ Does("forge")
  /\ Continue(status, Post("none"), proven)
  /\ Judge(page'.kind \notin {"redirect", "negotiate"})
  /\ UNCHANGED disturbed

NoLogin ==
  /\ Does("no login") /\ Load(Ticket)
  /\ Judge(page'.kind # "done")
  /\ UNCHANGED disturbed

StepUp ==
  /\ Does("step up") /\ FetchRefresh(Ticket)
  /\ Judge(page'.kind = "asks" /\ ~LoginPage(page'))
  /\ UNCHANGED disturbed

\* Keycloak's own authenticator challenges the request of the click.
SelectBuiltin ==
  /\ Does("select built-in")
  /\ page' = Negotiating("POST")
  /\ status' = [status EXCEPT ![Button] = "challenged"]
  /\ Judge(page'.kind = "negotiate")
  /\ UNCHANGED <<flow, requested, proven, asked, disturbed>>

Expire ==
  /\ Does("expire") /\ SendTicket("valid")
  /\ Judge(page'.kind = "expired")
  /\ UNCHANGED disturbed

End ==
  /\ exit = "none" /\ at.scenario > Len(main)
  /\ exit' = IF failures # {} THEN "1" ELSE "0"
  /\ UNCHANGED <<vars, at, cached, passed, failures, disturbed>>

\* The program has ended.
Ended == exit # "none" /\ UNCHANGED <<vars, script>>

ScriptInit ==
  /\ Init /\ flow = build_flow
  /\ at = [scenario |-> 1, step |-> 0]
  /\ cached \in BOOLEAN
  /\ passed = {} /\ failures = {}
  /\ disturbed = FALSE
  /\ exit = "none"

ScriptNext ==
  \/ Abort \/ Begin \/ Disturb \/ OpenLogin \/ TryAnotherWay \/ Select \/ Refresh \/ LogIn
  \/ Token \/ FallBack \/ Forge \/ NoLogin \/ StepUp \/ SelectBuiltin \/ Expire \/ End \/ Ended

ScriptSpec == ScriptInit /\ [][ScriptNext]_<<vars, script>>

-----------------------------------------------------------------------------
(***************************************************************************)
(* Properties.                                                             *)
(***************************************************************************)

\* "Exit code 0 = all checks passed": every check of every scenario has been
\* made and has passed; a scenario cut short is never a success.
GreenMeansAllPassed == exit = "0" => passed = AllChecks

\* When nothing but the button is to blame, the test is green: its seven
\* scenarios describe what the button and the flow engine really do.
ButtonPassesAllScenarios == exit # "none" /\ ~disturbed => exit = "0"

Made(name, check) == Running /\ Now.name = name /\ at.step > 0 /\ Now.steps[at.step].check = check + 1

\* A passed check has tested what it says: the login with a ticket has
\* evaluated a ticket the user asked for, and the way without a ticket is
\* tested without one, even if kdestroy failed.
PassedMeansTested ==
  /\ \A name \in {"A", "F"} : Made(name, 4) => Button \in proven /\ asked
  /\ \A name \in {"B", "FB"} : Made(name, 2) => ~cached /\ Button \notin proven

=============================================================================

------------------------------ MODULE SmokeTest ------------------------------
(***************************************************************************)
(* smoke-test.sh: fetch Keycloak, start it with a jar, wait until it is    *)
(* ready, exercise the providers (SmokeExercise), stop it and look at its  *)
(* log.  Invocations follow each other in a kept working directory; one of *)
(* them may be killed, which leaves its server running on the ports.       *)
(***************************************************************************)
EXTENDS SmokeExercise

CONSTANTS
  Jars,       \* [loads, noise]: the providers in a jar and what they log
  MaxPolls,   \* START_TIMEOUT
  MaxRuns,    \* bound on invocations
  MaxKills    \* bound on killed invocations

\* What can be the case with a provider of the SPI.
Loads(spi) == {"works", "absent"} \cup Range(ChecksOf(spi))

ASSUME SmokeAssumption ==
  /\ \A j \in Jars :
       /\ j.loads \in [Ids -> UNION {Loads(spi) : spi \in Spis}]
       /\ \A i \in DOMAIN Expected : j.loads[Expected[i].id] \in Loads(Expected[i].spi)
       /\ j.noise \subseteq {"ERROR", "OURS"}
  /\ MaxPolls \in Nat /\ MaxRuns \in Nat /\ MaxKills \in Nat

VARIABLES
  pc,          \* step the script has come to ("asking": curl waits for an answer);
               \* "done" or "killed": none is running
  jar,         \* the jar under test
  dist,        \* the unpacked distribution: "absent", "partial", "complete"
  providers,   \* jars in the run directory's providers/
  polls,       \* turns of the waiting loop
  log,         \* kinds of suspicious lines in the server's log
  status,      \* what the status file says
  runs, kills, \* counters
  shared,      \* a server of an earlier invocation was running at the start
  disturbed    \* something other than the jar has gone wrong

script == <<pc, jar, dist, providers, polls, log, status, runs, kills, shared, disturbed>>
vars == <<servers, program, script>>

Idle == pc \in {"done", "killed"}
own == servers["own"]

-----------------------------------------------------------------------------
(***************************************************************************)
(* The servers.                                                            *)
(***************************************************************************)

\* What a server with these jars loads.
Loaded(js) ==
  [p \in Ids |->
    LET found == {j.loads[p] : j \in js} \ {"absent"}
    IN  IF found = {} THEN "absent"
        ELSE IF "works" \in found THEN "works" ELSE CHOOSE f \in found : TRUE]

\* A server opens its ports, or finds them taken.
Bind(s) ==
  /\ servers[s].state = "starting"
  /\ s = "own" => dist # "partial"
  /\ \/ Answering = {}
        /\ servers' = [servers EXCEPT ![s].state = "up"]
        /\ log' = IF s = "own" THEN log \cup own.noise ELSE log
     \/ Answering # {}
        /\ servers' = [servers EXCEPT ![s] = Down]
        /\ log' = IF s = "own" THEN log \cup {"ERROR"} ELSE log
  /\ UNCHANGED <<program, pc, jar, dist, providers, polls, status, runs, kills, shared, disturbed>>

\* A request it has accepted is lost with it.
Die(s) ==
  /\ servers[s].state # "down"
  /\ servers' = [servers EXCEPT ![s] = Down]
  /\ disturbed' = (disturbed \/ s = "own")
  /\ pc' = IF pc = "asking" /\ s \in Answering THEN "poll" ELSE pc
  /\ UNCHANGED <<program, jar, dist, providers, polls, log, status, runs, kills, shared>>

\* What listens on the port says that it is ready, or that it is not.  It may
\* take as long as it likes, or never answer.
Answer ==
  /\ pc = "asking" /\ Answering # {}
  /\ pc' \in {"exercise", "poll"}
  /\ UNCHANGED <<servers, program, jar, dist, providers, polls, log, status, runs, kills, shared, disturbed>>

-----------------------------------------------------------------------------
(***************************************************************************)
(* The script.                                                             *)
(***************************************************************************)

\* run-all.sh has removed the status file of the invocation before.
Invoke ==
  /\ Idle /\ runs < MaxRuns
  /\ pc' = "fetch"
  /\ jar' \in Jars
  /\ runs' = runs + 1
  /\ status' = "none" /\ log' = {} /\ polls' = 0
  /\ at' = 0 /\ info' = {} /\ failures' = FALSE /\ rc' = "none"
  /\ shared' = (servers["other"].state # "down")
  /\ disturbed' = FALSE
  /\ UNCHANGED <<servers, dist, providers, kills>>

\* The distribution is there, or is downloaded; without it the check fails.
Fetch ==
  /\ pc = "fetch"
  /\ \/ dist # "absent" /\ pc' = "prepare" /\ UNCHANGED <<dist, status, disturbed>>
     \/ dist # "complete" /\ pc' = "unpack" /\ dist' = "partial" /\ UNCHANGED <<status, disturbed>>
     \/ dist # "complete" /\ pc' = "done" /\ status' = "FAIL" /\ disturbed' = TRUE /\ UNCHANGED dist
  /\ UNCHANGED <<servers, program, jar, providers, polls, log, runs, kills, shared>>

\* tar, which may fail half-way unnoticed.
Unpack ==
  /\ pc = "unpack"
  /\ pc' = "prepare"
  /\ dist' \in {"partial", "complete"}
  /\ UNCHANGED <<servers, program, jar, providers, polls, log, status, runs, kills, shared, disturbed>>

\* Faulty: the run directory is kept.
AddToRunDir(j) == providers \cup {j}

\* A fresh copy of the distribution, and the jar.
FreshRunDir(j) == {j}

\* Neither copy is checked: without the jar the server starts all the same.
Prepare ==
  /\ pc = "prepare"
  /\ pc' = "start"
  /\ \/ providers' = FreshRunDir(jar) /\ disturbed' = (disturbed \/ dist = "partial")
     \/ providers' = {} /\ disturbed' = TRUE
  /\ UNCHANGED <<servers, program, jar, dist, polls, log, status, runs, kills, shared>>

Start ==
  /\ pc = "start"
  /\ pc' = "poll"
  /\ servers' = [servers EXCEPT !["own"] =
       [state |-> "starting", loads |-> Loaded(providers),
        noise |-> UNION {j.noise : j \in providers}, realm |-> NoRealm]]
  /\ UNCHANGED <<program, jar, dist, providers, polls, log, status, runs, kills, shared, disturbed>>

\* Faulty: the script exits without the trap.
LeftRunning == servers

\* stop_kc: in the end with kill -9.
Stopped == [servers EXCEPT !["own"] = Down]

\* Faulty: only the end of the process ends the waiting.
GivesUpOnDeath == own.state = "down"

\* The process has ended, or START_TIMEOUT is over.
GivesUp == own.state = "down" \/ polls = MaxPolls

\* Turns are counted up to the limit.
Turn(n) == IF n < MaxPolls THEN n + 1 ELSE n

\* One turn of the waiting loop asks any server that listens on the port, and
\* waits for its answer.
Poll ==
  /\ pc = "poll" /\ ~GivesUp
  /\ pc' = IF Answering # {} THEN "asking" ELSE "poll"
  /\ polls' = Turn(polls)
  /\ UNCHANGED <<servers, program, jar, dist, providers, log, status, runs, kills, shared, disturbed>>

NotReady ==
  /\ pc = "poll" /\ GivesUp
  /\ pc' = "done"
  /\ status' = "FAIL"
  /\ servers' = Stopped
  /\ disturbed' = (disturbed \/ own.state # "down")
  /\ UNCHANGED <<program, jar, dist, providers, polls, log, runs, kills, shared>>

Exercise == pc = "exercise" /\ ExerciseStep /\ UNCHANGED script

\* A request times out, or is refused for a reason of its own.
Disturb ==
  /\ pc = "exercise" /\ Begun
  /\ IF main[at].what = "fresh realm" THEN Aborts
     ELSE Printed(FALSE) /\ at' = at + 1 /\ UNCHANGED <<servers, info, rc>>
  /\ disturbed' = TRUE
  /\ UNCHANGED <<pc, jar, dist, providers, polls, log, status, runs, kills, shared>>

Stop ==
  /\ pc = "exercise" /\ rc # "none"
  /\ pc' = "evaluate"
  /\ servers' = Stopped
  /\ UNCHANGED <<program, jar, dist, providers, polls, log, status, runs, kills, shared, disturbed>>

Verdict ==
  IF rc # "0" \/ "ERROR" \in log THEN "FAIL" ELSE IF "OURS" \in log THEN "WARN" ELSE "PASS"

Evaluate ==
  /\ pc = "evaluate"
  /\ pc' = "done"
  /\ status' = Verdict
  /\ UNCHANGED <<servers, program, jar, dist, providers, polls, log, runs, kills, shared, disturbed>>

\* SIGKILL: no trap runs, and the server goes on.
Kill ==
  /\ ~Idle /\ kills < MaxKills
  /\ pc' = "killed"
  /\ kills' = kills + 1
  /\ servers' = IF own.state = "down" THEN servers ELSE [own |-> Down, other |-> own]
  /\ UNCHANGED <<program, jar, dist, providers, polls, log, status, runs, shared, disturbed>>

Init ==
  /\ servers = [s \in Slots |-> Down]
  /\ ProgramStart
  /\ pc = "done" /\ jar \in Jars /\ dist = "absent" /\ providers = {}
  /\ polls = 0 /\ log = {} /\ status = "none" /\ runs = 0 /\ kills = 0
  /\ shared = FALSE /\ disturbed = FALSE

Script ==
  \/ Fetch \/ Unpack \/ Prepare \/ Start \/ Poll \/ NotReady \/ Exercise \/ Stop \/ Evaluate

Next ==
  \/ Invoke \/ Script \/ Answer \/ Disturb \/ Kill
  \/ \E s \in Slots : Bind(s) \/ Die(s)

Spec == Init /\ [][Next]_vars

\* Each command of the script ends by itself (the requests of smoke_exercise.py
\* and stop_kc have time limits) but one: curl, at line 82, has none, and ends
\* when the server answers or dies.  Nothing is assumed of the server.
FairSpec == Spec /\ WF_vars(Script)

-----------------------------------------------------------------------------
(***************************************************************************)
(* Properties.                                                             *)
(***************************************************************************)

Fine(j) == \A p \in Ids : j.loads[p] = "works"

\* A status other than FAIL: each expected provider of this jar, and not of
\* another one, has been found to work, and the log has been looked at,
\* whatever dies or times out on the way.  A server that an earlier, killed
\* invocation has left on the ports is excluded: it is exercised in place of
\* the jar's own (the answers do not say whose they are).
PassMeansExercised ==
  pc = "done" /\ status \in {"PASS", "WARN"} /\ ~shared =>
    /\ Fine(jar)
    /\ status = IF jar.noise = {} THEN "PASS" ELSE "WARN"

\* A jar in order passes, unless something else goes wrong: each check finds
\* what it needs, whatever the invocations before have left.
GoodJarPasses ==
  pc = "done" /\ runs > 0 /\ Fine(jar) /\ jar.noise = {} /\ ~shared /\ ~disturbed =>
    status = "PASS"

\* However the script ends by itself, its server has been stopped: the ports
\* are free for the next invocation.
NothingLeftRunning == pc = "done" => own.state = "down"

\* Each invocation ends, even if the server never comes up and never dies,
\* unless one that has accepted the request for /health/ready never answers it:
\* START_TIMEOUT limits the turns of the waiting loop, not how long one takes.
SmokeEnds == <>[](pc = "asking") \/ (~Idle ~> Idle)

=============================================================================

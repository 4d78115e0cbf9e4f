----------------------------- MODULE CompatCheck -----------------------------
(***************************************************************************)
(* The compatibility check against a Keycloak release: the steps of        *)
(* ci/kc-compat/run-all.sh, started by a developer in a working directory  *)
(* that is kept, or by the workflow keycloak-compat.yml in a fresh one,    *)
(* which goes on with the end-to-end tests.                                *)
(*                                                                         *)
(* A line stands for "STATUS<TAB>text": the check whose program wrote it,  *)
(* the status, and the invocation the evidence for it was produced in.     *)
(* The invocations compare the same two releases.                          *)
(***************************************************************************)
EXTENDS Integers, FiniteSets

CONSTANTS
  MaxRuns,     \* bound: invocations of the script
  Unreported,  \* steps that may fail without the script noticing it
  MaxSilent    \* bound: steps that do so in one invocation

VARIABLES
  run,       \* number of the current invocation
  place,     \* who started it
  pc,        \* the step it is at
  made,      \* artifact in the working directory -> invocation it is from
  said,      \* check -> line in the status file of its program
  st,        \* the shell variables st and txt
  silent,    \* steps that have failed unnoticed in this invocation
  results,   \* results.tsv: check -> line
  exit,      \* how the script ended
  tests,     \* end-to-end test -> whether it passed, and with which jar
  job        \* conclusion of the workflow's job

vars == <<run, place, pc, made, said, st, silent, results, exit, tests, job>>

Checks ==
  {"old jar", "build", "bytecode", "libraries", "api", "smoke old", "smoke new"}
Results == Checks \cup {"providers"}
Programs == {"libraries", "api", "smoke old", "smoke new"}
Classes == {"classes-old", "classes-new"}
Artifacts == Classes \cup {"old.jar", "new.jar", "sources"}
Tests == {"kerberos", "login", "mapper"}

ASSUME CompatAssumption ==
  /\ MaxRuns \in Nat
  /\ Unreported \subseteq Programs \cup {"old jar", "build", "sources"}
  /\ MaxSilent \in Nat

\* run 0: an artifact that is incomplete, or evidence that rests on one.  A
\* status file that was opened and not written is recorded as "empty".
Lines == [check: Results, says: {"PASS", "WARN", "FAIL", "empty"}, run: 0..MaxRuns]
Line(c, s, r) == [check |-> c, says |-> s, run |-> r]
Nothing == [check |-> "none"]

Absent == [there |-> FALSE, run |-> 0]
There(r) == [there |-> TRUE, run |-> r]

NotRun == [passed |-> FALSE, jar |-> "new.jar"]

TypeOK ==
  /\ run \in 0..MaxRuns
  /\ place \in {"developer", "workflow"}
  /\ pc \in Checks \cup Tests \cup {"idle", "report", "result"}
  /\ made \in [Artifacts -> [there: BOOLEAN, run: 0..MaxRuns]]
  /\ said \in [Checks -> Lines \cup {Nothing}]
  /\ st \in Lines \cup {Nothing}
  /\ silent \subseteq Unreported
  /\ results \in [Results -> Lines \cup {Nothing}]
  /\ exit \in {"none", "ok", "failed"}
  /\ tests \in [Tests -> [passed: BOOLEAN, jar: {"new.jar", "old.jar"}]]
  /\ job \in {"none", "success", "failure"}

-----------------------------------------------------------------------------
(***************************************************************************)
(* Recording results.                                                      *)
(***************************************************************************)

\* A command of a step fails and the script goes on as if it had not.
Unnoticed(step) ==
  /\ step \in Unreported
  /\ Cardinality(silent) < MaxSilent
  /\ silent' = silent \cup {step}

\* result(): one more line of results.tsv.
Record(c, line) == results' = [results EXCEPT ![c] = line]

\* The step records status s itself, on evidence of invocation r.
Says(c, s, r) ==
  /\ Record(c, Line(c, s, r))
  /\ UNCHANGED <<said, st, exit>>

\* The program of check c leaves status s, which the script reads back.
Reports(c, s, r) ==
  /\ said' = [said EXCEPT ![c] = Line(c, s, r)]
  /\ st' = Line(c, s, r)
  /\ Record(c, Line(c, s, r))
  /\ UNCHANGED exit

\* What "read" leaves in st and txt when the program has not opened its file:
\* the line of an earlier invocation or, without a file, what they were before.
ReadBack(c) == IF said[c] # Nothing THEN said[c] ELSE st

\* The program of check c fails before it has opened its status file, or
\* before it has written it.
FailsSilently(c, next) ==
  /\ Unnoticed(c)
  /\ \/ /\ \E line \in {ReadBack(c), Line(c, "empty", run)} :
             /\ line # Nothing
             /\ said' = [said EXCEPT ![c] = IF line = ReadBack(c) THEN @ ELSE line]
             /\ st' = line
             /\ Record(c, line)
        /\ pc' = next
        /\ UNCHANGED exit
     \* set -u: the variables are unset, the script stops.
     \/ /\ ReadBack(c) = Nothing
        /\ exit' = "failed"
        /\ pc' = IF place = "workflow" THEN "kerberos" ELSE "idle"
        /\ UNCHANGED <<said, st, results>>

-----------------------------------------------------------------------------
(***************************************************************************)
(* run-all.sh, step by step.                                               *)
(***************************************************************************)

Init ==
  /\ run = 0
  /\ place = "developer"
  /\ pc = "idle"
  /\ made = [a \in Artifacts |-> Absent]
  /\ said = [c \in Checks |-> Nothing]
  /\ st = Nothing
  /\ silent = {}
  /\ results = [c \in Results |-> Nothing]
  /\ exit = "none"
  /\ tests = [t \in Tests |-> NotRun]
  /\ job = "none"

\* What the clean-up at the start removes of the status files.
CleanedUp == {"smoke old", "smoke new"}

\* A new invocation; consistent says that the lists of providers match.
Start(p, consistent) ==
  /\ pc = "idle"
  /\ run < MaxRuns
  /\ run' = run + 1
  /\ place' = p
  /\ pc' = "old jar"
  /\ made' = IF p = "workflow" THEN [a \in Artifacts |-> Absent] ELSE made
  /\ said' = [c \in Checks |->
                IF p = "workflow" \/ c \in CleanedUp THEN Nothing ELSE said[c]]
  /\ st' = Nothing
  /\ silent' = {}
  /\ results' = [c \in Results |->
                   IF c = "providers" /\ ~consistent THEN Line(c, "FAIL", run + 1)
                   ELSE Nothing]
  /\ exit' = "none"
  /\ tests' = [t \in Tests |-> NotRun]
  /\ job' = "none"

\* A jar and its classes are put into the working directory.  Nothing looks at
\* the exit status of the copies: the jar of an earlier invocation may stay; the
\* earlier classes are removed first.
Place(step, jar, classes) ==
  \/ /\ made' = [made EXCEPT ![jar] = There(run), ![classes] = There(run)]
     /\ UNCHANGED silent
  \/ /\ \E j \in {made[jar], There(0), There(run)}, c \in {Absent, There(0), There(run)} :
          made' = [made EXCEPT ![jar] = j, ![classes] = c]
     /\ Unnoticed(step)

\* The jar is given (OLD_JAR), and its classes are compiled for the comparisons;
\* nothing looks at the compiler's exit status either.
TakeOldJar ==
  /\ pc = "old jar"
  /\ Place("old jar", "old.jar", "classes-old")
  /\ Says("old jar", "PASS", made'["old.jar"].run)
  /\ pc' = "build"
  /\ UNCHANGED <<run, place, tests, job>>

BuildOldJar ==
  /\ pc = "old jar"
  /\ \/ /\ Place("old jar", "old.jar", "classes-old")
        /\ Says("old jar", "PASS", made'["old.jar"].run)
     \/ /\ Says("old jar", "FAIL", run)
        /\ UNCHANGED <<made, silent>>
  /\ pc' = "build"
  /\ UNCHANGED <<run, place, tests, job>>

BuildNewJar ==
  /\ pc = "build"
  /\ \/ /\ Place("build", "new.jar", "classes-new")
        /\ Says("build", "PASS", made'["new.jar"].run)
     \/ /\ Says("build", "FAIL", run)
        /\ UNCHANGED <<made, silent>>
  /\ pc' = "bytecode"
  /\ UNCHANGED <<run, place, tests, job>>

\* A comparison is as old as the older of its two sides.
Older(a, b) == IF made[a].run <= made[b].run THEN made[a].run ELSE made[b].run

CompareBytecode ==
  /\ pc = "bytecode"
  /\ IF made["classes-old"].there /\ made["classes-new"].there
     THEN \E s \in {"PASS", "WARN"} : Says("bytecode", s, Older("classes-old", "classes-new"))
     ELSE Says("bytecode", "FAIL", run)
  /\ pc' = "libraries"
  /\ UNCHANGED <<run, place, made, silent, tests, job>>

CompareLibraries ==
  /\ pc = "libraries"
  /\ \/ /\ \/ Says("libraries", "WARN", run)      \* no list of dependencies
           \/ \E s \in {"PASS", "WARN"} : Reports("libraries", s, run)
        /\ pc' = "api"
        /\ UNCHANGED silent
     \/ FailsSilently("libraries", "api")
  /\ UNCHANGED <<run, place, made, tests, job>>

\* fetch_kc() for both releases: what is there is taken as it is, and whether
\* the sources have been fetched completely is not asked.
FetchSources ==
  \/ /\ made' = IF made["sources"].there THEN made
                ELSE [made EXCEPT !["sources"] = There(run)]
     /\ UNCHANGED silent
  \/ /\ ~made["sources"].there
     /\ \E left \in {Absent, There(0)} : made' = [made EXCEPT !["sources"] = left]
     /\ Unnoticed("sources")

\* What the API comparison rests on: the classes, and complete sources.
ApiEvidence == IF made["sources"].run = 0 THEN 0 ELSE made["classes-old"].run

CompareApi ==
  /\ pc = "api"
  /\ \/ /\ Says("api", "FAIL", run)               \* no artifacts or no classes
        /\ pc' = "smoke old"
        /\ UNCHANGED <<made, silent>>
     \/ /\ made["classes-old"].there
        /\ FetchSources
        /\ \E s \in {"PASS", "WARN", "FAIL"} : Reports("api", s, ApiEvidence')
        /\ pc' = "smoke old"
     \/ /\ made["classes-old"].there
        /\ made' = [made EXCEPT !["sources"] = IF @.there THEN @ ELSE There(run)]
        /\ FailsSilently("api", "smoke old")
  /\ UNCHANGED <<run, place, tests, job>>

\* smoke(): start the new Keycloak with a jar.
Smoke(c, jar, next) ==
  /\ pc = c
  /\ \/ /\ ~made[jar].there
        /\ Says(c, "FAIL", run)
        /\ pc' = next
        /\ UNCHANGED silent
     \/ /\ made[jar].there
        /\ \E s \in {"PASS", "WARN", "FAIL"} : Reports(c, s, made[jar].run)
        /\ pc' = next
        /\ UNCHANGED silent
     \/ /\ made[jar].there
        /\ FailsSilently(c, next)
  /\ UNCHANGED <<run, place, made, tests, job>>

Recorded(s) == \E c \in Results : results[c] # Nothing /\ results[c].says = s

\* Faulty: warnings are looked for last.
OverallWarningsLast ==
  IF Recorded("WARN") THEN "WARN" ELSE IF Recorded("FAIL") THEN "FAIL" ELSE "PASS"

Overall ==
  IF Recorded("FAIL") THEN "FAIL" ELSE IF Recorded("WARN") THEN "WARN" ELSE "PASS"

Report ==
  /\ pc = "report"
  /\ exit' = IF Overall = "FAIL" THEN "failed" ELSE "ok"
  /\ pc' = IF place = "workflow" THEN "kerberos" ELSE "idle"
  /\ st' = Nothing
  /\ UNCHANGED <<run, place, made, said, silent, results, tests, job>>

-----------------------------------------------------------------------------
(***************************************************************************)
(* The workflow goes on, whatever the script has found.                    *)
(***************************************************************************)

\* Faulty: the jar that is deployed today is preferred.
DeployedJar == IF made["old.jar"].there THEN "old.jar" ELSE "new.jar"

JarToTest == IF made["new.jar"].there THEN "new.jar" ELSE "old.jar"

\* An end-to-end test; without a jar it fails.
Test(t, next) ==
  /\ pc = t
  /\ \E passed \in {FALSE} \cup {made[JarToTest].there} :
       tests' = [tests EXCEPT ![t] = [passed |-> passed, jar |-> JarToTest]]
  /\ pc' = next
  /\ UNCHANGED <<run, place, made, said, st, silent, results, exit, job>>

\* The condition of the step "Result".
JobFails == exit = "failed" \/ ~tests["kerberos"].passed \/ ~tests["login"].passed

Conclude ==
  /\ pc = "result"
  /\ job' = IF JobFails THEN "failure" ELSE "success"
  /\ pc' = "idle"
  /\ UNCHANGED <<run, place, made, said, st, silent, results, exit, tests>>

\* What the step the script is at writes.
Written ==
  CASE pc = "old jar" -> {"old.jar", "classes-old"}
    [] pc = "build"   -> {"new.jar", "classes-new"}
    [] pc = "api"     -> {"sources"}
    [] OTHER          -> {}

\* How far artifact a may be: not begun, begun, done, or removed to begin.
MidStep(a) == {made[a], There(0), There(run)} \cup (IF a \in Classes THEN {Absent} ELSE {})

\* The script, or the job, is killed, in the middle of a step or before it; what
\* is in the working directory stays until the next invocation cleans up.
Kill ==
  /\ pc # "idle"
  /\ pc' = "idle"
  /\ \E left \in [Written -> {There(0), There(run), Absent} \cup {made[a] : a \in Written}] :
       /\ \A a \in Written : left[a] \in MidStep(a)
       /\ made' = [a \in Artifacts |-> IF a \in Written THEN left[a] ELSE made[a]]
  /\ \/ UNCHANGED said
     \/ /\ pc \in Programs \ CleanedUp
        /\ \E s \in {"PASS", "WARN", "FAIL", "empty"} :
             said' = [said EXCEPT ![pc] = Line(pc, s, run)]
  /\ st' = Nothing
  /\ UNCHANGED <<run, place, silent, results, exit, tests, job>>

Next ==
  \/ \E p \in {"developer", "workflow"}, consistent \in BOOLEAN : Start(p, consistent)
  \/ TakeOldJar \/ BuildOldJar \/ BuildNewJar
  \/ CompareBytecode \/ CompareLibraries \/ CompareApi
  \/ Smoke("smoke old", "old.jar", "smoke new") \/ Smoke("smoke new", "new.jar", "report")
  \/ Report
  \/ Test("kerberos", "login") \/ Test("login", "mapper") \/ Test("mapper", "result")
  \/ Conclude
  \/ Kill

Spec == Init /\ [][Next]_vars

-----------------------------------------------------------------------------
(***************************************************************************)
(* Properties.                                                             *)
(***************************************************************************)

\* Exit code 0 of an invocation whose own commands have not failed unnoticed
\* means that every check has been made, in this invocation, on what it has
\* built, and none of them has failed: nothing an earlier invocation left in the
\* working directory counts as evidence.  One thing does: Keycloak's sources are
\* taken as an earlier one left them, complete or not (README, section 6).
GreenMeansChecked ==
  exit = "ok" /\ silent = {} =>
    /\ results["providers"] = Nothing
    /\ \A c \in Checks :
         \E s \in {"PASS", "WARN"} :
           \/ results[c] = Line(c, s, run)
           \/ c = "api" /\ made["sources"] = There(0) /\ results[c] = Line(c, s, 0)

\* A green job has tested the jar rebuilt for the new release.  It starts in an
\* empty directory, so that without unnoticed failures everything is its own,
\* Keycloak's sources included.
GreenJobMeansTested ==
  job = "success" =>
    /\ exit = "ok"
    /\ made["new.jar"].there
    /\ \A t \in {"kerberos", "login"} : tests[t] = [passed |-> TRUE, jar |-> "new.jar"]
    /\ silent = {} =>
         /\ \A c \in Checks : results[c] \in {Line(c, s, run) : s \in {"PASS", "WARN"}}
         /\ made["new.jar"] = There(run)

\* Exit code 0 means that the result of every check is what its own program has
\* found out.  It does not hold: a program that ends early is not noticed
\* (README, section 6).
EveryCheckIsMade ==
  exit = "ok" => \A c \in Checks : results[c].check = c /\ results[c].says # "empty"

\* All tests have passed in a green job, that of the group mapper included.  It
\* does not hold: nothing looks at that one's outcome (README, section 6).
GreenJobMeansAllPassed == job = "success" => \A t \in Tests : tests[t].passed

=============================================================================

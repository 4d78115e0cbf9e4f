------------------------- MODULE CompatCheck_proofs -------------------------
(***************************************************************************)
(* Theorems about the compatibility check, for any number of invocations   *)
(* in one working directory, some of them killed.                          *)
(***************************************************************************)
EXTENDS CompatCheck, TLAPS

\* The checks the script has behind it.
Done ==
  CASE pc = "build"     -> {"old jar"}
    [] pc = "bytecode"  -> {"old jar", "build"}
    [] pc = "libraries" -> {"old jar", "build", "bytecode"}
    [] pc = "api"       -> {"old jar", "build", "bytecode", "libraries"}
    [] pc = "smoke old" -> {"old jar", "build", "bytecode", "libraries", "api"}
    [] pc = "smoke new" -> {"old jar", "build", "bytecode", "libraries", "api", "smoke old"}
    [] pc = "report"    -> Checks
    [] OTHER            -> {}

Failed(c) == results[c] # Nothing /\ results[c].says = "FAIL"
ABuildFailed == Failed("old jar") \/ Failed("build")

\* A result is about its check, and on evidence of this invocation unless it is
\* a failure, stands beside a failed build, or is that of the API comparison on
\* sources an earlier invocation has left incomplete.
Sound(c) ==
  /\ results[c] # Nothing
  /\ results[c].check = c
  /\ results[c].says # "empty"
  /\ \/ results[c].run = run
     \/ results[c].says = "FAIL"
     \/ ABuildFailed
     \/ c = "api" /\ results[c].run = 0 /\ made["sources"] = There(0)

\* While the script is at work and nothing has failed unnoticed: what is done is
\* recorded soundly, a build that has not failed has put its artifacts into the
\* working directory, and the workflow's sources are its own.
AtWork ==
  /\ results["providers"] # Nothing => Failed("providers")
  /\ \A c \in Done : Sound(c)
  /\ \A c \in Checks \ Done : results[c] = Nothing
  /\ "old jar" \in Done /\ ~Failed("old jar") =>
       made["old.jar"] = There(run) /\ made["classes-old"] = There(run)
  /\ "build" \in Done /\ ~Failed("build") =>
       made["new.jar"] = There(run) /\ made["classes-new"] = There(run)
  /\ place = "workflow" =>
       /\ "api" \notin Done => made["sources"] = Absent
       /\ "api" \in Done /\ ~Failed("api") => made["sources"] = There(run)

\* While the script is at work, whatever fails: nothing is concluded yet, and the
\* new Keycloak has been started with the rebuilt jar, or the failure is recorded.
Pending ==
  /\ exit = "none" /\ job = "none"
  /\ tests = [t \in Tests |-> NotRun]
  /\ pc = "report" /\ ~Failed("smoke new") => made["new.jar"].there

\* What a green exit code stands for, and keeps standing for while the
\* workflow goes on.
Green ==
  /\ made["new.jar"].there
  /\ \A t \in Tests : tests[t].jar = "new.jar"
  /\ GreenMeansChecked
  /\ silent = {} =>
       /\ made["new.jar"] = There(run)
       /\ place = "workflow" => made["sources"] = There(run)

\* The inductive invariant.
CheckInv ==
  /\ TypeOK
  /\ pc \in Checks \cup {"report"} => Pending /\ (silent = {} => AtWork)
  /\ exit = "ok" => Green
  /\ job = "success" =>
       /\ exit = "ok" /\ place = "workflow"
       /\ tests["kerberos"].passed /\ tests["login"].passed
  /\ pc # "idle" => job = "none"
  /\ pc \in Tests \cup {"result"} => exit # "none" /\ place = "workflow"

-----------------------------------------------------------------------------
(***************************************************************************)
(* Types.                                                                  *)
(***************************************************************************)

\* A function keeps its type when one of its values is replaced.
LEMMA Replaced ==
  ASSUME NEW D, NEW S, NEW f \in [D -> S], NEW x, NEW v \in S
  PROVE  [f EXCEPT ![x] = v] \in [D -> S]
OBVIOUS

\* The bound on the invocations is a number.
LEMMA Bounded == MaxRuns \in Nat
BY CompatAssumption

\* A line is a line of its check, and not the absence of one.
LEMMA LineFacts ==
  ASSUME NEW c \in Results, NEW s \in {"PASS", "WARN", "FAIL", "empty"}, NEW r \in 0..MaxRuns
  PROVE  /\ Line(c, s, r) \in Lines
         /\ Line(c, s, r) # Nothing
         /\ Line(c, s, r).check = c
         /\ Line(c, s, r).says = s
         /\ Line(c, s, r).run = r
<1>1. Line(c, s, r).check # Nothing.check
  BY DEF Line, Nothing, Results, Checks
<1> QED  BY <1>1 DEF Line, Lines, Results, Checks

\* What a step of the check records about its check is of the right type.
LEMMA RecordingTypes ==
  ASSUME TypeOK, NEW c \in Checks, NEW s \in {"PASS", "WARN", "FAIL"},
         NEW r \in 0..MaxRuns, Says(c, s, r) \/ Reports(c, s, r)
  PROVE  /\ said' \in [Checks -> Lines \cup {Nothing}]
         /\ st' \in Lines \cup {Nothing}
         /\ results' \in [Results -> Lines \cup {Nothing}]
         /\ exit' = exit
<1>1. c \in Results  BY DEF Results
<1>2. Line(c, s, r) \in Lines  BY <1>1, LineFacts
<1>3. CASE Says(c, s, r)
  BY <1>1, <1>2, <1>3 DEF Says, Record, TypeOK
<1>4. CASE Reports(c, s, r)
  BY <1>1, <1>2, <1>4 DEF Reports, Record, TypeOK
<1> QED  BY <1>3, <1>4

\* The same for a step that leaves the status and the evidence open.
LEMMA StepTypes ==
  ASSUME TypeOK, NEW c \in Checks,
         \E s \in {"PASS", "WARN", "FAIL"}, r \in 0..MaxRuns :
           Says(c, s, r) \/ Reports(c, s, r)
  PROVE  /\ said' \in [Checks -> Lines \cup {Nothing}]
         /\ st' \in Lines \cup {Nothing}
         /\ results' \in [Results -> Lines \cup {Nothing}]
         /\ exit' = exit
<1>1. PICK s \in {"PASS", "WARN", "FAIL"}, r \in 0..MaxRuns :
        Says(c, s, r) \/ Reports(c, s, r)
  OBVIOUS
<1> QED  BY <1>1, RecordingTypes

\* So is what it reads back after a program that has written nothing.
LEMMA ReadingBackTypes ==
  ASSUME TypeOK, NEW c \in Checks, NEW next \in Checks \cup {"report"},
         FailsSilently(c, next)
  PROVE  /\ said' \in [Checks -> Lines \cup {Nothing}]
         /\ st' \in Lines \cup {Nothing}
         /\ silent' \subseteq Unreported /\ silent' # {}
         /\ results' \in [Results -> Lines \cup {Nothing}]
         /\ exit' \in {"none", "ok", "failed"}
         /\ pc' \in Checks \cup Tests \cup {"idle", "report", "result"}
         /\ \/ exit' = exit /\ pc' = next
            \/ exit' = "failed" /\ pc' = IF place = "workflow" THEN "kerberos" ELSE "idle"
<1>1. c \in Results  BY DEF Results
<1>2. ReadBack(c) \in Lines \cup {Nothing}  BY DEF ReadBack, TypeOK
<1>3. "kerberos" \in Tests  BY DEF Tests
<1>4. Line(c, "empty", run) \in Lines  BY <1>1, LineFacts DEF TypeOK
<1>5. silent' = silent \cup {c} /\ c \in Unreported
  BY DEF FailsSilently, Unnoticed
<1>6. CASE ReadBack(c) = Nothing /\ exit' = "failed" /\ UNCHANGED <<said, st, results>>
           /\ pc' = IF place = "workflow" THEN "kerberos" ELSE "idle"
  BY <1>3, <1>5, <1>6 DEF TypeOK
<1>7. ASSUME NEW line \in {ReadBack(c), Line(c, "empty", run)}, st' = line, Record(c, line),
             said' = [said EXCEPT ![c] = IF line = ReadBack(c) THEN @ ELSE line],
             pc' = next, exit' = exit
      PROVE  /\ said' \in [Checks -> Lines \cup {Nothing}]
             /\ st' \in Lines \cup {Nothing}
             /\ results' \in [Results -> Lines \cup {Nothing}]
             /\ exit' \in {"none", "ok", "failed"}
             /\ pc' \in Checks \cup Tests \cup {"idle", "report", "result"}
  <2>1. line \in Lines \cup {Nothing}
    BY <1>2, <1>4
  <2>2. said' \in [Checks -> Lines \cup {Nothing}]
    BY <1>7, <2>1 DEF TypeOK
  <2>3. results' \in [Results -> Lines \cup {Nothing}]
    BY <1>1, <1>7, <2>1 DEF Record, TypeOK
  <2> QED  BY <1>7, <2>1, <2>2, <2>3 DEF TypeOK
<1>8. \/ ReadBack(c) = Nothing /\ exit' = "failed" /\ UNCHANGED <<said, st, results>>
         /\ pc' = IF place = "workflow" THEN "kerberos" ELSE "idle"
      \/ \E line \in {ReadBack(c), Line(c, "empty", run)} :
           /\ st' = line /\ Record(c, line) /\ pc' = next /\ exit' = exit
           /\ said' = [said EXCEPT ![c] = IF line = ReadBack(c) THEN @ ELSE line]
  BY DEF FailsSilently
<1> QED  BY <1>5, <1>6, <1>7, <1>8 DEF TypeOK

\* The steps that put artifacts into the working directory.
LEMMA PlaceTypes ==
  ASSUME TypeOK, NEW step, NEW jar \in Artifacts, NEW classes \in Artifacts,
         jar # classes, Place(step, jar, classes)
  PROVE  /\ made' \in [Artifacts -> [there: BOOLEAN, run: 0..MaxRuns]]
         /\ made'[jar].run \in 0..MaxRuns
         /\ silent' \subseteq Unreported
         /\ silent' = {} =>
              silent = {} /\ made' = [made EXCEPT ![jar] = There(run), ![classes] = There(run)]
<1>1. /\ Absent \in [there: BOOLEAN, run: 0..MaxRuns]
      /\ There(0) \in [there: BOOLEAN, run: 0..MaxRuns]
      /\ There(run) \in [there: BOOLEAN, run: 0..MaxRuns]
  BY Bounded DEF Absent, There, TypeOK
<1>2. silent' = silent \/ (silent' = silent \cup {step} /\ step \in Unreported)
  BY DEF Place, Unnoticed
<1>3. made[jar] \in [there: BOOLEAN, run: 0..MaxRuns]
  BY DEF TypeOK
<1>4. \E j, c \in [there: BOOLEAN, run: 0..MaxRuns] :
        made' = [made EXCEPT ![jar] = j, ![classes] = c]
  BY <1>1, <1>3 DEF Place
<1>5. made' \in [Artifacts -> [there: BOOLEAN, run: 0..MaxRuns]]
  BY <1>4 DEF TypeOK
<1> QED  BY <1>2, <1>5 DEF Place, Unnoticed, TypeOK

\* So do the sources for the API comparison.
LEMMA FetchTypes ==
  ASSUME TypeOK,
         FetchSources \/ made' = [made EXCEPT !["sources"] = IF @.there THEN @ ELSE There(run)]
  PROVE  /\ made' \in [Artifacts -> [there: BOOLEAN, run: 0..MaxRuns]]
         /\ \A a \in Artifacts \ {"sources"} : made'[a] = made[a]
<1>1. /\ Absent \in [there: BOOLEAN, run: 0..MaxRuns]
      /\ There(0) \in [there: BOOLEAN, run: 0..MaxRuns]
      /\ There(run) \in [there: BOOLEAN, run: 0..MaxRuns]
  BY Bounded DEF Absent, There, TypeOK
<1>2. made["sources"] \in [there: BOOLEAN, run: 0..MaxRuns] /\ "sources" \in Artifacts
  BY DEF TypeOK, Artifacts
<1>3. \E v \in [there: BOOLEAN, run: 0..MaxRuns] :
        made' = [made EXCEPT !["sources"] = v] \/ made' = made
  BY <1>1, <1>2 DEF FetchSources
<1> QED  BY <1>2, <1>3 DEF TypeOK

\* The types hold initially and are kept by every step.
LEMMA TypesKept ==
  /\ Init => TypeOK
  /\ TypeOK /\ [Next]_vars => TypeOK'
<1>1. Init => TypeOK
  <2> SUFFICES ASSUME Init PROVE TypeOK
    OBVIOUS
  <2>1. 0 \in 0..MaxRuns  BY Bounded
  <2>2. made \in [Artifacts -> [there: BOOLEAN, run: 0..MaxRuns]]
    BY <2>1 DEF Init, Absent
  <2>3. tests \in [Tests -> [passed: BOOLEAN, jar: {"new.jar", "old.jar"}]]
    BY DEF Init, NotRun
  <2> QED  BY <2>1, <2>2, <2>3 DEF Init, TypeOK
<1>2. TypeOK /\ [Next]_vars => TypeOK'
  <2> SUFFICES ASSUME TypeOK, [Next]_vars PROVE TypeOK'
    OBVIOUS
  <2>types. /\ run \in 0..MaxRuns
        /\ made \in [Artifacts -> [there: BOOLEAN, run: 0..MaxRuns]]
        /\ \A a \in Artifacts : made[a].run \in 0..MaxRuns
    BY DEF TypeOK
  <2>made. /\ Absent \in [there: BOOLEAN, run: 0..MaxRuns]
        /\ \A r \in 0..MaxRuns : There(r) \in [there: BOOLEAN, run: 0..MaxRuns]
    BY Bounded DEF Absent, There
  <2>none. 0 \in 0..MaxRuns
    BY Bounded
  <2>1. ASSUME NEW p \in {"developer", "workflow"}, NEW consistent \in BOOLEAN,
               Start(p, consistent)
        PROVE TypeOK'
    <3>0. run' = run + 1 /\ run < MaxRuns
      BY <2>1 DEF Start
    <3>1. run' = run + 1 /\ run' \in 0..MaxRuns
      BY <2>types, <3>0, Bounded
    <3>2. Line("providers", "FAIL", run + 1) \in Lines
      BY <3>1, LineFacts DEF Results
    <3>3. results' \in [Results -> Lines \cup {Nothing}]
      BY <2>1, <3>2 DEF Start
    <3>4. made' \in [Artifacts -> [there: BOOLEAN, run: 0..MaxRuns]]
      BY <2>types, <2>made, <2>1 DEF Start
    <3>5. said' \in [Checks -> Lines \cup {Nothing}]
      BY <2>1 DEF Start, TypeOK
    <3>6. tests' \in [Tests -> [passed: BOOLEAN, jar: {"new.jar", "old.jar"}]]
      BY <2>1 DEF Start, NotRun
    <3>7. pc' \in Checks \cup Tests \cup {"idle", "report", "result"}
      BY <2>1 DEF Start, Checks
    <3> QED  BY <2>1, <3>1, <3>3, <3>4, <3>5, <3>6, <3>7 DEF Start, TypeOK
  <2>2. CASE TakeOldJar
    <3>1. /\ made' \in [Artifacts -> [there: BOOLEAN, run: 0..MaxRuns]]
          /\ made'["old.jar"].run \in 0..MaxRuns /\ silent' \subseteq Unreported
      BY <2>2, PlaceTypes DEF TakeOldJar, Artifacts, Classes
    <3>2. \E s \in {"PASS", "WARN", "FAIL"}, r \in 0..MaxRuns : Says("old jar", s, r)
      BY <3>1, <2>2 DEF TakeOldJar
    <3>3. "old jar" \in Checks /\ "build" \in Checks  BY DEF Checks
    <3> QED  BY <2>2, <3>1, <3>2, <3>3, StepTypes DEF TakeOldJar, TypeOK
  <2>3. CASE BuildOldJar
    <3>1. /\ made' \in [Artifacts -> [there: BOOLEAN, run: 0..MaxRuns]]
          /\ silent' \subseteq Unreported
          /\ \E s \in {"PASS", "WARN", "FAIL"}, r \in 0..MaxRuns : Says("old jar", s, r)
      BY <2>types, <2>3, PlaceTypes DEF BuildOldJar, TypeOK, Artifacts, Classes
    <3>2. "old jar" \in Checks /\ "build" \in Checks  BY DEF Checks
    <3> QED  BY <2>3, <3>1, <3>2, StepTypes DEF BuildOldJar, TypeOK
  <2>4. CASE BuildNewJar
    <3>1. /\ made' \in [Artifacts -> [there: BOOLEAN, run: 0..MaxRuns]]
          /\ silent' \subseteq Unreported
          /\ \E s \in {"PASS", "WARN", "FAIL"}, r \in 0..MaxRuns : Says("build", s, r)
      BY <2>types, <2>4, PlaceTypes DEF BuildNewJar, TypeOK, Artifacts, Classes
    <3>2. "build" \in Checks /\ "bytecode" \in Checks  BY DEF Checks
    <3> QED  BY <2>4, <3>1, <3>2, StepTypes DEF BuildNewJar, TypeOK
  <2>5. CASE CompareBytecode
    <3>1. Older("classes-old", "classes-new") \in 0..MaxRuns
      BY <2>types DEF Older, Artifacts, Classes
    <3>2. \E s \in {"PASS", "WARN", "FAIL"}, r \in 0..MaxRuns : Says("bytecode", s, r)
      BY <2>types, <2>5, <3>1 DEF CompareBytecode
    <3>3. "bytecode" \in Checks /\ "libraries" \in Checks  BY DEF Checks
    <3> QED  BY <2>5, <3>2, <3>3, StepTypes DEF CompareBytecode, TypeOK
  <2>6. CASE CompareLibraries
    <3>1. \/ FailsSilently("libraries", "api")
          \/ /\ \E s \in {"PASS", "WARN", "FAIL"}, r \in 0..MaxRuns :
                  Says("libraries", s, r) \/ Reports("libraries", s, r)
             /\ pc' = "api" /\ UNCHANGED silent
      BY <2>types, <2>6 DEF CompareLibraries
    <3>2. "libraries" \in Checks /\ "api" \in Checks  BY DEF Checks
    <3> QED  BY <2>6, <3>1, <3>2, StepTypes, ReadingBackTypes DEF CompareLibraries, TypeOK
  <2>7. CASE CompareApi
    <3>1. made' \in [Artifacts -> [there: BOOLEAN, run: 0..MaxRuns]]
      BY <2>types, <2>7, FetchTypes DEF CompareApi
    <3>2. ApiEvidence' \in 0..MaxRuns
      BY <2>none, <3>1 DEF ApiEvidence, Artifacts, Classes
    <3>3. \/ FailsSilently("api", "smoke old")
          \/ /\ \E s \in {"PASS", "WARN", "FAIL"}, r \in 0..MaxRuns :
                  Says("api", s, r) \/ Reports("api", s, r)
             /\ pc' = "smoke old" /\ silent' \subseteq Unreported
      BY <2>types, <2>7, <3>2 DEF CompareApi, FetchSources, Unnoticed, TypeOK
    <3>4. "api" \in Checks /\ "smoke old" \in Checks  BY DEF Checks
    <3> QED  BY <2>7, <3>1, <3>3, <3>4, StepTypes, ReadingBackTypes DEF CompareApi, TypeOK
  <2>8. ASSUME NEW c \in Checks, NEW jar \in Artifacts,
               NEW next \in Checks \cup {"report"}, Smoke(c, jar, next)
        PROVE TypeOK'
    <3>1. \/ FailsSilently(c, next)
          \/ /\ \E s \in {"PASS", "WARN", "FAIL"}, r \in 0..MaxRuns :
                  Says(c, s, r) \/ Reports(c, s, r)
             /\ pc' = next /\ UNCHANGED silent
      BY <2>types, <2>8 DEF Smoke
    <3> QED  BY <2>8, <3>1, StepTypes, ReadingBackTypes DEF Smoke, TypeOK
  <2>9. CASE Report
    BY <2>9 DEF Report, TypeOK, Tests
  <2>10. ASSUME NEW t \in Tests, NEW next \in Tests \cup {"result"}, Test(t, next)
         PROVE TypeOK'
    <3>1. JarToTest \in {"new.jar", "old.jar"}  BY DEF JarToTest
    <3>2. "new.jar" \in Artifacts /\ "old.jar" \in Artifacts  BY DEF Artifacts
    <3>3. made[JarToTest].there \in BOOLEAN  BY <3>1, <3>2 DEF TypeOK
    <3>4. PICK passed \in BOOLEAN :
            tests' = [tests EXCEPT ![t] = [passed |-> passed, jar |-> JarToTest]]
      BY <2>10, <3>3 DEF Test
    <3>5. [passed |-> passed, jar |-> JarToTest]
            \in [passed: BOOLEAN, jar: {"new.jar", "old.jar"}]
      BY <3>1
    <3> DEFINE Outcomes == [passed: BOOLEAN, jar: {"new.jar", "old.jar"}]
               outcome == [passed |-> passed, jar |-> JarToTest]
    <3> HIDE DEF Outcomes, outcome
    <3>6. tests \in [Tests -> Outcomes] /\ outcome \in Outcomes
          /\ tests' = [tests EXCEPT ![t] = outcome]
      <4>1. tests \in [Tests -> Outcomes]  BY DEF TypeOK, Outcomes
      <4>2. outcome \in Outcomes  BY <3>5 DEF Outcomes, outcome
      <4>3. tests' = [tests EXCEPT ![t] = outcome]  BY <3>4 DEF outcome
      <4> QED  BY <4>1, <4>2, <4>3
    <3>7. tests' \in [Tests -> Outcomes]
      BY <3>6, Replaced
    <3> QED  BY <2>10, <3>7 DEF Test, TypeOK, Outcomes
  <2>11. CASE Conclude
    BY <2>11 DEF Conclude, TypeOK
  <2>12. CASE Kill
    <3>1. Written \subseteq Artifacts
      BY DEF Written, Artifacts, Classes
    <3>2. PICK left \in [Written -> {There(0), There(run), Absent} \cup {made[a] : a \in Written}] :
            made' = [a \in Artifacts |-> IF a \in Written THEN left[a] ELSE made[a]]
      BY <2>12 DEF Kill
    <3>3. \A a \in Written : left[a] \in [there: BOOLEAN, run: 0..MaxRuns]
      BY <2>types, <2>made, <2>none, <3>1, <3>2
    <3>4. made' \in [Artifacts -> [there: BOOLEAN, run: 0..MaxRuns]]
      BY <2>types, <3>2, <3>3
    <3>5. said' \in [Checks -> Lines \cup {Nothing}]
      <4>1. CASE said' = said
        BY <4>1 DEF TypeOK
      <4>2. ASSUME NEW s \in {"PASS", "WARN", "FAIL", "empty"}, pc \in Programs,
                   said' = [said EXCEPT ![pc] = Line(pc, s, run)]
            PROVE  said' \in [Checks -> Lines \cup {Nothing}]
        <5>1. pc \in Results /\ pc \in Checks  BY <4>2 DEF Programs, Results, Checks
        <5>2. Line(pc, s, run) \in Lines  BY <2>types, <5>1, LineFacts
        <5> QED  BY <4>2, <5>1, <5>2 DEF TypeOK
      <4> QED  BY <2>12, <4>1, <4>2 DEF Kill
    <3> QED  BY <2>12, <3>4, <3>5 DEF Kill, TypeOK
  <2>13. CASE UNCHANGED vars
    BY <2>13 DEF vars, TypeOK
  <2>14. {"smoke old", "smoke new"} \subseteq Checks
         /\ {"old.jar", "new.jar"} \subseteq Artifacts
         /\ Tests = {"kerberos", "login", "mapper"}
    BY DEF Checks, Artifacts, Tests
  <2> QED
    BY <2>1, <2>2, <2>3, <2>4, <2>5, <2>6, <2>7, <2>8, <2>9, <2>10, <2>11, <2>12,
       <2>13, <2>14 DEF Next
<1> QED  BY <1>1, <1>2

\* Every state has the types of TypeOK, whichever programs fail silently.
THEOREM TypeCorrect == Spec => []TypeOK
BY TypesKept, PTL DEF Spec

-----------------------------------------------------------------------------
(***************************************************************************)
(* What the checks record, when no program fails silently.                 *)
(***************************************************************************)

\* A step of the script that makes check c, as far as AtWork is concerned.
Makes(c, s, r) ==
  /\ results' = [results EXCEPT ![c] = Line(c, s, r)]
  /\ Done' = Done \cup {c}
  /\ run' = run /\ place' = place
  /\ \/ r = run \/ s = "FAIL" \/ ABuildFailed
     \/ c = "api" /\ r = 0 /\ made'["sources"] = There(0)
  /\ IF c = "old jar"
     THEN s # "FAIL" => made'["old.jar"] = There(run) /\ made'["classes-old"] = There(run)
     ELSE made'["old.jar"] = made["old.jar"] /\ made'["classes-old"] = made["classes-old"]
  /\ IF c = "build"
     THEN s # "FAIL" => made'["new.jar"] = There(run) /\ made'["classes-new"] = There(run)
     ELSE made'["new.jar"] = made["new.jar"] /\ made'["classes-new"] = made["classes-new"]
  /\ IF c = "api"
     THEN place = "workflow" /\ s # "FAIL" => made'["sources"] = There(run)
     ELSE made'["sources"] = made["sources"]

\* A check that is made keeps what holds while the script is at work.
LEMMA WorkGoesOn ==
  ASSUME TypeOK, AtWork, NEW c \in Checks \ Done, NEW s \in {"PASS", "WARN", "FAIL"},
         NEW r \in 0..MaxRuns, Makes(c, s, r)
  PROVE  AtWork'
<1>1. /\ Line(c, s, r) # Nothing /\ Line(c, s, r).check = c
      /\ Line(c, s, r).says = s /\ Line(c, s, r).run = r
  BY LineFacts DEF Results
<1>2. results'[c] = Line(c, s, r)
  BY DEF Makes, TypeOK, Results
<1>3. \A d \in Results \ {c} : results'[d] = results[d]
  BY DEF Makes, TypeOK
<1>4. c \in Results /\ "providers" \in Results \ {c} /\ Checks \subseteq Results
      /\ {"old jar", "build"} \subseteq Checks
  BY DEF Results, Checks
<1>5. results[c] = Nothing /\ ~Failed(c)
  BY DEF AtWork, Failed
<1>6. \A d \in Results \ {c} : Failed(d)' <=> Failed(d)
  BY <1>3 DEF Failed
<1>7. Failed(c)' <=> s = "FAIL"
  BY <1>1, <1>2 DEF Failed
<1>8. ABuildFailed => ABuildFailed'
  BY <1>4, <1>5, <1>6 DEF ABuildFailed
<1>9. Sound(c)'
  BY <1>1, <1>2, <1>8 DEF Makes, Sound, There
<1>10. \A d \in Done' : Sound(d)'
  <2> SUFFICES ASSUME NEW d \in Done, d # c PROVE Sound(d)'
    BY <1>9 DEF Makes
  <2>1. d \in Results  BY <1>4 DEF Done, Checks
  <2>2. results'[d] = results[d]  BY <2>1, <1>3
  <2>3. d = "api" => made'["sources"] = made["sources"]  BY DEF Makes
  <2> QED  BY <2>2, <2>3, <1>8 DEF Makes, AtWork, Sound, There
<1>11. \A d \in Checks \ Done' : results'[d] = Nothing
  BY <1>3, <1>4 DEF Makes, AtWork
<1>12. ("old jar" \in Done' /\ ~Failed("old jar")') =>
         made'["old.jar"] = There(run) /\ made'["classes-old"] = There(run)
  BY <1>4, <1>6, <1>7 DEF Makes, AtWork
<1>13. ("build" \in Done' /\ ~Failed("build")') =>
         made'["new.jar"] = There(run) /\ made'["classes-new"] = There(run)
  BY <1>4, <1>6, <1>7 DEF Makes, AtWork
<1>14. results'["providers"] # Nothing => Failed("providers")'
  BY <1>3, <1>4, <1>6 DEF AtWork
<1>15. There(run)' = There(run) /\ Absent' = Absent
  BY DEF There, Absent, Makes
<1>16. place' = "workflow" =>
         /\ "api" \notin Done' => made'["sources"] = Absent
         /\ "api" \in Done' /\ ~Failed("api")' => made'["sources"] = There(run)
  <2>1. CASE c = "api"
    BY <2>1, <1>7 DEF Makes
  <2>2. CASE c # "api"
    <3>1. "api" \in Results \ {c}  BY <2>2 DEF Results, Checks
    <3>2. Failed("api")' <=> Failed("api")  BY <1>6, <3>1
    <3> QED  BY <2>2, <3>2 DEF Makes, AtWork
  <2> QED  BY <2>1, <2>2
<1> QED
  BY <1>10, <1>11, <1>12, <1>13, <1>14, <1>15, <1>16 DEF AtWork, Makes

\* A status a step records, by itself or from what its program reports.
LEMMA Recording ==
  ASSUME TypeOK, AtWork, NEW c \in Checks \ Done, NEW s \in {"PASS", "WARN", "FAIL"},
         NEW r \in 0..MaxRuns, Says(c, s, r) \/ Reports(c, s, r),
         Done' = Done \cup {c}, UNCHANGED <<run, place>>,
         r = run \/ s = "FAIL" \/ ABuildFailed,
         c \notin {"old jar", "build", "api"}, made' = made
  PROVE  AtWork'
<1>1. results' = [results EXCEPT ![c] = Line(c, s, r)]
  BY DEF Says, Reports, Record
<1>2. Makes(c, s, r)
  BY <1>1 DEF Makes
<1> QED  BY <1>1, <1>2, WorkGoesOn

\* The jars and classes of a build that has not failed are of this invocation.
LEMMA BuiltThisTime ==
  ASSUME AtWork
  PROVE  /\ {"old jar", "build"} \subseteq Done /\ ~ABuildFailed =>
              \A a \in Artifacts \ {"sources"} : made[a].run = run
<1> SUFFICES ASSUME {"old jar", "build"} \subseteq Done, ~ABuildFailed
             PROVE  \A a \in Artifacts \ {"sources"} : made[a].run = run
  OBVIOUS
<1>1. /\ made["old.jar"] = There(run) /\ made["classes-old"] = There(run)
      /\ made["new.jar"] = There(run) /\ made["classes-new"] = There(run)
  BY DEF AtWork, ABuildFailed
<1>2. There(run).run = run
  BY DEF There
<1> QED  BY <1>1, <1>2 DEF Artifacts, Classes

\* The exit code is 0 only if everything is recorded, of this invocation, and
\* nothing has failed.
LEMMA ReportIsGreen ==
  ASSUME TypeOK, Pending, silent = {} => AtWork, Report, exit' = "ok"
  PROVE  Green'
<1>1. Done = Checks /\ pc = "report"
      /\ UNCHANGED <<run, place, made, silent, results, tests>>
  BY DEF Report, Done
<1>2. ~Recorded("FAIL")
  BY DEF Report, Overall
<1>3. \A c \in Results : ~Failed(c)
  BY <1>2 DEF Recorded, Failed
<1>4. /\ Checks \subseteq Results /\ "providers" \in Results
      /\ {"old jar", "build", "api", "smoke new"} \subseteq Checks
  BY DEF Checks, Results
<1>5. made["new.jar"].there /\ \A t \in Tests : tests[t].jar = "new.jar"
  BY <1>1, <1>3, <1>4 DEF Pending, NotRun
<1>6. ASSUME silent = {}
      PROVE  /\ results["providers"] = Nothing
             /\ \A c \in Checks :
                  \E s \in {"PASS", "WARN"} :
                    \/ results[c] = Line(c, s, run)
                    \/ c = "api" /\ made["sources"] = There(0) /\ results[c] = Line(c, s, 0)
             /\ made["new.jar"] = There(run)
             /\ place = "workflow" => made["sources"] = There(run)
  <2>1. AtWork /\ results["providers"] = Nothing /\ ~ABuildFailed
    BY <1>3, <1>4, <1>6 DEF AtWork, ABuildFailed
  <2>2. ASSUME NEW c \in Checks
        PROVE  \E s \in {"PASS", "WARN"} :
                 \/ results[c] = Line(c, s, run)
                 \/ c = "api" /\ made["sources"] = There(0) /\ results[c] = Line(c, s, 0)
    <3>1. /\ results[c] # Nothing /\ results[c].check = c /\ results[c].says # "FAIL"
          /\ results[c].says # "empty"
          /\ \/ results[c].run = run
             \/ c = "api" /\ results[c].run = 0 /\ made["sources"] = There(0)
      BY <1>1, <1>3, <1>4, <2>1 DEF AtWork, Sound, Failed
    <3>2. results[c] \in Lines
      BY <1>4, <3>1 DEF TypeOK
    <3>3. results[c].says \in {"PASS", "WARN"}
      BY <3>1, <3>2 DEF Lines
    <3>4. results[c] = [check |-> results[c].check, says |-> results[c].says,
                        run |-> results[c].run]
      BY <3>2 DEF Lines
    <3>5. results[c] = Line(c, results[c].says, results[c].run)
      BY <3>1, <3>4 DEF Line
    <3> QED  BY <3>1, <3>3, <3>5
  <2>3. /\ made["new.jar"] = There(run)
        /\ place = "workflow" => made["sources"] = There(run)
    BY <1>1, <1>3, <1>4, <2>1 DEF AtWork, ABuildFailed
  <2> QED  BY <2>1, <2>2, <2>3
<1> QED  BY <1>1, <1>5, <1>6 DEF Green, GreenMeansChecked, Line, There

\* While the script is at work nothing is concluded yet: a step of it keeps the
\* invariant if it keeps what holds at work.
LEMMA StillAtWork ==
  ASSUME TypeOK', Pending', silent' = {} => AtWork', pc' \in Checks \cup {"report"}
  PROVE  CheckInv'
<1>1. (exit' = "none" /\ job' = "none") /\ pc' \notin Tests \cup {"result"}
  BY DEF Pending, Tests, Checks
<1> QED  BY <1>1 DEF CheckInv

\* Until the last check is made, a step that concludes nothing leaves everything
\* pending.
LEMMA StillPending ==
  ASSUME Pending, exit' = exit, UNCHANGED <<job, tests>>, pc' # "report"
  PROVE  Pending'
BY DEF Pending, NotRun

\* A program that fails silently may stop the script, but never in the green.
LEMMA SilenceKeepsInv ==
  ASSUME CheckInv, TypeOK', NEW c \in Checks, NEW next \in Checks \cup {"report"},
         pc \in Checks, FailsSilently(c, next), UNCHANGED <<place, job, tests>>,
         next = "report" => made'["new.jar"].there
  PROVE  CheckInv'
<1>1. Pending /\ TypeOK
  BY DEF CheckInv
<1>2. /\ silent' # {}
      /\ \/ exit' = exit /\ pc' = next
         \/ exit' = "failed" /\ pc' = IF place = "workflow" THEN "kerberos" ELSE "idle"
  BY <1>1, ReadingBackTypes
<1>3. CASE exit' = exit /\ pc' = next
  <2>1. Pending'
    BY <1>1, <1>3 DEF Pending, NotRun
  <2> QED  BY <1>2, <1>3, <2>1, StillAtWork
<1>4. CASE exit' = "failed" /\ pc' = IF place = "workflow" THEN "kerberos" ELSE "idle"
  <2>1. job' = "none" /\ pc' \notin Checks \cup {"report"}
    BY <1>1, <1>4 DEF Pending, Checks
  <2>2. pc' \in Tests \cup {"result"} => place' = "workflow"
    BY <1>4 DEF Tests
  <2> QED  BY <1>4, <2>1, <2>2 DEF CheckInv
<1> QED  BY <1>2, <1>3, <1>4

\* What is green stays green while what it speaks of stays.
LEMMA StaysGreen ==
  ASSUME Green, UNCHANGED <<run, place, made, silent, results, exit>>,
         \A t \in Tests : tests'[t].jar = "new.jar"
  PROVE  Green'
BY DEF Green, GreenMeansChecked, Line, There

LEMMA CheckInvKept ==
  ASSUME CheckInv, [Next]_vars
  PROVE  CheckInv'
<1>1. TypeOK /\ TypeOK'
  BY TypesKept DEF CheckInv
<1>2. /\ run \in 0..MaxRuns
      /\ \A a \in Artifacts : made[a] \in [there: BOOLEAN, run: 0..MaxRuns]
      /\ \A a \in Artifacts : made[a].run \in 0..MaxRuns
  BY <1>1 DEF TypeOK
<1>3. pc \in Checks \cup {"report"} => Pending /\ (silent = {} => AtWork)
  BY DEF CheckInv
<1>4. ASSUME NEW p \in {"developer", "workflow"}, NEW consistent \in BOOLEAN,
             Start(p, consistent)
      PROVE  CheckInv'
  <2>1. /\ run' = run + 1 /\ run' \in 0..MaxRuns
        /\ "providers" \in Results /\ "providers" \notin Checks /\ Checks \subseteq Results
    BY <1>1, <1>4 DEF Start, TypeOK, Results, Checks
  <2>2. /\ Line("providers", "FAIL", run + 1) # Nothing
        /\ Line("providers", "FAIL", run + 1).says = "FAIL"
    BY <2>1, LineFacts
  <2>3. results'["providers"] # Nothing => Failed("providers")'
    BY <1>4, <2>1, <2>2 DEF Start, Failed
  <2>4. \A c \in Checks : results'[c] = Nothing
    BY <1>4, <2>1 DEF Start
  <2>5. Done' = {}
    BY <1>4 DEF Start, Done
  <2>6. place' = "workflow" => made'["sources"] = Absent'
    BY <1>4 DEF Start, Artifacts, Absent
  <2>7. AtWork'
    BY <2>3, <2>4, <2>5, <2>6 DEF AtWork
  <2>8. Pending' /\ pc' \in Checks
    BY <1>4 DEF Start, Pending, NotRun, Checks
  <2> QED  BY <1>1, <2>7, <2>8, StillAtWork
<1>5. CASE TakeOldJar
  <2>1. /\ Pending /\ (silent = {} => AtWork)
        /\ "old jar" \in Checks \ Done /\ Done' = Done \cup {"old jar"}
        /\ pc' \in Checks /\ pc' # "report"
    BY <1>3, <1>5 DEF TakeOldJar, Done, Checks
  <2>2. Pending'
    BY <1>5, <2>1, StillPending DEF TakeOldJar, Says
  <2>3. ASSUME silent' = {} PROVE AtWork'
    <3>1. silent = {} /\ made' = [made EXCEPT !["old.jar"] = There(run), !["classes-old"] = There(run)]
      BY <1>1, <1>5, <2>3, PlaceTypes DEF TakeOldJar, Artifacts, Classes
    <3>2. Makes("old jar", "PASS", run)
      BY <1>1, <1>5, <2>1, <3>1
         DEF TakeOldJar, Says, Record, Makes, TypeOK, Artifacts, Classes, There
    <3> QED  BY <1>1, <1>2, <2>1, <3>1, <3>2, WorkGoesOn
  <2> QED  BY <1>1, <2>1, <2>2, <2>3, StillAtWork
<1>6. CASE BuildOldJar
  <2>1. /\ Pending /\ (silent = {} => AtWork)
        /\ "old jar" \in Checks \ Done /\ Done' = Done \cup {"old jar"}
        /\ pc' \in Checks /\ pc' # "report"
    BY <1>3, <1>6 DEF BuildOldJar, Done, Checks
  <2>2. Pending'
    BY <1>6, <2>1, StillPending DEF BuildOldJar, Says
  <2>3. ASSUME silent' = {} PROVE AtWork'
    <3>1. silent = {} /\ \E s \in {"PASS", "FAIL"} : Makes("old jar", s, run)
      <4>1. CASE Place("old jar", "old.jar", "classes-old") /\ Says("old jar", "PASS", made'["old.jar"].run)
        <5>1. silent = {} /\ made' = [made EXCEPT !["old.jar"] = There(run), !["classes-old"] = There(run)]
          BY <1>1, <2>3, <4>1, PlaceTypes DEF Artifacts, Classes
        <5>2. Makes("old jar", "PASS", run)
          BY <1>1, <1>6, <2>1, <4>1, <5>1
             DEF BuildOldJar, Says, Record, Makes, TypeOK, Artifacts, Classes, There
        <5> QED  BY <5>1, <5>2
      <4>2. CASE Says("old jar", "FAIL", run) /\ UNCHANGED <<made, silent>>
        BY <1>6, <2>1, <2>3, <4>2 DEF BuildOldJar, Says, Record, Makes
      <4> QED  BY <1>6, <4>1, <4>2 DEF BuildOldJar
    <3> QED  BY <1>1, <1>2, <2>1, <3>1, WorkGoesOn
  <2> QED  BY <1>1, <2>1, <2>2, <2>3, StillAtWork
<1>7. CASE BuildNewJar
  <2>1. /\ Pending /\ (silent = {} => AtWork)
        /\ "build" \in Checks \ Done /\ Done' = Done \cup {"build"}
        /\ pc' \in Checks /\ pc' # "report"
    BY <1>3, <1>7 DEF BuildNewJar, Done, Checks
  <2>2. Pending'
    BY <1>7, <2>1, StillPending DEF BuildNewJar, Says
  <2>3. ASSUME silent' = {} PROVE AtWork'
    <3>1. silent = {} /\ \E s \in {"PASS", "FAIL"} : Makes("build", s, run)
      <4>1. CASE Place("build", "new.jar", "classes-new") /\ Says("build", "PASS", made'["new.jar"].run)
        <5>1. silent = {} /\ made' = [made EXCEPT !["new.jar"] = There(run), !["classes-new"] = There(run)]
          BY <1>1, <2>3, <4>1, PlaceTypes DEF Artifacts, Classes
        <5>2. Makes("build", "PASS", run)
          BY <1>1, <1>7, <2>1, <4>1, <5>1
             DEF BuildNewJar, Says, Record, Makes, TypeOK, Artifacts, Classes, There
        <5> QED  BY <5>1, <5>2
      <4>2. CASE Says("build", "FAIL", run) /\ UNCHANGED <<made, silent>>
        BY <1>7, <2>1, <2>3, <4>2 DEF BuildNewJar, Says, Record, Makes
      <4> QED  BY <1>7, <4>1, <4>2 DEF BuildNewJar
    <3> QED  BY <1>1, <1>2, <2>1, <3>1, WorkGoesOn
  <2> QED  BY <1>1, <2>1, <2>2, <2>3, StillAtWork
<1>8. CASE CompareBytecode
  <2>1. /\ Pending /\ (silent = {} => AtWork)
        /\ "bytecode" \in Checks \ Done /\ Done' = Done \cup {"bytecode"}
        /\ pc' \in Checks /\ pc' # "report" /\ {"old jar", "build"} \subseteq Done
    BY <1>3, <1>8 DEF CompareBytecode, Done, Checks
  <2>2. Older("classes-old", "classes-new") \in 0..MaxRuns
    BY <1>2 DEF Older, Artifacts, Classes
  <2>3. Pending'
    BY <1>8, <2>1, StillPending DEF CompareBytecode, Says
  <2>4. ASSUME silent' = {} PROVE AtWork'
    <3>1. AtWork /\ UNCHANGED <<run, place>> /\ made' = made
      BY <1>8, <2>1, <2>4 DEF CompareBytecode
    <3>2. ABuildFailed \/ Older("classes-old", "classes-new") = run
      <4>1. {"classes-old", "classes-new"} \subseteq Artifacts \ {"sources"}
        BY DEF Artifacts, Classes
      <4>2. ABuildFailed \/ \A a \in Artifacts \ {"sources"} : made[a].run = run
        BY <2>1, <3>1, BuiltThisTime
      <4> QED  BY <4>1, <4>2 DEF Older
    <3>3. \E s \in {"PASS", "WARN", "FAIL"}, r \in 0..MaxRuns :
            Says("bytecode", s, r) /\ (r = run \/ ABuildFailed)
      BY <1>2, <1>8, <2>2, <3>2 DEF CompareBytecode
    <3> QED  BY <1>1, <2>1, <3>1, <3>3, Recording
  <2> QED  BY <1>1, <2>1, <2>3, <2>4, StillAtWork
<1>9. CASE CompareLibraries
  <2>0. "libraries" \in Checks /\ "api" \in Checks  BY DEF Checks
  <2>1. CASE FailsSilently("libraries", "api")
    BY <1>1, <1>9, <2>0, <2>1, SilenceKeepsInv DEF CompareLibraries
  <2>2. CASE /\ \E s \in {"PASS", "WARN", "FAIL"} :
                  Says("libraries", s, run) \/ Reports("libraries", s, run)
             /\ pc' = "api" /\ silent' = silent
    <3>1. /\ Pending /\ (silent = {} => AtWork)
          /\ "libraries" \in Checks \ Done /\ Done' = Done \cup {"libraries"}
      BY <1>3, <1>9, <2>2 DEF CompareLibraries, Done, Checks
    <3>2. exit' = exit /\ UNCHANGED <<run, place, job, tests>> /\ made' = made
      BY <1>9, <2>2 DEF CompareLibraries, Says, Reports
    <3>3. Pending'
      BY <2>2, <3>1, <3>2, StillPending
    <3>4. ASSUME silent' = {} PROVE AtWork'
      BY <1>1, <1>2, <2>2, <3>1, <3>2, <3>4, Recording
    <3> QED  BY <1>1, <2>0, <2>2, <3>3, <3>4, StillAtWork
  <2> QED  BY <1>9, <2>1, <2>2 DEF CompareLibraries
<1>10. CASE CompareApi
  <2>0. "api" \in Checks /\ "smoke old" \in Checks /\ "smoke old" # "report"
    BY DEF Checks
  <2>1. CASE FailsSilently("api", "smoke old")
    BY <1>1, <1>10, <2>0, <2>1, SilenceKeepsInv DEF CompareApi
  <2>2. CASE /\ \E s \in {"PASS", "WARN", "FAIL"} : Says("api", s, run) \/ Reports("api", s, ApiEvidence')
             /\ pc' = "smoke old"
             /\ \/ UNCHANGED <<made, silent>> /\ Says("api", "FAIL", run)
                \/ FetchSources /\ \E s \in {"PASS", "WARN", "FAIL"} : Reports("api", s, ApiEvidence')
    <3>1. /\ Pending /\ (silent = {} => AtWork)
          /\ "api" \in Checks \ Done /\ Done' = Done \cup {"api"}
          /\ {"old jar", "build"} \subseteq Done
      BY <1>3, <1>10, <2>2 DEF CompareApi, Done, Checks
    <3>2. exit' = exit /\ UNCHANGED <<run, place, job, tests>>
      BY <1>10, <2>2 DEF CompareApi, Says, Reports
    <3>3. Pending'
      BY <2>2, <3>1, <3>2, StillPending
    <3>4. ASSUME silent' = {} PROVE AtWork'
      <4>1. CASE UNCHANGED <<made, silent>> /\ Says("api", "FAIL", run)
        <5>1. Makes("api", "FAIL", run)
          BY <3>1, <3>2, <4>1 DEF Makes, Says, Record
        <5> QED  BY <1>1, <1>2, <3>1, <3>4, <4>1, <5>1, WorkGoesOn
      <4>2. ASSUME FetchSources, NEW s \in {"PASS", "WARN", "FAIL"},
                   Reports("api", s, ApiEvidence')
            PROVE  AtWork'
        <5>1. /\ silent = {}
              /\ made' = IF made["sources"].there THEN made
                         ELSE [made EXCEPT !["sources"] = There(run)]
          BY <3>4, <4>2 DEF FetchSources, Unnoticed
        <5>2. /\ \A a \in Artifacts \ {"sources"} : made'[a] = made[a]
              /\ made'["sources"] = IF made["sources"].there THEN made["sources"] ELSE There(run)
              /\ made'["sources"] \in [there: BOOLEAN, run: 0..MaxRuns]
              /\ made'["sources"].there
              /\ ApiEvidence' \in 0..MaxRuns
          <6>1. made' \in [Artifacts -> [there: BOOLEAN, run: 0..MaxRuns]]
            BY <1>1 DEF TypeOK
          <6>2. /\ \A a \in Artifacts \ {"sources"} : made'[a] = made[a]
                /\ made'["sources"] = IF made["sources"].there THEN made["sources"] ELSE There(run)
            BY <1>1, <5>1 DEF TypeOK, Artifacts
          <6>3. ApiEvidence' \in 0..MaxRuns
            BY <1>2, <6>1 DEF ApiEvidence, Artifacts, Classes
          <6> QED  BY <6>1, <6>2, <6>3 DEF Artifacts, There
        <5>3. made'["classes-old"].run = made["classes-old"].run
              /\ (ABuildFailed \/ made["classes-old"].run = run)
          BY <3>1, <5>1, <5>2, BuiltThisTime DEF Artifacts, Classes
        <5>4. made'["sources"].run = 0 => made'["sources"] = There(0)
          BY <5>2 DEF There
        <5>5. \/ ApiEvidence' = run \/ ABuildFailed
              \/ ApiEvidence' = 0 /\ made'["sources"] = There(0)
          BY <5>3, <5>4 DEF ApiEvidence
        <5>6. place = "workflow" => made'["sources"] = There(run)
          <6>1. place = "workflow" => made["sources"] = Absent
            BY <3>1, <5>1 DEF AtWork
          <6> QED  BY <5>2, <6>1 DEF Absent
        <5>7. Makes("api", s, ApiEvidence')
          BY <3>1, <3>2, <4>2, <5>2, <5>5, <5>6 DEF Makes, Reports, Record, Artifacts, Classes
        <5> QED  BY <1>1, <3>1, <5>1, <5>2, <5>7, WorkGoesOn
      <4> QED  BY <2>2, <4>1, <4>2
    <3> QED  BY <1>1, <2>0, <2>2, <3>3, <3>4, StillAtWork
  <2> QED  BY <1>10, <2>1, <2>2 DEF CompareApi
<1>11. ASSUME NEW c \in {"smoke old", "smoke new"}, NEW jar \in {"old.jar", "new.jar"},
              NEW next \in Checks \cup {"report"}, Smoke(c, jar, next),
              c = "smoke old" => next = "smoke new",
              c = "smoke new" => next = "report" /\ jar = "new.jar"
       PROVE  CheckInv'
  <2>0. /\ c \in Checks /\ pc = c /\ (next = "report" => jar = "new.jar")
        /\ UNCHANGED <<run, place, made, tests, job>>
    BY <1>11 DEF Smoke, Checks
  <2>1. CASE made[jar].there /\ FailsSilently(c, next)
    <3>1. next = "report" => made'["new.jar"].there
      BY <1>11, <2>0, <2>1
    <3> QED  BY <1>1, <1>11, <2>0, <2>1, <3>1, SilenceKeepsInv DEF Smoke, Checks
  <2>2. CASE /\ \/ ~made[jar].there /\ Says(c, "FAIL", run)
                \/ made[jar].there /\ \E s \in {"PASS", "WARN", "FAIL"} : Reports(c, s, made[jar].run)
             /\ pc' = next /\ UNCHANGED silent
    <3>1. /\ Pending /\ (silent = {} => AtWork)
          /\ c \in Checks \ Done /\ Done' = Done \cup {c}
          /\ {"old jar", "build"} \subseteq Done
          /\ c \notin {"old jar", "build", "api"} /\ jar \in Artifacts \ {"sources"}
      <4>1. pc = c  BY <1>11 DEF Smoke
      <4>2. Pending /\ (silent = {} => AtWork)  BY <1>3, <1>11, <4>1 DEF Checks
      <4>3. ASSUME c = "smoke old"
            PROVE  /\ c \in Checks \ Done /\ Done' = Done \cup {c}
                   /\ {"old jar", "build"} \subseteq Done
        <5>1. pc = "smoke old" /\ pc' = "smoke new"
          BY <1>11, <2>2, <4>1, <4>3
        <5> QED  BY <4>3, <5>1 DEF Done, Checks
      <4>4. ASSUME c = "smoke new"
            PROVE  /\ c \in Checks \ Done /\ Done' = Done \cup {c}
                   /\ {"old jar", "build"} \subseteq Done
        <5>1. pc = "smoke new" /\ pc' = "report"
          BY <1>11, <2>2, <4>1, <4>4
        <5> QED  BY <4>4, <5>1 DEF Done, Checks
      <4>5. c \notin {"old jar", "build", "api"} /\ jar \in Artifacts \ {"sources"}
        BY DEF Artifacts, Classes
      <4> QED  BY <1>11, <4>2, <4>3, <4>4, <4>5
    <3>2. exit' = exit
      BY <2>2 DEF Says, Reports
    <3>3. \E s \in {"PASS", "WARN", "FAIL"}, r \in 0..MaxRuns :
            /\ Says(c, s, r) \/ Reports(c, s, r)
            /\ s = "FAIL" \/ made[jar].there
            /\ r = run \/ s = "FAIL" \/ r = made[jar].run
      BY <1>2, <2>2, <3>1
    <3>4. ASSUME next = "report", ~Failed("smoke new")' PROVE made'["new.jar"].there
      <4>1. c = "smoke new" /\ jar = "new.jar"
        BY <1>11, <3>4
      <4>2. PICK s \in {"PASS", "WARN", "FAIL"}, r \in 0..MaxRuns :
              /\ Says(c, s, r) \/ Reports(c, s, r)
              /\ s = "FAIL" \/ made[jar].there
        BY <3>3
      <4>3. results' = [results EXCEPT ![c] = Line(c, s, r)]
        BY <4>2 DEF Says, Reports, Record
      <4>4. c \in Results /\ results \in [Results -> Lines \cup {Nothing}]
        BY <1>1, <4>1 DEF TypeOK, Results, Checks
      <4>5. results'[c] = Line(c, s, r)
        BY <4>3, <4>4
      <4>6. s # "FAIL"
        <5>0. Line(c, s, r).check # Nothing.check
          BY <4>1 DEF Line, Nothing
        <5>1. Line(c, s, r) # Nothing /\ Line(c, s, r).says = s
          BY <5>0 DEF Line
        <5> QED  BY <3>4, <4>1, <4>5, <5>1 DEF Failed
      <4> QED  BY <2>0, <4>1, <4>2, <4>6
    <3>5. Pending'
      BY <2>0, <2>2, <3>1, <3>2, <3>4 DEF Pending, NotRun
    <3>6. ASSUME silent' = {} PROVE AtWork'
      <4>1. AtWork  BY <2>2, <3>1, <3>6
      <4>2. ABuildFailed \/ made[jar].run = run
        BY <3>1, <4>1, BuiltThisTime
      <4> QED  BY <1>1, <2>0, <3>1, <3>3, <4>1, <4>2, Recording
    <3> QED  BY <1>1, <1>11, <2>2, <3>5, <3>6, StillAtWork
  <2> QED  BY <1>11, <2>1, <2>2 DEF Smoke
<1>12. CASE Report
  <2>1. /\ Pending /\ (silent = {} => AtWork)
        /\ pc' = IF place = "workflow" THEN "kerberos" ELSE "idle"
        /\ exit' \in {"ok", "failed"} /\ job' = "none" /\ place' = place
    BY <1>3, <1>12 DEF Report, Pending
  <2>2. exit' = "ok" => Green'
    BY <1>1, <1>12, <2>1, ReportIsGreen
  <2>3. pc' \notin Checks \cup {"report"} /\ (pc' \in Tests \cup {"result"} => place' = "workflow")
    BY <2>1 DEF Checks, Tests
  <2> QED  BY <1>1, <2>1, <2>2, <2>3 DEF CheckInv
<1>13. ASSUME NEW t \in Tests, NEW next \in Tests \cup {"result"}, Test(t, next)
       PROVE  CheckInv'
  <2>1. /\ pc \in Tests /\ pc' = next
        /\ UNCHANGED <<run, place, made, silent, results, exit, job>>
        /\ exit # "none" /\ place = "workflow"
        /\ job = "none" /\ pc' \notin Checks \cup {"report"}
    BY <1>13 DEF Test, CheckInv, Tests, Checks
  <2>2. ASSUME exit = "ok" PROVE Green'
    <3>1. Green /\ made["new.jar"].there
      BY <2>2 DEF CheckInv, Green
    <3>2. JarToTest = "new.jar"
      BY <3>1 DEF JarToTest
    <3>3. PICK passed :
            tests' = [tests EXCEPT ![t] = [passed |-> passed, jar |-> "new.jar"]]
      BY <1>13, <3>2 DEF Test
    <3>4. \A u \in Tests : tests'[u].jar = "new.jar"
      BY <1>1, <3>1, <3>3 DEF Green, TypeOK
    <3> QED  BY <2>1, <3>1, <3>4, StaysGreen
  <2> QED  BY <1>1, <2>1, <2>2 DEF CheckInv
<1>14. CASE Conclude
  <2>1. /\ pc' = "idle" /\ UNCHANGED <<run, place, made, silent, results, exit, tests>>
        /\ exit # "none" /\ place = "workflow"
    BY <1>14 DEF Conclude, CheckInv
  <2>2. exit' = "ok" => Green'
    BY <2>1, StaysGreen DEF CheckInv, Green
  <2>3. job' = "success" =>
          exit' = "ok" /\ tests'["kerberos"].passed /\ tests'["login"].passed
    BY <1>1, <1>14, <2>1 DEF Conclude, JobFails, TypeOK
  <2>4. pc' \notin Checks \cup Tests \cup {"report", "result"}
    BY <2>1 DEF Checks, Tests
  <2> QED  BY <1>1, <2>1, <2>2, <2>3, <2>4 DEF CheckInv
<1>15. CASE Kill
  <2>1. pc' = "idle" /\ UNCHANGED <<run, place, silent, results, exit, tests, job>>
        /\ job = "none"
    BY <1>15 DEF Kill, CheckInv
  <2>2. exit = "ok" => made' = made
    <3>1. ASSUME exit = "ok" PROVE Written = {}
      BY <1>3, <3>1 DEF Pending, Written, Checks
    <3>2. ASSUME Written = {} PROVE made' = made
      <4>1. made' = [a \in Artifacts |-> made[a]]
        BY <1>15, <3>2 DEF Kill
      <4> QED  BY <1>1, <4>1 DEF TypeOK
    <3> QED  BY <3>1, <3>2
  <2>3. exit' = "ok" => Green'
    BY <2>1, <2>2, StaysGreen DEF CheckInv, Green
  <2>4. pc' \notin Checks \cup Tests \cup {"report", "result"}
    BY <2>1 DEF Checks, Tests
  <2> QED  BY <1>1, <2>1, <2>3, <2>4 DEF CheckInv
<1>16. CASE UNCHANGED vars
  <2>1. UNCHANGED <<run, place, pc, made, silent, results, exit, tests, job>>
    BY <1>16 DEF vars
  <2>2. Done' = Done
    BY <2>1 DEF Done
  <2>3. (\A c : Failed(c)' = Failed(c)) /\ There(run)' = There(run) /\ Absent' = Absent
    BY <2>1 DEF Failed, There, Absent
  <2>4. \A c : Sound(c) => Sound(c)'
    BY <2>1 DEF Sound, ABuildFailed, Failed, There
  <2>5. AtWork => AtWork'
    BY <2>1, <2>2, <2>3, <2>4 DEF AtWork
  <2>6. Pending => Pending'
    BY <2>1 DEF Pending, Failed, NotRun
  <2>7. Green => Green'
    BY <2>1, StaysGreen DEF Green
  <2> QED  BY <1>1, <2>1, <2>5, <2>6, <2>7 DEF CheckInv
<1>17. /\ {"smoke old", "smoke new"} \subseteq Checks
       /\ Tests = {"kerberos", "login", "mapper"}
  BY DEF Checks, Tests
<1> QED
  BY <1>4, <1>5, <1>6, <1>7, <1>8, <1>9, <1>10, <1>11, <1>12, <1>13, <1>14, <1>15,
     <1>16, <1>17 DEF Next

\* The inductive invariant holds, for any number of invocations, kills and
\* unnoticed failures.
LEMMA CheckInvHolds == Spec => []CheckInv
<1>1. Init => CheckInv
  <2> SUFFICES ASSUME Init PROVE CheckInv
    OBVIOUS
  <2>1. pc \notin Checks \cup Tests \cup {"report", "result"}
    BY DEF Init, Checks, Tests
  <2> QED  BY <2>1, TypesKept DEF Init, CheckInv
<1>2. CheckInv /\ [Next]_vars => CheckInv'
  BY CheckInvKept
<1> QED  BY <1>1, <1>2, PTL DEF Spec

\* Exit code 0 of an invocation none of whose steps has failed unnoticed means
\* that every check has been made in it, on its own jars and classes, and none
\* has failed, whatever earlier invocations have left in the working directory;
\* only the sources of the API comparison may be theirs, and incomplete.
THEOREM GreenRunsAreChecked == Spec => []GreenMeansChecked
<1>1. CheckInv => GreenMeansChecked
  BY DEF CheckInv, Green, GreenMeansChecked
<1> QED  BY <1>1, CheckInvHolds, PTL

\* A green job of the workflow means a green check and two end-to-end tests
\* passed by the rebuilt jar, which is that of this invocation, as are all the
\* results, unless a step has failed unnoticed.
THEOREM GreenJobsAreTested == Spec => []GreenJobMeansTested
<1>1. CheckInv => GreenJobMeansTested
  <2> SUFFICES ASSUME CheckInv, job = "success" PROVE GreenJobMeansTested
    BY DEF GreenJobMeansTested
  <2>1. /\ exit = "ok" /\ Green /\ place = "workflow"
        /\ \A t \in {"kerberos", "login"} : tests[t].passed /\ tests[t].jar = "new.jar"
    BY DEF CheckInv, Green, Tests
  <2>2. \A t \in {"kerberos", "login"} :
          tests[t] \in [passed: BOOLEAN, jar: {"new.jar", "old.jar"}]
    BY DEF CheckInv, TypeOK, Tests
  <2>3. \A t \in {"kerberos", "login"} : tests[t] = [passed |-> TRUE, jar |-> "new.jar"]
    BY <2>1, <2>2
  <2>4. ASSUME silent = {}, NEW c \in Checks
        PROVE  results[c] \in {Line(c, s, run) : s \in {"PASS", "WARN"}}
    <3>1. made["sources"] = There(run)
      BY <2>1, <2>4 DEF Green
    <3>2. made["sources"] = There(0) => run = 0
      BY <3>1 DEF There
    <3>3. PICK s \in {"PASS", "WARN"} :
            \/ results[c] = Line(c, s, run)
            \/ made["sources"] = There(0) /\ results[c] = Line(c, s, 0)
      BY <2>1, <2>4 DEF Green, GreenMeansChecked
    <3> QED  BY <3>2, <3>3
  <2> QED  BY <2>1, <2>3, <2>4 DEF GreenJobMeansTested, Green
<1> QED  BY <1>1, CheckInvHolds, PTL

=============================================================================

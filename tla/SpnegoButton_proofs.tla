-------------------------- MODULE SpnegoButton_proofs --------------------------
(***************************************************************************)
(* Theorems about the Kerberos button for every browser flow: any number   *)
(* of levels, any number of executions on each.                            *)
(*                                                                         *)
(* The flow engine and the formula a flow stands for are functions that    *)
(* recur from the button up to the top-level flow.  What is proved of them *)
(* is proved by going up one level at a time (Upwards), which rests on the *)
(* least element of a set of natural numbers.                              *)
(*                                                                         *)
(* The last sections are about the end-to-end test of the button, whose    *)
(* script is one more user of it.                                          *)
(***************************************************************************)
EXTENDS KerberosE2E, WellFoundedInduction, TLAPS

-----------------------------------------------------------------------------
(***************************************************************************)
(* From the button up to the top-level flow.                               *)
(***************************************************************************)

Less == {p \in Nat \X Nat : p[1] < p[2]}

LEMMA LessIsWellFounded == IsWellFoundedOn(Less, Nat)
BY NatLessThanWellFounded DEF OpToRel, Less

LEMMA LeastElement ==
  ASSUME NEW T, T \subseteq Nat, T # {}
  PROVE  \E x \in T : \A y \in T : x <= y
<1>1. PICK x \in T : \A y \in T : ~(<<y, x>> \in Less)
  BY LessIsWellFounded, WFMin
<1>2. ASSUME NEW y \in T PROVE x <= y
  <2>1. x \in Nat /\ y \in Nat
    OBVIOUS
  <2>2. y < x => <<y, x>> \in Less
    BY <2>1 DEF Less
  <2>3. ~(y < x)
    BY <1>1, <2>2
  <2> QED
    BY <2>1, <2>3
<1> QED
  BY <1>2

\* The least element is the one Min names.
LEMMA MinIsLeast ==
  ASSUME NEW T, T \subseteq Nat, T # {}
  PROVE  Min(T) \in T /\ \A y \in T : Min(T) <= y
BY LeastElement DEF Min

\* What holds below the last level, and of a level if it holds of the next one,
\* holds of all levels.
LEMMA Upwards ==
  ASSUME NEW D \in Nat, NEW T, D + 1 \in T, \A k \in 1..D : k + 1 \in T => k \in T
  PROVE  \A k \in 1..D + 1 : k \in T
<1> DEFINE U == {n \in Nat : n <= D /\ D + 1 - n \notin T}
<1>1. ASSUME U # {} PROVE FALSE
  <2>1. PICK x \in U : \A y \in U : x <= y
    BY <1>1, LeastElement
  <2>2. x \in Nat /\ x <= D /\ D + 1 - x \notin T /\ x # 0
    BY <2>1
  <2>3. x - 1 \in Nat /\ x - 1 <= D /\ x - 1 \notin U
    BY <2>1, <2>2
  <2>4. D + 1 - (x - 1) \in T
    BY <2>3
  <2>5. D + 1 - x \in 1..D /\ (D + 1 - x) + 1 = D + 1 - (x - 1)
    BY <2>2
  <2> QED
    BY <2>2, <2>4, <2>5
<1>2. ASSUME NEW k \in 1..D + 1 PROVE k \in T
  <2>1. D + 1 - k \in Nat /\ D + 1 - k <= D /\ D + 1 - (D + 1 - k) = k
    BY <1>2
  <2>2. D + 1 - k \notin U
    BY <1>1
  <2> QED
    BY <2>1, <2>2
<1> QED
  BY <1>2

-----------------------------------------------------------------------------
(***************************************************************************)
(* Flows.                                                                  *)
(***************************************************************************)

Statuses == {"none", "challenged", "attempted", "success"}
Sessions == [Executions -> Statuses]

LEMMA FlowFacts ==
  ASSUME flow \in Flows
  PROVE  /\ Depth \in Nat /\ Depth >= 1 /\ Levels = 1..Depth
         /\ \A k \in Levels :
              /\ flow[k] \in Seq(Execution) /\ DOMAIN flow[k] \subseteq Nat
              /\ OnPath(k) \in DOMAIN flow[k]
              /\ \A i \in DOMAIN flow[k] : flow[k][i].does = "path" <=> i = OnPath(k)
<1>1. IsFlow(flow)
  BY FlowAssumption
<1>2. flow \in Seq(Seq(Execution)) /\ flow # << >>
  BY <1>1 DEF IsFlow
<1>3. Depth \in Nat /\ Depth >= 1 /\ Levels = 1..Depth
  BY <1>2 DEF Depth, Levels
<1>4. ASSUME NEW k \in Levels
      PROVE  /\ flow[k] \in Seq(Execution) /\ DOMAIN flow[k] \subseteq Nat
             /\ OnPath(k) \in DOMAIN flow[k]
             /\ \A i \in DOMAIN flow[k] : flow[k][i].does = "path" <=> i = OnPath(k)
  <2>1. flow[k] \in Seq(Execution)
    BY <1>2, <1>3, <1>4 DEF Depth, Levels
  <2>2. DOMAIN flow[k] \subseteq Nat
    BY <2>1
  <2>3. PICK i \in DOMAIN flow[k] :
          \A j \in DOMAIN flow[k] : flow[k][j].does = "path" <=> j = i
    BY <1>1, <1>4 DEF IsFlow, Levels
  <2>4. OnPath(k) = i
    BY <2>3 DEF OnPath
  <2> QED
    BY <2>1, <2>2, <2>3, <2>4
<1> QED
  BY <1>3, <1>4

LEMMA ExecutionsAre ==
  /\ \A k \in Levels : \A i \in DOMAIN flow[k] : <<k, i>> \in Executions
  /\ \A e \in Executions :
       e = <<e[1], e[2]>> /\ e[1] \in Levels /\ e[2] \in DOMAIN flow[e[1]]
BY DEF Executions

LEMMA ButtonFacts ==
  ASSUME flow \in Flows
  PROVE  /\ Button \in Executions
         /\ Button[1] = Depth /\ Button[2] = OnPath(Depth)
<1>1. Depth \in Levels /\ OnPath(Depth) \in DOMAIN flow[Depth]
  BY FlowFacts
<1> QED
  BY <1>1, ExecutionsAre DEF Button

\* The steps of a level are executions of it that are no conditions.
LEMMA StepFacts ==
  ASSUME flow \in Flows, NEW k \in Levels
  PROVE  /\ Mandatory(k) \subseteq Steps(k)
         /\ Steps(k) \subseteq DOMAIN flow[k]
         /\ Steps(k) \subseteq Nat
         /\ \A i \in Steps(k) : /\ <<k, i>> \in Executions
                                /\ Exec(<<k, i>>) = flow[k][i]
                                /\ flow[k][i].does \in {"path", "asks", "stays silent"}
                                /\ flow[k][i].does = "path" <=> i = OnPath(k)
<1>1. Mandatory(k) \subseteq Steps(k) /\ Steps(k) \subseteq DOMAIN flow[k]
  BY DEF Mandatory, Steps
<1>2. DOMAIN flow[k] \subseteq Nat
  BY FlowFacts
<1>3. ASSUME NEW i \in Steps(k)
      PROVE  /\ <<k, i>> \in Executions
             /\ Exec(<<k, i>>) = flow[k][i]
             /\ flow[k][i].does \in {"path", "asks", "stays silent"}
             /\ flow[k][i].does = "path" <=> i = OnPath(k)
  <2>1. i \in DOMAIN flow[k] /\ flow[k][i].does # "condition"
    BY <1>3 DEF Steps
  <2>2. flow[k][i] \in Execution
    BY <2>1, FlowFacts
  <2> QED
    BY <2>1, <2>2, FlowFacts, ExecutionsAre DEF Execution, Exec
<1> QED
  BY <1>1, <1>2, <1>3

-----------------------------------------------------------------------------
(***************************************************************************)
(* Functions that recur towards the button.                                *)
(***************************************************************************)

\* A function f on the levels from 1 to D + 1 with values in V that has the
\* value base below the last level and follows from the next level otherwise.
Recurs(f, D, base, step) ==
  \A k \in 1..D + 1 : f[k] = IF k > D THEN base ELSE step[k][f[k + 1]]

CanRecur(D, V, base, step) == \E f \in [1..D + 1 -> V] : Recurs(f, D, base, step)

\* There always is one.
LEMMA RecursionUp ==
  ASSUME NEW D \in Nat, NEW V, NEW base \in V, NEW step \in [1..D -> [V -> V]]
  PROVE  CanRecur(D, V, base, step)
<1> DEFINE Has(n) == \E f \in [n..D + 1 -> V] :
                       \A k \in n..D + 1 : f[k] = IF k > D THEN base ELSE step[k][f[k + 1]]
           T == {n \in 1..D + 1 : Has(n)}
<1>1. Has(D + 1)
  <2> DEFINE f == [k \in D + 1..D + 1 |-> base]
  <2>1. f \in [D + 1..D + 1 -> V] /\ \A k \in D + 1..D + 1 : f[k] = base /\ k > D
    OBVIOUS
  <2> QED
    BY <2>1
<1>2. ASSUME NEW n \in 1..D, Has(n + 1)
      PROVE  Has(n)
  <2>1. PICK f \in [n + 1..D + 1 -> V] :
          \A k \in n + 1..D + 1 : f[k] = IF k > D THEN base ELSE step[k][f[k + 1]]
    BY <1>2
  <2> DEFINE g == [k \in n..D + 1 |-> IF k = n THEN step[n][f[n + 1]] ELSE f[k]]
  <2>2. n + 1 \in n + 1..D + 1 /\ f[n + 1] \in V /\ step[n][f[n + 1]] \in V
    BY <1>2
  <2>3. \A k \in n..D + 1 : k # n => k \in n + 1..D + 1
    BY <1>2
  <2>4. g \in [n..D + 1 -> V]
    BY <2>2, <2>3
  <2>5. ASSUME NEW k \in n..D + 1
        PROVE  g[k] = IF k > D THEN base ELSE step[k][g[k + 1]]
    <3>1. CASE k = n
      <4>1. ~(k > D) /\ g[k] = step[n][f[n + 1]] /\ g[k + 1] = f[n + 1]
        BY <1>2, <3>1
      <4> QED
        BY <3>1, <4>1
    <3>2. CASE k # n
      <4>1. g[k] = f[k] /\ k \in n + 1..D + 1 /\ (~(k > D) => g[k + 1] = f[k + 1])
        BY <1>2, <2>3, <3>2
      <4> QED
        BY <2>1, <4>1
    <3> QED
      BY <3>1, <3>2
  <2> HIDE DEF g
  <2> QED
    BY <2>4, <2>5
<1>3. D + 1 \in T
  BY <1>1
<1>4. \A k \in 1..D : k + 1 \in T => k \in T
  <2> SUFFICES ASSUME NEW k \in 1..D, k + 1 \in T PROVE k \in T
    OBVIOUS
  <2> HIDE DEF Has
  <2>1. Has(k + 1) /\ k \in 1..D + 1
    OBVIOUS
  <2>2. Has(k)
    BY <1>2, <2>1
  <2> QED
    BY <2>1, <2>2
<1>5. \A k \in 1..D + 1 : k \in T
  <2> HIDE DEF T
  <2> QED
    BY <1>3, <1>4, Upwards
<1>6. 1 \in T
  <2> HIDE DEF T
  <2>1. 1 \in 1..D + 1
    OBVIOUS
  <2> QED
    BY <1>5, <2>1
<1>7. Has(1)
  <2> HIDE DEF Has
  <2> QED
    BY <1>6
<1> QED
  BY <1>7 DEF CanRecur, Recurs

-----------------------------------------------------------------------------
(***************************************************************************)
(* One level of a pass, taken apart.                                       *)
(***************************************************************************)

Candidates(k) == IF Mandatory(k) # {} THEN Mandatory(k) ELSE Steps(k)
GoesOn(k) == IF Mandatory(k) # {} THEN "success" ELSE "attempted"
Settled(st, k) == Mandatory(k) = {} /\ \E i \in Candidates(k) : st[<<k, i>>] = "success"
Stops(st, k, sub) == {i \in Candidates(k) : Result(st, sub, <<k, i>>) # GoesOn(k)}
Reached(st, k, sub) ==
  {i \in Candidates(k) : ~Settled(st, k) /\ \A j \in Stops(st, k, sub) : i <= j}
Entered(st, k, sub) ==
  OnPath(k) \in Reached(st, k, sub) /\ ~Processed(st, <<k, OnPath(k)>>)
LevelResult(st, k, sub) ==
  IF Settled(st, k) THEN "success"
  ELSE IF Stops(st, k, sub) = {} THEN GoesOn(k)
  ELSE Result(st, sub, <<k, Min(Stops(st, k, sub))>>)

LEMMA LevelPassIs ==
  ASSUME NEW st, NEW k, NEW sub
  PROVE  LevelPass(st, k, sub) =
    [result |-> LevelResult(st, k, sub),
     answer |-> IF LevelResult(st, k, sub) # "challenged" THEN Nothing
                ELSE IF Min(Stops(st, k, sub)) = OnPath(k) THEN sub.answer
                ELSE Asking(<<k, Min(Stops(st, k, sub))>>),
     status |-> [e \in DOMAIN st |->
                   IF e[1] = k /\ e[2] \in Reached(st, k, sub) THEN Result(st, sub, e)
                   ELSE IF Entered(st, k, sub) THEN sub.status[e] ELSE st[e]],
     used |-> Entered(st, k, sub) /\ sub.used]
BY DEF LevelPass, LevelResult, Entered, Reached, Stops, Settled, GoesOn, Candidates

\* What a pass can come to, and what it can answer: it asks for no step that
\* is on the path.
Results == {"success", "attempted", "challenged"}
Answers ==
  {Asking(e) : e \in {x \in Executions : x[2] # OnPath(x[1])}}
    \cup {Negotiating(m) : m \in {"GET", "POST"}}
    \cup {Showing(k) : k \in {"nothing", "redirects", "resets"}}
Passes == [result : Results, answer : Answers, status : Sessions, used : BOOLEAN]

\* What a step of a level comes to.
LEMMA ResultFacts ==
  ASSUME flow \in Flows, NEW st \in Sessions, NEW k \in Levels, NEW i \in Steps(k),
         NEW sub, sub.result \in Results
  PROVE  /\ Result(st, sub, <<k, i>>) \in Results
         /\ Result(st, sub, <<k, i>>) = "success" =>
              \/ st[<<k, i>>] = "success"
              \/ /\ i = OnPath(k) /\ ~Processed(st, <<k, i>>)
                 /\ sub.result = "success"
<1>1. /\ <<k, i>> \in Executions /\ Exec(<<k, i>>) = flow[k][i]
      /\ flow[k][i].does \in {"path", "asks", "stays silent"}
      /\ flow[k][i].does = "path" <=> i = OnPath(k)
  BY StepFacts
<1>2. CASE Processed(st, <<k, i>>)
  BY <1>2 DEF Result, Processed, Results
<1>3. CASE ~Processed(st, <<k, i>>)
  BY <1>1, <1>3 DEF Result, Results
<1> QED
  BY <1>2, <1>3

LEMMA CandidateFacts ==
  ASSUME flow \in Flows, NEW k \in Levels
  PROVE  Candidates(k) \subseteq Steps(k) /\ Candidates(k) \subseteq Nat
BY StepFacts DEF Candidates

\* A level that does not go on to its end stops at its first stop.
LEMMA FirstStop ==
  ASSUME flow \in Flows, NEW st \in Sessions, NEW k \in Levels,
         NEW sub, Stops(st, k, sub) # {}
  PROVE  /\ Min(Stops(st, k, sub)) \in Stops(st, k, sub)
         /\ Min(Stops(st, k, sub)) \in Steps(k)
         /\ \A j \in Stops(st, k, sub) : Min(Stops(st, k, sub)) <= j
         /\ ~Settled(st, k) => Min(Stops(st, k, sub)) \in Reached(st, k, sub)
<1>1. Stops(st, k, sub) \subseteq Candidates(k)
  BY DEF Stops
<1>2. Stops(st, k, sub) \subseteq Nat /\ Stops(st, k, sub) \subseteq Steps(k)
  BY <1>1, CandidateFacts
<1> QED
  BY <1>1, <1>2, MinIsLeast DEF Reached

LEMMA LevelTyped ==
  ASSUME flow \in Flows, NEW st \in Sessions, NEW k \in Levels, NEW sub \in Passes
  PROVE  LevelPass(st, k, sub) \in Passes
<1>1. sub.result \in Results /\ sub.answer \in Answers /\ sub.status \in Sessions
      /\ sub.used \in BOOLEAN
  BY DEF Passes
<1>2. LevelResult(st, k, sub) \in Results
  <2>1. CASE Settled(st, k) \/ Stops(st, k, sub) = {}
    BY <2>1 DEF LevelResult, GoesOn, Results
  <2>2. CASE ~Settled(st, k) /\ Stops(st, k, sub) # {}
    BY <1>1, <2>2, FirstStop, ResultFacts DEF LevelResult
  <2> QED
    BY <2>1, <2>2
<1>3. LevelPass(st, k, sub).answer \in Answers
  <2>1. CASE LevelResult(st, k, sub) # "challenged"
    BY <2>1, LevelPassIs DEF Answers, Nothing
  <2>2. CASE LevelResult(st, k, sub) = "challenged"
    <3>1. Stops(st, k, sub) # {}
      BY <2>2 DEF LevelResult, GoesOn
    <3> DEFINE i == Min(Stops(st, k, sub))
    <3>2. <<k, i>> \in Executions
      BY <3>1, FirstStop, StepFacts
    <3>3. i # OnPath(k) => Asking(<<k, i>>) \in Answers
      BY <3>2 DEF Answers
    <3> QED
      BY <1>1, <2>2, <3>3, LevelPassIs
  <2> QED
    BY <2>1, <2>2
<1>4. ASSUME NEW e \in Executions
      PROVE  (IF e[1] = k /\ e[2] \in Reached(st, k, sub) THEN Result(st, sub, e)
              ELSE IF Entered(st, k, sub) THEN sub.status[e] ELSE st[e]) \in Statuses
  <2>1. sub.status[e] \in Statuses /\ st[e] \in Statuses
    BY <1>1 DEF Sessions
  <2>2. ASSUME e[1] = k, e[2] \in Reached(st, k, sub)
        PROVE  Result(st, sub, e) \in Statuses
    <3>1. e = <<k, e[2]>> /\ e[2] \in Steps(k)
      BY <2>2, ExecutionsAre, CandidateFacts DEF Reached
    <3>2. Result(st, sub, <<k, e[2]>>) \in Results
      BY <1>1, <3>1, ResultFacts
    <3> QED
      BY <3>1, <3>2 DEF Results, Statuses
  <2> QED
    BY <2>1, <2>2
<1>5. DOMAIN st = Executions
  BY DEF Sessions
<1>6. LevelPass(st, k, sub).status \in Sessions
  BY <1>4, <1>5, LevelPassIs DEF Sessions
<1>7. (Entered(st, k, sub) /\ sub.used) \in BOOLEAN
  OBVIOUS
<1> QED
  BY <1>2, <1>3, <1>6, <1>7, LevelPassIs DEF Passes

-----------------------------------------------------------------------------
(***************************************************************************)
(* A whole pass.                                                           *)
(***************************************************************************)

Requests == {Get(ticket) : ticket \in Headers} \cup {Post(ticket) : ticket \in Headers}

LEMMA RequestFacts ==
  ASSUME NEW r \in Requests
  PROVE  /\ r.method \in {"GET", "POST"} /\ r.ticket \in Headers /\ r.selects = FALSE
         /\ r.ticket \in {"none", "valid", "rejected", "continue"}
BY FlowAssumption DEF Requests, Get, Post, Headers

\* What the button does with a request that does not select it.
LEMMA ButtonDoesFacts ==
  ASSUME NEW r \in Requests, NEW note \in BOOLEAN
  PROVE  /\ Evaluates(r, note) => note /\ r.ticket # "none"
         /\ ButtonDoes(r, note) \in
              {"succeeds", "goes on", "resets", "attempted", "challenges"}
         /\ ButtonDoes(r, note) = "succeeds" => Evaluates(r, note) /\ r.ticket = "valid"
         /\ ButtonDoes(r, note) = "resets" => Evaluates(r, note)
<1>1. CASE Evaluates(r, note)
  BY <1>1, RequestFacts DEF Evaluates, ButtonDoes, Validated
<1>2. CASE ~Evaluates(r, note)
  BY <1>2, RequestFacts DEF ButtonDoes, Evaluates
<1> QED
  BY <1>1, <1>2

LEMMA ButtonPassFacts ==
  ASSUME NEW st \in Sessions, NEW r \in Requests, NEW note \in BOOLEAN
  PROVE  /\ ButtonPass(st, r, note) \in Passes
         /\ ButtonPass(st, r, note).status = st
         /\ ButtonPass(st, r, note).used = Evaluates(r, note)
         /\ ButtonPass(st, r, note).result = "success" =>
              Evaluates(r, note) /\ r.ticket = "valid"
         /\ ButtonPass(st, r, note).answer = Showing("resets") => Evaluates(r, note)
         /\ ButtonPass(st, r, note).answer # Showing("redirects")
<1>1. /\ ButtonDoes(r, note) \in {"succeeds", "goes on", "resets", "attempted", "challenges"}
      /\ ButtonDoes(r, note) = "succeeds" => Evaluates(r, note) /\ r.ticket = "valid"
      /\ ButtonDoes(r, note) = "resets" => Evaluates(r, note)
  BY ButtonDoesFacts
<1>2. Evaluates(r, note) \in BOOLEAN /\ r.method \in {"GET", "POST"}
  BY RequestFacts DEF Evaluates
<1>3. Negotiating(r.method) \in Answers /\ Nothing \in Answers /\ Showing("resets") \in Answers
  BY <1>2 DEF Answers, Nothing
<1>4. /\ \A m : Negotiating(m) # Showing("resets") /\ Negotiating(m) # Showing("redirects")
      /\ Nothing # Showing("resets") /\ Nothing # Showing("redirects")
      /\ Showing("resets") # Showing("redirects")
  BY DEF Negotiating, Showing, Nothing
<1>5. CASE ButtonDoes(r, note) = "succeeds"
  BY <1>1, <1>2, <1>3, <1>4, <1>5 DEF ButtonPass, Passes, Results
<1>6. CASE ButtonDoes(r, note) = "attempted"
  BY <1>1, <1>2, <1>3, <1>4, <1>6 DEF ButtonPass, Passes, Results
<1>7. CASE ButtonDoes(r, note) \in {"challenges", "goes on"}
  BY <1>1, <1>2, <1>3, <1>4, <1>7 DEF ButtonPass, Passes, Results
<1>8. CASE ButtonDoes(r, note) = "resets"
  BY <1>1, <1>2, <1>3, <1>4, <1>8 DEF ButtonPass, Passes, Results
<1> QED
  BY <1>1, <1>5, <1>6, <1>7, <1>8

IsPass(p, st, r, note) ==
  p = [k \in 1..Depth + 1 |->
         IF k > Depth THEN ButtonPass(st, r, note)
         ELSE CHOOSE q \in {LevelPass(st, k, sub) : sub \in {p[k + 1]}} : TRUE]

\* A pass goes from the button up, one level on top of the next.
LEMMA PassRecurs ==
  ASSUME flow \in Flows, NEW st \in Sessions, NEW r \in Requests, NEW note \in BOOLEAN
  PROVE  \E p \in [1..Depth + 1 -> Passes] :
           /\ p[Depth + 1] = ButtonPass(st, r, note)
           /\ \A k \in 1..Depth : p[k] = LevelPass(st, k, p[k + 1])
           /\ Pass(st, r, note) = p[1]
<1>1. Depth \in Nat /\ Levels = 1..Depth
  BY FlowFacts
<1> DEFINE step == [k \in 1..Depth |-> [sub \in Passes |-> LevelPass(st, k, sub)]]
           base == ButtonPass(st, r, note)
<1>2. base \in Passes
  BY ButtonPassFacts
<1>3. step \in [1..Depth -> [Passes -> Passes]]
  BY <1>1, LevelTyped
<1>4. PICK f \in [1..Depth + 1 -> Passes] :
        \A k \in 1..Depth + 1 : f[k] = IF k > Depth THEN base ELSE step[k][f[k + 1]]
  <2> HIDE DEF step, base
  <2>1. CanRecur(Depth, Passes, base, step)
    BY <1>1, <1>2, <1>3, RecursionUp
  <2> QED
    BY <2>1 DEF CanRecur, Recurs
<1>5. ASSUME NEW k \in 1..Depth PROVE f[k] = LevelPass(st, k, f[k + 1])
  <2>1. k \in 1..Depth + 1 /\ k + 1 \in 1..Depth + 1 /\ ~(k > Depth)
    BY <1>1
  <2>2. f[k + 1] \in Passes
    BY <2>1
  <2>3. f[k] = step[k][f[k + 1]]
    BY <1>4, <2>1
  <2> QED
    BY <2>2, <2>3
<1>6. IsPass(f, st, r, note)
  <2>1. \A x : (CHOOSE q \in {x} : TRUE) = x
    OBVIOUS
  <2>2. \A k \in 1..Depth + 1 :
          f[k] = IF k > Depth THEN ButtonPass(st, r, note)
                 ELSE CHOOSE q \in {LevelPass(st, k, sub) : sub \in {f[k + 1]}} : TRUE
    <3> SUFFICES ASSUME NEW k \in 1..Depth + 1
                 PROVE  f[k] = IF k > Depth THEN ButtonPass(st, r, note)
                               ELSE CHOOSE q \in {LevelPass(st, k, sub) : sub \in {f[k + 1]}} : TRUE
      OBVIOUS
    <3>1. {LevelPass(st, k, sub) : sub \in {f[k + 1]}} = {LevelPass(st, k, f[k + 1])}
      OBVIOUS
    <3>2. CASE k > Depth
      BY <1>1, <1>4, <3>2
    <3>3. CASE ~(k > Depth)
      BY <1>1, <1>5, <2>1, <3>1, <3>3
    <3> QED
      BY <3>2, <3>3
  <2> QED
    BY <2>2 DEF IsPass
<1> DEFINE p == CHOOSE q : IsPass(q, st, r, note)
<1>7. IsPass(p, st, r, note) /\ Pass(st, r, note) = p[1]
  BY <1>6 DEF Pass, IsPass
<1> HIDE DEF p
<1>8. /\ DOMAIN p = 1..Depth + 1
      /\ p[Depth + 1] = ButtonPass(st, r, note)
      /\ \A k \in 1..Depth : p[k] = LevelPass(st, k, p[k + 1])
  <2>1. \A x : (CHOOSE q \in {x} : TRUE) = x
    OBVIOUS
  <2>2. ASSUME NEW k \in 1..Depth
        PROVE  p[k] = LevelPass(st, k, p[k + 1])
    <3>1. {LevelPass(st, k, sub) : sub \in {p[k + 1]}} = {LevelPass(st, k, p[k + 1])}
      OBVIOUS
    <3>2. p[k] = CHOOSE q \in {LevelPass(st, k, sub) : sub \in {p[k + 1]}} : TRUE
      BY <1>1, <1>7 DEF IsPass
    <3> QED
      BY <2>1, <3>1, <3>2
  <2> QED
    BY <1>1, <1>7, <2>2 DEF IsPass
<1>9. \A k \in 1..Depth + 1 : p[k] \in Passes
  <2> DEFINE T == {k \in 1..Depth + 1 : p[k] \in Passes}
  <2>1. Depth + 1 \in T
    BY <1>1, <1>2, <1>8
  <2>2. \A k \in 1..Depth : k + 1 \in T => k \in T
    BY <1>1, <1>8, LevelTyped
  <2>3. \A k \in 1..Depth + 1 : k \in T
    <3> HIDE DEF T
    <3> QED
      BY <1>1, <2>1, <2>2, Upwards
  <2> QED
    BY <2>3
<1>10. p = [k \in 1..Depth + 1 |-> p[k]]
  BY <1>7 DEF IsPass
<1> QED
  BY <1>7, <1>8, <1>9, <1>10

-----------------------------------------------------------------------------
(***************************************************************************)
(* What the flow, read as a formula, says of a set of passed steps.        *)
(***************************************************************************)

\* Level k is passed with the steps in pr when the level below it is, or not.
LevelWon(k, pr, below) ==
  IF Mandatory(k) # {}
  THEN \A i \in Mandatory(k) : IF i = OnPath(k) THEN below ELSE <<k, i>> \in pr
  ELSE \E i \in Steps(k) : IF i = OnPath(k) THEN below ELSE <<k, i>> \in pr

IsWon(f, pr) ==
  f = [k \in 1..Depth + 1 |->
         IF k > Depth THEN Button \in pr ELSE LevelWon(k, pr, f[k + 1])]

\* The levels that are passed with the steps in pr.
Won(pr) == CHOOSE f : IsWon(f, pr)

LEMMA WonRecurs ==
  ASSUME flow \in Flows, NEW pr
  PROVE  /\ Won(pr) \in [1..Depth + 1 -> BOOLEAN]
         /\ Won(pr)[Depth + 1] <=> Button \in pr
         /\ \A k \in 1..Depth : Won(pr)[k] <=> LevelWon(k, pr, Won(pr)[k + 1])
<1>1. Depth \in Nat
  BY FlowFacts
<1> DEFINE step == [k \in 1..Depth |-> [b \in BOOLEAN |-> LevelWon(k, pr, b)]]
           base == Button \in pr
<1>2. base \in BOOLEAN
  OBVIOUS
<1>3. \A k, b : LevelWon(k, pr, b) \in BOOLEAN
  BY DEF LevelWon
<1>4. step \in [1..Depth -> [BOOLEAN -> BOOLEAN]]
  BY <1>3
<1>5. PICK f \in [1..Depth + 1 -> BOOLEAN] :
        \A k \in 1..Depth + 1 : f[k] = IF k > Depth THEN base ELSE step[k][f[k + 1]]
  <2> HIDE DEF step, base
  <2>1. CanRecur(Depth, BOOLEAN, base, step)
    BY <1>1, <1>2, <1>4, RecursionUp
  <2> QED
    BY <2>1 DEF CanRecur, Recurs
<1>6. ASSUME NEW k \in 1..Depth + 1
      PROVE  f[k] = IF k > Depth THEN Button \in pr ELSE LevelWon(k, pr, f[k + 1])
  <2>1. CASE k > Depth
    BY <1>1, <1>5, <2>1
  <2>2. CASE ~(k > Depth)
    <3>1. k \in 1..Depth /\ k + 1 \in 1..Depth + 1
      BY <1>1, <2>2
    <3>2. f[k + 1] \in BOOLEAN
      BY <3>1
    <3>3. f[k] = step[k][f[k + 1]]
      BY <1>5, <2>2
    <3> QED
      BY <2>2, <3>1, <3>2, <3>3
  <2> QED
    BY <2>1, <2>2
<1>7. IsWon(f, pr)
  BY <1>6 DEF IsWon
<1>8. IsWon(Won(pr), pr)
  BY <1>7 DEF Won
<1>9. /\ Won(pr) = [k \in 1..Depth + 1 |-> Won(pr)[k]]
      /\ \A k \in 1..Depth + 1 :
           Won(pr)[k] = IF k > Depth THEN Button \in pr
                        ELSE LevelWon(k, pr, Won(pr)[k + 1])
  BY <1>8 DEF IsWon
<1>10. ASSUME NEW k \in 1..Depth + 1 PROVE Won(pr)[k] \in BOOLEAN
  <2>1. CASE k > Depth
    <3>1. Won(pr)[k] = (Button \in pr)
      BY <1>9, <2>1
    <3> QED
      BY <3>1
  <2>2. CASE ~(k > Depth)
    <3>1. Won(pr)[k] = LevelWon(k, pr, Won(pr)[k + 1])
      BY <1>9, <2>2
    <3> QED
      BY <1>3, <3>1
  <2> QED
    BY <2>1, <2>2
<1>11. Depth + 1 \in 1..Depth + 1 /\ Depth + 1 > Depth
  BY <1>1
<1>12. \A k \in 1..Depth : k \in 1..Depth + 1 /\ ~(k > Depth)
  BY <1>1
<1> QED
  BY <1>9, <1>10, <1>11, <1>12

\* It is what Satisfied computes.
LEMMA SatisfiedIsWon == Satisfied = Won(proven)[1]
BY DEF Satisfied, Won, IsWon, LevelWon

\* Passing more steps never undoes a level.
LEMMA WonGrows ==
  ASSUME flow \in Flows, NEW pr, NEW more, pr \subseteq more
  PROVE  \A k \in 1..Depth + 1 : Won(pr)[k] => Won(more)[k]
<1> DEFINE T == {k \in 1..Depth + 1 : Won(pr)[k] => Won(more)[k]}
<1>1. Depth \in Nat
  BY FlowFacts
<1>2. Depth + 1 \in T
  BY <1>1, WonRecurs
<1>3. \A k \in 1..Depth : k + 1 \in T => k \in T
  <2> SUFFICES ASSUME NEW k \in 1..Depth, k + 1 \in T PROVE k \in T
    OBVIOUS
  <2>1. Won(pr)[k + 1] => Won(more)[k + 1]
    OBVIOUS
  <2>2. LevelWon(k, pr, Won(pr)[k + 1]) => LevelWon(k, more, Won(more)[k + 1])
    BY <2>1 DEF LevelWon
  <2>3. k \in 1..Depth + 1
    BY <1>1
  <2> QED
    BY <2>2, <2>3, WonRecurs
<1>4. \A k \in 1..Depth + 1 : k \in T
  <2> HIDE DEF T
  <2> QED
    BY <1>1, <1>2, <1>3, Upwards
<1> QED
  BY <1>4

\* The session records nothing as passed that is not passed with the steps in pr.
Honest(st, pr) ==
  \A e \in Executions :
    st[e] = "success" =>
      IF e[2] = OnPath(e[1]) THEN Won(pr)[e[1] + 1] ELSE e \in pr

LEMMA HonestGrows ==
  ASSUME flow \in Flows, NEW st, NEW pr, NEW more, pr \subseteq more, Honest(st, pr)
  PROVE  Honest(st, more)
<1> SUFFICES ASSUME NEW e \in Executions, st[e] = "success"
             PROVE  IF e[2] = OnPath(e[1]) THEN Won(more)[e[1] + 1] ELSE e \in more
  BY DEF Honest
<1>1. e[1] + 1 \in 1..Depth + 1
  <2>1. e[1] \in 1..Depth /\ Depth \in Nat
    BY FlowFacts, ExecutionsAre
  <2> QED
    BY <2>1
<1>2. IF e[2] = OnPath(e[1]) THEN Won(pr)[e[1] + 1] ELSE e \in pr
  BY DEF Honest
<1>3. Won(pr)[e[1] + 1] => Won(more)[e[1] + 1]
  BY <1>1, WonGrows
<1> QED
  BY <1>2, <1>3

-----------------------------------------------------------------------------
(***************************************************************************)
(* A pass counts nothing as passed that is not.                            *)
(***************************************************************************)

\* What one level adds to the pass below it.
LEMMA LevelAdds ==
  ASSUME flow \in Flows, NEW st \in Sessions, NEW k \in Levels, NEW sub \in Passes
  PROVE  LET lp == LevelPass(st, k, sub)
             entered == Entered(st, k, sub)
             done(i) == \/ st[<<k, i>>] = "success"
                        \/ i = OnPath(k) /\ entered /\ sub.result = "success"
         IN  /\ lp.used = (entered /\ sub.used)
             /\ lp.answer = Showing("resets") => entered /\ sub.answer = Showing("resets")
             /\ lp.answer = Showing("redirects") => sub.answer = Showing("redirects")
             /\ \A e \in Executions : lp.status[e] = "success" =>
                  \/ st[e] = "success"
                  \/ entered /\ sub.status[e] = "success"
                  \/ entered /\ e = <<k, OnPath(k)>> /\ sub.result = "success"
             /\ lp.result = "success" =>
                  IF Mandatory(k) # {} THEN \A i \in Mandatory(k) : done(i)
                  ELSE \E i \in Steps(k) : done(i)
<1> DEFINE lp == LevelPass(st, k, sub)
           entered == Entered(st, k, sub)
           done(i) == \/ st[<<k, i>>] = "success"
                      \/ i = OnPath(k) /\ entered /\ sub.result = "success"
<1>1. sub.result \in Results
  BY DEF Passes
<1>2. lp.used = (entered /\ sub.used)
  BY LevelPassIs
<1>3. /\ lp.answer = Showing("resets") => sub.answer = Showing("resets")
      /\ lp.answer = Showing("redirects") => sub.answer = Showing("redirects")
  BY LevelPassIs DEF Nothing, Showing, Asking
<1>a. ASSUME lp.answer = Showing("resets") PROVE entered
  <2>1. LevelResult(st, k, sub) = "challenged" /\ Min(Stops(st, k, sub)) = OnPath(k)
    BY <1>a, LevelPassIs DEF Nothing, Showing, Asking
  <2>2. /\ ~Settled(st, k) /\ Stops(st, k, sub) # {}
        /\ Result(st, sub, <<k, OnPath(k)>>) = "challenged"
    BY <2>1 DEF LevelResult, GoesOn
  <2>3. OnPath(k) \in Reached(st, k, sub)
    BY <2>1, <2>2, FirstStop
  <2> QED
    BY <2>2, <2>3 DEF Entered, Result, Processed
<1>4. ASSUME NEW i \in Reached(st, k, sub), Result(st, sub, <<k, i>>) = "success"
      PROVE  done(i)
  <2>1. i \in Steps(k)
    BY CandidateFacts DEF Reached
  <2>2. \/ st[<<k, i>>] = "success"
        \/ i = OnPath(k) /\ ~Processed(st, <<k, i>>) /\ sub.result = "success"
    BY <1>1, <1>4, <2>1, ResultFacts
  <2> QED
    BY <1>4, <2>2 DEF Entered
<1>5. ASSUME NEW e \in Executions, lp.status[e] = "success"
      PROVE  \/ st[e] = "success"
             \/ entered /\ sub.status[e] = "success"
             \/ entered /\ e = <<k, OnPath(k)>> /\ sub.result = "success"
  <2>1. lp.status[e] = IF e[1] = k /\ e[2] \in Reached(st, k, sub) THEN Result(st, sub, e)
                       ELSE IF entered THEN sub.status[e] ELSE st[e]
    BY LevelPassIs DEF Sessions
  <2>2. CASE e[1] = k /\ e[2] \in Reached(st, k, sub)
    <3>1. e = <<k, e[2]>>
      BY <2>2, ExecutionsAre
    <3>2. done(e[2])
      BY <1>4, <1>5, <2>1, <2>2, <3>1
    <3> QED
      BY <3>1, <3>2
  <2>3. CASE ~(e[1] = k /\ e[2] \in Reached(st, k, sub))
    BY <1>5, <2>1, <2>3
  <2> QED
    BY <2>2, <2>3
<1>6. ASSUME lp.result = "success"
      PROVE  IF Mandatory(k) # {} THEN \A i \in Mandatory(k) : done(i)
             ELSE \E i \in Steps(k) : done(i)
  <2>1. LevelResult(st, k, sub) = "success"
    BY <1>6, LevelPassIs
  <2>2. CASE Mandatory(k) # {}
    <3>1. ~Settled(st, k) /\ GoesOn(k) = "success" /\ Candidates(k) = Mandatory(k)
      BY <2>2 DEF Settled, GoesOn, Candidates
    <3>2. Stops(st, k, sub) = {}
      <4>1. ASSUME Stops(st, k, sub) # {} PROVE FALSE
        <5>1. Result(st, sub, <<k, Min(Stops(st, k, sub))>>) # "success"
          BY <3>1, <4>1, FirstStop DEF Stops
        <5> QED
          BY <2>1, <3>1, <4>1, <5>1 DEF LevelResult
      <4> QED
        BY <4>1
    <3>3. \A i \in Mandatory(k) : /\ i \in Reached(st, k, sub)
                                  /\ Result(st, sub, <<k, i>>) = "success"
      BY <3>1, <3>2 DEF Reached, Stops
    <3> QED
      BY <1>4, <2>2, <3>3
  <2>3. CASE Mandatory(k) = {}
    <3>1. GoesOn(k) = "attempted" /\ Candidates(k) = Steps(k)
      BY <2>3 DEF GoesOn, Candidates
    <3>2. CASE Settled(st, k)
      BY <2>3, <3>1, <3>2 DEF Settled
    <3>3. CASE ~Settled(st, k)
      <4>1. Stops(st, k, sub) # {}
        BY <2>1, <3>1, <3>3 DEF LevelResult
      <4>2. Result(st, sub, <<k, Min(Stops(st, k, sub))>>) = "success"
        BY <2>1, <3>3, <4>1 DEF LevelResult
      <4>3. Min(Stops(st, k, sub)) \in Reached(st, k, sub) /\ Min(Stops(st, k, sub)) \in Steps(k)
        BY <3>3, <4>1, FirstStop
      <4> QED
        BY <1>4, <2>3, <4>2, <4>3
    <3> QED
      BY <3>2, <3>3
  <2> QED
    BY <2>2, <2>3
<1> HIDE DEF lp, entered, done
<1> QED
  BY <1>2, <1>3, <1>a, <1>5, <1>6 DEF lp, entered, done

\* The steps passed after a pass: an evaluated valid ticket passes the button.
After(p, r, pr) == IF p.used /\ r.ticket = "valid" THEN pr \cup {Button} ELSE pr

LEMMA LevelHonest ==
  ASSUME flow \in Flows, NEW st \in Sessions, NEW k \in Levels, NEW sub \in Passes,
         NEW r, NEW pr, Honest(st, pr), Honest(sub.status, After(sub, r, pr)),
         sub.result = "success" => Won(After(sub, r, pr))[k + 1]
  PROVE  LET lp == LevelPass(st, k, sub)
         IN  /\ Honest(lp.status, After(lp, r, pr))
             /\ lp.result = "success" => Won(After(lp, r, pr))[k]
<1> DEFINE lp == LevelPass(st, k, sub)
           entered == Entered(st, k, sub)
           done(i) == \/ st[<<k, i>>] = "success"
                      \/ i = OnPath(k) /\ entered /\ sub.result = "success"
           aft == After(lp, r, pr)
<1>1. /\ lp.used = (entered /\ sub.used)
      /\ \A e \in Executions : lp.status[e] = "success" =>
           \/ st[e] = "success"
           \/ entered /\ sub.status[e] = "success"
           \/ entered /\ e = <<k, OnPath(k)>> /\ sub.result = "success"
      /\ lp.result = "success" =>
           IF Mandatory(k) # {} THEN \A i \in Mandatory(k) : done(i)
           ELSE \E i \in Steps(k) : done(i)
  BY LevelAdds
<1> HIDE DEF lp, entered
<1>2. pr \subseteq aft /\ (entered => aft = After(sub, r, pr))
  BY <1>1 DEF After
<1> HIDE DEF aft
<1>3. Honest(st, aft)
  BY <1>2, HonestGrows
<1>4. ASSUME entered, sub.result = "success" PROVE Won(aft)[k + 1]
  BY <1>2, <1>4
<1>5. Honest(lp.status, aft)
  <2> SUFFICES ASSUME NEW e \in Executions, lp.status[e] = "success"
               PROVE  IF e[2] = OnPath(e[1]) THEN Won(aft)[e[1] + 1] ELSE e \in aft
    BY DEF Honest
  <2>1. CASE st[e] = "success"
    BY <1>3, <2>1 DEF Honest
  <2>2. CASE entered /\ sub.status[e] = "success"
    BY <1>2, <2>2 DEF Honest
  <2>3. CASE entered /\ e = <<k, OnPath(k)>> /\ sub.result = "success"
    BY <1>4, <2>3
  <2> QED
    BY <1>1, <2>1, <2>2, <2>3
<1>6. ASSUME NEW i \in Steps(k), done(i)
      PROVE  IF i = OnPath(k) THEN Won(aft)[k + 1] ELSE <<k, i>> \in aft
  <2>1. <<k, i>> \in Executions
    BY StepFacts
  <2>2. CASE st[<<k, i>>] = "success"
    BY <1>3, <2>1, <2>2 DEF Honest
  <2>3. CASE i = OnPath(k) /\ entered /\ sub.result = "success"
    BY <1>4, <2>3
  <2> QED
    BY <1>6, <2>2, <2>3
<1>7. ASSUME lp.result = "success" PROVE Won(aft)[k]
  <2> HIDE DEF done
  <2>1. Mandatory(k) \subseteq Steps(k)
    BY StepFacts
  <2>2. LevelWon(k, aft, Won(aft)[k + 1])
    BY <1>1, <1>6, <1>7, <2>1 DEF LevelWon
  <2>3. k \in 1..Depth
    BY FlowFacts
  <2> QED
    BY <2>2, <2>3, WonRecurs
<1> QED
  BY <1>5, <1>7 DEF aft, lp

LEMMA PassHonest ==
  ASSUME flow \in Flows, NEW st \in Sessions, NEW r \in Requests, NEW note \in BOOLEAN,
         NEW pr, Honest(st, pr)
  PROVE  LET p == Pass(st, r, note)
         IN  /\ p \in Passes
             /\ Honest(p.status, After(p, r, pr))
             /\ p.result = "success" => Won(After(p, r, pr))[1]
             /\ p.used => note
             /\ p.answer = Showing("resets") => p.used
             /\ p.answer # Showing("redirects")
<1>1. Depth \in Nat /\ Depth >= 1 /\ Levels = 1..Depth
  BY FlowFacts
<1>2. PICK p \in [1..Depth + 1 -> Passes] :
        /\ p[Depth + 1] = ButtonPass(st, r, note)
        /\ \A k \in 1..Depth : p[k] = LevelPass(st, k, p[k + 1])
        /\ Pass(st, r, note) = p[1]
  BY PassRecurs
<1> DEFINE Good(k) == /\ Honest(p[k].status, After(p[k], r, pr))
                      /\ p[k].result = "success" => Won(After(p[k], r, pr))[k]
                      /\ p[k].used => note
                      /\ p[k].answer = Showing("resets") => p[k].used
                      /\ p[k].answer # Showing("redirects")
           T == {k \in 1..Depth + 1 : Good(k)}
<1>3. Good(Depth + 1)
  <2> DEFINE b == ButtonPass(st, r, note)
  <2>1. /\ b.status = st /\ b.used = Evaluates(r, note)
        /\ b.result = "success" => Evaluates(r, note) /\ r.ticket = "valid"
        /\ b.answer = Showing("resets") => Evaluates(r, note)
        /\ b.answer # Showing("redirects")
    BY ButtonPassFacts
  <2>a. Evaluates(r, note) => note
    BY ButtonDoesFacts
  <2> HIDE DEF b
  <2>2. pr \subseteq After(b, r, pr) /\ (b.result = "success" => Button \in After(b, r, pr))
    BY <2>1 DEF After
  <2>3. Honest(b.status, After(b, r, pr))
    BY <2>1, <2>2, HonestGrows
  <2>4. b.result = "success" => Won(After(b, r, pr))[Depth + 1]
    BY <2>2, WonRecurs
  <2>5. p[Depth + 1] = b
    BY <1>2 DEF b
  <2> QED
    BY <2>1, <2>a, <2>3, <2>4, <2>5
<1>4. ASSUME NEW k \in 1..Depth, Good(k + 1)
      PROVE  Good(k)
  <2>1. p[k + 1] \in Passes /\ p[k] = LevelPass(st, k, p[k + 1])
    BY <1>1, <1>2
  <2>2. /\ Honest(p[k].status, After(p[k], r, pr))
        /\ p[k].result = "success" => Won(After(p[k], r, pr))[k]
    BY <1>1, <1>4, <2>1, LevelHonest
  <2>3. /\ p[k].used => p[k + 1].used
        /\ p[k].answer = Showing("resets") =>
             p[k + 1].answer = Showing("resets") /\ (p[k + 1].used => p[k].used)
        /\ p[k].answer = Showing("redirects") => p[k + 1].answer = Showing("redirects")
    <3> DEFINE sub == p[k + 1]
               lp == LevelPass(st, k, sub)
    <3>1. /\ lp.used = (Entered(st, k, sub) /\ sub.used)
          /\ lp.answer = Showing("resets") =>
               Entered(st, k, sub) /\ sub.answer = Showing("resets")
          /\ lp.answer = Showing("redirects") => sub.answer = Showing("redirects")
      <4> HIDE DEF sub
      <4> QED
        BY <1>1, <2>1, LevelAdds DEF sub
    <3> QED
      BY <2>1, <3>1
  <2> QED
    BY <1>4, <2>2, <2>3
<1>5. \A k \in 1..Depth : k + 1 \in T => k \in T
  <2> SUFFICES ASSUME NEW k \in 1..Depth, k + 1 \in T PROVE k \in T
    OBVIOUS
  <2> HIDE DEF Good
  <2>1. Good(k + 1) /\ k \in 1..Depth + 1
    BY <1>1
  <2> QED
    BY <1>4, <2>1
<1>6. Depth + 1 \in T /\ 1 \in 1..Depth + 1
  <2> HIDE DEF Good
  <2> QED
    BY <1>1, <1>3
<1>7. \A k \in 1..Depth + 1 : k \in T
  <2> HIDE DEF T
  <2> QED
    BY <1>1, <1>5, <1>6, Upwards
<1>8. Good(1) /\ p[1] \in Passes
  <2> HIDE DEF Good
  <2> QED
    BY <1>6, <1>7
<1> QED
  BY <1>2, <1>8

-----------------------------------------------------------------------------
(***************************************************************************)
(* The flow stays the same, and so does what is said of it.                *)
(***************************************************************************)

LEMMA SameFlow ==
  ASSUME flow' = flow
  PROVE  /\ Levels' = Levels /\ Depth' = Depth /\ Executions' = Executions
         /\ \A k : OnPath(k)' = OnPath(k)
         /\ \A k : Steps(k)' = Steps(k) /\ Mandatory(k)' = Mandatory(k)
         /\ Button' = Button
         /\ Pages' = Pages
<1>1. Levels' = Levels /\ Depth' = Depth /\ Executions' = Executions
  BY DEF Levels, Depth, Executions
<1>2. \A k : OnPath(k)' = OnPath(k)
  BY DEF OnPath
<1>3. \A k : Steps(k)' = Steps(k) /\ Mandatory(k)' = Mandatory(k)
  BY DEF Steps, Mandatory
<1>4. Button' = Button
  BY <1>1, <1>2 DEF Button
<1>5. Pages' = Pages
  BY <1>1 DEF Pages, Asking, Negotiating, Showing
<1> QED
  BY <1>1, <1>2, <1>3, <1>4, <1>5

LEMMA SameLevelWon ==
  ASSUME flow' = flow, NEW k, NEW pr, NEW b
  PROVE  LevelWon(k, pr, b)' = LevelWon(k, pr, b)
BY SameFlow DEF LevelWon

LEMMA SameIsWon ==
  ASSUME flow' = flow, NEW pr, NEW f
  PROVE  IsWon(f, pr)' <=> IsWon(f, pr)
<1> DEFINE g == [k \in 1..Depth + 1 |->
                   IF k > Depth THEN Button \in pr ELSE LevelWon(k, pr, f[k + 1])]
           h == [k \in 1..Depth' + 1 |->
                   IF k > Depth' THEN Button' \in pr ELSE LevelWon(k, pr, f[k + 1])']
<1>1. DOMAIN g = DOMAIN h
  BY SameFlow
<1>2. ASSUME NEW k \in 1..Depth + 1
      PROVE  g[k] = h[k]
  <2>1. (Button \in pr) = (Button' \in pr)
    BY SameFlow
  <2>2. LevelWon(k, pr, f[k + 1])' = LevelWon(k, pr, f[k + 1])
    BY SameLevelWon
  <2>3. g[k] = (IF k > Depth THEN Button \in pr ELSE LevelWon(k, pr, f[k + 1]))
    OBVIOUS
  <2>4. h[k] = (IF k > Depth THEN Button' \in pr ELSE LevelWon(k, pr, f[k + 1])')
    BY SameFlow
  <2> QED
    BY <2>1, <2>2, <2>3, <2>4
<1>3. g = h
  <2>1. /\ g = [k \in DOMAIN g |-> g[k]] /\ h = [k \in DOMAIN h |-> h[k]]
        /\ DOMAIN g = 1..Depth + 1
    OBVIOUS
  <2> HIDE DEF g, h
  <2> QED
    BY <1>1, <1>2, <2>1
<1> QED
  BY <1>3 DEF IsWon

LEMMA SameWon ==
  ASSUME flow' = flow, NEW pr
  PROVE  Won(pr)' = Won(pr)
BY SameIsWon DEF Won

\* What the next state says of its session and its passed steps.
LEMMA HonestNext ==
  ASSUME flow' = flow, NEW st, NEW pr, status' = st, proven' = pr, Honest(st, pr)
  PROVE  Honest(status, proven)'
<1>1. Won(proven)' = Won(pr)
  BY SameWon
<1>2. Executions' = Executions /\ \A k : OnPath(k)' = OnPath(k)
  BY SameFlow
<1> QED
  BY <1>1, <1>2 DEF Honest

-----------------------------------------------------------------------------
(***************************************************************************)
(* The inductive invariant.                                                *)
(***************************************************************************)

\* The session is honest about the passed steps, the button is among them and
\* waits for a ticket only if it was clicked, the page asks for no step on the
\* path, and whoever is logged in has passed the flow.
ButtonInv ==
  /\ TypeOK
  /\ Honest(status, proven)
  /\ requested => asked
  /\ Button \in proven => asked
  /\ page.kind = "asks" => page.step[2] # OnPath(page.step[1])
  /\ page.kind = "done" => Satisfied

\* The pages of a request that has been served.
LEMMA ServedPages ==
  ASSUME NEW a \in Answers, a # Showing("redirects"), a # Showing("resets"), a # Nothing
  PROVE  /\ a \in Pages
         /\ a.kind # "done"
         /\ a.kind = "asks" => a.step \in Executions /\ a.step[2] # OnPath(a.step[1])
<1>1. CASE a \in {Asking(e) : e \in {x \in Executions : x[2] # OnPath(x[1])}}
  <2>1. PICK e \in Executions : e[2] # OnPath(e[1]) /\ a = Asking(e)
    BY <1>1
  <2> QED
    BY <2>1 DEF Pages, Asking
<1>2. CASE a \in {Negotiating(m) : m \in {"GET", "POST"}}
  BY <1>2 DEF Pages, Negotiating
<1>3. CASE a \in {Showing(k) : k \in {"nothing", "redirects", "resets"}}
  BY <1>3 DEF Nothing
<1> QED
  BY <1>1, <1>2, <1>3 DEF Answers

\* What the engine leaves behind once it has served a request.
LEMMA ServedFacts ==
  ASSUME flow \in Flows, NEW st \in Sessions, NEW note \in BOOLEAN, NEW r \in Requests,
         NEW pr, pr \subseteq Executions, Honest(st, pr)
  PROVE  LET s == Served(st, note, r, pr)
         IN  /\ s.status \in Sessions /\ s.requested \in BOOLEAN /\ s.page \in Pages
             /\ s.proven \subseteq Executions
             /\ Honest(s.status, s.proven)
             /\ s.requested => note /\ ~Resets(st, note, r)
             /\ Button \in s.proven => (Button \in pr \/ note) /\ ~Resets(st, note, r)
             /\ s.page.kind = "asks" => s.page.step[2] # OnPath(s.page.step[1])
             /\ s.page.kind = "done" => Won(s.proven)[1]
<1> DEFINE first == Pass(st, r, note)
           again == first.answer = Showing("resets")
           second == Pass(Fresh, r, FALSE)
           s == Served(st, note, r, pr)
<1>1. Fresh \in Sessions /\ Honest(Fresh, {})
  BY DEF Fresh, Sessions, Statuses, Honest
<1>2. /\ first \in Passes
      /\ Honest(first.status, After(first, r, pr))
      /\ first.result = "success" => Won(After(first, r, pr))[1]
      /\ first.used => note
      /\ again => first.used
      /\ first.answer # Showing("redirects")
  BY PassHonest
<1>3. /\ second \in Passes
      /\ Honest(second.status, After(second, r, {}))
      /\ second.result = "success" => Won(After(second, r, {}))[1]
      /\ ~second.used
      /\ second.answer # Showing("resets") /\ second.answer # Showing("redirects")
  BY <1>1, PassHonest
<1>4. After(second, r, {}) = {}
  BY <1>3 DEF After
<1> DEFINE last == IF again THEN second ELSE first
           proved == IF again THEN {} ELSE After(first, r, pr)
<1>5. s = [status |-> last.status,
           page |-> IF last.answer # Nothing THEN last.answer
                    ELSE Showing(IF last.result = "success" THEN "done" ELSE "error"),
           requested |-> note /\ ~first.used,
           proven |-> proved]
  BY DEF Served, After
<1>6. /\ last \in Passes
      /\ Honest(last.status, proved)
      /\ last.result = "success" => Won(proved)[1]
      /\ last.answer # Showing("redirects") /\ last.answer # Showing("resets")
  BY <1>2, <1>3, <1>4
<1>7. /\ proved \subseteq pr \cup {Button} /\ proved \subseteq Executions
      /\ Button \in proved => (Button \in pr \/ note) /\ ~again
  BY <1>2, ButtonFacts DEF After
<1>a. note /\ ~first.used => ~again
  BY <1>2
<1>b. Resets(st, note, r) <=> again
  BY DEF Resets
<1> HIDE DEF last, proved
<1>8. /\ s.status = last.status /\ s.proven = proved
      /\ s.requested = (note /\ ~first.used)
      /\ s.page = IF last.answer # Nothing THEN last.answer
                  ELSE Showing(IF last.result = "success" THEN "done" ELSE "error")
  BY <1>5
<1>9. last.status \in Sessions /\ last.answer \in Answers /\ (note /\ ~first.used) \in BOOLEAN
  BY <1>6 DEF Passes
<1>10. /\ s.page \in Pages
       /\ s.page.kind = "asks" => s.page.step[2] # OnPath(s.page.step[1])
       /\ s.page.kind = "done" => Won(proved)[1]
  <2>1. CASE last.answer # Nothing
    BY <1>6, <1>8, <1>9, <2>1, ServedPages
  <2>2. CASE last.answer = Nothing
    <3>1. s.page = Showing(IF last.result = "success" THEN "done" ELSE "error")
      BY <1>8, <2>2
    <3> QED
      BY <1>6, <3>1 DEF Showing, Pages
  <2> QED
    BY <2>1, <2>2
<1> HIDE DEF s, first, again
<1> QED
  BY <1>6, <1>7, <1>a, <1>b, <1>8, <1>9, <1>10 DEF s

LEMMA ServeKeeps ==
  ASSUME flow \in Flows, NEW st \in Sessions, NEW note \in BOOLEAN, NEW r \in Requests,
         NEW pr, pr \subseteq Executions, Honest(st, pr), Serve(st, note, r, pr),
         asked' \in BOOLEAN, ~Resets(st, note, r) /\ (note \/ Button \in pr) => asked'
  PROVE  ButtonInv'
<1> DEFINE s == Served(st, note, r, pr)
<1>1. /\ flow' = flow /\ status' = s.status /\ page' = s.page
      /\ requested' = s.requested /\ proven' = s.proven
  BY DEF Serve
<1>2. /\ s.status \in Sessions /\ s.requested \in BOOLEAN /\ s.page \in Pages
      /\ s.proven \subseteq Executions
      /\ Honest(s.status, s.proven)
      /\ s.requested => note /\ ~Resets(st, note, r)
      /\ Button \in s.proven => (Button \in pr \/ note) /\ ~Resets(st, note, r)
      /\ s.page.kind = "asks" => s.page.step[2] # OnPath(s.page.step[1])
      /\ s.page.kind = "done" => Won(s.proven)[1]
  BY ServedFacts
<1> HIDE DEF s
<1>3. /\ Executions' = Executions /\ \A k : OnPath(k)' = OnPath(k)
      /\ Button' = Button /\ Pages' = Pages
  BY <1>1, SameFlow
<1>4. TypeOK'
  BY <1>1, <1>2, <1>3 DEF TypeOK, Sessions, Statuses
<1>5. Honest(status, proven)'
  BY <1>1, <1>2, HonestNext
<1>6. page'.kind = "done" => Satisfied'
  <2>1. Satisfied' = Won(proven)'[1]
    BY DEF Satisfied, Won, IsWon, LevelWon
  <2>2. Won(proven)' = Won(s.proven)
    BY <1>1, SameWon
  <2> QED
    BY <1>1, <1>2, <2>1, <2>2
<1> QED
  BY <1>1, <1>2, <1>3, <1>4, <1>5, <1>6 DEF ButtonInv

LEMMA FreshIsHonest == Fresh \in Sessions /\ \A pr : Honest(Fresh, pr)
BY DEF Fresh, Sessions, Statuses, Honest

LEMMA TicketsMakeRequests ==
  \A ticket \in Headers : Get(ticket) \in Requests /\ Post(ticket) \in Requests
BY DEF Requests

\* What the user is asked for is an execution off the path.
LEMMA AskedStep ==
  ASSUME ButtonInv, page.kind = "asks"
  PROVE  page.step \in Executions /\ page.step[2] # OnPath(page.step[1])
<1>1. page \in Pages
  BY DEF ButtonInv, TypeOK
<1>2. page.step \in Executions
  BY <1>1 DEF Pages, Asking, Negotiating, Showing
<1> QED
  BY <1>2 DEF ButtonInv

LEMMA ButtonInit == Init => ButtonInv
<1> SUFFICES ASSUME Init PROVE ButtonInv
  OBVIOUS
<1>1. TypeOK
  BY FreshIsHonest DEF Init, TypeOK, Sessions, Statuses, Pages
<1>2. page.kind = "start"
  BY DEF Init, Showing
<1> QED
  BY <1>1, <1>2, FreshIsHonest DEF Init, ButtonInv

\* A request that finds the session as it is.
LEMMA RequestKeeps ==
  ASSUME ButtonInv, NEW r \in Requests, Continue(status, r, proven)
  PROVE  ButtonInv'
<1>1. /\ flow \in Flows /\ status \in Sessions /\ requested \in BOOLEAN
      /\ proven \subseteq Executions /\ Honest(status, proven)
      /\ asked \in BOOLEAN /\ asked' = (asked /\ ~Resets(status, requested, r))
      /\ Serve(status, requested, r, proven)
  BY DEF ButtonInv, TypeOK, Sessions, Statuses, Continue
<1>2. asked' \in BOOLEAN
  BY <1>1
<1>3. ~Resets(status, requested, r) /\ (requested \/ Button \in proven) => asked'
  BY <1>1 DEF ButtonInv
<1> QED
  BY <1>1, <1>2, <1>3, ServeKeeps

\* A request that starts the flow over.
LEMMA ResetKeeps ==
  ASSUME ButtonInv, NEW r \in Requests, StartOver(r)
  PROVE  ButtonInv'
<1>1. flow \in Flows
  BY DEF ButtonInv, TypeOK
<1>2. Fresh \in Sessions /\ Honest(Fresh, {}) /\ Serve(Fresh, FALSE, r, {}) /\ asked' = FALSE
  BY FreshIsHonest DEF StartOver
<1> QED
  BY <1>1, <1>2, ServeKeeps

LEMMA SubmitKeeps ==
  ASSUME ButtonInv, NEW ticket \in Headers, Submit(ticket)
  PROVE  ButtonInv'
<1> DEFINE e == page.step
           st == [status EXCEPT ![e] = "success"]
           pr == proven \cup {e}
<1>1. /\ flow \in Flows /\ status \in Sessions /\ requested \in BOOLEAN
      /\ proven \subseteq Executions /\ Honest(status, proven)
      /\ asked \in BOOLEAN
      /\ Continue(st, Post(ticket), pr)
  BY DEF ButtonInv, TypeOK, Sessions, Statuses, Submit
<1>2. e \in Executions /\ e[2] # OnPath(e[1])
  BY AskedStep DEF Submit
<1>3. st \in Sessions /\ pr \subseteq Executions
  BY <1>1, <1>2 DEF Sessions, Statuses
<1>4. Honest(status, pr)
  BY <1>1, HonestGrows
<1>5. Honest(st, pr)
  BY <1>1, <1>2, <1>4 DEF Honest, Sessions
<1>6. Button # e
  BY <1>1, <1>2, ButtonFacts
<1>7. requested \/ Button \in pr => asked
  BY <1>1, <1>6 DEF ButtonInv
<1>8. /\ Serve(st, requested, Post(ticket), pr) /\ Post(ticket) \in Requests
      /\ asked' = (asked /\ ~Resets(st, requested, Post(ticket)))
  BY <1>1, TicketsMakeRequests DEF Continue
<1> HIDE DEF st, pr
<1>9. /\ asked' \in BOOLEAN
      /\ ~Resets(st, requested, Post(ticket)) /\ (requested \/ Button \in pr) => asked'
  BY <1>1, <1>7, <1>8
<1> QED
  BY <1>1, <1>3, <1>5, <1>7, <1>8, <1>9, ServeKeeps

LEMMA ClickKeeps ==
  ASSUME ButtonInv, NEW ticket \in Headers, ClickButton(ticket)
  PROVE  ButtonInv'
<1>1. /\ flow' = flow /\ flow \in Flows /\ status' = Skipped /\ proven' = {}
      /\ requested' = TRUE /\ asked' = TRUE /\ page' = Showing("redirect")
  BY DEF ClickButton, ClickAnswer, ButtonInv, TypeOK
<1>2. /\ Skipped \in Sessions
      /\ \A e \in Executions : Skipped[e] # "success"
  BY DEF Skipped, Sessions, Statuses
<1>3. Honest(Skipped, {})
  BY <1>2 DEF Honest
<1>4. Honest(status, proven)'
  <2> DEFINE sk == Skipped
  <2>1. Honest(sk, {}) /\ status' = sk
    BY <1>1, <1>3
  <2> HIDE DEF sk
  <2> QED
    BY <1>1, <2>1, HonestNext
<1>5. TypeOK'
  <2>1. Executions' = Executions /\ Pages' = Pages
    BY <1>1, SameFlow
  <2>2. Showing("redirect") \in Pages
    BY DEF Pages
  <2> QED
    BY <1>1, <1>2, <2>1, <2>2 DEF TypeOK, Sessions, Statuses
<1>6. page'.kind = "redirect"
  BY <1>1 DEF Showing
<1> QED
  BY <1>1, <1>4, <1>5, <1>6 DEF ButtonInv

LEMMA ClickRefusedKeeps ==
  ASSUME ButtonInv, NEW ticket \in Headers, ClickRefused(ticket)
  PROVE  ButtonInv'
<1> DEFINE st == [status EXCEPT ![Button] = "attempted"]
<1>1. /\ flow \in Flows /\ status \in Sessions /\ requested \in BOOLEAN
      /\ proven \subseteq Executions /\ Honest(status, proven)
      /\ asked \in BOOLEAN /\ (requested \/ Button \in proven => asked)
  BY DEF ButtonInv, TypeOK, Sessions, Statuses
<1>2. st \in Sessions /\ Honest(st, proven)
  BY <1>1, ButtonFacts DEF Honest, Sessions, Statuses
<1>3. /\ Serve(st, requested, Post(ticket), proven) /\ Post(ticket) \in Requests
      /\ asked' = (asked /\ ~Resets(st, requested, Post(ticket)))
  BY TicketsMakeRequests DEF ClickRefused, Continue
<1> HIDE DEF st
<1>4. /\ asked' \in BOOLEAN
      /\ ~Resets(st, requested, Post(ticket)) /\ (requested \/ Button \in proven) => asked'
  BY <1>1, <1>3
<1> QED
  BY <1>1, <1>2, <1>3, <1>4, ServeKeeps

LEMMA ExpiredKeeps ==
  ASSUME ButtonInv, page' = Showing("expired"),
         UNCHANGED <<flow, status, requested, proven, asked>>
  PROVE  ButtonInv'
<1>1. page'.kind = "expired" /\ page' \in Pages
  BY DEF Showing, Pages
<1>2. Pages' = Pages /\ Executions' = Executions /\ Button' = Button
  BY SameFlow
<1>3. Honest(status, proven)'
  BY HonestNext DEF ButtonInv
<1> QED
  BY <1>1, <1>2, <1>3 DEF ButtonInv, TypeOK

LEMMA ButtonNext == ButtonInv /\ [Next]_vars => ButtonInv'
<1> SUFFICES ASSUME ButtonInv, [Next]_vars PROVE ButtonInv'
  OBVIOUS
<1>1. CASE UNCHANGED vars
  <2>1. /\ Pages' = Pages /\ Executions' = Executions /\ Button' = Button
        /\ \A k : OnPath(k)' = OnPath(k)
    BY <1>1, SameFlow DEF vars
  <2>2. Honest(status, proven)'
    BY <1>1, HonestNext DEF vars, ButtonInv
  <2>3. Satisfied' = Satisfied
    <3>1. Satisfied' = Won(proven)'[1] /\ Satisfied = Won(proven)[1]
      BY DEF Satisfied, Won, IsWon, LevelWon
    <3>2. Won(proven)' = Won(proven)
      BY <1>1, SameWon DEF vars
    <3> QED
      BY <3>1, <3>2
  <2> QED
    BY <1>1, <2>1, <2>2, <2>3 DEF vars, ButtonInv, TypeOK
<1>2. CASE Browser
  <2>1. CASE PostFallback
    <3>1. Post("none") \in Requests
      BY TicketsMakeRequests DEF Headers
    <3> QED
      BY <2>1, <3>1, ResetKeeps DEF PostFallback
  <2>2. ASSUME NEW ticket \in Headers, FollowRedirect(ticket)
        PROVE  ButtonInv'
    BY <2>2, TicketsMakeRequests, RequestKeeps DEF FollowRedirect
  <2>3. ASSUME NEW ticket \in Headers, SendTicket(ticket)
        PROVE  ButtonInv'
    <3>1. CASE Continue(status, Get(ticket), proven)
      BY <3>1, TicketsMakeRequests, RequestKeeps
    <3>2. CASE page' = Showing("expired") /\ UNCHANGED <<flow, status, requested, proven, asked>>
      BY <3>2, ExpiredKeeps
    <3> QED
      BY <2>3, <3>1, <3>2 DEF SendTicket
  <2> QED
    BY <1>2, <2>1, <2>2, <2>3 DEF Browser
<1>3. CASE User
  <2>1. PICK ticket \in Headers :
          Load(ticket) \/ Submit(ticket) \/ ClickButton(ticket) \/ ClickRefused(ticket)
            \/ Restart(ticket)
    BY <1>3 DEF User
  <2>2. CASE Load(ticket)
    BY <2>2, TicketsMakeRequests, RequestKeeps DEF Load
  <2>3. CASE Restart(ticket)
    BY <2>3, TicketsMakeRequests, ResetKeeps DEF Restart
  <2> QED
    BY <2>1, <2>2, <2>3, SubmitKeeps, ClickKeeps, ClickRefusedKeeps
<1> QED
  BY <1>1, <1>2, <1>3 DEF Next

\* The invariant holds for every flow, however deep and wide it is.
THEOREM ButtonHolds == Spec => []ButtonInv
BY ButtonInit, ButtonNext, PTL DEF Spec

\* The session, the page and the notes keep their types (see SpnegoButton!TypeOK).
THEOREM ButtonTypeCorrect == Spec => []TypeOK
<1>1. ButtonInv => TypeOK
  BY DEF ButtonInv
<1> QED
  BY <1>1, ButtonHolds, PTL

\* Nobody is logged in without having passed the flow, whatever was skipped for
\* the click (skipAlternatives, resetFlow) and whatever the flow looks like.
THEOREM NobodyPassesBy == Spec => []MandatoryStepsPassed
<1>1. ButtonInv => MandatoryStepsPassed
  BY DEF ButtonInv, MandatoryStepsPassed
<1> QED
  BY <1>1, ButtonHolds, PTL

\* A ticket counts only after a click (the note REQUESTED_NOTE).
THEOREM TicketsOnlyOnDemand == Spec => []TicketOnlyOnDemand
<1>1. ButtonInv => TicketOnlyOnDemand
  BY DEF ButtonInv, TicketOnlyOnDemand
<1> QED
  BY <1>1, ButtonHolds, PTL

-----------------------------------------------------------------------------
(***************************************************************************)
(* A button placed as described: a click leads to it.                      *)
(***************************************************************************)

Way(k) == <<k, OnPath(k)>>

\* The steps a level that matters for the button is made of.
LEMMA PlacedLevel ==
  ASSUME flow \in Flows, PlacedAsDescribed, ~Misplaced, NEW k \in Levels
  PROVE  /\ Way(k) \in Executions
         /\ OnPath(k) \in Candidates(k) /\ OnPath(k) \in Nat
         /\ k \in AlternativeLevels =>
              /\ Mandatory(k) = {}
              /\ \A i \in Steps(k) : i # OnPath(k) => <<k, i>> \in ExecutionsToSkip
         /\ k \notin AlternativeLevels =>
              /\ OnPath(k) \in Mandatory(k)
              /\ \A i \in Mandatory(k) : OnPath(k) <= i
<1>1. OnPath(k) \in Steps(k) /\ \A i \in Mandatory(k) : i >= OnPath(k)
  BY DEF PlacedAsDescribed
<1>2. Way(k) \in Executions /\ OnPath(k) \in Nat
  BY <1>1, StepFacts DEF Way
<1>3. ASSUME k \in AlternativeLevels, NEW i \in Steps(k), i # OnPath(k)
      PROVE  /\ <<k, i>> \in ExecutionsToSkip
             /\ flow[k][i].req = "ALTERNATIVE"
  <2>1. i \in DOMAIN flow[k] /\ flow[k][i].does \notin {"path", "condition"}
    BY <1>3, StepFacts
  <2>2. <<k, i>> \in Siblings(k)
    BY <2>1 DEF Siblings
  <2>3. Exec(<<k, i>>) = flow[k][i]
    BY DEF Exec
  <2> QED
    BY <1>3, <2>2, <2>3 DEF Misplaced, ExecutionsToSkip
<1>4. ASSUME k \in AlternativeLevels PROVE Mandatory(k) = {}
  BY <1>3, <1>4 DEF Mandatory, AlternativeLevels
<1>5. ASSUME k \notin AlternativeLevels PROVE OnPath(k) \in Mandatory(k)
  BY <1>1, <1>5 DEF Mandatory, AlternativeLevels
<1>6. \A i \in Mandatory(k) : i \in Nat
  BY StepFacts
<1> QED
  BY <1>1, <1>2, <1>3, <1>4, <1>5, <1>6 DEF Candidates

\* The session after a click, as long as the button waits for its ticket.
Clear(st) ==
  /\ \A k \in Levels : ~Processed(st, Way(k))
  /\ \A e \in ExecutionsToSkip : st[e] = "attempted"

LEMMA SkippedExecutions == ExecutionsToSkip \subseteq Executions
BY ExecutionsAre DEF ExecutionsToSkip, Siblings, AlternativeLevels

\* Nothing on a level is in the way of the button.
LEMMA EnteredWhenClear ==
  ASSUME flow \in Flows, PlacedAsDescribed, ~Misplaced, NEW k \in Levels,
         NEW st, Clear(st), NEW sub
  PROVE  /\ ~Settled(st, k)
         /\ \A j \in Stops(st, k, sub) : OnPath(k) <= j
         /\ Entered(st, k, sub)
<1>1. OnPath(k) \in Candidates(k) /\ OnPath(k) \in Nat /\ ~Processed(st, Way(k))
  BY PlacedLevel DEF Clear
<1>2. CASE k \in AlternativeLevels
  <2>1. Mandatory(k) = {} /\ Candidates(k) = Steps(k) /\ GoesOn(k) = "attempted"
    BY <1>2, PlacedLevel DEF Candidates, GoesOn
  <2>2. \A i \in Steps(k) : i # OnPath(k) => st[<<k, i>>] = "attempted"
    BY <1>2, PlacedLevel DEF Clear
  <2>3. ~Settled(st, k)
    BY <1>1, <2>1, <2>2 DEF Settled, Processed, Way
  <2>4. \A j \in Stops(st, k, sub) : j = OnPath(k)
    BY <2>1, <2>2 DEF Stops, Result, Processed
  <2> QED
    BY <1>1, <2>3, <2>4 DEF Entered, Reached, Way
<1>3. CASE k \notin AlternativeLevels
  <2>1. /\ Mandatory(k) # {} /\ Candidates(k) = Mandatory(k)
        /\ \A i \in Mandatory(k) : OnPath(k) <= i
    BY <1>3, PlacedLevel DEF Candidates
  <2>2. ~Settled(st, k) /\ \A j \in Stops(st, k, sub) : OnPath(k) <= j
    BY <2>1 DEF Settled, Stops
  <2> QED
    BY <1>1, <2>2 DEF Entered, Reached, Way
<1> QED
  BY <1>2, <1>3

LEMMA LevelClear ==
  ASSUME flow \in Flows, PlacedAsDescribed, ~Misplaced, NEW k \in Levels,
         NEW st \in Sessions, Clear(st), NEW sub \in Passes
  PROVE  LET lp == LevelPass(st, k, sub)
         IN  /\ lp.used = sub.used
             /\ sub.result = "challenged" /\ Clear(sub.status) =>
                  /\ lp.result = "challenged" /\ lp.answer = sub.answer
                  /\ Clear(lp.status)
<1> DEFINE lp == LevelPass(st, k, sub)
<1>1. /\ ~Settled(st, k) /\ Entered(st, k, sub) /\ ~Processed(st, Way(k))
      /\ \A j \in Stops(st, k, sub) : OnPath(k) <= j
  BY EnteredWhenClear DEF Clear
<1>2. sub.used \in BOOLEAN /\ sub.status \in Sessions /\ DOMAIN st = Executions
  BY DEF Passes, Sessions
<1>3. lp.used = sub.used
  BY <1>1, <1>2, LevelPassIs
<1>4. ASSUME sub.result = "challenged", Clear(sub.status)
      PROVE  /\ lp.result = "challenged" /\ lp.answer = sub.answer
             /\ Clear(lp.status)
  <2>1. OnPath(k) \in Steps(k) /\ OnPath(k) \in Candidates(k) /\ OnPath(k) \in Nat
    BY PlacedLevel, CandidateFacts
  <2>2. Result(st, sub, Way(k)) = "challenged"
    <3>1. Exec(Way(k)) = flow[k][OnPath(k)] /\ flow[k][OnPath(k)].does = "path"
      BY <2>1, StepFacts DEF Way, Exec
    <3> QED
      BY <1>1, <1>4, <3>1 DEF Result
  <2>3. OnPath(k) \in Stops(st, k, sub)
    BY <2>1, <2>2 DEF Stops, GoesOn, Way
  <2>4. Min(Stops(st, k, sub)) = OnPath(k)
    <3>1. /\ Min(Stops(st, k, sub)) \in Stops(st, k, sub)
          /\ Min(Stops(st, k, sub)) \in Nat
          /\ Min(Stops(st, k, sub)) <= OnPath(k)
      BY <2>3, FirstStop, StepFacts
    <3> QED
      BY <1>1, <2>1, <3>1
  <2>5. LevelResult(st, k, sub) = "challenged"
    BY <1>1, <2>2, <2>3, <2>4 DEF LevelResult, Way
  <2>6. lp.result = "challenged" /\ lp.answer = sub.answer
    BY <2>4, <2>5, LevelPassIs
  <2>7. \A e \in Executions :
          lp.status[e] = IF e[1] = k /\ e[2] \in Reached(st, k, sub) THEN Result(st, sub, e)
                         ELSE sub.status[e]
    BY <1>1, <1>2, LevelPassIs
  <2>8. ASSUME NEW j \in Levels PROVE ~Processed(lp.status, Way(j))
    <3>1. Way(j) \in Executions /\ Way(j)[1] = j /\ Way(j)[2] = OnPath(j)
      BY PlacedLevel DEF Way
    <3>2. lp.status[Way(j)] = "challenged" \/ lp.status[Way(j)] = sub.status[Way(j)]
      BY <2>2, <2>7, <3>1
    <3> QED
      BY <1>4, <3>2 DEF Clear, Processed
  <2>9. ASSUME NEW e \in ExecutionsToSkip PROVE lp.status[e] = "attempted"
    <3>1. e \in Executions /\ st[e] = "attempted" /\ sub.status[e] = "attempted"
      BY <1>4, SkippedExecutions DEF Clear
    <3>2. Result(st, sub, e) = "attempted"
      BY <3>1 DEF Result, Processed
    <3> QED
      BY <2>7, <3>1, <3>2
  <2> HIDE DEF lp
  <2> QED
    BY <2>6, <2>8, <2>9 DEF Clear
<1> HIDE DEF lp
<1> QED
  BY <1>3, <1>4 DEF lp

\* After a click the next request comes to the button.
LEMMA PassClear ==
  ASSUME flow \in Flows, PlacedAsDescribed, ~Misplaced,
         NEW st \in Sessions, Clear(st), NEW r \in Requests
  PROVE  LET p == Pass(st, r, TRUE)
         IN  p.used \/ (p.answer = Negotiating(r.method) /\ Clear(p.status))
<1>1. Depth \in Nat /\ Depth >= 1 /\ Levels = 1..Depth
  BY FlowFacts
<1>2. PICK p \in [1..Depth + 1 -> Passes] :
        /\ p[Depth + 1] = ButtonPass(st, r, TRUE)
        /\ \A k \in 1..Depth : p[k] = LevelPass(st, k, p[k + 1])
        /\ Pass(st, r, TRUE) = p[1]
  BY PassRecurs
<1> DEFINE Good(q) == \/ q.used
                      \/ /\ q.result = "challenged" /\ q.answer = Negotiating(r.method)
                         /\ Clear(q.status)
           T == {k \in 1..Depth + 1 : Good(p[k])}
<1>3. Good(ButtonPass(st, r, TRUE))
  <2>1. CASE Evaluates(r, TRUE)
    BY <2>1, ButtonPassFacts
  <2>2. CASE ~Evaluates(r, TRUE)
    <3>1. ButtonDoes(r, TRUE) = "challenges"
      BY <2>2, RequestFacts DEF ButtonDoes
    <3> QED
      BY <3>1 DEF ButtonPass
  <2> QED
    BY <2>1, <2>2
<1> HIDE DEF Good
<1>4. ASSUME NEW k \in 1..Depth, Good(p[k + 1]) PROVE Good(p[k])
  <2> DEFINE sub == p[k + 1]
  <2>1. sub \in Passes /\ p[k] = LevelPass(st, k, sub) /\ k \in Levels /\ Good(sub)
    BY <1>1, <1>2, <1>4
  <2> HIDE DEF sub
  <2> QED
    BY <2>1, LevelClear DEF Good
<1>5. \A k \in 1..Depth : k + 1 \in T => k \in T
  BY <1>1, <1>4
<1>6. Depth + 1 \in T /\ 1 \in 1..Depth + 1
  <2>1. Depth + 1 \in 1..Depth + 1
    BY <1>1
  <2>2. Good(p[Depth + 1])
    BY <1>2, <1>3, Zenon
  <2> QED
    BY <1>1, <2>1, <2>2
<1>7. \A k \in 1..Depth + 1 : k \in T
  <2> HIDE DEF T
  <2> QED
    BY <1>1, <1>5, <1>6, Upwards
<1>8. Good(p[1])
  BY <1>6, <1>7
<1> QED
  BY <1>2, <1>8 DEF Good

\* The button challenges only if the note is set, and answers the request.
LEMMA PassNegotiates ==
  ASSUME flow \in Flows, NEW st \in Sessions, NEW r \in Requests, NEW note \in BOOLEAN
  PROVE  \A m : Pass(st, r, note).answer = Negotiating(m) => note /\ m = r.method /\ r.ticket # "valid"
<1>1. Depth \in Nat /\ Depth >= 1 /\ Levels = 1..Depth
  BY FlowFacts
<1>2. PICK p \in [1..Depth + 1 -> Passes] :
        /\ p[Depth + 1] = ButtonPass(st, r, note)
        /\ \A k \in 1..Depth : p[k] = LevelPass(st, k, p[k + 1])
        /\ Pass(st, r, note) = p[1]
  BY PassRecurs
<1> DEFINE Good(q) == \A m : q.answer = Negotiating(m) => note /\ m = r.method /\ r.ticket # "valid"
           T == {k \in 1..Depth + 1 : Good(p[k])}
<1>3. Good(ButtonPass(st, r, note))
  <2> SUFFICES ASSUME NEW m, ButtonPass(st, r, note).answer = Negotiating(m)
               PROVE  note /\ m = r.method /\ r.ticket # "valid"
    OBVIOUS
  <2>1. ButtonDoes(r, note) \in {"challenges", "goes on"} /\ Negotiating(m) = Negotiating(r.method)
    BY ButtonDoesFacts DEF ButtonPass, Nothing, Showing, Negotiating
  <2>2. m = r.method
    BY <2>1 DEF Negotiating
  <2>3. note
    BY <2>1, ButtonDoesFacts, RequestFacts DEF ButtonDoes, Validated
  <2>4. r.ticket # "valid"
    BY <2>1, <2>3, RequestFacts DEF ButtonDoes, Validated, Evaluates
  <2> QED
    BY <2>2, <2>3, <2>4
<1>4. ASSUME NEW k \in 1..Depth, Good(p[k + 1]) PROVE Good(p[k])
  <2>1. p[k] = LevelPass(st, k, p[k + 1])
    BY <1>2
  <2>2. \A m : p[k].answer = Negotiating(m) => p[k + 1].answer = Negotiating(m)
    BY <2>1, LevelPassIs DEF Nothing, Showing, Negotiating, Asking
  <2> QED
    BY <1>4, <2>2
<1> HIDE DEF Good
<1>5. \A k \in 1..Depth : k + 1 \in T => k \in T
  BY <1>1, <1>4
<1>6. Depth + 1 \in T /\ 1 \in 1..Depth + 1
  BY <1>1, <1>2, <1>3
<1>7. \A k \in 1..Depth + 1 : k \in T
  <2> HIDE DEF T
  <2> QED
    BY <1>1, <1>5, <1>6, Upwards
<1>8. Good(p[1])
  BY <1>6, <1>7
<1> QED
  BY <1>2, <1>8 DEF Good

LEMMA PassTyped ==
  ASSUME flow \in Flows, NEW st \in Sessions, NEW r \in Requests, NEW note \in BOOLEAN
  PROVE  Pass(st, r, note) \in Passes
<1>1. Depth \in Nat /\ 1 \in 1..Depth + 1
  BY FlowFacts
<1> QED
  BY <1>1, PassRecurs

LEMMA ServedNegotiates ==
  ASSUME flow \in Flows, NEW st \in Sessions, NEW note \in BOOLEAN, NEW r \in Requests, NEW pr
  PROVE  Served(st, note, r, pr).page.kind = "negotiate" =>
           /\ note /\ r.ticket # "valid"
           /\ Served(st, note, r, pr).page = Negotiating(r.method)
<1> DEFINE first == Pass(st, r, note)
           second == Pass(Fresh, r, FALSE)
           last == IF first.answer = Showing("resets") THEN second ELSE first
<1>1. first \in Passes /\ \A m : first.answer = Negotiating(m) => note /\ m = r.method /\ r.ticket # "valid"
  BY PassNegotiates, PassTyped
<1>2. second \in Passes /\ \A m : second.answer # Negotiating(m)
  BY FreshIsHonest, PassNegotiates, PassTyped
<1>3. last \in Passes /\ \A m : last.answer = Negotiating(m) => note /\ m = r.method /\ r.ticket # "valid"
  BY <1>1, <1>2
<1>4. Served(st, note, r, pr).page =
        IF last.answer # Nothing THEN last.answer
        ELSE Showing(IF last.result = "success" THEN "done" ELSE "error")
  BY DEF Served
<1> HIDE DEF last
<1>5. last.answer.kind = "negotiate" => \E m : last.answer = Negotiating(m)
  BY <1>3 DEF Passes, Answers, Asking, Showing
<1>6. CASE last.answer # Nothing
  BY <1>3, <1>4, <1>5, <1>6
<1>7. CASE last.answer = Nothing
  BY <1>4, <1>7 DEF Showing
<1> QED
  BY <1>6, <1>7

LEMMA ServedClear ==
  ASSUME flow \in Flows, PlacedAsDescribed, ~Misplaced,
         NEW st \in Sessions, Clear(st), NEW r \in Requests, NEW pr
  PROVE  LET s == Served(st, TRUE, r, pr)
         IN  s.requested => Clear(s.status) /\ s.page = Negotiating(r.method)
<1> DEFINE first == Pass(st, r, TRUE)
           s == Served(st, TRUE, r, pr)
<1>1. first.used \/ (first.answer = Negotiating(r.method) /\ Clear(first.status))
  BY PassClear
<1>2. s.requested = ~first.used
  BY DEF Served
<1>3. Negotiating(r.method) # Showing("resets") /\ Negotiating(r.method) # Nothing
  BY DEF Negotiating, Showing, Nothing
<1>4. first.answer = Negotiating(r.method) =>
        s.status = first.status /\ s.page = Negotiating(r.method)
  BY <1>3 DEF Served
<1> HIDE DEF s, first
<1> QED
  BY <1>1, <1>2, <1>4 DEF s

LEMMA SamePlacement ==
  ASSUME flow' = flow
  PROVE  /\ PlacedAsDescribed' = PlacedAsDescribed
         /\ Misplaced' = Misplaced
         /\ ExecutionsToSkip' = ExecutionsToSkip
         /\ AlternativeLevels' = AlternativeLevels
         /\ \A e : Exec(e)' = Exec(e)
<1>1. /\ Levels' = Levels
      /\ \A k : OnPath(k)' = OnPath(k)
      /\ \A k : Steps(k)' = Steps(k) /\ Mandatory(k)' = Mandatory(k)
  BY SameFlow
<1>2. AlternativeLevels' = AlternativeLevels
  BY <1>1 DEF AlternativeLevels
<1>3. \A k : Siblings(k)' = Siblings(k)
  BY DEF Siblings
<1>4. \A e : Exec(e)' = Exec(e)
  BY DEF Exec
<1> QED
  BY <1>1, <1>2, <1>3, <1>4 DEF PlacedAsDescribed, Misplaced, ExecutionsToSkip

LEMMA ClearNext ==
  ASSUME flow' = flow, NEW st, status' = st, Clear(st)
  PROVE  Clear(status)'
<1>1. Levels' = Levels /\ \A k : OnPath(k)' = OnPath(k)
  BY SameFlow
<1>2. ExecutionsToSkip' = ExecutionsToSkip
  BY SamePlacement
<1> QED
  BY <1>1, <1>2 DEF Clear, Processed, Way

\* A click waits for its ticket on a page of its own, and what it left behind
\* stays out of the way meanwhile; the challenge answers a GET.
ClickWaits ==
  PlacedAsDescribed =>
    /\ requested => ~Misplaced /\ Clear(status) /\ page.kind \in {"redirect", "negotiate"}
    /\ page.kind = "negotiate" => page.answers = "GET"

ClickInv == ButtonInv /\ ClickWaits

\* A request with which the button can be asked for a ticket is a GET.
LEMMA ServeWaits ==
  ASSUME flow \in Flows, NEW st \in Sessions, NEW note \in BOOLEAN, NEW r \in Requests, NEW pr,
         Serve(st, note, r, pr),
         PlacedAsDescribed /\ note => ~Misplaced /\ Clear(st) /\ r.method = "GET"
  PROVE  ClickWaits'
<1> DEFINE s == Served(st, note, r, pr)
<1>1. flow' = flow /\ status' = s.status /\ page' = s.page /\ requested' = s.requested
  BY DEF Serve
<1>2. PlacedAsDescribed' = PlacedAsDescribed /\ Misplaced' = Misplaced
  BY <1>1, SamePlacement
<1>3. s.page.kind = "negotiate" => note /\ s.page = Negotiating(r.method)
  BY ServedNegotiates
<1>4. s.requested => note
  BY DEF Served
<1>5. note /\ PlacedAsDescribed =>
        (s.requested => Clear(s.status) /\ s.page = Negotiating(r.method))
  BY ServedClear
<1> HIDE DEF s
<1>6. SUFFICES ASSUME PlacedAsDescribed
               PROVE  /\ requested' => ~Misplaced' /\ Clear(status)'
                                         /\ page'.kind \in {"redirect", "negotiate"}
                      /\ page'.kind = "negotiate" => page'.answers = "GET"
  BY <1>2 DEF ClickWaits
<1>7. ASSUME requested'
      PROVE  ~Misplaced' /\ Clear(status)' /\ page'.kind \in {"redirect", "negotiate"}
  <2>1. note /\ ~Misplaced /\ Clear(s.status) /\ s.page = Negotiating(r.method)
    BY <1>1, <1>4, <1>5, <1>6, <1>7
  <2>2. Clear(status)'
    BY <1>1, <2>1, ClearNext
  <2> QED
    BY <1>1, <1>2, <2>1, <2>2 DEF Negotiating
<1>8. ASSUME page'.kind = "negotiate" PROVE page'.answers = "GET"
  BY <1>1, <1>3, <1>6, <1>8 DEF Negotiating
<1> QED
  BY <1>7, <1>8

\* A click leaves its session clear for the button.
LEMMA SkippedIsClear ==
  ASSUME flow \in Flows
  PROVE  Clear(Skipped)
<1>1. ASSUME NEW k \in Levels PROVE ~Processed(Skipped, Way(k))
  <2>1. OnPath(k) \in DOMAIN flow[k] /\ flow[k][OnPath(k)].does = "path"
    BY FlowFacts
  <2>2. Way(k) \in Executions
    BY <2>1, ExecutionsAre DEF Way
  <2>3. Way(k) \notin ExecutionsToSkip
    BY <2>1 DEF ExecutionsToSkip, Siblings, Way
  <2> QED
    BY <2>2, <2>3 DEF Skipped, Processed
<1>2. \A e \in ExecutionsToSkip : Skipped[e] = "attempted"
  BY SkippedExecutions DEF Skipped
<1> QED
  BY <1>1, <1>2 DEF Clear

LEMMA ClickInit == Init => ClickInv
<1> SUFFICES ASSUME Init PROVE ClickInv
  OBVIOUS
<1>1. page.kind = "start" /\ requested = FALSE
  BY DEF Init, Showing
<1> QED
  BY <1>1, ButtonInit DEF ClickInv, ClickWaits

LEMMA ClickNext == ClickInv /\ [Next]_vars => ClickInv'
<1> SUFFICES ASSUME ClickInv, [Next]_vars PROVE ClickInv'
  OBVIOUS
<1>1. ButtonInv'
  BY ButtonNext DEF ClickInv
<1> SUFFICES ClickWaits'
  BY <1>1 DEF ClickInv
<1>2. /\ flow \in Flows /\ status \in Sessions /\ requested \in BOOLEAN
      /\ page \in Pages
  BY DEF ClickInv, ButtonInv, TypeOK, Sessions, Statuses
<1>3. /\ PlacedAsDescribed /\ requested =>
           ~Misplaced /\ Clear(status) /\ page.kind \in {"redirect", "negotiate"}
      /\ PlacedAsDescribed /\ page.kind = "negotiate" => page.answers = "GET"
  BY DEF ClickInv, ClickWaits
<1>4. Fresh \in Sessions
  BY FreshIsHonest
<1>5. ASSUME NEW ticket \in Headers, NEW pr, Serve(status, requested, Get(ticket), pr)
      PROVE  ClickWaits'
  <2>1. Get(ticket) \in Requests /\ Get(ticket).method = "GET"
    BY TicketsMakeRequests DEF Get
  <2> QED
    BY <1>2, <1>3, <1>5, <2>1, ServeWaits
<1>6. ASSUME NEW st \in Sessions, NEW r \in Requests, NEW pr, Serve(st, FALSE, r, pr)
      PROVE  ClickWaits'
  BY <1>2, <1>6, ServeWaits
<1>7. ASSUME NEW st \in Sessions, NEW r \in Requests, NEW pr, Serve(st, requested, r, pr),
             page.kind = "asks"
      PROVE  ClickWaits'
  BY <1>2, <1>3, <1>7, ServeWaits
<1>8. CASE UNCHANGED vars
  <2>1. PlacedAsDescribed' = PlacedAsDescribed /\ Misplaced' = Misplaced
    BY <1>8, SamePlacement DEF vars
  <2>2. Clear(status) => Clear(status)'
    BY <1>8, ClearNext DEF vars
  <2> QED
    BY <1>3, <1>8, <2>1, <2>2 DEF vars, ClickWaits
<1>9. CASE Browser
  <2>1. CASE PostFallback
    BY <1>4, <1>6, <2>1, TicketsMakeRequests DEF PostFallback, StartOver, Headers
  <2>2. ASSUME NEW ticket \in Headers, FollowRedirect(ticket)
        PROVE  ClickWaits'
    BY <1>5, <2>2 DEF FollowRedirect, Continue
  <2>3. ASSUME NEW ticket \in Headers, SendTicket(ticket)
        PROVE  ClickWaits'
    <3>1. CASE page.answers = "GET" /\ Serve(status, requested, Get(ticket), proven)
      BY <1>5, <3>1
    <3>2. CASE /\ page.answers = "POST" /\ page' = Showing("expired")
               /\ UNCHANGED <<flow, status, requested, proven>>
      <4>1. ~PlacedAsDescribed
        BY <1>3, <2>3, <3>2 DEF SendTicket, Continue
      <4>2. ~PlacedAsDescribed'
        BY <3>2, <4>1, SamePlacement
      <4> QED
        BY <4>2 DEF ClickWaits
    <3> QED
      BY <2>3, <3>1, <3>2 DEF SendTicket, Continue
  <2> QED
    BY <1>9, <2>1, <2>2, <2>3 DEF Browser
<1>10. CASE User
  <2>1. PICK ticket \in Headers :
          Load(ticket) \/ Submit(ticket) \/ ClickButton(ticket) \/ ClickRefused(ticket)
            \/ Restart(ticket)
    BY <1>10 DEF User
  <2>2. CASE Load(ticket)
    BY <1>5, <2>2 DEF Load, Continue
  <2>3. CASE Submit(ticket)
    <3> DEFINE st == [status EXCEPT ![page.step] = "success"]
    <3>1. st \in Sessions
      BY <1>2 DEF Sessions, Statuses
    <3>2. Serve(st, requested, Post(ticket), proven \cup {page.step}) /\ page.kind = "asks"
      BY <2>3 DEF Submit, Continue
    <3> HIDE DEF st
    <3> QED
      BY <1>7, <3>1, <3>2, TicketsMakeRequests
  <2>4. CASE ClickRefused(ticket)
    <3> DEFINE st == [status EXCEPT ![Button] = "attempted"]
    <3>1. st \in Sessions
      BY <1>2 DEF Sessions, Statuses
    <3>2. Serve(st, requested, Post(ticket), proven) /\ page.kind = "asks"
      BY <2>4 DEF ClickRefused, Continue
    <3> HIDE DEF st
    <3> QED
      BY <1>7, <3>1, <3>2, TicketsMakeRequests
  <2>5. CASE ClickButton(ticket)
    <3>1. /\ flow' = flow /\ status' = Skipped /\ page' = Showing("redirect")
          /\ ButtonDoes(Click(ticket), requested) = "redirects"
      BY <2>5 DEF ClickButton, ClickAnswer
    <3>2. ~Misplaced
      <4>1. ButtonDoes(Click(ticket), requested) \in {Validated(Click(ticket)), "attempted"}
              \/ ~Misplaced
        BY DEF ButtonDoes, Click
      <4>2. Validated(Click(ticket)) # "redirects" \/ ~Evaluates(Click(ticket), requested)
        BY FlowAssumption DEF Validated, Click, Headers, Evaluates
      <4> QED
        BY <3>1, <4>1, <4>2 DEF ButtonDoes, Click
    <3>3. ~Misplaced' /\ Clear(status)'
      <4> DEFINE sk == Skipped
      <4>1. Clear(sk) /\ status' = sk
        BY <1>2, <3>1, SkippedIsClear
      <4> HIDE DEF sk
      <4> QED
        BY <3>1, <3>2, <4>1, SamePlacement, ClearNext
    <3> QED
      BY <3>1, <3>3 DEF ClickWaits, Showing
  <2>6. CASE Restart(ticket)
    BY <1>4, <1>6, <2>6, TicketsMakeRequests DEF Restart, StartOver
  <2> QED
    BY <2>1, <2>2, <2>3, <2>4, <2>5, <2>6
<1> QED
  BY <1>8, <1>9, <1>10 DEF Next

\* A click waits for its ticket on a page of its own, what it left behind out of
\* the way, in every behaviour (skipAlternatives, REQUESTED_NOTE).
THEOREM ClickHolds == Spec => []ClickInv
BY ClickInit, ClickNext, PTL DEF Spec

\* With the button placed as described, no challenge answers a form: whatever is
\* asked for, the request the browser repeats with its ticket is a GET.
THEOREM TicketsCanBeSent == Spec => []ChallengeAnswersGet
<1>1. ClickInv => ChallengeAnswersGet
  BY DEF ClickInv, ClickWaits, ChallengeAnswersGet
<1> QED
  BY <1>1, ClickHolds, PTL

-----------------------------------------------------------------------------
(***************************************************************************)
(* A button placed as described: it is on every form it is an alternative  *)
(* to.  Two kinds of sessions have to be told apart: those that a click    *)
(* has started, where the alternatives are out of the way, and the others, *)
(* which the topmost form before the button has never let through.         *)
(***************************************************************************)

FormLevels ==
  {k \in AlternativeLevels : \E i \in 1..OnPath(k) - 1 : flow[k][i].does = "asks"}

FormLevel == Min(FormLevels)

LEMMA FormLevelFacts ==
  ASSUME flow \in Flows, PlacedAsDescribed, ~Misplaced
  PROVE  /\ FormLevel \in Levels /\ FormLevel \in AlternativeLevels
         /\ \A k \in FormLevels : FormLevel <= k
         /\ \E i \in Steps(FormLevel) : i < OnPath(FormLevel) /\ flow[FormLevel][i].does = "asks"
<1>1. FormLevels \subseteq Levels /\ FormLevels \subseteq Nat /\ FormLevels # {}
  BY FlowFacts DEF FormLevels, AlternativeLevels, PlacedAsDescribed
<1>2. FormLevel \in FormLevels /\ \A k \in FormLevels : FormLevel <= k
  BY <1>1, MinIsLeast DEF FormLevel
<1> DEFINE k == FormLevel
<1>3. /\ k \in Levels /\ k \in AlternativeLevels
      /\ \E i \in 1..OnPath(k) - 1 : flow[k][i].does = "asks"
  BY <1>1, <1>2 DEF FormLevels
<1> HIDE DEF k
<1>4. PICK i \in 1..OnPath(k) - 1 : flow[k][i].does = "asks"
  BY <1>3
<1>5. OnPath(k) \in DOMAIN flow[k] /\ flow[k] \in Seq(Execution) /\ OnPath(k) \in Nat
  BY <1>3, FlowFacts
<1>6. i \in DOMAIN flow[k] /\ i < OnPath(k)
  BY <1>4, <1>5
<1>7. <<k, i>> \in Siblings(k) /\ Exec(<<k, i>>) = flow[k][i]
  BY <1>4, <1>6 DEF Siblings, Exec
<1>8. flow[k][i].req = "ALTERNATIVE"
  BY <1>3, <1>7 DEF Misplaced
<1>9. flow[k][i].on
  BY <1>3, <1>6, <1>8, FlowAssumption DEF IsFlow, Levels
<1>10. i \in Steps(k)
  BY <1>4, <1>6, <1>9 DEF Steps
<1> QED
  BY <1>2, <1>3, <1>4, <1>6, <1>10 DEF k

\* Whatever the user is asked for has never been tried in vain, nor has the way
\* to the button, and from the form on that way has not been gone.
Untouched(st) ==
  /\ \A e \in Executions : Exec(e).does = "asks" => st[e] # "attempted"
  /\ \A k \in Levels : st[Way(k)] # "attempted"
  /\ \A k \in Levels : k >= FormLevel => ~Processed(st, Way(k))

\* The alternatives are out of the way.
Skipping(st) == \A e \in ExecutionsToSkip : st[e] = "attempted"

\* A step that is asked for has to be skipped for the button only if the button
\* comes after it.
BeforeButton(e) == e \in ExecutionsToSkip => e[1] = FormLevel

LEMMA FormLevelUntouched ==
  ASSUME flow \in Flows, PlacedAsDescribed, ~Misplaced,
         NEW st \in Sessions, Untouched(st), NEW sub \in Passes
  PROVE  LET lp == LevelPass(st, FormLevel, sub)
         IN  /\ Untouched(lp.status) /\ lp.result # "attempted"
             /\ \A e \in Executions : lp.answer = Asking(e) => BeforeButton(e)
<1> DEFINE k == FormLevel
           lp == LevelPass(st, k, sub)
<1>1. PICK i \in Steps(k) : i < OnPath(k) /\ flow[k][i].does = "asks"
  BY FormLevelFacts
<1>2. /\ k \in Levels /\ k \in AlternativeLevels /\ Mandatory(k) = {}
      /\ Candidates(k) = Steps(k) /\ GoesOn(k) = "attempted"
      /\ OnPath(k) \in Nat /\ Steps(k) \subseteq Nat
  BY FormLevelFacts, PlacedLevel, StepFacts DEF Candidates, GoesOn
<1>3. DOMAIN st = Executions
  BY DEF Sessions
<1> HIDE DEF k
<1>4. <<k, i>> \in Executions /\ Exec(<<k, i>>).does = "asks" /\ st[<<k, i>>] # "attempted"
  <2>1. <<k, i>> \in Executions /\ Exec(<<k, i>>) = flow[k][i]
    BY <1>2, StepFacts
  <2> QED
    BY <1>1, <2>1 DEF Untouched
<1>5. Settled(st, k) \/ i \in Stops(st, k, sub)
  <2>1. CASE st[<<k, i>>] = "success"
    BY <1>1, <1>2, <2>1 DEF Settled
  <2>2. CASE st[<<k, i>>] # "success"
    BY <1>1, <1>2, <1>4, <2>2 DEF Stops, Result, Processed
  <2> QED
    BY <2>1, <2>2
<1>6. OnPath(k) \notin Reached(st, k, sub) /\ ~Entered(st, k, sub)
  BY <1>1, <1>2, <1>5 DEF Reached, Entered
<1>7. \A e \in Executions :
        lp.status[e] = IF e[1] = k /\ e[2] \in Reached(st, k, sub) THEN Result(st, sub, e)
                       ELSE st[e]
  BY <1>3, <1>6, LevelPassIs
<1>8. /\ lp.result = LevelResult(st, k, sub)
      /\ lp.answer = IF LevelResult(st, k, sub) # "challenged" THEN Nothing
                     ELSE IF Min(Stops(st, k, sub)) = OnPath(k) THEN sub.answer
                     ELSE Asking(<<k, Min(Stops(st, k, sub))>>)
  BY LevelPassIs
<1> HIDE DEF lp
<1>9. Untouched(lp.status)
  <2>1. ASSUME NEW e \in Executions, Exec(e).does = "asks" PROVE lp.status[e] # "attempted"
    BY <1>7, <2>1 DEF Untouched, Result
  <2>2. ASSUME NEW j \in Levels PROVE lp.status[Way(j)] = st[Way(j)]
    <3>1. Way(j) \in Executions /\ Way(j)[1] = j /\ Way(j)[2] = OnPath(j)
      BY PlacedLevel DEF Way
    <3> QED
      BY <1>6, <1>7, <3>1
  <2> QED
    BY <2>1, <2>2 DEF Untouched, Processed
<1>10. lp.result # "attempted"
  <2>1. CASE Settled(st, k)
    BY <1>8, <2>1 DEF LevelResult
  <2>2. CASE ~Settled(st, k)
    <3>1. Min(Stops(st, k, sub)) \in Stops(st, k, sub)
      BY <1>2, <1>5, <2>2, FirstStop
    <3> QED
      BY <1>2, <1>5, <1>8, <2>2, <3>1 DEF LevelResult, Stops
  <2> QED
    BY <2>1, <2>2
<1>11. ASSUME NEW e \in Executions, lp.answer = Asking(e) PROVE BeforeButton(e)
  <2>1. LevelResult(st, k, sub) = "challenged" /\ ~Settled(st, k)
    BY <1>8, <1>11 DEF Nothing, Showing, Asking, LevelResult
  <2>2. Min(Stops(st, k, sub)) <= i
    BY <1>2, <1>5, <2>1, FirstStop
  <2>3. Min(Stops(st, k, sub)) \in Nat
    BY <1>2, <1>5, <2>1, FirstStop
  <2>4. lp.answer = Asking(<<k, Min(Stops(st, k, sub))>>)
    BY <1>1, <1>2, <1>8, <2>1, <2>2, <2>3
  <2>5. e[1] = k
    BY <1>11, <2>4 DEF Asking
  <2> QED
    BY <2>5 DEF BeforeButton, k
<1> QED
  BY <1>9, <1>10, <1>11 DEF lp, k

LEMMA LevelUntouched ==
  ASSUME flow \in Flows, PlacedAsDescribed, ~Misplaced, NEW k \in Levels, k < FormLevel,
         NEW st \in Sessions, Untouched(st), NEW sub \in Passes,
         Untouched(sub.status), sub.result # "attempted",
         \A e \in Executions : sub.answer = Asking(e) => BeforeButton(e)
  PROVE  LET lp == LevelPass(st, k, sub)
         IN  /\ Untouched(lp.status) /\ lp.result # "attempted"
             /\ \A e \in Executions : lp.answer = Asking(e) => BeforeButton(e)
<1> DEFINE lp == LevelPass(st, k, sub)
<1>1. /\ OnPath(k) \in Candidates(k) /\ OnPath(k) \in Nat /\ Way(k) \in Executions
      /\ Candidates(k) \subseteq Steps(k) /\ Steps(k) \subseteq Nat
      /\ k \in Nat /\ FormLevel \in Nat
  <2>1. OnPath(k) \in Candidates(k) /\ OnPath(k) \in Nat /\ Way(k) \in Executions
    BY PlacedLevel
  <2>2. Candidates(k) \subseteq Steps(k) /\ Steps(k) \subseteq Nat
    BY CandidateFacts, StepFacts
  <2>3. k \in Nat /\ FormLevel \in Nat
    BY FormLevelFacts, FlowFacts
  <2> QED
    BY <2>1, <2>2, <2>3
<1>2. DOMAIN st = Executions
  BY DEF Sessions
<1>3. \A e \in Executions :
        lp.status[e] = IF e[1] = k /\ e[2] \in Reached(st, k, sub) THEN Result(st, sub, e)
                       ELSE IF Entered(st, k, sub) THEN sub.status[e] ELSE st[e]
  BY <1>2, LevelPassIs
<1>4. /\ lp.result = LevelResult(st, k, sub)
      /\ lp.answer = IF LevelResult(st, k, sub) # "challenged" THEN Nothing
                     ELSE IF Min(Stops(st, k, sub)) = OnPath(k) THEN sub.answer
                     ELSE Asking(<<k, Min(Stops(st, k, sub))>>)
  BY LevelPassIs
<1> HIDE DEF lp
<1>5. Exec(Way(k)).does = "path" /\ Result(st, sub, Way(k)) # "attempted"
  <2>1. Exec(Way(k)) = flow[k][OnPath(k)] /\ flow[k][OnPath(k)].does = "path"
    BY <1>1, StepFacts DEF Way, Exec
  <2> QED
    BY <2>1 DEF Untouched, Result
<1>6. \A e \in Executions : Exec(e).does = "asks" => Result(st, sub, e) # "attempted"
  BY DEF Untouched, Result
<1>7. Untouched(lp.status)
  <2>1. ASSUME NEW e \in Executions, Exec(e).does = "asks" PROVE lp.status[e] # "attempted"
    BY <1>3, <1>6, <2>1 DEF Untouched
  <2>2. ASSUME NEW j \in Levels
        PROVE  /\ lp.status[Way(j)] # "attempted"
               /\ j >= FormLevel => ~Processed(lp.status, Way(j))
    <3>1. Way(j) \in Executions /\ Way(j)[1] = j /\ Way(j)[2] = OnPath(j)
      BY PlacedLevel DEF Way
    <3>2. CASE j = k
      BY <1>1, <1>3, <1>5, <3>1, <3>2 DEF Untouched
    <3>3. CASE j # k
      BY <1>3, <3>1, <3>3 DEF Untouched, Processed
    <3> QED
      BY <3>2, <3>3
  <2> QED
    BY <2>1, <2>2 DEF Untouched
<1>8. Mandatory(k) = {} => Settled(st, k) \/ OnPath(k) \in Stops(st, k, sub)
  BY <1>1, <1>5 DEF Stops, GoesOn, Way
<1>9. \A i \in Mandatory(k) : /\ <<k, i>> \in Executions
                              /\ Exec(<<k, i>>).does \in {"path", "asks"}
                              /\ Exec(<<k, i>>).does = "path" => <<k, i>> = Way(k)
  <2>1. ASSUME NEW i \in Mandatory(k)
        PROVE  /\ <<k, i>> \in Executions
               /\ Exec(<<k, i>>).does \in {"path", "asks"}
               /\ Exec(<<k, i>>).does = "path" => <<k, i>> = Way(k)
    <3>1. /\ i \in Steps(k) /\ i \in DOMAIN flow[k] /\ <<k, i>> \in Executions
          /\ Exec(<<k, i>>) = flow[k][i]
          /\ flow[k][i].does \in {"path", "asks", "stays silent"}
          /\ flow[k][i].does = "path" <=> i = OnPath(k)
      BY StepFacts
    <3>2. flow[k][i].req # "ALTERNATIVE"
      BY DEF Mandatory
    <3>3. flow[k][i].does # "stays silent"
      BY <3>1, <3>2, FlowAssumption DEF IsFlow, Levels
    <3> QED
      BY <3>1, <3>3 DEF Way
  <2> QED
    BY <2>1
<1>10. lp.result # "attempted"
  <2>1. CASE Settled(st, k)
    BY <1>4, <2>1 DEF LevelResult
  <2>2. CASE ~Settled(st, k) /\ Stops(st, k, sub) = {}
    BY <1>4, <1>8, <2>2 DEF LevelResult, GoesOn
  <2>3. CASE ~Settled(st, k) /\ Stops(st, k, sub) # {}
    <3>1. Min(Stops(st, k, sub)) \in Stops(st, k, sub)
      BY <2>3, FirstStop
    <3> DEFINE m == Min(Stops(st, k, sub))
    <3> HIDE DEF m
    <3>2. m \in Candidates(k) /\ Result(st, sub, <<k, m>>) # GoesOn(k)
      BY <3>1 DEF m, Stops
    <3>3. lp.result = Result(st, sub, <<k, m>>)
      BY <1>4, <2>3 DEF LevelResult, m
    <3>4. CASE Mandatory(k) = {}
      BY <3>2, <3>3, <3>4 DEF GoesOn
    <3>5. CASE Mandatory(k) # {}
      BY <1>5, <1>6, <1>9, <3>2, <3>3, <3>5 DEF Candidates
    <3> QED
      BY <3>4, <3>5
  <2> QED
    BY <2>1, <2>2, <2>3
<1>11. ASSUME NEW e \in Executions, lp.answer = Asking(e) PROVE BeforeButton(e)
  <2>1. LevelResult(st, k, sub) = "challenged" /\ ~Settled(st, k)
    BY <1>4, <1>11 DEF Nothing, Showing, Asking, LevelResult
  <2>2. Stops(st, k, sub) # {}
    BY <2>1 DEF LevelResult, GoesOn
  <2> DEFINE m == Min(Stops(st, k, sub))
  <2>3. m \in Stops(st, k, sub) /\ \A j \in Stops(st, k, sub) : m <= j
    BY <2>2, FirstStop
  <2>4. Result(st, sub, <<k, m>>) = "challenged"
    BY <2>1, <2>2 DEF LevelResult
  <2>5. m = OnPath(k) \/ lp.answer = Asking(<<k, m>>)
    BY <1>4, <2>1
  <2> HIDE DEF m
  <2>6. CASE m = OnPath(k)
    BY <1>4, <1>11, <2>1, <2>6 DEF m
  <2>7. CASE m # OnPath(k)
    <3>1. e = <<k, m>>
      BY <1>11, <2>5, <2>7 DEF Asking
    <3>2. SUFFICES ASSUME e \in ExecutionsToSkip PROVE FALSE
      BY DEF BeforeButton
    <3>3. k \in AlternativeLevels
      BY <3>1, <3>2 DEF ExecutionsToSkip, Siblings
    <3>4. m < OnPath(k) /\ m \in Steps(k) /\ m \in Nat
      BY <1>1, <1>8, <2>1, <2>3, <2>7, <3>3, PlacedLevel DEF Stops
    <3>5. flow[k][m].does = "asks"
      <4>1. /\ Exec(<<k, m>>) = flow[k][m]
            /\ flow[k][m].does \in {"path", "asks", "stays silent"}
            /\ flow[k][m].does = "path" <=> m = OnPath(k)
        BY <3>4, StepFacts
      <4> QED
        BY <2>4, <2>7, <4>1 DEF Result, Processed
    <3>6. m \in 1..OnPath(k) - 1
      <4>1. m \in DOMAIN flow[k] /\ flow[k] \in Seq(Execution)
        BY <3>4, StepFacts, FlowFacts
      <4> QED
        BY <1>1, <3>4, <4>1
    <3>7. k \in FormLevels
      BY <3>3, <3>5, <3>6 DEF FormLevels
    <3> QED
      BY <1>1, <3>7, FormLevelFacts
  <2> QED
    BY <2>6, <2>7
<1> QED
  BY <1>7, <1>10, <1>11 DEF lp

LEMMA PassUntouched ==
  ASSUME flow \in Flows, PlacedAsDescribed, ~Misplaced,
         NEW st \in Sessions, Untouched(st), NEW r \in Requests, NEW note \in BOOLEAN
  PROVE  LET p == Pass(st, r, note)
         IN  /\ Untouched(p.status) /\ p.result # "attempted"
             /\ \A e \in Executions : p.answer = Asking(e) => BeforeButton(e)
<1>1. Depth \in Nat /\ Depth >= 1 /\ Levels = 1..Depth /\ FormLevel \in Levels
  BY FlowFacts, FormLevelFacts
<1>2. PICK p \in [1..Depth + 1 -> Passes] :
        /\ p[Depth + 1] = ButtonPass(st, r, note)
        /\ \A k \in 1..Depth : p[k] = LevelPass(st, k, p[k + 1])
        /\ Pass(st, r, note) = p[1]
  BY PassRecurs
<1> DEFINE Good(q) == /\ Untouched(q.status) /\ q.result # "attempted"
                      /\ \A e \in Executions : q.answer = Asking(e) => BeforeButton(e)
           T == {k \in 1..Depth + 1 : k <= FormLevel => Good(p[k])}
<1>3. ASSUME NEW k \in 1..Depth, k + 1 <= FormLevel => Good(p[k + 1]), k <= FormLevel
      PROVE  Good(p[k])
  <2> DEFINE sub == p[k + 1]
  <2>1. sub \in Passes /\ p[k] = LevelPass(st, k, sub) /\ k \in Levels
    BY <1>1, <1>2
  <2>2. k + 1 <= FormLevel => Good(sub)
    BY <1>3
  <2> HIDE DEF sub
  <2>3. CASE k = FormLevel
    BY <2>1, <2>3, FormLevelUntouched
  <2>4. CASE k # FormLevel
    <3>1. k < FormLevel /\ k + 1 <= FormLevel
      BY <1>1, <1>3, <2>4
    <3> QED
      BY <2>1, <2>2, <3>1, LevelUntouched
  <2> QED
    BY <2>3, <2>4
<1> HIDE DEF Good
<1>4. \A k \in 1..Depth : k + 1 \in T => k \in T
  BY <1>1, <1>3
<1>5. Depth + 1 \in T /\ 1 \in 1..Depth + 1 /\ 1 <= FormLevel
  BY <1>1
<1>6. \A k \in 1..Depth + 1 : k \in T
  <2> HIDE DEF T
  <2> QED
    BY <1>1, <1>4, <1>5, Upwards
<1>7. Good(p[1])
  BY <1>5, <1>6
<1> QED
  BY <1>2, <1>7 DEF Good

\* What is out of the way is neither asked for nor put back.
LEMMA LevelSkipping ==
  ASSUME flow \in Flows, NEW k \in Levels, NEW st \in Sessions, Skipping(st),
         NEW sub \in Passes, Skipping(sub.status),
         \A e \in Executions : sub.answer = Asking(e) => e \notin ExecutionsToSkip
  PROVE  LET lp == LevelPass(st, k, sub)
         IN  /\ Skipping(lp.status)
             /\ \A e \in Executions : lp.answer = Asking(e) => e \notin ExecutionsToSkip
<1> DEFINE lp == LevelPass(st, k, sub)
<1>1. DOMAIN st = Executions
  BY DEF Sessions
<1>2. \A e \in Executions :
        lp.status[e] = IF e[1] = k /\ e[2] \in Reached(st, k, sub) THEN Result(st, sub, e)
                       ELSE IF Entered(st, k, sub) THEN sub.status[e] ELSE st[e]
  BY <1>1, LevelPassIs
<1>3. lp.answer = IF LevelResult(st, k, sub) # "challenged" THEN Nothing
                  ELSE IF Min(Stops(st, k, sub)) = OnPath(k) THEN sub.answer
                  ELSE Asking(<<k, Min(Stops(st, k, sub))>>)
  BY LevelPassIs
<1> HIDE DEF lp
<1>4. \A e \in ExecutionsToSkip : Result(st, sub, e) = "attempted"
  BY DEF Skipping, Result, Processed
<1>5. Skipping(lp.status)
  BY <1>2, <1>4, SkippedExecutions DEF Skipping
<1>6. ASSUME NEW e \in Executions, lp.answer = Asking(e) PROVE e \notin ExecutionsToSkip
  <2> DEFINE m == Min(Stops(st, k, sub))
  <2>1. LevelResult(st, k, sub) = "challenged"
    BY <1>3, <1>6 DEF Nothing, Showing, Asking
  <2>2. Result(st, sub, <<k, m>>) = "challenged"
    BY <2>1 DEF LevelResult, GoesOn
  <2>3. m = OnPath(k) => lp.answer = sub.answer
    BY <1>3, <2>1
  <2>4. m # OnPath(k) => lp.answer = Asking(<<k, m>>)
    BY <1>3, <2>1
  <2> HIDE DEF m
  <2>5. m # OnPath(k) => e = <<k, m>>
    BY <1>6, <2>4 DEF Asking
  <2> QED
    BY <1>4, <1>6, <2>2, <2>3, <2>5
<1> QED
  BY <1>5, <1>6 DEF lp

LEMMA PassSkipping ==
  ASSUME flow \in Flows, NEW st \in Sessions, Skipping(st), NEW r \in Requests,
         NEW note \in BOOLEAN
  PROVE  LET p == Pass(st, r, note)
         IN  /\ Skipping(p.status)
             /\ \A e \in Executions : p.answer = Asking(e) => e \notin ExecutionsToSkip
<1>1. Depth \in Nat /\ Depth >= 1 /\ Levels = 1..Depth
  BY FlowFacts
<1>2. PICK p \in [1..Depth + 1 -> Passes] :
        /\ p[Depth + 1] = ButtonPass(st, r, note)
        /\ \A k \in 1..Depth : p[k] = LevelPass(st, k, p[k + 1])
        /\ Pass(st, r, note) = p[1]
  BY PassRecurs
<1> DEFINE Good(q) ==
             /\ Skipping(q.status)
             /\ \A e \in Executions : q.answer = Asking(e) => e \notin ExecutionsToSkip
           T == {k \in 1..Depth + 1 : Good(p[k])}
<1>3. Good(ButtonPass(st, r, note))
  <2>1. ButtonPass(st, r, note).status = st
    BY ButtonPassFacts
  <2>2. ButtonPass(st, r, note).answer.kind # "asks"
    BY ButtonDoesFacts DEF ButtonPass, Nothing, Showing, Negotiating
  <2> QED
    BY <2>1, <2>2 DEF Asking
<1>4. ASSUME NEW k \in 1..Depth, Good(p[k + 1]) PROVE Good(p[k])
  <2> DEFINE sub == p[k + 1]
  <2>1. sub \in Passes /\ p[k] = LevelPass(st, k, sub) /\ k \in Levels /\ Good(sub)
    BY <1>1, <1>2, <1>4
  <2> HIDE DEF sub
  <2> QED
    BY <2>1, LevelSkipping
<1> HIDE DEF Good
<1>5. \A k \in 1..Depth : k + 1 \in T => k \in T
  BY <1>1, <1>4
<1>6. Depth + 1 \in T /\ 1 \in 1..Depth + 1
  <2>1. Depth + 1 \in 1..Depth + 1
    BY <1>1
  <2>2. Good(p[Depth + 1])
    BY <1>2, <1>3, Zenon
  <2> QED
    BY <1>1, <2>1, <2>2
<1>7. \A k \in 1..Depth + 1 : k \in T
  <2> HIDE DEF T
  <2> QED
    BY <1>1, <1>5, <1>6, Upwards
<1>8. Good(p[1])
  BY <1>6, <1>7
<1> QED
  BY <1>2, <1>8 DEF Good

LEMMA FreshIsUntouched == ASSUME flow \in Flows, PlacedAsDescribed, ~Misplaced
                          PROVE  Untouched(Fresh)
<1>1. \A k \in Levels : Way(k) \in Executions
  BY PlacedLevel
<1> QED
  BY <1>1 DEF Untouched, Fresh, Processed

\* The session is one of the two kinds, and of the second one if the page asks
\* for what a click would skip.
OneKind(st, pg) ==
  /\ Skipping(st) \/ Untouched(st)
  /\ \A e \in ExecutionsToSkip : pg = Asking(e) => Untouched(st) /\ e[1] = FormLevel

LEMMA ServedForm ==
  ASSUME flow \in Flows, PlacedAsDescribed, ~Misplaced, NEW st \in Sessions,
         Skipping(st) \/ Untouched(st), NEW note \in BOOLEAN, NEW r \in Requests, NEW pr
  PROVE  OneKind(Served(st, note, r, pr).status, Served(st, note, r, pr).page)
<1> DEFINE first == Pass(st, r, note)
           second == Pass(Fresh, r, FALSE)
           last == IF first.answer = Showing("resets") THEN second ELSE first
           Good(q) == /\ Skipping(q.status) \/ Untouched(q.status)
                      /\ \A e \in ExecutionsToSkip :
                           q.answer = Asking(e) => Untouched(q.status) /\ e[1] = FormLevel
<1>1. Good(first)
  <2>1. CASE Untouched(st)
    BY <2>1, PassUntouched, SkippedExecutions DEF BeforeButton
  <2>2. CASE Skipping(st)
    BY <2>2, PassSkipping, SkippedExecutions
  <2> QED
    BY <2>1, <2>2
<1>2. Good(second)
  BY FreshIsUntouched, FreshIsHonest, PassUntouched, SkippedExecutions DEF BeforeButton
<1>3. Good(last)
  BY <1>1, <1>2
<1>4. /\ Served(st, note, r, pr).status = last.status
      /\ Served(st, note, r, pr).page =
           IF last.answer # Nothing THEN last.answer
           ELSE Showing(IF last.result = "success" THEN "done" ELSE "error")
  BY DEF Served
<1> HIDE DEF last
<1>5. \A e : Served(st, note, r, pr).page = Asking(e) => last.answer = Asking(e)
  BY <1>4 DEF Showing, Asking
<1> QED
  BY <1>3, <1>4, <1>5 DEF OneKind

LEMMA KindNext ==
  ASSUME flow' = flow, NEW st, NEW pg, status' = st, page' = pg
  PROVE  OneKind(status, page)' <=> OneKind(st, pg)
<1>1. Levels' = Levels /\ Executions' = Executions /\ \A k : OnPath(k)' = OnPath(k)
  BY SameFlow
<1>2. /\ ExecutionsToSkip' = ExecutionsToSkip /\ AlternativeLevels' = AlternativeLevels
      /\ \A e : Exec(e)' = Exec(e)
  BY SamePlacement
<1>3. FormLevels' = FormLevels
  BY <1>1, <1>2 DEF FormLevels
<1>4. FormLevel' = FormLevel
  BY <1>3 DEF FormLevel
<1>5. Skipping(status)' <=> Skipping(st)
  BY <1>2 DEF Skipping
<1>6. Untouched(status)' <=> Untouched(st)
  BY <1>1, <1>2, <1>4 DEF Untouched, Processed, Way
<1> QED
  BY <1>2, <1>4, <1>5, <1>6 DEF OneKind, Asking

FormInv == PlacedAsDescribed /\ ~Misplaced => OneKind(status, page)

OfferInv == ClickInv /\ FormInv

LEMMA ServeForm ==
  ASSUME flow \in Flows, NEW st \in Sessions, NEW note \in BOOLEAN, NEW r \in Requests, NEW pr,
         Serve(st, note, r, pr),
         PlacedAsDescribed /\ ~Misplaced => Skipping(st) \/ Untouched(st)
  PROVE  FormInv'
<1> DEFINE s == Served(st, note, r, pr)
<1>1. flow' = flow /\ status' = s.status /\ page' = s.page
  BY DEF Serve
<1>2. PlacedAsDescribed' = PlacedAsDescribed /\ Misplaced' = Misplaced
  BY <1>1, SamePlacement
<1>3. PlacedAsDescribed /\ ~Misplaced => OneKind(s.status, s.page)
  BY ServedForm
<1> HIDE DEF s
<1>4. OneKind(status, page)' <=> OneKind(s.status, s.page)
  BY <1>1, KindNext
<1> QED
  BY <1>2, <1>3, <1>4 DEF FormInv

LEMMA OfferInit == Init => OfferInv
<1> SUFFICES ASSUME Init PROVE OfferInv
  OBVIOUS
<1>1. flow \in Flows /\ status = Fresh /\ page.kind = "start"
  BY DEF Init, Showing
<1>2. ASSUME PlacedAsDescribed, ~Misplaced PROVE OneKind(status, page)
  BY <1>1, <1>2, FreshIsUntouched DEF OneKind, Asking
<1> QED
  BY <1>2, ClickInit DEF OfferInv, FormInv

\* A click is refused only where the button is misplaced.
LEMMA RefusedIfMisplaced ==
  ASSUME NEW ticket \in Headers, NEW note \in BOOLEAN,
         ButtonDoes(Click(ticket), note) = "attempted"
  PROVE  Misplaced
<1>1. ticket \in {"none", "valid", "rejected", "continue"}
  BY FlowAssumption DEF Headers
<1>2. CASE Evaluates(Click(ticket), note)
  BY <1>1, <1>2 DEF ButtonDoes, Evaluates, Validated, Click
<1>3. CASE ~Evaluates(Click(ticket), note)
  BY <1>3 DEF ButtonDoes, Click
<1> QED
  BY <1>2, <1>3

\* What the user passes is neither the way to the button nor tried in vain.
LEMMA PassedStepKeepsKind ==
  ASSUME flow \in Flows, PlacedAsDescribed, ~Misplaced, NEW st \in Sessions,
         NEW e \in Executions, e[2] # OnPath(e[1]), OneKind(st, Asking(e))
  PROVE  Skipping([st EXCEPT ![e] = "success"]) \/ Untouched([st EXCEPT ![e] = "success"])
<1> DEFINE new == [st EXCEPT ![e] = "success"]
<1>1. /\ DOMAIN st = Executions
      /\ \A x \in Executions : new[x] = IF x = e THEN "success" ELSE st[x]
  BY DEF Sessions
<1> HIDE DEF new
<1>2. CASE Untouched(st)
  <2>1. \A k \in Levels : Way(k) \in Executions /\ Way(k) # e
    BY PlacedLevel DEF Way
  <2>2. Untouched(new)
    BY <1>1, <1>2, <2>1 DEF Untouched, Processed
  <2> QED
    BY <2>2 DEF new
<1>3. CASE ~Untouched(st)
  <2>1. Skipping(st) /\ e \notin ExecutionsToSkip
    BY <1>3 DEF OneKind
  <2>2. Skipping(new)
    BY <1>1, <2>1, SkippedExecutions DEF Skipping
  <2> QED
    BY <2>2 DEF new
<1> QED
  BY <1>2, <1>3

LEMMA OfferNext == OfferInv /\ [Next]_vars => OfferInv'
<1> SUFFICES ASSUME OfferInv, [Next]_vars PROVE OfferInv'
  OBVIOUS
<1>1. ClickInv'
  BY ClickNext DEF OfferInv
<1> SUFFICES FormInv'
  BY <1>1 DEF OfferInv
<1>2. /\ flow \in Flows /\ status \in Sessions /\ requested \in BOOLEAN
      /\ page \in Pages /\ ButtonInv
  BY DEF OfferInv, ClickInv, ButtonInv, TypeOK, Sessions, Statuses
<1>3. PlacedAsDescribed /\ ~Misplaced => OneKind(status, page)
  BY DEF OfferInv, FormInv
<1>4. ASSUME NEW note \in BOOLEAN, NEW r \in Requests, NEW pr, Serve(status, note, r, pr)
      PROVE  FormInv'
  BY <1>2, <1>3, <1>4, ServeForm DEF OneKind
<1>5. ASSUME NEW r \in Requests, NEW pr, Serve(Fresh, FALSE, r, pr)
      PROVE  FormInv'
  BY <1>2, <1>5, ServeForm, FreshIsUntouched, FreshIsHonest
<1>6. CASE UNCHANGED vars
  <2>1. PlacedAsDescribed' = PlacedAsDescribed /\ Misplaced' = Misplaced
    BY <1>6, SamePlacement DEF vars
  <2>2. OneKind(status, page)' <=> OneKind(status, page)
    BY <1>6, KindNext DEF vars
  <2> QED
    BY <1>3, <2>1, <2>2 DEF FormInv
<1>7. CASE Browser
  <2>1. CASE PostFallback
    <3>1. Post("none") \in Requests /\ Serve(Fresh, FALSE, Post("none"), {})
      BY <2>1, TicketsMakeRequests DEF PostFallback, StartOver, Headers
    <3> QED
      BY <1>5, <3>1
  <2>2. ASSUME NEW ticket \in Headers, FollowRedirect(ticket) PROVE FormInv'
    BY <1>2, <1>4, <2>2, TicketsMakeRequests DEF FollowRedirect, Continue
  <2>3. ASSUME NEW ticket \in Headers, SendTicket(ticket) PROVE FormInv'
    <3>1. CASE Serve(status, requested, Get(ticket), proven)
      BY <1>2, <1>4, <3>1, TicketsMakeRequests
    <3>2. CASE page' = Showing("expired") /\ UNCHANGED <<flow, status, requested, proven>>
      <4>1. PlacedAsDescribed' = PlacedAsDescribed /\ Misplaced' = Misplaced
        BY <3>2, SamePlacement
      <4>2. OneKind(status, page)' <=> OneKind(status, Showing("expired"))
        BY <3>2, KindNext
      <4>3. PlacedAsDescribed /\ ~Misplaced => OneKind(status, Showing("expired"))
        BY <1>3 DEF OneKind, Showing, Asking
      <4> QED
        BY <4>1, <4>2, <4>3 DEF FormInv
    <3> QED
      BY <2>3, <3>1, <3>2 DEF SendTicket, Continue
  <2> QED
    BY <1>7, <2>1, <2>2, <2>3 DEF Browser
<1>8. CASE User
  <2>1. PICK ticket \in Headers :
          Load(ticket) \/ Submit(ticket) \/ ClickButton(ticket) \/ ClickRefused(ticket)
            \/ Restart(ticket)
    BY <1>8 DEF User
  <2>2. CASE Load(ticket)
    BY <1>2, <1>4, <2>2, TicketsMakeRequests DEF Load, Continue
  <2>3. CASE Submit(ticket)
    <3> DEFINE e == page.step
               st == [status EXCEPT ![e] = "success"]
    <3>1. e \in Executions /\ e[2] # OnPath(e[1]) /\ page.kind = "asks"
      BY <1>2, <2>3, AskedStep DEF Submit, Continue
    <3>2. page = Asking(e)
      BY <1>2, <3>1 DEF Pages, Asking, Negotiating, Showing
    <3>3. PlacedAsDescribed /\ ~Misplaced => Skipping(st) \/ Untouched(st)
      <4> HIDE DEF e
      <4> QED
        BY <1>2, <1>3, <3>1, <3>2, PassedStepKeepsKind
    <3>4. st \in Sessions
      BY <1>2 DEF Sessions, Statuses
    <3>5. Serve(st, requested, Post(ticket), proven \cup {e})
      BY <2>3 DEF Submit, Continue
    <3> HIDE DEF st, e
    <3> QED
      BY <1>2, <3>3, <3>4, <3>5, TicketsMakeRequests, ServeForm
  <2>4. CASE ClickRefused(ticket)
    <3>1. Misplaced /\ flow' = flow
      BY <1>2, <2>4, RefusedIfMisplaced DEF ClickRefused, Continue, Serve
    <3>2. Misplaced'
      BY <3>1, SamePlacement
    <3> QED
      BY <3>2 DEF FormInv
  <2>5. CASE ClickButton(ticket)
    <3> DEFINE sk == Skipped
    <3>1. flow' = flow /\ status' = sk /\ page' = Showing("redirect")
      BY <2>5 DEF ClickButton, ClickAnswer
    <3>2. Skipping(sk)
      BY <1>2, SkippedIsClear DEF Clear, Skipping
    <3> HIDE DEF sk
    <3>3. OneKind(sk, Showing("redirect"))
      BY <3>2 DEF OneKind, Showing, Asking
    <3>4. OneKind(status, page)'
      BY <3>1, <3>3, KindNext
    <3> QED
      BY <3>4 DEF FormInv
  <2>6. CASE Restart(ticket)
    BY <1>5, <2>6, TicketsMakeRequests DEF Restart, StartOver
  <2> QED
    BY <2>1, <2>2, <2>3, <2>4, <2>5, <2>6
<1> QED
  BY <1>6, <1>7, <1>8 DEF Next

\* Both invariants of a button placed as described hold for every flow.
THEOREM OfferHolds == Spec => []OfferInv
BY OfferInit, OfferNext, PTL DEF Spec

\* However a click has ended, the form the button is an alternative to has it
\* again, and no earlier click is pending: the click is never lost.
THEOREM FormKeepsButton == Spec => []FormOffersButton
<1>1. ASSUME OfferInv, PlacedAsDescribed, ~Misplaced, page.kind = "asks",
             Exec(page.step).req = "ALTERNATIVE", page.step \in ExecutionsToSkip
      PROVE  Offered(page.step) /\ ~requested
  <2> DEFINE e == page.step
  <2>1. flow \in Flows /\ page \in Pages /\ OneKind(status, page)
    BY <1>1 DEF OfferInv, ClickInv, ButtonInv, TypeOK, FormInv
  <2>2. page = Asking(e)
    BY <1>1, <2>1 DEF Pages, Asking, Negotiating, Showing
  <2>3. Untouched(status) /\ e[1] = FormLevel
    BY <1>1, <2>1, <2>2 DEF OneKind
  <2>4. ~requested
    BY <1>1 DEF OfferInv, ClickInv, ClickWaits
  <2>5. \A k \in Levels : OnPath(k) \in Steps(k)
    BY <1>1 DEF PlacedAsDescribed
  <2> QED
    BY <1>1, <2>3, <2>4, <2>5 DEF Offered, Untouched, Way
<1>2. OfferInv => FormOffersButton
  BY <1>1 DEF FormOffersButton
<1> QED
  BY <1>2, OfferHolds, PTL

-----------------------------------------------------------------------------
(***************************************************************************)
(* A button placed as described: no click leads to a dead end.             *)
(***************************************************************************)

\* A challenge says how the browser is to go on.
LEMMA PassAnswers ==
  ASSUME flow \in Flows, NEW st \in Sessions, NEW r \in Requests, NEW note \in BOOLEAN
  PROVE  Pass(st, r, note).result = "challenged" => Pass(st, r, note).answer # Nothing
<1>1. Depth \in Nat /\ Depth >= 1 /\ Levels = 1..Depth
  BY FlowFacts
<1>2. PICK p \in [1..Depth + 1 -> Passes] :
        /\ p[Depth + 1] = ButtonPass(st, r, note)
        /\ \A k \in 1..Depth : p[k] = LevelPass(st, k, p[k + 1])
        /\ Pass(st, r, note) = p[1]
  BY PassRecurs
<1> DEFINE Good(q) == q.result = "challenged" => q.answer # Nothing
           T == {k \in 1..Depth + 1 : Good(p[k])}
<1>3. Good(ButtonPass(st, r, note))
  BY ButtonDoesFacts DEF ButtonPass, Nothing, Showing, Negotiating
<1>4. ASSUME NEW k \in 1..Depth, Good(p[k + 1]) PROVE Good(p[k])
  <2> DEFINE sub == p[k + 1]
             m == Min(Stops(st, k, sub))
  <2>1. /\ p[k] = LevelPass(st, k, sub) /\ k \in Levels
        /\ sub.result = "challenged" => sub.answer # Nothing
    BY <1>1, <1>2, <1>4
  <2> HIDE DEF sub
  <2> SUFFICES ASSUME p[k].result = "challenged" PROVE p[k].answer # Nothing
    OBVIOUS
  <2>2. /\ LevelResult(st, k, sub) = "challenged"
        /\ p[k].answer = IF m = OnPath(k) THEN sub.answer ELSE Asking(<<k, m>>)
    BY <2>1, LevelPassIs
  <2>3. /\ m \in Steps(k) /\ Result(st, sub, <<k, m>>) = "challenged"
    BY <2>1, <2>2, FirstStop DEF LevelResult, GoesOn
  <2> HIDE DEF m
  <2>4. CASE m = OnPath(k)
    <3>1. Exec(<<k, m>>).does = "path"
      <4>1. Exec(<<k, m>>) = flow[k][m] /\ (flow[k][m].does = "path" <=> m = OnPath(k))
        BY <2>1, <2>3, StepFacts
      <4> QED
        BY <2>4, <4>1
    <3>2. sub.result = "challenged"
      BY <2>3, <3>1 DEF Result, Processed
    <3> QED
      BY <2>1, <2>2, <2>4, <3>2
  <2>5. CASE m # OnPath(k)
    BY <2>2, <2>5 DEF Asking, Nothing, Showing
  <2> QED
    BY <2>4, <2>5
<1> HIDE DEF Good
<1>5. \A k \in 1..Depth : k + 1 \in T => k \in T
  BY <1>1, <1>4
<1>6. Depth + 1 \in T /\ 1 \in 1..Depth + 1
  <2>1. Depth + 1 \in 1..Depth + 1
    BY <1>1
  <2>2. Good(p[Depth + 1])
    BY <1>2, <1>3, Zenon
  <2> QED
    BY <1>1, <2>1, <2>2
<1>7. \A k \in 1..Depth + 1 : k \in T
  <2> HIDE DEF T
  <2> QED
    BY <1>1, <1>5, <1>6, Upwards
<1>8. Good(p[1])
  BY <1>6, <1>7
<1> QED
  BY <1>2, <1>8 DEF Good

\* A pass that comes to nothing has no answer.
LEMMA PassQuiet ==
  ASSUME flow \in Flows, NEW st \in Sessions, NEW r \in Requests, NEW note \in BOOLEAN
  PROVE  Pass(st, r, note).result # "challenged" => Pass(st, r, note).answer = Nothing
<1>1. Depth \in Nat /\ Depth >= 1
  BY FlowFacts
<1>2. PICK p \in [1..Depth + 1 -> Passes] :
        /\ \A k \in 1..Depth : p[k] = LevelPass(st, k, p[k + 1])
        /\ Pass(st, r, note) = p[1]
  BY PassRecurs
<1>3. PICK sub : Pass(st, r, note) = LevelPass(st, 1, sub)
  BY <1>1, <1>2
<1>4. LevelPass(st, 1, sub).result # "challenged" => LevelPass(st, 1, sub).answer = Nothing
  BY LevelPassIs
<1> QED
  BY <1>3, <1>4

\* Only what a click skips has been tried in vain.
Sound(st) ==
  \A e \in Executions : st[e] = "attempted" /\ Exec(e).does \in {"asks", "path"}
                          => e \in ExecutionsToSkip

\* The way to the button is nothing a click skips, nor is a mandatory step.
LEMMA NotSkipped ==
  ASSUME flow \in Flows, PlacedAsDescribed, ~Misplaced, NEW k \in Levels
  PROVE  /\ Way(k) \in Executions /\ Exec(Way(k)).does = "path" /\ Way(k) \notin ExecutionsToSkip
         /\ \A i \in Mandatory(k) : /\ <<k, i>> \in Executions
                                    /\ Exec(<<k, i>>).does \in {"asks", "path"}
                                    /\ Exec(<<k, i>>).does = "path" => i = OnPath(k)
                                    /\ <<k, i>> \notin ExecutionsToSkip
<1>1. Way(k) \in Executions /\ OnPath(k) \in Steps(k)
  BY PlacedLevel, CandidateFacts
<1>2. Exec(Way(k)) = flow[k][OnPath(k)] /\ flow[k][OnPath(k)].does = "path"
  BY <1>1, StepFacts DEF Way, Exec
<1>3. Way(k) \notin ExecutionsToSkip
  BY <1>2 DEF ExecutionsToSkip, Siblings, Way
<1>4. ASSUME NEW i \in Mandatory(k)
      PROVE  /\ <<k, i>> \in Executions
             /\ Exec(<<k, i>>).does \in {"asks", "path"}
             /\ Exec(<<k, i>>).does = "path" => i = OnPath(k)
             /\ <<k, i>> \notin ExecutionsToSkip
  <2>1. /\ i \in Steps(k) /\ i \in DOMAIN flow[k] /\ <<k, i>> \in Executions
        /\ Exec(<<k, i>>) = flow[k][i]
        /\ flow[k][i].does \in {"path", "asks", "stays silent"}
        /\ flow[k][i].does = "path" <=> i = OnPath(k)
    BY StepFacts
  <2>2. flow[k][i].req # "ALTERNATIVE"
    BY DEF Mandatory
  <2>3. flow[k][i].does # "stays silent"
    BY <2>1, <2>2, FlowAssumption DEF IsFlow, Levels
  <2>4. <<k, i>> \notin ExecutionsToSkip
    BY PlacedLevel DEF ExecutionsToSkip, Siblings
  <2> QED
    BY <2>1, <2>3, <2>4
<1> QED
  BY <1>1, <1>2, <1>3, <1>4

\* A level whose step on the path is not tried in vain is not, either.
LEMMA LevelSound ==
  ASSUME flow \in Flows, PlacedAsDescribed, ~Misplaced, NEW k \in Levels,
         NEW st \in Sessions, Sound(st), NEW sub \in Passes, Sound(sub.status),
         Result(st, sub, Way(k)) # "attempted"
  PROVE  LET lp == LevelPass(st, k, sub)
         IN  Sound(lp.status) /\ lp.result # "attempted"
<1> DEFINE lp == LevelPass(st, k, sub)
<1>1. DOMAIN st = Executions
  BY DEF Sessions
<1>2. \A e \in Executions :
        lp.status[e] = IF e[1] = k /\ e[2] \in Reached(st, k, sub) THEN Result(st, sub, e)
                       ELSE IF Entered(st, k, sub) THEN sub.status[e] ELSE st[e]
  BY <1>1, LevelPassIs
<1>3. lp.result = LevelResult(st, k, sub)
  BY LevelPassIs
<1> HIDE DEF lp
<1>4. Sound(lp.status)
  <2>1. ASSUME NEW e \in Executions, lp.status[e] = "attempted", Exec(e).does \in {"asks", "path"}
        PROVE  e \in ExecutionsToSkip
    <3>1. CASE e[1] = k /\ e[2] \in Reached(st, k, sub)
      <4>1. Result(st, sub, e) = "attempted"
        BY <1>2, <2>1, <3>1
      <4>2. e = <<k, e[2]>> /\ e[2] \in DOMAIN flow[k]
        BY <3>1, ExecutionsAre
      <4>3. Exec(e) = flow[k][e[2]]
        BY <3>1 DEF Exec
      <4>4. Exec(e).does = "path" => e = Way(k)
        BY <4>2, <4>3, FlowFacts DEF Way
      <4>5. Processed(st, e)
        <5>1. Exec(e).does # "path"
          BY <4>1, <4>4
        <5> QED
          BY <2>1, <4>1, <5>1 DEF Result
      <4> QED
        BY <2>1, <4>1, <4>5 DEF Result, Sound
    <3>2. CASE ~(e[1] = k /\ e[2] \in Reached(st, k, sub))
      BY <1>2, <2>1, <3>2 DEF Sound
    <3> QED
      BY <3>1, <3>2
  <2> QED
    BY <2>1 DEF Sound
<1>5. lp.result # "attempted"
  <2>1. OnPath(k) \in Candidates(k)
    BY PlacedLevel
  <2>2. CASE Settled(st, k)
    BY <1>3, <2>2 DEF LevelResult
  <2>3. CASE ~Settled(st, k) /\ Stops(st, k, sub) = {}
    <3>1. Result(st, sub, Way(k)) = GoesOn(k)
      BY <2>1, <2>3 DEF Stops, Way
    <3> QED
      BY <1>3, <2>3, <3>1 DEF LevelResult
  <2>4. CASE ~Settled(st, k) /\ Stops(st, k, sub) # {}
    <3> DEFINE m == Min(Stops(st, k, sub))
    <3>1. m \in Candidates(k) /\ Result(st, sub, <<k, m>>) # GoesOn(k)
      BY <2>4, FirstStop DEF Stops
    <3>2. lp.result = Result(st, sub, <<k, m>>)
      BY <1>3, <2>4 DEF LevelResult
    <3> HIDE DEF m
    <3>3. CASE Mandatory(k) = {}
      BY <3>1, <3>2, <3>3 DEF GoesOn
    <3>4. CASE Mandatory(k) # {}
      <4>1. /\ <<k, m>> \in Executions /\ Exec(<<k, m>>).does \in {"asks", "path"}
            /\ Exec(<<k, m>>).does = "path" => <<k, m>> = Way(k)
            /\ <<k, m>> \notin ExecutionsToSkip
        BY <3>1, <3>4, NotSkipped DEF Candidates, Way
      <4>2. st[<<k, m>>] # "attempted"
        BY <4>1 DEF Sound
      <4> QED
        BY <3>2, <4>1, <4>2 DEF Result
    <3> QED
      BY <3>3, <3>4
  <2> QED
    BY <2>2, <2>3, <2>4
<1> QED
  BY <1>4, <1>5 DEF lp

\* A ticket is used only if the button evaluates it.
LEMMA PassUses ==
  ASSUME flow \in Flows, NEW st \in Sessions, NEW r \in Requests, NEW note \in BOOLEAN
  PROVE  Pass(st, r, note).used => Evaluates(r, note)
<1>1. Depth \in Nat /\ Depth >= 1 /\ Levels = 1..Depth
  BY FlowFacts
<1>2. PICK p \in [1..Depth + 1 -> Passes] :
        /\ p[Depth + 1] = ButtonPass(st, r, note)
        /\ \A k \in 1..Depth : p[k] = LevelPass(st, k, p[k + 1])
        /\ Pass(st, r, note) = p[1]
  BY PassRecurs
<1> DEFINE T == {k \in 1..Depth + 1 : p[k].used => Evaluates(r, note)}
<1>3. ASSUME NEW k \in 1..Depth, k + 1 \in T PROVE k \in T
  <2>1. p[k] = LevelPass(st, k, p[k + 1]) /\ (p[k + 1].used => Evaluates(r, note))
    BY <1>1, <1>2, <1>3
  <2>2. p[k].used => p[k + 1].used
    <3> DEFINE sub == p[k + 1]
    <3>1. /\ sub \in Passes /\ k \in Levels /\ p[k] = LevelPass(st, k, sub)
      BY <1>1, <1>2
    <3> HIDE DEF sub
    <3>2. p[k].used = (Entered(st, k, sub) /\ sub.used)
      BY <3>1, LevelAdds
    <3>3. p[k].used => sub.used
      BY <3>1, <3>2
    <3> QED
      BY <3>3 DEF sub
  <2> QED
    BY <1>1, <2>1, <2>2
<1>4. Depth + 1 \in T /\ 1 \in 1..Depth + 1
  BY <1>1, <1>2, ButtonPassFacts
<1>5. \A k \in 1..Depth + 1 : k \in T
  <2> HIDE DEF T
  <2> QED
    BY <1>1, <1>3, <1>4, Upwards
<1> QED
  BY <1>2, <1>4, <1>5

\* While nothing is in its way, the button decides about the whole flow.
LEMMA PassLeadsOn ==
  ASSUME flow \in Flows, PlacedAsDescribed, ~Misplaced, NEW st \in Sessions, Clear(st), Sound(st),
         NEW r \in Requests, NEW note \in BOOLEAN, ButtonPass(st, r, note).result # "attempted"
  PROVE  LET p == Pass(st, r, note)
             b == ButtonPass(st, r, note)
         IN  /\ Sound(p.status) /\ p.result # "attempted"
             /\ b.result = "challenged" => /\ p.result = "challenged" /\ p.answer = b.answer
                                           /\ Clear(p.status)
             /\ b.result = "success" => p.status[Button] = "success"
<1> DEFINE b == ButtonPass(st, r, note)
<1>1. Depth \in Nat /\ Depth >= 1 /\ Levels = 1..Depth
  BY FlowFacts
<1>2. PICK p \in [1..Depth + 1 -> Passes] :
        /\ p[Depth + 1] = b
        /\ \A k \in 1..Depth : p[k] = LevelPass(st, k, p[k + 1])
        /\ Pass(st, r, note) = p[1]
  BY PassRecurs
<1> DEFINE Good(q) == /\ Sound(q.status) /\ q.result # "attempted"
                      /\ b.result = "challenged" => /\ q.result = "challenged"
                                                    /\ q.answer = b.answer /\ Clear(q.status)
           Has(q) == b.result = "success" => q.status[Button] = "success"
           T == {k \in 1..Depth + 1 : Good(p[k]) /\ (k <= Depth => Has(p[k]))}
<1>3. Good(b)
  <2>1. b.status = st
    BY ButtonPassFacts
  <2> HIDE DEF b
  <2> QED
    BY <2>1 DEF b
<1>4. ASSUME NEW k \in 1..Depth, Good(p[k + 1]), k + 1 <= Depth => Has(p[k + 1])
      PROVE  Good(p[k]) /\ Has(p[k])
  <2> DEFINE sub == p[k + 1]
             lp == LevelPass(st, k, sub)
  <2>1. /\ sub \in Passes /\ p[k] = lp /\ k \in Levels
        /\ Good(sub) /\ (k + 1 <= Depth => Has(sub)) /\ (k = Depth => sub = b)
    BY <1>1, <1>2, <1>4
  <2> HIDE DEF sub
  <2>2. /\ Entered(st, k, sub) /\ ~Processed(st, Way(k)) /\ OnPath(k) \in Reached(st, k, sub)
    BY <2>1, EnteredWhenClear DEF Clear, Entered
  <2>3. /\ Way(k) \in Executions /\ Exec(Way(k)).does = "path"
    BY <2>1, NotSkipped
  <2>4. Result(st, sub, Way(k)) = sub.result
    BY <2>2, <2>3 DEF Result
  <2>5. Sound(lp.status) /\ lp.result # "attempted"
    BY <2>1, <2>4, LevelSound
  <2>6. b.result = "challenged" =>
          lp.result = "challenged" /\ lp.answer = b.answer /\ Clear(lp.status)
    BY <2>1, LevelClear
  <2>7. ASSUME b.result = "success" PROVE lp.status[Button] = "success"
    <3>1. DOMAIN st = Executions /\ Button \in Executions /\ Button[1] = Depth
      BY ButtonFacts DEF Sessions
    <3>2. lp.status[Button] =
            IF Button[1] = k /\ Button[2] \in Reached(st, k, sub) THEN Result(st, sub, Button)
            ELSE sub.status[Button]
      BY <2>2, <3>1, LevelPassIs
    <3>3. CASE k = Depth
      <4>1. Button = Way(k) /\ Button[2] = OnPath(k)
        BY <3>3 DEF Button, Way
      <4>2. lp.status[Button] = sub.result
        BY <2>2, <2>4, <3>1, <3>2, <3>3, <4>1
      <4> QED
        BY <2>1, <2>7, <3>3, <4>2
    <3>4. CASE k # Depth
      <4>1. Has(sub) /\ Button[1] # k
        BY <1>1, <2>1, <3>1, <3>4
      <4> HIDE DEF lp, b
      <4> QED
        BY <2>7, <3>2, <4>1
    <3> QED
      BY <3>3, <3>4
  <2> HIDE DEF lp, b
  <2> QED
    BY <2>1, <2>5, <2>6, <2>7
<1> HIDE DEF Good, Has, b
<1>5. \A k \in 1..Depth : k + 1 \in T => k \in T
  BY <1>1, <1>4
<1>6. Depth + 1 \in T /\ 1 \in 1..Depth + 1 /\ 1 <= Depth
  <2>1. Depth + 1 \in 1..Depth + 1 /\ ~(Depth + 1 <= Depth)
    BY <1>1
  <2>2. Good(p[Depth + 1])
    BY <1>2, <1>3, Zenon
  <2> QED
    BY <1>1, <2>1, <2>2
<1>7. \A k \in 1..Depth + 1 : k \in T
  <2> HIDE DEF T
  <2> QED
    BY <1>1, <1>5, <1>6, Upwards
<1>8. Good(p[1]) /\ Has(p[1])
  BY <1>6, <1>7
<1> QED
  BY <1>2, <1>8 DEF Good, Has, b

\* Once the button has accepted a ticket, the way to it stays passable.
LEMMA PassGranted ==
  ASSUME flow \in Flows, PlacedAsDescribed, ~Misplaced, NEW st \in Sessions, Sound(st),
         st[Button] = "success", NEW r \in Requests, NEW note \in BOOLEAN
  PROVE  LET p == Pass(st, r, note)
         IN  Sound(p.status) /\ p.result # "attempted" /\ p.status[Button] = "success"
<1>1. Depth \in Nat /\ Depth >= 1 /\ Levels = 1..Depth
  BY FlowFacts
<1>2. PICK p \in [1..Depth + 1 -> Passes] :
        /\ p[Depth + 1] = ButtonPass(st, r, note)
        /\ \A k \in 1..Depth : p[k] = LevelPass(st, k, p[k + 1])
        /\ Pass(st, r, note) = p[1]
  BY PassRecurs
<1> DEFINE Kept(q) == Sound(q.status) /\ q.status[Button] = "success"
           T == {k \in 1..Depth + 1 : /\ Kept(p[k])
                                      /\ k <= Depth => p[k].result # "attempted"}
<1>3. Kept(ButtonPass(st, r, note))
  BY ButtonPassFacts
<1>4. ASSUME NEW k \in 1..Depth, Kept(p[k + 1]),
             k + 1 <= Depth => p[k + 1].result # "attempted"
      PROVE  Kept(p[k]) /\ p[k].result # "attempted"
  <2> DEFINE sub == p[k + 1]
             lp == LevelPass(st, k, sub)
  <2>1. /\ sub \in Passes /\ p[k] = lp /\ k \in Levels
        /\ Kept(sub) /\ (k + 1 <= Depth => sub.result # "attempted")
    BY <1>1, <1>2, <1>4
  <2> HIDE DEF sub
  <2>2. /\ Way(k) \in Executions /\ Exec(Way(k)).does = "path" /\ Way(k) \notin ExecutionsToSkip
    BY <2>1, NotSkipped
  <2>3. st[Way(k)] # "attempted"
    BY <2>2 DEF Sound
  <2>4. Result(st, sub, Way(k)) # "attempted"
    <3>1. CASE k = Depth
      <4>1. Way(k) = Button
        BY <3>1 DEF Way, Button
      <4> QED
        BY <4>1 DEF Result, Processed
    <3>2. CASE k # Depth
      <4>1. sub.result # "attempted"
        BY <1>1, <2>1, <3>2
      <4> QED
        BY <2>2, <2>3, <4>1 DEF Result
    <3> QED
      BY <3>1, <3>2
  <2>5. Sound(lp.status) /\ lp.result # "attempted"
    BY <2>1, <2>4, LevelSound
  <2>6. lp.status[Button] = "success"
    <3>1. DOMAIN st = Executions /\ Button \in Executions
      BY ButtonFacts DEF Sessions
    <3>2. Result(st, sub, Button) = "success"
      BY DEF Result, Processed
    <3>3. lp.status[Button] =
            IF Button[1] = k /\ Button[2] \in Reached(st, k, sub) THEN Result(st, sub, Button)
            ELSE IF Entered(st, k, sub) THEN sub.status[Button] ELSE st[Button]
      BY <3>1, LevelPassIs
    <3> QED
      BY <2>1, <3>2, <3>3
  <2> HIDE DEF lp
  <2> QED
    BY <2>1, <2>5, <2>6
<1> HIDE DEF Kept
<1>5. \A k \in 1..Depth : k + 1 \in T => k \in T
  BY <1>1, <1>4
<1>6. Depth + 1 \in T /\ 1 \in 1..Depth + 1 /\ 1 <= Depth
  <2>1. Depth + 1 \in 1..Depth + 1 /\ ~(Depth + 1 <= Depth)
    BY <1>1
  <2>2. Kept(p[Depth + 1])
    BY <1>2, <1>3, Zenon
  <2> QED
    BY <1>1, <2>1, <2>2
<1>7. \A k \in 1..Depth + 1 : k \in T
  <2> HIDE DEF T
  <2> QED
    BY <1>1, <1>5, <1>6, Upwards
<1>8. Kept(p[1]) /\ p[1].result # "attempted"
  BY <1>6, <1>7
<1> QED
  BY <1>2, <1>8 DEF Kept

-----------------------------------------------------------------------------
(* The sessions that do not lead to a dead end: untouched below the form,   *)
(* waiting for a ticket, or with an accepted one.                           *)

Safe(st, note) ==
  \/ Untouched(st)
  \/ Sound(st) /\ st[Button] = "success"
  \/ Sound(st) /\ Clear(st) /\ note

\* A click nobody waits for any longer: what it skipped is out of the way, and the
\* button is not to be had, either.
LEMMA LevelStuck ==
  ASSUME flow \in Flows, PlacedAsDescribed, ~Misplaced, NEW k \in Levels,
         NEW st \in Sessions, Clear(st), NEW sub \in Passes, sub.result = "attempted"
  PROVE  LevelPass(st, k, sub).result = "attempted"
<1>1. /\ ~Settled(st, k) /\ ~Processed(st, Way(k))
      /\ \A j \in Stops(st, k, sub) : OnPath(k) <= j
  BY EnteredWhenClear DEF Clear
<1>2. OnPath(k) \in Steps(k) /\ OnPath(k) \in Candidates(k) /\ OnPath(k) \in Nat
  BY PlacedLevel, CandidateFacts
<1>3. Result(st, sub, Way(k)) = "attempted"
  <2>1. Exec(Way(k)) = flow[k][OnPath(k)] /\ flow[k][OnPath(k)].does = "path"
    BY <1>2, StepFacts DEF Way, Exec
  <2> QED
    BY <1>1, <2>1 DEF Result
<1>4. LevelResult(st, k, sub) = "attempted"
  <2>1. CASE k \in AlternativeLevels
    <3>1. /\ Candidates(k) = Steps(k) /\ GoesOn(k) = "attempted"
          /\ \A i \in Steps(k) : i # OnPath(k) => st[<<k, i>>] = "attempted"
      BY <2>1, PlacedLevel DEF Candidates, GoesOn, Clear
    <3>2. Stops(st, k, sub) = {}
      BY <1>3, <3>1 DEF Stops, Result, Processed, Way
    <3> QED
      BY <1>1, <3>1, <3>2 DEF LevelResult
  <2>2. CASE k \notin AlternativeLevels
    <3>1. GoesOn(k) = "success"
      BY <2>2, PlacedLevel DEF GoesOn
    <3>2. OnPath(k) \in Stops(st, k, sub)
      BY <1>2, <1>3, <3>1 DEF Stops, Way
    <3>3. Min(Stops(st, k, sub)) = OnPath(k)
      <4>1. /\ Min(Stops(st, k, sub)) \in Stops(st, k, sub)
            /\ Min(Stops(st, k, sub)) \in Nat
            /\ Min(Stops(st, k, sub)) <= OnPath(k)
        BY <3>2, FirstStop, StepFacts
      <4> QED
        BY <1>1, <1>2, <4>1
    <3> QED
      BY <1>1, <1>3, <3>2, <3>3 DEF LevelResult, Way
  <2> QED
    BY <2>1, <2>2
<1> QED
  BY <1>4, LevelPassIs

LEMMA PassStuck ==
  ASSUME flow \in Flows, PlacedAsDescribed, ~Misplaced,
         NEW st \in Sessions, Clear(st), NEW r \in Requests
  PROVE  Pass(st, r, FALSE).result = "attempted"
<1>1. Depth \in Nat /\ Depth >= 1 /\ Levels = 1..Depth
  BY FlowFacts
<1>2. PICK p \in [1..Depth + 1 -> Passes] :
        /\ p[Depth + 1] = ButtonPass(st, r, FALSE)
        /\ \A k \in 1..Depth : p[k] = LevelPass(st, k, p[k + 1])
        /\ Pass(st, r, FALSE) = p[1]
  BY PassRecurs
<1> DEFINE T == {k \in 1..Depth + 1 : p[k].result = "attempted"}
<1>3. ButtonPass(st, r, FALSE).result = "attempted"
  <2>1. ButtonDoes(r, FALSE) = "attempted"
    BY RequestFacts DEF ButtonDoes, Evaluates
  <2> QED
    BY <2>1 DEF ButtonPass
<1>4. ASSUME NEW k \in 1..Depth, p[k + 1].result = "attempted"
      PROVE  p[k].result = "attempted"
  <2> DEFINE sub == p[k + 1]
  <2>1. /\ sub \in Passes /\ p[k] = LevelPass(st, k, sub) /\ k \in Levels
        /\ sub.result = "attempted"
    BY <1>1, <1>2, <1>4
  <2> HIDE DEF sub
  <2> QED
    BY <2>1, LevelStuck
<1>5. \A k \in 1..Depth : k + 1 \in T => k \in T
  BY <1>1, <1>4
<1>6. Depth + 1 \in T /\ 1 \in 1..Depth + 1
  <2>1. Depth + 1 \in 1..Depth + 1
    BY <1>1
  <2>2. p[Depth + 1].result = "attempted"
    BY <1>2, <1>3, Zenon
  <2> QED
    BY <1>1, <2>1, <2>2
<1>7. \A k \in 1..Depth + 1 : k \in T
  <2> HIDE DEF T
  <2> QED
    BY <1>1, <1>5, <1>6, Upwards
<1> QED
  BY <1>2, <1>6, <1>7

\* Without the note a click's session ends on an error page.
LEMMA ServedStuck ==
  ASSUME flow \in Flows, PlacedAsDescribed, ~Misplaced,
         NEW st \in Sessions, Clear(st), NEW r \in Requests, NEW pr
  PROVE  Served(st, FALSE, r, pr).page = Showing("error")
<1> DEFINE first == Pass(st, r, FALSE)
<1>1. first.result = "attempted" /\ first \in Passes
  BY PassStuck, PassTyped
<1>2. first.answer = Nothing
  BY <1>1, PassQuiet
<1> HIDE DEF first
<1>3. first.answer # Showing("resets")
  BY <1>2 DEF Nothing, Showing
<1> QED
  BY <1>1, <1>2, <1>3 DEF Served, first

\* What is left of a served request: a safe session, or one in which the mechanism
\* has asked for a further ticket and the note is gone.
Further(st, note, pg) == Clear(st) /\ ~note /\ pg.kind = "negotiate"

LEMMA ServedSafe ==
  ASSUME flow \in Flows, PlacedAsDescribed, ~Misplaced,
         NEW st \in Sessions, NEW note \in BOOLEAN, Safe(st, note), NEW r \in Requests, NEW pr
  PROVE  LET s == Served(st, note, r, pr)
         IN  /\ Safe(s.status, s.requested) \/ Further(s.status, s.requested, s.page)
             /\ s.page.kind # "error"
<1> DEFINE first == Pass(st, r, note)
           again == first.answer = Showing("resets")
           second == Pass(Fresh, r, FALSE)
           s == Served(st, note, r, pr)
           last == IF again THEN second ELSE first
           left == note /\ ~first.used
<1>1. second.result # "attempted" /\ Untouched(second.status) /\ second \in Passes
  BY FreshIsUntouched, FreshIsHonest, PassUntouched, PassTyped
<1>2. first \in Passes
  BY PassTyped
<1>3. \/ again
      \/ first.result # "attempted" /\ Safe(first.status, left)
      \/ first.result # "attempted" /\ Further(first.status, left, first.answer)
  <2>1. CASE Untouched(st)
    BY <2>1, PassUntouched DEF Safe
  <2>2. CASE Sound(st) /\ st[Button] = "success"
    BY <2>2, PassGranted DEF Safe
  <2>3. CASE Sound(st) /\ Clear(st) /\ note
    <3>1. /\ r.ticket \in {"none", "valid", "rejected", "continue"} /\ r.selects = FALSE
          /\ r.method \in {"GET", "POST"}
      BY RequestFacts, FlowAssumption DEF Headers
    <3> DEFINE b == ButtonPass(st, r, note)
    <3>2. CASE r.ticket = "valid"
      <4>1. b.result = "success"
        <5>1. Evaluates(r, note) /\ ButtonDoes(r, note) = "succeeds"
          BY <2>3, <3>2 DEF Evaluates, ButtonDoes, Validated
        <5> QED
          BY <5>1 DEF ButtonPass
      <4>2. /\ Sound(first.status) /\ first.result # "attempted"
            /\ first.status[Button] = "success"
        BY <2>3, <4>1, PassLeadsOn
      <4> HIDE DEF first
      <4> QED
        BY <4>2 DEF Safe
    <3>3. CASE r.ticket = "rejected"
      <4>1. b.result = "challenged" /\ b.answer = Showing("resets")
        <5>1. Evaluates(r, note) /\ ButtonDoes(r, note) = "resets"
          BY <2>3, <3>3 DEF Evaluates, ButtonDoes, Validated
        <5> QED
          BY <5>1 DEF ButtonPass
      <4> QED
        BY <2>3, <4>1, PassLeadsOn
    <3>4. CASE r.ticket \in {"none", "continue"}
      <4>1. ButtonDoes(r, note) \in {"challenges", "goes on"}
        BY <2>3, <3>1, <3>4 DEF Evaluates, ButtonDoes, Validated
      <4>2. b.result = "challenged" /\ b.answer = Negotiating(r.method)
        BY <4>1 DEF ButtonPass
      <4>3. /\ Sound(first.status) /\ first.result # "attempted" /\ Clear(first.status)
            /\ first.answer = Negotiating(r.method)
        BY <2>3, <4>2, PassLeadsOn
      <4>4. first.used \in BOOLEAN
        BY <1>2 DEF Passes
      <4> HIDE DEF first
      <4> QED
        BY <2>3, <4>3, <4>4 DEF Safe, Further, Negotiating
    <3> QED
      BY <3>1, <3>2, <3>3, <3>4
  <2> QED
    BY <2>1, <2>2, <2>3 DEF Safe
<1>4. /\ last \in Passes /\ last.result # "attempted"
      /\ Safe(last.status, left) \/ Further(last.status, left, last.answer)
  BY <1>1, <1>2, <1>3 DEF Safe
<1>5. last.result = "challenged" => last.answer # Nothing
  BY FreshIsHonest, PassAnswers
<1>6. /\ s.status = last.status /\ s.requested = left
      /\ s.page = IF last.answer # Nothing THEN last.answer
                  ELSE Showing(IF last.result = "success" THEN "done" ELSE "error")
  BY DEF Served
<1> HIDE DEF last, left, s
<1>7. last.answer.kind # "error" /\ last.result \in Results
  BY <1>4 DEF Passes, Answers, Asking, Negotiating, Showing
<1>8. s.page.kind # "error"
  BY <1>4, <1>5, <1>6, <1>7 DEF Showing, Results
<1>9. Further(last.status, left, last.answer) => Further(s.status, s.requested, s.page)
  BY <1>6 DEF Further, Nothing, Showing
<1> QED
  BY <1>4, <1>6, <1>8, <1>9 DEF s

LEMMA SafeNextState ==
  ASSUME flow' = flow, NEW st, NEW note, status' = st, requested' = note
  PROVE  /\ Safe(st, note) => Safe(status, requested)'
         /\ \A pg : page' = pg /\ Further(st, note, pg) => Further(status, requested, page)'
<1>1. /\ Levels' = Levels /\ Executions' = Executions /\ Button' = Button
      /\ \A k : OnPath(k)' = OnPath(k)
  BY SameFlow
<1>2. /\ ExecutionsToSkip' = ExecutionsToSkip /\ AlternativeLevels' = AlternativeLevels
      /\ \A e : Exec(e)' = Exec(e)
  BY SamePlacement
<1>3. FormLevel' = FormLevel
  BY <1>1, <1>2 DEF FormLevel, FormLevels
<1>4. Untouched(status)' <=> Untouched(st)
  BY <1>1, <1>2, <1>3 DEF Untouched, Processed, Way
<1>5. Sound(status)' <=> Sound(st)
  BY <1>1, <1>2 DEF Sound
<1>6. Clear(st) => Clear(status)'
  BY ClearNext
<1>7. Safe(st, note) => Safe(status, requested)'
  BY <1>1, <1>4, <1>5, <1>6 DEF Safe
<1>8. \A pg : page' = pg /\ Further(st, note, pg) => Further(status, requested, page)'
  BY <1>6 DEF Further
<1> QED
  BY <1>7, <1>8

SafeFlow == PlacedAsDescribed /\ ~Misplaced

Fine == Safe(status, requested) \/ Further(status, requested, page)

SafeInv == SafeFlow => Fine \/ page.kind = "error"

\* A step that shows no error page, unless the mechanism had asked for more.
Leads == SafeInv' /\ (SafeFlow => LeadsOn)

LEMMA ServeSafe ==
  ASSUME flow \in Flows, NEW st \in Sessions, NEW note \in BOOLEAN, NEW r \in Requests, NEW pr,
         Serve(st, note, r, pr), SafeFlow => Safe(st, note)
  PROVE  Leads
<1> DEFINE s == Served(st, note, r, pr)
<1>1. flow' = flow /\ status' = s.status /\ page' = s.page /\ requested' = s.requested
  BY DEF Serve
<1>2. SafeFlow' <=> SafeFlow
  BY <1>1, SamePlacement DEF SafeFlow
<1>3. SafeFlow => /\ Safe(s.status, s.requested) \/ Further(s.status, s.requested, s.page)
                  /\ s.page.kind # "error"
  BY ServedSafe DEF SafeFlow
<1> HIDE DEF s
<1>4. Safe(s.status, s.requested) \/ Further(s.status, s.requested, s.page) => Fine'
  <2> DEFINE x == s.status
             y == s.requested
             z == s.page
  <2>1. status' = x /\ requested' = y /\ page' = z
    BY <1>1
  <2> HIDE DEF x, y, z
  <2>2. /\ Safe(x, y) => Safe(status, requested)'
        /\ Further(x, y, z) => Further(status, requested, page)'
    BY <1>1, <2>1, SafeNextState
  <2> QED
    BY <2>2 DEF x, y, z, Fine
<1> QED
  BY <1>1, <1>2, <1>3, <1>4 DEF SafeInv, Leads, LeadsOn

\* A request to a session in which the mechanism has asked for more.
LEMMA ServeFurther ==
  ASSUME flow \in Flows, status \in Sessions, requested \in BOOLEAN,
         NEW r \in Requests, NEW pr,
         Serve(status, requested, r, pr), SafeFlow => Further(status, requested, page)
  PROVE  Leads
<1>1. flow' = flow /\ page' = Served(status, requested, r, pr).page
  BY DEF Serve
<1>2. SafeFlow' <=> SafeFlow
  BY <1>1, SamePlacement DEF SafeFlow
<1>3. ASSUME SafeFlow PROVE page'.kind = "error" /\ AsksForMore
  <2>1. Clear(status) /\ requested = FALSE /\ page.kind = "negotiate"
    BY <1>3 DEF Further
  <2>2. Served(status, FALSE, r, pr).page = Showing("error")
    BY <1>3, <2>1, ServedStuck DEF SafeFlow
  <2>3. page' = Showing("error")
    BY <1>1, <2>1, <2>2
  <2> QED
    BY <2>1, <2>3 DEF AsksForMore, Showing
<1> QED
  BY <1>2, <1>3 DEF Leads, SafeInv, LeadsOn

\* A click leaves a session that waits for its ticket.
LEMMA SkippedIsSafe ==
  ASSUME flow \in Flows, PlacedAsDescribed
  PROVE  Safe(Skipped, TRUE)
<1>1. Sound(Skipped)
  BY DEF Sound, Skipped
<1> QED
  BY <1>1, SkippedIsClear DEF Safe

\* Passing a step keeps the session safe.
LEMMA PassedStepIsSafe ==
  ASSUME flow \in Flows, PlacedAsDescribed, ~Misplaced, NEW st \in Sessions,
         NEW e \in Executions, e[2] # OnPath(e[1]), Safe(st, FALSE)
  PROVE  Safe([st EXCEPT ![e] = "success"], FALSE)
<1> DEFINE new == [st EXCEPT ![e] = "success"]
<1>1. /\ DOMAIN st = Executions
      /\ \A x \in Executions : new[x] = IF x = e THEN "success" ELSE st[x]
  BY DEF Sessions
<1> HIDE DEF new
<1>2. CASE Untouched(st)
  <2>1. \A k \in Levels : Way(k) \in Executions /\ Way(k) # e
    BY PlacedLevel DEF Way
  <2>2. Untouched(new)
    BY <1>1, <1>2, <2>1 DEF Untouched, Processed
  <2> QED
    BY <2>2 DEF Safe, new
<1>3. CASE Sound(st) /\ st[Button] = "success"
  <2>1. Sound(new) /\ new[Button] = "success"
    BY <1>1, <1>3, ButtonFacts DEF Sound
  <2> QED
    BY <2>1 DEF Safe, new
<1> QED
  BY <1>2, <1>3 DEF Safe

LEMMA SafeInit == Init => SafeInv
<1> SUFFICES ASSUME Init, SafeFlow PROVE Safe(status, requested)
  BY DEF SafeInv, Fine
<1>1. flow \in Flows /\ status = Fresh /\ page.kind = "start"
  BY DEF Init, Showing
<1> QED
  BY <1>1, FreshIsUntouched DEF SafeFlow, Safe

LEMMA SafeNext == ClickInv /\ SafeInv /\ Next => Leads
<1> SUFFICES ASSUME ClickInv, SafeInv, Next PROVE Leads
  OBVIOUS
<1>1. /\ flow \in Flows /\ status \in Sessions /\ requested \in BOOLEAN
      /\ page \in Pages /\ ButtonInv
  BY DEF ClickInv, ButtonInv, TypeOK, Sessions, Statuses
<1>2. /\ SafeFlow /\ page.kind = "asks" => requested = FALSE
      /\ SafeFlow /\ page.kind \in {"start", "asks", "redirect", "expired"} =>
           Safe(status, requested)
      /\ SafeFlow /\ page.kind = "negotiate" =>
           /\ Safe(status, requested) \/ Further(status, requested, page)
           /\ page.answers = "GET"
  BY <1>1 DEF SafeInv, SafeFlow, ClickInv, ClickWaits, Fine, Further
<1>3. ASSUME NEW r \in Requests, NEW pr, Serve(status, requested, r, pr),
             page.kind \in {"start", "asks", "redirect", "expired", "negotiate"}
      PROVE  Leads
  <2>1. CASE SafeFlow => Safe(status, requested)
    BY <1>1, <1>3, <2>1, ServeSafe
  <2>2. CASE SafeFlow => Further(status, requested, page)
    BY <1>1, <1>3, <2>2, ServeFurther
  <2> QED
    BY <1>2, <1>3, <2>1, <2>2
<1>4. ASSUME NEW r \in Requests, StartOver(r) PROVE Leads
  <2>1. SafeFlow => Safe(Fresh, FALSE)
    BY <1>1, FreshIsUntouched DEF SafeFlow, Safe
  <2> QED
    BY <1>1, <1>4, <2>1, FreshIsHonest, ServeSafe DEF StartOver
<1>5. CASE Browser
  <2>1. CASE PostFallback
    <3>1. Post("none") \in Requests /\ StartOver(Post("none"))
      BY <2>1, TicketsMakeRequests DEF PostFallback, Headers
    <3> QED
      BY <1>4, <3>1
  <2>2. ASSUME NEW ticket \in Headers, FollowRedirect(ticket) PROVE Leads
    BY <1>3, <2>2, TicketsMakeRequests DEF FollowRedirect, Continue
  <2>3. ASSUME NEW ticket \in Headers, SendTicket(ticket) PROVE Leads
    <3>1. CASE Serve(status, requested, Get(ticket), proven)
      BY <1>3, <2>3, <3>1, TicketsMakeRequests DEF SendTicket
    <3>2. CASE page.answers = "POST" /\ page' = Showing("expired") /\ flow' = flow
      <4>1. ~SafeFlow
        BY <1>2, <2>3, <3>2 DEF SendTicket
      <4>2. SafeFlow' <=> SafeFlow
        BY <3>2, SamePlacement DEF SafeFlow
      <4> QED
        BY <4>1, <4>2 DEF Leads, SafeInv
    <3> QED
      BY <2>3, <3>1, <3>2 DEF SendTicket, Continue
  <2> QED
    BY <1>5, <2>1, <2>2, <2>3 DEF Browser
<1>6. CASE User
  <2>1. PICK ticket \in Headers :
          Load(ticket) \/ Submit(ticket) \/ ClickButton(ticket) \/ ClickRefused(ticket)
            \/ Restart(ticket)
    BY <1>6 DEF User
  <2>2. CASE Load(ticket)
    BY <1>3, <2>2, TicketsMakeRequests DEF Load, Continue
  <2>3. CASE Submit(ticket)
    <3> DEFINE e == page.step
               st == [status EXCEPT ![e] = "success"]
    <3>1. e \in Executions /\ e[2] # OnPath(e[1]) /\ page.kind = "asks"
      BY <1>1, <2>3, AskedStep DEF Submit, Continue
    <3>2. SafeFlow => Safe(st, requested)
      <4> HIDE DEF e
      <4>1. SafeFlow => requested = FALSE /\ Safe(status, FALSE)
        BY <1>2, <3>1
      <4> QED
        BY <1>1, <3>1, <4>1, PassedStepIsSafe DEF SafeFlow
    <3>3. st \in Sessions
      BY <1>1 DEF Sessions, Statuses
    <3>4. Serve(st, requested, Post(ticket), proven \cup {e})
      BY <2>3 DEF Submit, Continue
    <3> HIDE DEF st, e
    <3> QED
      BY <1>1, <3>2, <3>3, <3>4, TicketsMakeRequests, ServeSafe
  <2>4. CASE ClickRefused(ticket)
    <3>1. Misplaced /\ flow' = flow
      BY <1>1, <2>4, RefusedIfMisplaced DEF ClickRefused, Continue, Serve
    <3>2. Misplaced'
      BY <3>1, SamePlacement
    <3> QED
      BY <3>1, <3>2 DEF Leads, SafeInv, SafeFlow
  <2>5. CASE ClickButton(ticket)
    <3> DEFINE sk == Skipped
    <3>1. flow' = flow /\ status' = sk /\ page' = Showing("redirect") /\ requested' = TRUE
      BY <2>5 DEF ClickButton, ClickAnswer
    <3>2. PlacedAsDescribed => Safe(sk, TRUE)
      BY <1>1, SkippedIsSafe
    <3> HIDE DEF sk
    <3>3. PlacedAsDescribed => Safe(status, requested)'
      BY <3>1, <3>2, SafeNextState
    <3>4. PlacedAsDescribed' = PlacedAsDescribed
      BY <3>1, SamePlacement
    <3>5. page'.kind = "redirect"
      BY <3>1 DEF Showing
    <3> QED
      BY <3>3, <3>4, <3>5 DEF Leads, SafeInv, SafeFlow, Fine, LeadsOn
  <2>6. CASE Restart(ticket)
    BY <1>4, <2>6, TicketsMakeRequests DEF Restart
  <2> QED
    BY <2>1, <2>2, <2>3, <2>4, <2>5, <2>6
<1> QED
  BY <1>5, <1>6 DEF Next

LEMMA SafeStays == SafeInv /\ UNCHANGED vars => SafeInv'
<1> SUFFICES ASSUME SafeInv, UNCHANGED vars PROVE SafeInv'
  OBVIOUS
<1>1. SafeFlow' <=> SafeFlow
  BY SamePlacement DEF SafeFlow, vars
<1>2. Fine => Fine'
  <2>1. /\ Safe(status, requested) => Safe(status, requested)'
        /\ Further(status, requested, page) => Further(status, requested, page)'
    BY SafeNextState DEF vars
  <2> QED
    BY <2>1 DEF Fine
<1> QED
  BY <1>1, <1>2 DEF SafeInv, vars

\* With the button placed as described and next to alternatives only (the flow is
\* the same throughout), no user is shown an error page because of a click:
\* neither skipping the alternatives nor a rejected ticket leaves the flow without
\* anything to offer.  Only a mechanism that asks for a second ticket does: the
\* note is gone by then, and the alternatives are still out of the way.
THEOREM ClicksEndWell == Spec /\ []SafeFlow => NoDeadEnd
<1>1. ClickInv /\ SafeInv /\ [Next]_vars => SafeInv'
  BY SafeNext, SafeStays DEF Leads
<1>2. ClickInv /\ SafeInv /\ SafeFlow /\ [Next]_vars => [LeadsOn]_vars
  BY SafeNext DEF Leads
<1> QED
  BY <1>1, <1>2, ClickHolds, SafeInit, PTL DEF Spec, NoDeadEnd

-----------------------------------------------------------------------------
(***************************************************************************)
(* The script of the end-to-end test.                                      *)
(***************************************************************************)

\* A scenario is a sequence of at least one step.
IsScript(s) == (\E S : s \in Seq(S)) /\ s # << >>

LEMMA ScriptsAre ==
  ASSUME NEW s, IsScript(s)
  PROVE  Len(s) \in Nat \ {0} /\ DOMAIN s = 1 .. Len(s)
BY DEF IsScript

LEMMA TwoSteps == ASSUME NEW a, NEW b PROVE IsScript(<<a, b>>)
<1>1. <<a, b>> \in Seq({a, b}) /\ <<a, b>> # << >>
  OBVIOUS
<1> QED
  BY <1>1, Zenon DEF IsScript

LEMMA FourSteps == ASSUME NEW a, NEW b, NEW c, NEW d PROVE IsScript(<<a, b, c, d>>)
<1>1. <<a, b, c, d>> \in Seq({a, b, c, d}) /\ <<a, b, c, d>> # << >>
  OBVIOUS
<1> QED
  BY <1>1, Zenon DEF IsScript

LEMMA OneAfterAnother ==
  ASSUME NEW s, NEW t, IsScript(s), IsScript(t)
  PROVE  IsScript(s \o t)
<1>1. PICK S : s \in Seq(S)
  BY Zenon DEF IsScript
<1>2. PICK T : t \in Seq(T)
  BY Zenon DEF IsScript
<1>3. s \in Seq(S \cup T) /\ t \in Seq(S \cup T) /\ s # << >>
  BY <1>1, <1>2 DEF IsScript
<1>4. s \o t \in Seq(S \cup T) /\ s \o t # << >>
  BY <1>3
<1> QED
  BY <1>4, Zenon DEF IsScript

LEMMA ScenariosAreScripts ==
  /\ IsScript(scenario_a) /\ IsScript(scenario_b) /\ IsScript(scenario_f_off)
  /\ IsScript(scenario_g) /\ IsScript(scenario_c)
<1>1. \A n : IsScript(OpenAndSelect(n))
  BY TwoSteps, Zenon DEF OpenAndSelect
<1>2. IsScript(<<Step(2, "select"), Step(3, "refresh"), Step(4, "log in"), Step(5, "token")>>)
  BY FourSteps, Zenon
<1>3. IsScript(<<Step(1, "select"), Step(2, "refresh without ticket"), Step(3, "fall back"), Step(4, "offered")>>)
  BY FourSteps, Zenon
<1>4. IsScript(<<Step(1, "select"), Step(1, "step up")>>)
  BY TwoSteps, Zenon
<1>5. IsScript(<<Step(1, "select built-in"), Step(1, "expire")>>)
  BY TwoSteps, Zenon
<1>6. IsScript(scenario_f_off)
  BY FourSteps, Zenon DEF scenario_f_off
<1>7. IsScript(scenario_a)
  BY <1>1, <1>2, OneAfterAnother, Zenon DEF scenario_a
<1>8. IsScript(scenario_b)
  BY <1>1, <1>3, OneAfterAnother, Zenon DEF scenario_b
<1>9. IsScript(scenario_g)
  BY <1>1, <1>4, OneAfterAnother, Zenon DEF scenario_g
<1>10. IsScript(scenario_c)
  BY <1>1, <1>5, OneAfterAnother, Zenon DEF scenario_c
<1> QED
  BY <1>6, <1>7, <1>8, <1>9, <1>10, Zenon

AreSeven(m, a, b, c, d, e, f, g) ==
  /\ Len(m) = 7 /\ DOMAIN m = 1 .. 7
  /\ m[1] = a /\ m[2] = b /\ m[3] = c /\ m[4] = d /\ m[5] = e /\ m[6] = f /\ m[7] = g

LEMMA SevenScenarios ==
  ASSUME NEW a, NEW b, NEW c, NEW d, NEW e, NEW f, NEW g
  PROVE  AreSeven(<<a, b, c, d, e, f, g>>, a, b, c, d, e, f, g)
BY DEF AreSeven

\* The seven scenarios of main.
LEMMA MainIs ==
  AreSeven(main, Scenario("A", build_flow, TRUE, scenario_a),
                 Scenario("B", build_flow, FALSE, scenario_b),
                 Scenario("F", build_nested_flow(TRUE), TRUE, scenario_a),
                 Scenario("FB", build_nested_flow(TRUE), FALSE, scenario_b),
                 Scenario("F", build_nested_flow(FALSE), TRUE, scenario_f_off),
                 Scenario("G", build_stepup_flow, TRUE, scenario_g),
                 Scenario("C", build_flow, TRUE, scenario_c))
BY SevenScenarios, Zenon DEF main

IsScenario(s, name, bound, steps) == s.name = name /\ s.flow = bound /\ s.steps = steps

LEMMA ScenarioHas == \A n, b, t, x : IsScenario(Scenario(n, b, t, x), n, b, x)
BY DEF IsScenario, Scenario

LEMMA ScenariosOfMain ==
  /\ DOMAIN main = 1 .. 7 /\ Len(main) = 7
  /\ IsScenario(main[1], "A", build_flow, scenario_a)
  /\ IsScenario(main[2], "B", build_flow, scenario_b)
  /\ IsScenario(main[3], "F", build_nested_flow(TRUE), scenario_a)
  /\ IsScenario(main[4], "FB", build_nested_flow(TRUE), scenario_b)
  /\ IsScenario(main[5], "F", build_nested_flow(FALSE), scenario_f_off)
  /\ IsScenario(main[6], "G", build_stepup_flow, scenario_g)
  /\ IsScenario(main[7], "C", build_flow, scenario_c)
<1>1. DOMAIN main = 1 .. 7 /\ Len(main) = 7
  BY MainIs, Zenon DEF AreSeven
<1>2. IsScenario(main[1], "A", build_flow, scenario_a)
  BY MainIs, ScenarioHas, Zenon DEF AreSeven
<1>3. IsScenario(main[2], "B", build_flow, scenario_b)
  BY MainIs, ScenarioHas, Zenon DEF AreSeven
<1>4. IsScenario(main[3], "F", build_nested_flow(TRUE), scenario_a)
  BY MainIs, ScenarioHas, Zenon DEF AreSeven
<1>5. IsScenario(main[4], "FB", build_nested_flow(TRUE), scenario_b)
  BY MainIs, ScenarioHas, Zenon DEF AreSeven
<1>6. IsScenario(main[5], "F", build_nested_flow(FALSE), scenario_f_off)
  BY MainIs, ScenarioHas, Zenon DEF AreSeven
<1>7. IsScenario(main[6], "G", build_stepup_flow, scenario_g)
  BY MainIs, ScenarioHas, Zenon DEF AreSeven
<1>8. IsScenario(main[7], "C", build_flow, scenario_c)
  BY MainIs, ScenarioHas, Zenon DEF AreSeven
<1> QED
  BY <1>1, <1>2, <1>3, <1>4, <1>5, <1>6, <1>7, <1>8, Zenon

LEMMA EveryScenarioIsAScript ==
  ASSUME NEW i \in DOMAIN main
  PROVE  IsScript(main[i].steps)
<1>1. i = 1 \/ i = 2 \/ i = 3 \/ i = 4 \/ i = 5 \/ i = 6 \/ i = 7
  BY ScenariosOfMain
<1> QED
  BY <1>1, ScenariosOfMain, ScenariosAreScripts, Zenon DEF IsScenario

LEMMA MainIsAScript ==
  /\ Len(main) \in Nat /\ DOMAIN main = 1 .. Len(main)
  /\ \A i \in DOMAIN main : /\ Len(main[i].steps) \in Nat \ {0}
                            /\ DOMAIN main[i].steps = 1 .. Len(main[i].steps)
<1>1. Len(main) \in Nat /\ DOMAIN main = 1 .. Len(main)
  BY ScenariosOfMain
<1>2. ASSUME NEW i \in DOMAIN main
      PROVE  Len(main[i].steps) \in Nat \ {0} /\ DOMAIN main[i].steps = 1 .. Len(main[i].steps)
  BY EveryScenarioIsAScript, ScriptsAre
<1> QED
  BY <1>1, <1>2

LEMMA EveryCheckIsListed ==
  \A i \in DOMAIN main : \A k \in DOMAIN main[i].steps :
       <<main[i].name, main[i].steps[k].check>> \in AllChecks
BY DEF AllChecks, Range

LEMMA EveryListedCheckIsMade ==
  \A c \in AllChecks : \E i \in DOMAIN main : \E k \in DOMAIN main[i].steps :
       c = <<main[i].name, main[i].steps[k].check>>
BY DEF AllChecks, Range

-----------------------------------------------------------------------------
(***************************************************************************)
(* Exit code 0 means that every check has passed.                          *)
(***************************************************************************)

\* What has been printed of the checks of scenario i before step j, as long as
\* nothing has failed: each has passed or goes on with step j.
PassedBefore(i, j) ==
  \A k \in DOMAIN main[i].steps :
    k < j => \/ <<main[i].name, main[i].steps[k].check>> \in passed
             \/ main[i].steps[k].check = main[i].steps[j].check

PassedAll(i) ==
  \A k \in DOMAIN main[i].steps : <<main[i].name, main[i].steps[k].check>> \in passed

\* The script is at a scenario, and at a step of it once it has begun.
InPlace ==
  /\ at.scenario \in Nat /\ at = [scenario |-> at.scenario, step |-> at.step]
  /\ at.scenario \in DOMAIN main => at.step = 0 \/ at.step \in DOMAIN main[at.scenario].steps

NothingMissed ==
  failures = {} =>
    /\ \A i \in DOMAIN main : i < at.scenario => PassedAll(i)
    /\ at.scenario \in DOMAIN main /\ at.step > 0 => PassedBefore(at.scenario, at.step)

ChecksInv ==
  /\ InPlace
  /\ passed \subseteq AllChecks
  /\ NothingMissed
  /\ exit = "0" => failures = {} /\ at.scenario > Len(main)

\* Whatever a scenario does, it ends in a check.
LEMMA StepsAreJudged ==
  ASSUME ScriptNext
  PROVE  \/ Abort \/ Begin \/ End \/ UNCHANGED <<vars, script>>
         \/ Running /\ at.step > 0 /\ \E ok : Judge(ok)
<1>1. CASE Disturb
  BY <1>1, Zenon DEF Disturb
<1>2. CASE OpenLogin
  BY <1>2, Zenon DEF OpenLogin, Does
<1>3. CASE TryAnotherWay
  BY <1>3, Zenon DEF TryAnotherWay, Does
<1>4. CASE Select
  BY <1>4, Zenon DEF Select, Does
<1>5. CASE Refresh
  BY <1>5, Zenon DEF Refresh, Does
<1>6. CASE LogIn
  BY <1>6, Zenon DEF LogIn, Does
<1>7. CASE Token
  BY <1>7, Zenon DEF Token, Does
<1>8. CASE FallBack
  BY <1>8, Zenon DEF FallBack, Does
<1>9. CASE Forge
  BY <1>9, Zenon DEF Forge, Continue, Does
<1>10. CASE NoLogin
  BY <1>10, Zenon DEF NoLogin, Does
<1>11. CASE StepUp
  BY <1>11, Zenon DEF StepUp, Does
<1>12. CASE SelectBuiltin
  BY <1>12, Zenon DEF SelectBuiltin, Does
<1>13. CASE Expire
  BY <1>13, Zenon DEF Expire, Does
<1> QED
  BY <1>1, <1>2, <1>3, <1>4, <1>5, <1>6, <1>7, <1>8, <1>9, <1>10, <1>11, <1>12, <1>13, Zenon
     DEF ScriptNext, Ended

\* The function check keeps the account of what has passed.
LEMMA JudgeKeepsChecks ==
  ASSUME ChecksInv, Running, at.step > 0, NEW ok, Judge(ok)
  PROVE  ChecksInv'
<1>a. PICK s, j : s = at.scenario /\ j = at.step
  OBVIOUS
<1> DEFINE steps == main[s].steps
           name == main[s].name
<1>1. /\ s \in Nat /\ s \in DOMAIN main /\ Now = main[s]
      /\ at = [scenario |-> s, step |-> j]
      /\ j \in DOMAIN steps
      /\ exit = "none" /\ exit' = "none"
  BY <1>a, MainIsAScript DEF ChecksInv, InPlace, Running, Now, Judge
<1>2. /\ DOMAIN main = 1 .. Len(main) /\ Len(main) \in Nat
      /\ Len(steps) \in Nat \ {0} /\ DOMAIN steps = 1 .. Len(steps)
  BY <1>1, MainIsAScript
<1>3. Check = <<name, steps[j].check>> /\ Check \in AllChecks
  BY <1>a, <1>1, EveryCheckIsListed DEF Check
<1>4. passed \subseteq passed' /\ passed' \subseteq AllChecks
  BY <1>3 DEF Judge, ChecksInv
<1>5. CASE ~ok
  <2>1. failures' # {} /\ at' = [scenario |-> s + 1, step |-> 0]
    BY <1>5, <1>a DEF Judge, NextScenario
  <2> QED
    BY <2>1, <1>1, <1>4 DEF ChecksInv, InPlace, NothingMissed
<1>6. ASSUME ok, failures' = {}
      PROVE  /\ failures = {}
             /\ \A i \in DOMAIN main : i < s => PassedAll(i)'
             /\ \A k \in DOMAIN steps : k < j => \/ <<name, steps[k].check>> \in passed
                                                 \/ steps[k].check = steps[j].check
  <2>1. failures = {}
    BY <1>6 DEF Judge
  <2>2. \A i \in DOMAIN main : i < s => PassedAll(i)
    BY <2>1, <1>a DEF ChecksInv, NothingMissed
  <2>3. PassedBefore(s, j)
    BY <2>1, <1>a, <1>1 DEF ChecksInv, NothingMissed
  <2> QED
    BY <2>1, <2>2, <2>3, <1>1, <1>4 DEF PassedAll, PassedBefore
<1>7. CASE ok /\ LastStep
  <2>1. at' = [scenario |-> s + 1, step |-> 0] /\ j = Len(steps)
    BY <1>7, <1>a, <1>1 DEF Judge, NextScenario, LastStep
  <2>2. Check \in passed'
    BY <1>7 DEF Judge, EndsCheck
  <2>3. failures' = {} => PassedAll(s)'
    BY <1>6, <1>7, <1>1, <1>2, <1>3, <1>4, <2>1, <2>2 DEF PassedAll
  <2>4. failures' = {} => \A i \in DOMAIN main : i < s + 1 => PassedAll(i)'
    BY <1>6, <1>7, <1>1, <1>2, <2>3
  <2> QED
    BY <2>1, <2>4, <1>1, <1>4 DEF ChecksInv, InPlace, NothingMissed
<1>8. CASE ok /\ ~LastStep
  <2>1. at' = [scenario |-> s, step |-> j + 1] /\ j # Len(steps)
    BY <1>8, <1>a, <1>1 DEF Judge, LastStep
  <2>2. j + 1 \in DOMAIN steps
    BY <2>1, <1>1, <1>2
  <2>3. Check \in passed' \/ steps[j + 1].check = steps[j].check
    BY <1>8, <1>a, <1>1 DEF Judge, EndsCheck
  <2>4. ASSUME failures' = {}, NEW k \in DOMAIN steps, k < j + 1
        PROVE  <<name, steps[k].check>> \in passed' \/ steps[k].check = steps[j + 1].check
    <3>1. \/ <<name, steps[k].check>> \in passed
          \/ steps[k].check = steps[j].check
      BY <2>4, <1>8, <1>6, <1>1, <1>2, k < j \/ k = j
    <3> QED
      BY <3>1, <2>3, <1>3, <1>4
  <2>5. failures' = {} => PassedBefore(s, j + 1)'
    BY <2>4, <1>1 DEF PassedBefore
  <2>6. NothingMissed'
    BY <2>1, <2>5, <1>6, <1>8 DEF NothingMissed
  <2> QED
    BY <2>1, <2>2, <2>6, <1>1, <1>4 DEF ChecksInv, InPlace
<1> QED
  BY <1>5, <1>7, <1>8

\* So does what the script does between and after the scenarios.
LEMMA ScriptKeepsChecks ==
  ASSUME ChecksInv, [ScriptNext]_<<vars, script>>
  PROVE  ChecksInv'
<1>1. CASE Abort
  BY <1>1 DEF Abort, ChecksInv, InPlace, NothingMissed, PassedAll, PassedBefore
<1>2. CASE Begin
  <2>1. /\ at.scenario \in DOMAIN main /\ at' = [scenario |-> at.scenario, step |-> 1]
        /\ UNCHANGED <<passed, failures, exit>> /\ exit = "none"
    BY <1>2 DEF Begin, Running, ChecksInv, InPlace
  <2>2. \A k \in DOMAIN main[at.scenario].steps : ~(k < 1)
    BY <2>1, MainIsAScript
  <2>3. 1 \in DOMAIN main[at.scenario].steps
    BY <2>1, MainIsAScript
  <2> QED
    BY <2>1, <2>2, <2>3 DEF ChecksInv, InPlace, NothingMissed, PassedAll, PassedBefore
<1>3. CASE End
  BY <1>3 DEF End, ChecksInv, InPlace, NothingMissed, PassedAll, PassedBefore
<1>4. CASE UNCHANGED <<vars, script>>
  BY <1>4 DEF script, ChecksInv, InPlace, NothingMissed, PassedAll, PassedBefore
<1> QED
  BY <1>1, <1>2, <1>3, <1>4, StepsAreJudged, JudgeKeepsChecks, Zenon

LEMMA ScriptStartsWithChecks ==
  ASSUME ScriptInit
  PROVE  ChecksInv
BY MainIsAScript DEF ScriptInit, ChecksInv, InPlace, NothingMissed

LEMMA ChecksAreAll ==
  ASSUME ChecksInv
  PROVE  GreenMeansAllPassed
<1> SUFFICES ASSUME exit = "0" PROVE AllChecks \subseteq passed
  BY DEF GreenMeansAllPassed, ChecksInv
<1>1. \A i \in DOMAIN main : PassedAll(i)
  BY MainIsAScript DEF ChecksInv, NothingMissed, InPlace
<1> QED
  BY <1>1, EveryListedCheckIsMade, Zenon DEF PassedAll

\* Exit code 0 of the end-to-end test means that every check of every scenario
\* was made and has passed: check() raises on the first that does not, and each
\* failure is remembered to the end (main).
THEOREM GreenIsComplete == ScriptSpec => []GreenMeansAllPassed
<1>1. ScriptInit => ChecksInv
  BY ScriptStartsWithChecks
<1>2. ChecksInv /\ [ScriptNext]_<<vars, script>> => ChecksInv'
  BY ScriptKeepsChecks
<1>3. ChecksInv => GreenMeansAllPassed
  BY ChecksAreAll
<1> QED
  BY <1>1, <1>2, <1>3, PTL DEF ScriptSpec

-----------------------------------------------------------------------------
(***************************************************************************)
(* The steps that matter for what a passed check has tested, and how the   *)
(* script gets from one to the next.                                       *)
(***************************************************************************)

\* The six steps of a scenario.
AreSix(s, a, b, c, d, e, f) ==
  /\ DOMAIN s = 1 .. 6
  /\ s[1] = a /\ s[2] = b /\ s[3] = c /\ s[4] = d /\ s[5] = e /\ s[6] = f

LEMMA TwoAndFour ==
  ASSUME NEW a, NEW b, NEW c, NEW d, NEW e, NEW f
  PROVE  AreSix(<<a, b>> \o <<c, d, e, f>>, a, b, c, d, e, f)
BY DEF AreSix

LEMMA ScenarioAIs ==
  AreSix(scenario_a, Step(1, "open"), Step(1, "offered"), Step(2, "select"),
         Step(3, "refresh"), Step(4, "log in"), Step(5, "token"))
BY TwoAndFour, Zenon DEF scenario_a, OpenAndSelect

LEMMA ScenarioBIs ==
  AreSix(scenario_b, Step(1, "open"), Step(1, "offered"), Step(1, "select"),
         Step(2, "refresh without ticket"), Step(3, "fall back"), Step(4, "offered"))
BY TwoAndFour, Zenon DEF scenario_b, OpenAndSelect

IsStep(s, n, x) == s.check = n /\ s.does = x

LEMMA StepHas == \A n, x : IsStep(Step(n, x), n, x)
BY DEF IsStep, Step

LEMMA StepsOfA ==
  /\ DOMAIN scenario_a = 1 .. 6
  /\ IsStep(scenario_a[1], 1, "open") /\ IsStep(scenario_a[2], 1, "offered")
  /\ IsStep(scenario_a[3], 2, "select") /\ IsStep(scenario_a[4], 3, "refresh")
  /\ IsStep(scenario_a[5], 4, "log in") /\ IsStep(scenario_a[6], 5, "token")
BY ScenarioAIs, StepHas, Zenon DEF AreSix

LEMMA StepsOfB ==
  /\ DOMAIN scenario_b = 1 .. 6
  /\ IsStep(scenario_b[1], 1, "open") /\ IsStep(scenario_b[2], 1, "offered")
  /\ IsStep(scenario_b[3], 1, "select") /\ IsStep(scenario_b[4], 2, "refresh without ticket")
  /\ IsStep(scenario_b[5], 3, "fall back") /\ IsStep(scenario_b[6], 4, "offered")
BY ScenarioBIs, StepHas, Zenon DEF AreSix

LEMMA ForgeChecks ==
  ASSUME NEW a, NEW b, NEW c, NEW d
  PROVE  \A k \in DOMAIN <<Step(6, a), Step(6, b), Step(7, c), Step(7, d)>> :
           <<Step(6, a), Step(6, b), Step(7, c), Step(7, d)>>[k].check \in {6, 7}
BY DEF Step

LEMMA StepsOfFOff ==
  \A k \in DOMAIN scenario_f_off : scenario_f_off[k].check \in {6, 7}
BY ForgeChecks, Zenon DEF scenario_f_off

\* What the script does is what the step it has come to says.
LEMMA StepDecides ==
  ASSUME ScriptNext, Running, at.step # 0, ~Disturb
  PROVE  LET does == Now.steps[at.step].does IN
         \/ OpenLogin /\ does = "open"
         \/ TryAnotherWay /\ does \in {"offered", "hidden"}
         \/ Select /\ does = "select"
         \/ Refresh /\ does \in {"refresh", "refresh without ticket"}
         \/ LogIn /\ does = "log in"
         \/ Token /\ does = "token"
         \/ FallBack /\ does = "fall back"
         \/ Forge /\ does = "forge"
         \/ NoLogin /\ does = "no login"
         \/ StepUp /\ does = "step up"
         \/ SelectBuiltin /\ does = "select built-in"
         \/ Expire /\ does = "expire"
<1>1. ~Abort /\ ~Begin /\ ~Ended
  BY Zenon DEF Abort, Begin, Ended, Running
<1>2. ~End
  BY MainIsAScript DEF End, Running
<1>3. OpenLogin => Now.steps[at.step].does = "open"
  BY Zenon DEF OpenLogin, Does
<1>4. TryAnotherWay => Now.steps[at.step].does \in {"offered", "hidden"}
  BY Zenon DEF TryAnotherWay, Does
<1>5. Select => Now.steps[at.step].does = "select"
  BY Zenon DEF Select, Does
<1>6. Refresh => Now.steps[at.step].does \in {"refresh", "refresh without ticket"}
  BY Zenon DEF Refresh, Does
<1>7. LogIn => Now.steps[at.step].does = "log in"
  BY Zenon DEF LogIn, Does
<1>8. Token => Now.steps[at.step].does = "token"
  BY Zenon DEF Token, Does
<1>9. FallBack => Now.steps[at.step].does = "fall back"
  BY Zenon DEF FallBack, Does
<1>10. Forge => Now.steps[at.step].does = "forge"
  BY Zenon DEF Forge, Continue, Does
<1>11. NoLogin => Now.steps[at.step].does = "no login"
  BY Zenon DEF NoLogin, Does
<1>12. StepUp => Now.steps[at.step].does = "step up"
  BY Zenon DEF StepUp, Does
<1>13. SelectBuiltin => Now.steps[at.step].does = "select built-in"
  BY Zenon DEF SelectBuiltin, Does
<1>14. Expire => Now.steps[at.step].does = "expire"
  BY Zenon DEF Expire, Does
<1> QED
  BY <1>1, <1>2, <1>3, <1>4, <1>5, <1>6, <1>7, <1>8, <1>9, <1>10, <1>11, <1>12, <1>13, <1>14, Zenon
     DEF ScriptNext

\* A verdict ends the scenario or, if the check has passed, goes on with it.
LEMMA JudgeMoves ==
  ASSUME InPlace, NEW ok, Judge(ok)
  PROVE  /\ at'.step = 0 \/ (ok /\ at' = [scenario |-> at.scenario, step |-> at.step + 1])
         /\ cached' = cached
<1>1. NextScenario.step = 0
  BY DEF NextScenario
<1>2. [at EXCEPT !.step = @ + 1] = [scenario |-> at.scenario, step |-> at.step + 1]
  BY DEF InPlace
<1> QED
  BY <1>1, <1>2 DEF Judge

-----------------------------------------------------------------------------
(***************************************************************************)
(* The script is a user of the button.                                     *)
(***************************************************************************)

\* A served request adds at most the button to the passed steps, and that only
\* if it carries a valid ticket.
LEMMA ServeProves ==
  ASSUME NEW st, NEW note, NEW r, NEW pr, Serve(st, note, r, pr)
  PROVE  /\ flow' = flow
         /\ proven' \subseteq pr \cup {Button}
         /\ r.ticket # "valid" => proven' \subseteq pr
BY DEF Serve, Served

LEMMA TicketIs ==
  ASSUME "valid" \in Outcomes
  PROVE  Ticket \in Headers /\ "none" \in Headers /\ "valid" \in Headers
BY DEF Ticket, Headers

LEMMA FetchIsNext ==
  ASSUME NEW ticket \in Headers, FetchRefresh(ticket)
  PROVE  Next /\ Serve(status, requested, Get(ticket), proven)
BY DEF FetchRefresh, Next, Browser, User, FollowRedirect, Load, Continue

\* What the script does to the session: the requests of a browser that never
\* submits a form, the forged post and the click on the built-in authenticator.
LEMMA ScriptRequests ==
  ASSUME "valid" \in Outcomes, ScriptNext, Running, at.step # 0
  PROVE  \/ [Next]_vars /\ flow' = flow /\ proven' \subseteq proven \cup {Button}
         \/ Forge
         \/ SelectBuiltin
<1> DEFINE Goal == [Next]_vars /\ flow' = flow /\ proven' \subseteq proven \cup {Button}
<1>1. Ticket \in Headers /\ "none" \in Headers /\ "valid" \in Headers
  BY TicketIs
<1>2. ASSUME UNCHANGED vars PROVE Goal
  BY <1>2 DEF vars
<1>3. ASSUME NEW ticket \in Headers, FetchRefresh(ticket) PROVE Goal
  BY <1>3, FetchIsNext, ServeProves
<1>4. ASSUME NEW ticket \in Headers, Load(ticket) PROVE Goal
  BY <1>4, ServeProves DEF Load, Continue, Next, User
<1>5. ASSUME ClickButton("none") PROVE Goal
  BY <1>1, <1>5 DEF ClickButton, Next, User
<1>6. ASSUME ClickRefused("none") PROVE Goal
  BY <1>1, <1>6, ServeProves DEF ClickRefused, Continue, Next, User
<1>7. ASSUME PostFallback PROVE Goal
  <2>1. Serve(Fresh, FALSE, Post("none"), {})
    BY <1>7 DEF PostFallback, StartOver
  <2>2. Next
    BY <1>7 DEF Next, Browser
  <2>3. flow' = flow /\ proven' = {}
    BY <2>1 DEF Serve, Served, Post
  <2> QED
    BY <2>2, <2>3
<1>8. ASSUME SendTicket("valid") PROVE Goal
  <2>1. Next
    BY <1>1, <1>8 DEF Next, Browser
  <2>2. CASE Serve(status, requested, Get("valid"), proven)
    BY <2>1, <2>2, ServeProves
  <2>3. CASE UNCHANGED <<flow, proven>>
    BY <2>1, <2>3
  <2> QED
    BY <1>8, <2>2, <2>3 DEF SendTicket, Continue
<1> HIDE DEF Goal
<1>9. ASSUME Disturb PROVE Goal
  BY <1>2, <1>9, Zenon DEF Disturb
<1>10. ASSUME OpenLogin \/ NoLogin PROVE Goal
  BY <1>1, <1>4, <1>10, Zenon DEF OpenLogin, NoLogin
<1>11. ASSUME TryAnotherWay \/ Token PROVE Goal
  BY <1>2, <1>11, Zenon DEF TryAnotherWay, Token
<1>12. ASSUME Select PROVE Goal
  BY <1>5, <1>6, <1>12, Zenon DEF Select
<1>13. ASSUME Refresh \/ LogIn \/ StepUp PROVE Goal
  BY <1>1, <1>3, <1>13, Zenon DEF Refresh, LogIn, StepUp
<1>14. ASSUME FallBack PROVE Goal
  BY <1>7, <1>14, Zenon DEF FallBack
<1>15. ASSUME Expire PROVE Goal
  BY <1>8, <1>15, Zenon DEF Expire
<1>16. Disturb \/ (LET does == Now.steps[at.step].does IN
         \/ OpenLogin \/ TryAnotherWay \/ Select \/ Refresh \/ LogIn \/ Token \/ FallBack
         \/ Forge \/ NoLogin \/ StepUp \/ SelectBuiltin \/ Expire)
  BY StepDecides, Zenon
<1> QED
  BY <1>9, <1>10, <1>11, <1>12, <1>13, <1>14, <1>15, <1>16, Zenon DEF Goal

LEMMA BuiltinKeeps ==
  ASSUME ButtonInv, SelectBuiltin
  PROVE  ButtonInv'
<1> DEFINE st == [status EXCEPT ![Button] = "challenged"]
<1>1. /\ flow \in Flows /\ status \in Sessions /\ Honest(status, proven)
      /\ page' = Negotiating("POST") /\ status' = st
      /\ UNCHANGED <<flow, requested, proven, asked>>
  <2>1. page' = Negotiating("POST") /\ status' = st /\ UNCHANGED <<flow, requested, proven, asked>>
    BY Zenon DEF SelectBuiltin
  <2> QED
    BY <2>1 DEF ButtonInv, TypeOK, Sessions, Statuses
<1>2. st \in Sessions /\ Honest(st, proven)
  BY <1>1, ButtonFacts DEF Honest, Sessions, Statuses
<1> HIDE DEF st
<1>3. Honest(status, proven)'
  BY <1>1, <1>2, HonestNext
<1>4. page'.kind = "negotiate" /\ page' \in Pages
  BY <1>1 DEF Negotiating, Pages
<1>5. Pages' = Pages /\ Executions' = Executions /\ Button' = Button
  BY <1>1, SameFlow
<1> QED
  BY <1>1, <1>2, <1>3, <1>4, <1>5 DEF ButtonInv, TypeOK, Sessions, Statuses

LEMMA ScenarioKeepsButton ==
  ASSUME "valid" \in Outcomes, ButtonInv, proven \subseteq {Button},
         ScriptNext, Running, at.step # 0
  PROVE  ButtonInv' /\ proven' \subseteq {Button'}
<1>1. CASE [Next]_vars /\ flow' = flow /\ proven' \subseteq proven \cup {Button}
  BY <1>1, ButtonNext, SameFlow
<1>2. CASE Forge
  <2>1. Continue(status, Post("none"), proven)
    BY <1>2, Zenon DEF Forge
  <2>2. Post("none") \in Requests
    BY TicketsMakeRequests, TicketIs
  <2>3. flow' = flow /\ proven' \subseteq proven \cup {Button}
    BY <2>1, ServeProves DEF Continue
  <2> QED
    BY <2>1, <2>2, <2>3, RequestKeeps, SameFlow
<1>3. CASE SelectBuiltin
  <2>1. UNCHANGED <<flow, proven>>
    BY <1>3, Zenon DEF SelectBuiltin
  <2> QED
    BY <1>3, <2>1, BuiltinKeeps, SameFlow
<1> QED
  BY <1>1, <1>2, <1>3, ScriptRequests, Zenon

-----------------------------------------------------------------------------
(***************************************************************************)
(* What a passed check has tested.                                         *)
(***************************************************************************)

\* No flow is passed by somebody who has passed nothing.
LEMMA NothingWinsNothing ==
  ASSUME flow \in Flows
  PROVE  ~Won({})[1]
<1> DEFINE T == {k \in 1..Depth + 1 : ~Won({})[k]}
<1>1. Depth \in Nat /\ 1 \in 1..Depth + 1 /\ Depth + 1 \in 1..Depth + 1
  BY FlowFacts
<1>2. Depth + 1 \in T
  BY <1>1, WonRecurs
<1>3. ASSUME NEW k \in 1..Depth, k + 1 \in T PROVE k \in T
  <2>1. k \in 1..Depth + 1 /\ ~Won({})[k + 1]
    BY <1>1, <1>3
  <2>2. ~LevelWon(k, {}, Won({})[k + 1])
    BY <2>1 DEF LevelWon
  <2> QED
    BY <2>1, <2>2, WonRecurs
<1>4. \A k \in 1..Depth + 1 : k \in T
  <2> HIDE DEF T
  <2> QED
    BY <1>1, <1>2, <1>3, Upwards
<1> QED
  BY <1>1, <1>4

LEMMA ScenarioBindsFlow ==
  ASSUME NEW i \in DOMAIN main
  PROVE  main[i].flow \in E2eFlows
<1>1. i = 1 \/ i = 2 \/ i = 3 \/ i = 4 \/ i = 5 \/ i = 6 \/ i = 7
  BY ScenariosOfMain
<1>2. /\ build_flow \in E2eFlows /\ build_nested_flow(TRUE) \in E2eFlows
      /\ build_nested_flow(FALSE) \in E2eFlows /\ build_stepup_flow \in E2eFlows
  BY Zenon DEF E2eFlows
<1> QED
  BY <1>1, <1>2, ScenariosOfMain, Zenon DEF IsScenario

\* The token is checked at the end of two scenarios, and the way without a
\* ticket has been tested when two others come to the fallback form.
LEMMA WhereTested ==
  ASSUME NEW i \in DOMAIN main, NEW j \in DOMAIN main[i].steps
  PROVE  /\ main[i].name \in {"A", "F"} /\ main[i].steps[j].check = 5 => i \in {1, 3} /\ j = 6
         /\ main[i].name \in {"B", "FB"} /\ main[i].steps[j].check = 3 => i \in {2, 4} /\ j = 5
<1>1. i \in {1, 3} \/ i \in {2, 4} \/ i = 5 \/ i \in {6, 7}
  BY ScenariosOfMain
<1>2. CASE i \in {1, 3}
  <2>1. main[i].steps = scenario_a /\ main[i].name \in {"A", "F"}
    BY <1>2, ScenariosOfMain, Zenon DEF IsScenario
  <2>2. j \in 1 .. 6
    BY <2>1, StepsOfA
  <2>3. scenario_a[j].check = 5 => j = 6
    <3>1. /\ scenario_a[1].check = 1 /\ scenario_a[2].check = 1 /\ scenario_a[3].check = 2
          /\ scenario_a[4].check = 3 /\ scenario_a[5].check = 4
      BY StepsOfA, Zenon DEF IsStep
    <3> QED
      BY <2>2, <3>1
  <2> QED
    BY <1>2, <2>1, <2>3
<1>3. CASE i \in {2, 4}
  <2>1. main[i].steps = scenario_b /\ main[i].name \in {"B", "FB"}
    BY <1>3, ScenariosOfMain, Zenon DEF IsScenario
  <2>2. j \in 1 .. 6
    BY <2>1, StepsOfB
  <2>3. scenario_b[j].check = 3 => j = 5
    <3>1. /\ scenario_b[1].check = 1 /\ scenario_b[2].check = 1 /\ scenario_b[3].check = 1
          /\ scenario_b[4].check = 2 /\ scenario_b[6].check = 4
      BY StepsOfB, Zenon DEF IsStep
    <3> QED
      BY <2>2, <3>1
  <2> QED
    BY <1>3, <2>1, <2>3
<1>4. CASE i = 5
  <2>1. main[5].name = "F" /\ main[5].steps = scenario_f_off
    BY ScenariosOfMain, Zenon DEF IsScenario
  <2>2. main[i].steps[j].check \in {6, 7}
    BY <1>4, <2>1, StepsOfFOff
  <2> QED
    BY <1>4, <2>1, <2>2
<1>5. CASE i \in {6, 7}
  <2>1. main[6].name = "G" /\ main[7].name = "C"
    BY ScenariosOfMain, Zenon DEF IsScenario
  <2> QED
    BY <1>5, <2>1
<1> QED
  BY <1>1, <1>2, <1>3, <1>4, <1>5

\* A login ends on the page after it; the way without a ticket starts and stays
\* without proof, and the challenge it waits for is no answer to a ticket.
TestedInv ==
  /\ ButtonInv
  /\ proven \subseteq {Button}
  /\ at.scenario \in {1, 3} /\ at.step = 6 => page.kind = "done"
  /\ at.scenario \in {2, 4} /\ at.step \in 1 .. 5 => proven = {}
  /\ at.scenario \in {2, 4} /\ at.step = 5 => ~cached

\* What the checks that count show of the session.
LEMMA LogInShows ==
  ASSUME InPlace, LogIn, at'.step # 0
  PROVE  page'.kind = "done"
<1>1. Judge(page'.kind = "done")
  BY Zenon DEF LogIn
<1> QED
  BY <1>1, JudgeMoves

LEMMA RefreshShows ==
  ASSUME ButtonInv, InPlace, "valid" \in Outcomes, Does("refresh without ticket"), Refresh,
         at'.step # 0
  PROVE  ~cached /\ proven' \subseteq proven
<1>1. FetchRefresh(Ticket) /\ Judge(Challenge(page'))
  BY Zenon DEF Refresh, Does
<1>2. page'.kind = "negotiate"
  BY <1>1, JudgeMoves DEF Challenge
<1>3. Serve(status, requested, Get(Ticket), proven)
  BY <1>1, TicketIs, FetchIsNext
<1>4. Get(Ticket) \in Requests /\ Get(Ticket).ticket = Ticket
  BY TicketIs, TicketsMakeRequests DEF Get
<1>5. flow \in Flows /\ status \in Sessions /\ requested \in BOOLEAN
  BY DEF ButtonInv, TypeOK, Sessions, Statuses
<1>6. page' = Served(status, requested, Get(Ticket), proven).page
  BY <1>3 DEF Serve
<1>7. Ticket # "valid"
  BY <1>2, <1>4, <1>5, <1>6, ServedNegotiates
<1>8. proven' \subseteq proven
  BY <1>3, <1>4, <1>7, ServeProves
<1> QED
  BY <1>7, <1>8 DEF Ticket

LEMMA DisturbEnds ==
  ASSUME InPlace, Disturb
  PROVE  at'.step = 0
<1>1. Judge(FALSE)
  BY Zenon DEF Disturb
<1> QED
  BY <1>1 DEF Judge, NextScenario

\* Up to the challenge, the way without a ticket proves nothing.
LEMMA WayWithoutTicket ==
  ASSUME "valid" \in Outcomes, ButtonInv, InPlace, Running, ScriptNext, proven = {},
         at.scenario \in {2, 4}, at.step \in 1 .. 4, at'.step # 0
  PROVE  proven' = {} /\ (at.step = 4 => ~cached)
<1> DEFINE does == Now.steps[at.step].does
<1>1. ~Disturb /\ at.step # 0 /\ at.step > 0
  BY DisturbEnds
<1>2. /\ at.step = 1 => does = "open"
      /\ at.step = 2 => does = "offered"
      /\ at.step = 3 => does = "select"
      /\ at.step = 4 => does = "refresh without ticket"
  <2>1. Now.steps = scenario_b
    BY ScenariosOfMain, Zenon DEF Now, IsScenario
  <2> QED
    BY <2>1, StepsOfB, Zenon DEF IsStep
<1>3. at.step = 1 \/ at.step = 2 \/ at.step = 3 \/ at.step = 4
  OBVIOUS
<1>4. /\ does = "open" => OpenLogin
      /\ does = "offered" => TryAnotherWay
      /\ does = "select" => Select
      /\ does = "refresh without ticket" => Refresh
  <2> HIDE DEF does
  <2>1. does = "open" => OpenLogin
    BY <1>1, StepDecides, Zenon DEF does
  <2>2. does = "offered" => TryAnotherWay
    BY <1>1, StepDecides, Zenon DEF does
  <2>3. does = "select" => Select
    BY <1>1, StepDecides, Zenon DEF does
  <2>4. does = "refresh without ticket" => Refresh
    BY <1>1, StepDecides, Zenon DEF does
  <2> QED
    BY <2>1, <2>2, <2>3, <2>4, Zenon
<1>5. CASE at.step = 1
  <2>1. Serve(status, requested, Get("none"), proven)
    BY <1>2, <1>4, <1>5, Zenon DEF OpenLogin, Load, Continue
  <2>2. proven' \subseteq proven
    BY <2>1, ServeProves DEF Get
  <2> QED
    BY <1>5, <2>2
<1>6. CASE at.step = 2
  <2>1. UNCHANGED proven
    BY <1>2, <1>4, <1>6, Zenon DEF TryAnotherWay, vars
  <2> QED
    BY <1>6, <2>1
<1>7. CASE at.step = 3
  <2>1. ClickButton("none") \/ ClickRefused("none")
    BY <1>2, <1>4, <1>7, Zenon DEF Select
  <2>2. CASE ClickButton("none")
    BY <1>7, <2>2 DEF ClickButton
  <2>3. CASE ClickRefused("none")
    <3> DEFINE st == [status EXCEPT ![Button] = "attempted"]
    <3>1. Serve(st, requested, Post("none"), proven)
      BY <2>3 DEF ClickRefused, Continue
    <3> HIDE DEF st
    <3>2. proven' \subseteq proven
      BY <3>1, ServeProves DEF Post
    <3> QED
      BY <1>7, <3>2
  <2> QED
    BY <2>1, <2>2, <2>3
<1>8. CASE at.step = 4
  <2>1. Refresh /\ Does("refresh without ticket")
    BY <1>1, <1>2, <1>4, <1>8, Zenon DEF Does
  <2>2. ~cached /\ proven' \subseteq proven
    BY <2>1, RefreshShows, Zenon
  <2> QED
    BY <2>2
<1> QED
  BY <1>3, <1>5, <1>6, <1>7, <1>8

LEMMA ScenarioKeepsTested ==
  ASSUME "valid" \in Outcomes, InPlace, TestedInv, ScriptNext, Running, at.step # 0,
         NEW ok, Judge(ok)
  PROVE  TestedInv'
<1>1. ButtonInv' /\ proven' \subseteq {Button'}
  BY ScenarioKeepsButton DEF TestedInv
<1>2. at.step \in DOMAIN Now.steps /\ at.step \in Nat
  BY MainIsAScript DEF InPlace, Running, Now
<1>3. CASE at'.step = 0
  BY <1>1, <1>3 DEF TestedInv
<1>4. CASE at'.step # 0
  <2>1. /\ at' = [scenario |-> at.scenario, step |-> at.step + 1]
        /\ cached' = cached /\ ~Disturb
    BY <1>4, JudgeMoves, DisturbEnds
  <2>2. at'.scenario = at.scenario /\ at'.step = at.step + 1
    BY <2>1
  <2>3. ASSUME at.scenario \in {1, 3}, at.step = 5 PROVE page'.kind = "done"
    <3>1. Now.steps = scenario_a
      BY <2>3, ScenariosOfMain, Zenon DEF Now, IsScenario
    <3>2. Now.steps[at.step].does = "log in"
      BY <2>3, <3>1, StepsOfA, Zenon DEF IsStep
    <3>3. LogIn
      <4> DEFINE does == Now.steps[at.step].does
      <4>1. does = "log in"
        BY <3>2, Zenon
      <4> HIDE DEF does
      <4> QED
        BY <2>1, <4>1, StepDecides, Zenon DEF does
    <3> QED
      BY <1>4, <3>3, LogInShows
  <2>4. ASSUME at.scenario \in {2, 4}, at.step \in 1 .. 4
        PROVE  proven' = {} /\ (at.step = 4 => ~cached)
    <3>1. ButtonInv /\ proven = {}
      BY <2>4 DEF TestedInv
    <3> QED
      BY <1>4, <2>4, <3>1, WayWithoutTicket
  <2>5. /\ at'.scenario \in {1, 3} /\ at'.step = 6 => page'.kind = "done"
        /\ at'.scenario \in {2, 4} /\ at'.step \in 1 .. 5 => proven' = {}
        /\ at'.scenario \in {2, 4} /\ at'.step = 5 => ~cached'
    BY <1>2, <2>1, <2>2, <2>3, <2>4
  <2> QED
    BY <1>1, <2>5 DEF TestedInv
<1> QED
  BY <1>3, <1>4

LEMMA ButtonInitNext == Init' => ButtonInv'
BY ButtonInit, PTL

LEMMA BeginKeepsTested ==
  ASSUME E2eFlows \subseteq Flows, InPlace, Begin
  PROVE  TestedInv'
<1>1. at' = [scenario |-> at.scenario, step |-> 1] /\ proven' = {}
  BY DEF Begin, InPlace
<1>2. flow' \in Flows
  BY ScenarioBindsFlow DEF Begin, Running, Now
<1>3. Init'
  BY <1>2 DEF Begin, Init
<1> QED
  BY <1>1, <1>3, ButtonInitNext DEF TestedInv

LEMMA TestedStart ==
  ASSUME ScriptInit
  PROVE  TestedInv
<1>1. ButtonInv /\ proven = {} /\ at.step = 0
  BY ButtonInit DEF ScriptInit, Init
<1> QED
  BY <1>1 DEF TestedInv

LEMMA TestedNext ==
  ASSUME E2eFlows \subseteq Flows, "valid" \in Outcomes, InPlace, TestedInv,
         [ScriptNext]_<<vars, script>>
  PROVE  TestedInv'
<1>1. CASE UNCHANGED <<vars, at, cached>>
  <2>1. ButtonInv'
    BY <1>1, ButtonNext DEF TestedInv
  <2>2. Button' = Button
    BY <1>1, SameFlow DEF vars
  <2> QED
    BY <1>1, <2>1, <2>2 DEF TestedInv, vars
<1>2. Abort \/ End \/ UNCHANGED <<vars, script>> => UNCHANGED <<vars, at, cached>>
  BY DEF Abort, End, script
<1>3. ASSUME ScriptNext, Running, at.step > 0, NEW ok, Judge(ok) PROVE TestedInv'
  <2>1. at.step # 0
    BY <1>3
  <2> QED
    BY <1>3, <2>1, ScenarioKeepsTested
<1> QED
  BY <1>1, <1>2, <1>3, StepsAreJudged, BeginKeepsTested, Zenon

LEMMA TestedShows ==
  ASSUME InPlace, TestedInv
  PROVE  PassedMeansTested
<1>1. ASSUME NEW name \in {"A", "F"}, Made(name, 4) PROVE Button \in proven /\ asked
  <2>1. at.scenario \in {1, 3} /\ at.step = 6
    BY <1>1, WhereTested DEF Made, Running, Now, InPlace
  <2>2. Satisfied /\ flow \in Flows
    BY <2>1 DEF TestedInv, ButtonInv, TypeOK
  <2>3. proven # {}
    BY <2>2, NothingWinsNothing, SatisfiedIsWon
  <2> QED
    BY <2>3 DEF TestedInv, ButtonInv
<1>2. ASSUME NEW name \in {"B", "FB"}, Made(name, 2) PROVE ~cached /\ Button \notin proven
  <2>1. at.scenario \in {2, 4} /\ at.step = 5
    BY <1>2, WhereTested DEF Made, Running, Now, InPlace
  <2> QED
    BY <2>1 DEF TestedInv
<1> QED
  BY <1>1, <1>2 DEF PassedMeansTested

\* A passed check has tested what its text says: the token is that of somebody
\* whose ticket was evaluated after a click, and the fallback form was reached
\* without a ticket, even if kdestroy has failed.  The realm's flows must be
\* flows (see SpnegoButton!IsFlow), and the ticket of kinit a valid one.
THEOREM ChecksTestTheButton ==
  ASSUME E2eFlows \subseteq Flows, "valid" \in Outcomes
  PROVE  ScriptSpec => []PassedMeansTested
<1>1. ScriptInit => ChecksInv /\ TestedInv
  BY ScriptStartsWithChecks, TestedStart
<1>2. ChecksInv /\ TestedInv /\ [ScriptNext]_<<vars, script>> => ChecksInv' /\ TestedInv'
  BY ScriptKeepsChecks, TestedNext DEF ChecksInv
<1>3. ChecksInv /\ TestedInv => PassedMeansTested
  BY TestedShows DEF ChecksInv
<1> QED
  BY <1>1, <1>2, <1>3, PTL DEF ScriptSpec

-----------------------------------------------------------------------------
(***************************************************************************)
(* A click is served: a new session starts with the login form, and what   *)
(* a click has left waits for a ticket until one comes.                    *)
(***************************************************************************)

\* A level on which nothing is in the way of its step on the path comes to what
\* that step comes to, unless the level goes on with the next one.
LEMMA WayDecides ==
  ASSUME flow \in Flows, PlacedAsDescribed, ~Misplaced, NEW k \in Levels,
         NEW st \in Sessions, NEW sub \in Passes, sub.result # GoesOn(k),
         ~Settled(st, k), ~Processed(st, Way(k)), \A j \in Stops(st, k, sub) : OnPath(k) <= j
  PROVE  LET lp == LevelPass(st, k, sub)
         IN  lp.result = sub.result /\ (sub.result = "challenged" => lp.answer = sub.answer)
<1>1. OnPath(k) \in Candidates(k) /\ OnPath(k) \in Nat /\ Exec(Way(k)).does = "path"
  BY PlacedLevel, NotSkipped
<1>2. Result(st, sub, Way(k)) = sub.result
  BY <1>1 DEF Result
<1>3. OnPath(k) \in Stops(st, k, sub)
  BY <1>1, <1>2 DEF Stops, Way
<1> DEFINE m == Min(Stops(st, k, sub))
<1>4. m = OnPath(k)
  <2>1. m \in Nat /\ m \in Stops(st, k, sub) /\ m <= OnPath(k)
    BY <1>3, FirstStop, StepFacts
  <2> HIDE DEF m
  <2> QED
    BY <1>1, <2>1
<1>5. LevelResult(st, k, sub) = sub.result
  BY <1>2, <1>3, <1>4 DEF LevelResult, Way
<1> QED
  BY <1>4, <1>5, LevelPassIs

\* Above the form, a new session leads to the button.
LEMMA FreshLeadsOn ==
  ASSUME flow \in Flows, PlacedAsDescribed, ~Misplaced, NEW k \in Levels, k < FormLevel, NEW sub
  PROVE  /\ ~Settled(Fresh, k) /\ ~Processed(Fresh, Way(k))
         /\ \A j \in Stops(Fresh, k, sub) : OnPath(k) <= j
<1>1. /\ Candidates(k) \subseteq Steps(k) /\ Steps(k) \subseteq Nat
      /\ OnPath(k) \in Nat /\ Way(k) \in Executions
      /\ \A i \in Steps(k) : <<k, i>> \in Executions
  BY CandidateFacts, StepFacts, PlacedLevel
<1>2. \A e \in Executions : Fresh[e] = "none"
  BY DEF Fresh
<1>3. ~Settled(Fresh, k) /\ ~Processed(Fresh, Way(k))
  BY <1>1, <1>2 DEF Settled, Processed
<1>4. ASSUME NEW j \in Stops(Fresh, k, sub), j < OnPath(k) PROVE FALSE
  <2>1. j \in Candidates(k) /\ j \in Steps(k) /\ j \in Nat
    BY <1>1 DEF Stops
  <2>2. k \in AlternativeLevels /\ Mandatory(k) = {}
    BY <1>1, <1>4, <2>1, PlacedLevel DEF Candidates
  <2>3. Result(Fresh, sub, <<k, j>>) # "attempted"
    BY <2>2 DEF Stops, GoesOn
  <2>4. /\ flow[k][j].does \in {"path", "asks", "stays silent"}
        /\ flow[k][j].does = "path" <=> j = OnPath(k)
        /\ Exec(<<k, j>>) = flow[k][j]
    BY <2>1, StepFacts
  <2>5. flow[k][j].does = "asks"
    <3>1. Fresh[<<k, j>>] = "none" /\ j # OnPath(k)
      BY <1>1, <1>2, <1>4, <2>1
    <3> QED
      BY <2>3, <2>4, <3>1 DEF Result, Processed
  <2>6. j \in 1..OnPath(k) - 1
    <3>1. j \in DOMAIN flow[k] /\ flow[k] \in Seq(Execution)
      BY <2>1, StepFacts, FlowFacts
    <3> QED
      BY <1>1, <1>4, <2>1, <3>1
  <2>7. k \in FormLevels
    BY <2>2, <2>5, <2>6 DEF FormLevels
  <2>8. FormLevel <= k /\ FormLevel \in Nat /\ k \in Nat
    BY <2>7, FormLevelFacts, FlowFacts
  <2> QED
    BY <2>8
<1> QED
  BY <1>1, <1>3, <1>4 DEF Stops

\* A step before the button on the form's level: the form of the login page.
FormSteps == {i \in Steps(FormLevel) : i < OnPath(FormLevel)}

LEMMA FreshStopsAtForm ==
  ASSUME flow \in Flows, PlacedAsDescribed, ~Misplaced, NEW sub
  PROVE  LET lp == LevelPass(Fresh, FormLevel, sub)
         IN  lp.result = "challenged" /\ \E i \in FormSteps : lp.answer = Asking(<<FormLevel, i>>)
<1> DEFINE k == FormLevel
           lp == LevelPass(Fresh, k, sub)
           m == Min(Stops(Fresh, k, sub))
<1>1. PICK i \in Steps(k) : i < OnPath(k) /\ flow[k][i].does = "asks"
  BY FormLevelFacts
<1>2. /\ k \in Levels /\ k \in AlternativeLevels /\ Mandatory(k) = {}
      /\ Candidates(k) = Steps(k) /\ GoesOn(k) = "attempted"
      /\ OnPath(k) \in Nat /\ Steps(k) \subseteq Nat
  BY FormLevelFacts, PlacedLevel, StepFacts DEF Candidates, GoesOn
<1> HIDE DEF k
<1>3. \A j \in Steps(k) : /\ Fresh[<<k, j>>] = "none" /\ Exec(<<k, j>>) = flow[k][j]
                          /\ flow[k][j].does \in {"path", "asks", "stays silent"}
                          /\ flow[k][j].does = "path" <=> j = OnPath(k)
  BY <1>2, StepFacts DEF Fresh
<1>4. ~Settled(Fresh, k)
  BY <1>2, <1>3 DEF Settled
<1>5. i \in Stops(Fresh, k, sub)
  BY <1>1, <1>2, <1>3 DEF Stops, Result, Processed
<1>6. m \in Stops(Fresh, k, sub) /\ m \in Steps(k) /\ m \in Nat /\ m <= i
  BY <1>2, <1>5, FirstStop, FreshIsHonest
<1>7. lp.result = LevelResult(Fresh, k, sub)
      /\ lp.answer = IF LevelResult(Fresh, k, sub) # "challenged" THEN Nothing
                     ELSE IF m = OnPath(k) THEN sub.answer
                     ELSE Asking(<<k, m>>)
  BY LevelPassIs
<1>8. LevelResult(Fresh, k, sub) = Result(Fresh, sub, <<k, m>>)
  BY <1>4, <1>6 DEF LevelResult
<1> HIDE DEF m, lp
<1>9. m # OnPath(k) /\ m < OnPath(k)
  BY <1>1, <1>2, <1>6
<1>10. Result(Fresh, sub, <<k, m>>) = "challenged"
  <2>1. Result(Fresh, sub, <<k, m>>) # "attempted"
    BY <1>2, <1>6 DEF Stops
  <2> QED
    BY <1>3, <1>6, <1>9, <2>1 DEF Result, Processed
<1>11. lp.result = "challenged" /\ lp.answer = Asking(<<k, m>>) /\ m \in FormSteps
  BY <1>6, <1>7, <1>8, <1>9, <1>10 DEF FormSteps, k
<1> QED
  BY <1>11 DEF lp, k

\* The first page of a new session is the login form.
LEMMA PassFresh ==
  ASSUME flow \in Flows, PlacedAsDescribed, ~Misplaced, NEW r \in Requests, NEW note \in BOOLEAN
  PROVE  LET p == Pass(Fresh, r, note)
         IN  p.result = "challenged" /\ \E i \in FormSteps : p.answer = Asking(<<FormLevel, i>>)
<1>1. Depth \in Nat /\ Depth >= 1 /\ Levels = 1..Depth /\ FormLevel \in Levels
      /\ Fresh \in Sessions
  BY FlowFacts, FormLevelFacts, FreshIsHonest
<1>2. PICK p \in [1..Depth + 1 -> Passes] :
        /\ p[Depth + 1] = ButtonPass(Fresh, r, note)
        /\ \A k \in 1..Depth : p[k] = LevelPass(Fresh, k, p[k + 1])
        /\ Pass(Fresh, r, note) = p[1]
  BY <1>1, PassRecurs
<1> DEFINE Good(q) == /\ q.result = "challenged"
                      /\ \E i \in FormSteps : q.answer = Asking(<<FormLevel, i>>)
           T == {k \in 1..Depth + 1 : k <= FormLevel => Good(p[k])}
<1>3. ASSUME NEW k \in 1..Depth, k + 1 <= FormLevel => Good(p[k + 1]), k <= FormLevel
      PROVE  Good(p[k])
  <2> DEFINE sub == p[k + 1]
  <2>1. sub \in Passes /\ p[k] = LevelPass(Fresh, k, sub) /\ k \in Levels
    BY <1>1, <1>2
  <2>2. k + 1 <= FormLevel => Good(sub)
    BY <1>3
  <2> HIDE DEF sub
  <2>3. CASE k = FormLevel
    BY <2>1, <2>3, FreshStopsAtForm
  <2>4. CASE k # FormLevel
    <3>1. k < FormLevel /\ k + 1 <= FormLevel /\ sub.result = "challenged"
      BY <1>1, <1>3, <2>2, <2>4
    <3>2. GoesOn(k) # "challenged"
      BY DEF GoesOn
    <3>3. p[k].result = sub.result /\ p[k].answer = sub.answer
      BY <1>1, <2>1, <3>1, <3>2, WayDecides, FreshLeadsOn
    <3> QED
      BY <2>2, <3>1, <3>3
  <2> QED
    BY <2>3, <2>4
<1> HIDE DEF Good
<1>4. \A k \in 1..Depth : k + 1 \in T => k \in T
  BY <1>1, <1>3
<1>5. Depth + 1 \in T /\ 1 \in 1..Depth + 1 /\ 1 <= FormLevel
  BY <1>1
<1>6. \A k \in 1..Depth + 1 : k \in T
  <2> HIDE DEF T
  <2> QED
    BY <1>1, <1>4, <1>5, Upwards
<1>7. Good(p[1])
  BY <1>5, <1>6
<1> QED
  BY <1>2, <1>7 DEF Good

\* So is the page it is served.
LEMMA ServedFresh ==
  ASSUME flow \in Flows, PlacedAsDescribed, ~Misplaced, NEW r \in Requests, NEW note \in BOOLEAN,
         NEW pr
  PROVE  LET s == Served(Fresh, note, r, pr)
         IN  LoginPage(s.page) /\ s.page.step[1] = FormLevel /\ Untouched(s.status)
<1> DEFINE first == Pass(Fresh, r, note)
           s == Served(Fresh, note, r, pr)
           k == FormLevel
<1>1. PICK i \in FormSteps : first.answer = Asking(<<k, i>>)
  BY PassFresh
<1>2. s.page = Asking(<<k, i>>)
  <2>1. first.answer # Showing("resets") /\ first.answer # Nothing
    BY <1>1 DEF Asking, Nothing, Showing
  <2> HIDE DEF first
  <2> QED
    BY <1>1, <2>1 DEF Served, first
<1>3. k \in Levels /\ k \in AlternativeLevels /\ i \in Steps(k) /\ i \in Nat /\ OnPath(k) \in Nat
      /\ i < OnPath(k)
  <2>1. k \in Levels /\ k \in AlternativeLevels
    BY FormLevelFacts
  <2> QED
    BY <2>1, StepFacts, PlacedLevel DEF FormSteps
<1> HIDE DEF k, s
<1>4. <<k, i>> \in ExecutionsToSkip
  BY <1>3, PlacedLevel
<1>5. Exec(<<k, i>>).req = "ALTERNATIVE"
  <2>1. Mandatory(k) = {}
    BY <1>3, PlacedLevel
  <2>2. Exec(<<k, i>>) = flow[k][i]
    BY <1>3, StepFacts
  <2> QED
    BY <1>3, <2>1, <2>2 DEF Mandatory
<1>6. LoginPage(s.page) /\ s.page.step[1] = k
  BY <1>2, <1>3, <1>5 DEF LoginPage, Asking
<1>7. OneKind(s.status, s.page)
  BY FreshIsHonest, FreshIsUntouched, ServedForm DEF s
<1>8. Untouched(s.status)
  BY <1>2, <1>4, <1>7 DEF OneKind
<1> QED
  BY <1>6, <1>8 DEF s, k

\* The page asks the user for something and lists the button.
OnForm == page.kind = "asks" /\ Offered(page.step)

\* A new session starts with the login form, which lists the button.
LEMMA FreshShowsForm ==
  ASSUME flow \in Flows, PlacedAsDescribed, ~Misplaced, NEW r \in Requests, NEW note \in BOOLEAN,
         NEW pr, Serve(Fresh, note, r, pr)
  PROVE  LoginPage(page') /\ OnForm'
<1> DEFINE s == Served(Fresh, note, r, pr)
<1>1. flow' = flow /\ status' = s.status /\ page' = s.page
  BY DEF Serve
<1>2. LoginPage(s.page) /\ s.page.step[1] = FormLevel /\ Untouched(s.status)
  BY ServedFresh
<1> HIDE DEF s
<1>3. /\ Levels' = Levels /\ (\A k : OnPath(k)' = OnPath(k)) /\ (\A k : Steps(k)' = Steps(k))
      /\ \A e : Exec(e)' = Exec(e)
  BY <1>1, SameFlow, SamePlacement
<1>4. \A k \in Levels : OnPath(k) \in Steps(k)
  BY DEF PlacedAsDescribed
<1>5. \A k \in Levels : k >= FormLevel => ~Processed(status', Way(k))
  BY <1>1, <1>2 DEF Untouched
<1>6. page'.kind = "asks" /\ Exec(page'.step).req = "ALTERNATIVE"
  BY <1>1, <1>2 DEF LoginPage
<1>7. Offered(page.step)'
  BY <1>1, <1>2, <1>3, <1>4, <1>5, <1>6 DEF Offered, Processed, Way
<1> QED
  BY <1>1, <1>2, <1>6, <1>7 DEF OnForm

\* The click waits for its ticket, and nothing is in its way.
Waiting == requested /\ Clear(status) /\ Sound(status)

LEMMA WaitingNext ==
  ASSUME flow' = flow, requested', NEW st, status' = st, Clear(st), Sound(st)
  PROVE  Waiting'
<1>1. Executions' = Executions /\ ExecutionsToSkip' = ExecutionsToSkip /\ \A e : Exec(e)' = Exec(e)
  BY SameFlow, SamePlacement
<1>2. Sound(status)'
  BY <1>1 DEF Sound
<1> QED
  BY <1>2, ClearNext DEF Waiting

\* Without a ticket it goes on waiting, behind a challenge.
LEMMA WaitingIsChallenged ==
  ASSUME flow \in Flows, PlacedAsDescribed, ~Misplaced, status \in Sessions, Waiting,
         requested \in BOOLEAN, NEW pr, Serve(status, requested, Get("none"), pr)
  PROVE  page'.kind = "negotiate" /\ Waiting'
<1> DEFINE r == Get("none")
           p == Pass(status, r, TRUE)
           b == ButtonPass(status, r, TRUE)
           s == Served(status, TRUE, r, pr)
<1>1. r \in Requests /\ requested = TRUE
  BY TicketsMakeRequests DEF Headers, Waiting
<1>2. ~Evaluates(r, TRUE) /\ ButtonDoes(r, TRUE) = "challenges"
  BY DEF Evaluates, ButtonDoes, Get
<1>3. b.result = "challenged" /\ b.answer = Negotiating("GET")
  BY <1>2 DEF ButtonPass, Get
<1>4. /\ p.result = "challenged" /\ p.answer = b.answer /\ Clear(p.status) /\ Sound(p.status)
  <2>1. b.result # "attempted"
    BY <1>3
  <2> HIDE DEF r
  <2> QED
    BY <1>1, <1>3, <2>1, PassLeadsOn DEF Waiting
<1>5. p.used \in BOOLEAN /\ ~p.used
  <2> HIDE DEF r
  <2>1. p \in Passes
    BY <1>1, PassTyped
  <2> QED
    BY <1>1, <1>2, <2>1, PassUses DEF Passes
<1> HIDE DEF p, b, r
<1>6. p.answer # Showing("resets") /\ p.answer # Nothing
  BY <1>3, <1>4 DEF Negotiating, Showing, Nothing
<1>7. s.page = Negotiating("GET") /\ s.status = p.status /\ s.requested = TRUE
  BY <1>3, <1>4, <1>5, <1>6 DEF Served, p
<1> HIDE DEF s
<1>8. flow' = flow /\ page' = s.page /\ status' = s.status /\ requested' = s.requested
  BY <1>1 DEF Serve, s, r
<1>9. Waiting'
  <2> DEFINE st == p.status
  <2>1. status' = st /\ Clear(st) /\ Sound(st)
    BY <1>4, <1>7, <1>8
  <2> HIDE DEF st
  <2> QED
    BY <1>7, <1>8, <2>1, WaitingNext
<1> QED
  BY <1>7, <1>8, <1>9 DEF Negotiating

\* No step of the level is mandatory but, perhaps, the one on the path.
OnlyTheWay(k) == Mandatory(k) \subseteq {OnPath(k)}

\* The button is placed as described, and nothing but a ticket is asked for.
ByTicketAlone ==
  PlacedAsDescribed /\ ~Misplaced /\ \A k \in Levels : OnlyTheWay(k)

\* A level lets an accepted ticket through where nothing else is mandatory.
LEMMA LevelAccepts ==
  ASSUME flow \in Flows, PlacedAsDescribed, ~Misplaced, NEW k \in Levels, OnlyTheWay(k),
         NEW st \in Sessions, Clear(st), NEW sub \in Passes, sub.result = "success", sub.used
  PROVE  LET lp == LevelPass(st, k, sub)
         IN  lp.result = "success" /\ lp.answer = Nothing /\ lp.used
<1> DEFINE lp == LevelPass(st, k, sub)
<1>1. /\ ~Settled(st, k) /\ Entered(st, k, sub) /\ ~Processed(st, Way(k))
      /\ \A j \in Stops(st, k, sub) : OnPath(k) <= j
  BY EnteredWhenClear DEF Clear
<1>2. lp.used = sub.used
  BY LevelClear
<1>3. lp.result = "success"
  <2>1. CASE Mandatory(k) = {}
    <3>1. sub.result # GoesOn(k)
      BY <2>1 DEF GoesOn
    <3> QED
      BY <1>1, <3>1, WayDecides
  <2>2. CASE Mandatory(k) # {}
    <3>1. Candidates(k) = {OnPath(k)} /\ GoesOn(k) = "success"
      BY <2>2 DEF OnlyTheWay, Candidates, GoesOn
    <3>2. Result(st, sub, Way(k)) = "success"
      BY <1>1, NotSkipped DEF Result
    <3>3. Stops(st, k, sub) = {}
      BY <3>1, <3>2 DEF Stops, Way
    <3>4. LevelResult(st, k, sub) = "success"
      BY <1>1, <3>1, <3>3 DEF LevelResult
    <3> QED
      BY <3>4, LevelPassIs
  <2> QED
    BY <2>1, <2>2
<1>4. lp.answer = Nothing
  BY <1>3, LevelPassIs
<1> QED
  BY <1>2, <1>3, <1>4

\* What the button does with a valid ticket after a click.
LEMMA ButtonAccepts ==
  ASSUME NEW st \in Sessions, NEW r \in Requests, r.ticket = "valid"
  PROVE  /\ ButtonPass(st, r, TRUE) \in Passes
         /\ ButtonPass(st, r, TRUE).result = "success"
         /\ ButtonPass(st, r, TRUE).used
<1>1. Evaluates(r, TRUE) /\ ButtonDoes(r, TRUE) = "succeeds"
  BY DEF Evaluates, ButtonDoes, Validated
<1> QED
  BY <1>1, ButtonPassFacts DEF ButtonPass

\* A valid ticket is all it takes where nothing else is mandatory.
LEMMA PassAccepts ==
  ASSUME flow \in Flows, PlacedAsDescribed, ~Misplaced, \A k \in Levels : OnlyTheWay(k),
         NEW st \in Sessions, Clear(st), NEW r \in Requests, r.ticket = "valid"
  PROVE  LET p == Pass(st, r, TRUE)
         IN  p.result = "success" /\ p.answer = Nothing /\ p.used
<1>1. Depth \in Nat /\ Depth >= 1 /\ Levels = 1..Depth
  BY FlowFacts
<1>2. PICK p \in [1..Depth + 1 -> Passes] :
        /\ p[Depth + 1] = ButtonPass(st, r, TRUE)
        /\ \A k \in 1..Depth : p[k] = LevelPass(st, k, p[k + 1])
        /\ Pass(st, r, TRUE) = p[1]
  BY PassRecurs
<1> DEFINE Good(q) == q.result = "success" /\ q.used
           T == {k \in 1..Depth + 1 : Good(p[k]) /\ (k <= Depth => p[k].answer = Nothing)}
<1>3. ASSUME NEW k \in 1..Depth, Good(p[k + 1]) PROVE Good(p[k]) /\ p[k].answer = Nothing
  <2> DEFINE sub == p[k + 1]
  <2>1. sub \in Passes /\ p[k] = LevelPass(st, k, sub) /\ k \in Levels /\ Good(sub)
    BY <1>1, <1>2, <1>3
  <2> HIDE DEF sub
  <2> QED
    BY <2>1, LevelAccepts
<1>4. Good(ButtonPass(st, r, TRUE))
  BY ButtonAccepts
<1> HIDE DEF Good
<1>5. \A k \in 1..Depth : k + 1 \in T => k \in T
  BY <1>1, <1>3
<1>6. Depth + 1 \in T /\ 1 \in 1..Depth + 1 /\ 1 <= Depth
  <2>1. Depth + 1 \in 1..Depth + 1 /\ ~(Depth + 1 <= Depth)
    BY <1>1
  <2>2. Good(p[Depth + 1])
    BY <1>2, <1>4, Zenon
  <2> QED
    BY <1>1, <2>1, <2>2
<1>7. \A k \in 1..Depth + 1 : k \in T
  <2> HIDE DEF T
  <2> QED
    BY <1>1, <1>5, <1>6, Upwards
<1>8. Good(p[1]) /\ p[1].answer = Nothing
  BY <1>6, <1>7
<1> QED
  BY <1>2, <1>8 DEF Good

\* After a click a valid ticket logs in.
LEMMA ClickIsAccepted ==
  ASSUME flow \in Flows, ByTicketAlone,
         "valid" \in Outcomes, status \in Sessions, requested, requested \in BOOLEAN,
         Clear(status),
         NEW pr, Serve(status, requested, Get("valid"), pr)
  PROVE  page'.kind = "done" /\ Button' \in proven'
<1> DEFINE r == Get("valid")
           p == Pass(status, r, TRUE)
           s == Served(status, TRUE, r, pr)
<1>1. r \in Requests /\ requested = TRUE /\ r.ticket = "valid"
  BY TicketsMakeRequests DEF Headers, Get
<1> HIDE DEF r
<1>2. p.result = "success" /\ p.answer = Nothing /\ p.used
  BY <1>1, PassAccepts DEF ByTicketAlone
<1> HIDE DEF p
<1>3. Nothing # Showing("resets")
  BY DEF Nothing, Showing
<1>4. s.page = Showing("done") /\ s.proven = pr \cup {Button}
  BY <1>1, <1>2, <1>3 DEF Served, p
<1> HIDE DEF s
<1>5. flow' = flow /\ page' = s.page /\ proven' = s.proven
  BY <1>1 DEF Serve, s, r
<1>6. Button' = Button
  BY <1>5, SameFlow
<1> QED
  BY <1>4, <1>5, <1>6 DEF Showing

\* The step-up flow: the way is the first of two mandatory steps of the second
\* level, and the second one asks the user for something.
HasStepUp ==
  /\ Levels = 1..3 /\ Depth = 3
  /\ OnlyTheWay(1) /\ OnlyTheWay(3) /\ Mandatory(1) = {}
  /\ Mandatory(2) = {1, 2} /\ OnPath(2) = 1 
  /\ flow[2][2].does = "asks" /\ flow[2][2].req # "ALTERNATIVE"

\* There the accepted ticket is not enough.
LEMMA LevelStepsUp ==
  ASSUME flow \in Flows, PlacedAsDescribed, ~Misplaced, HasStepUp,
         NEW st \in Sessions, Clear(st), Sound(st), st[<<2, 2>>] # "success",
         NEW sub \in Passes, sub.result = "success"
  PROVE  LET lp == LevelPass(st, 2, sub)
         IN  lp.result = "challenged" /\ lp.answer = Asking(<<2, 2>>)
<1> DEFINE lp == LevelPass(st, 2, sub)
<1>1. /\ 2 \in Levels /\ Mandatory(2) = {1, 2} /\ OnPath(2) = 1 /\ Candidates(2) = {1, 2}
      /\ GoesOn(2) = "success" /\ ~Settled(st, 2)
  BY DEF HasStepUp, Candidates, GoesOn, Settled
<1>2. Result(st, sub, <<2, 1>>) = "success"
  <2>1. ~Processed(st, Way(2)) /\ Exec(Way(2)).does = "path" /\ Way(2) = <<2, 1>>
    BY <1>1, NotSkipped DEF Clear, Way
  <2> QED
    BY <2>1 DEF Result
<1>3. Result(st, sub, <<2, 2>>) = "challenged"
  <2>1. Exec(<<2, 2>>).does = "asks"
    BY DEF HasStepUp, Exec
  <2>2. st[<<2, 2>>] # "attempted"
    BY <1>1, <2>1, NotSkipped DEF Sound
  <2> QED
    BY <2>1, <2>2 DEF Result, Processed
<1>4. Stops(st, 2, sub) = {2}
  BY <1>1, <1>2, <1>3 DEF Stops
<1>5. Min(Stops(st, 2, sub)) = 2
  BY <1>1, <1>4, FirstStop
<1>6. LevelResult(st, 2, sub) = "challenged"
  BY <1>1, <1>3, <1>4, <1>5 DEF LevelResult
<1> QED
  BY <1>1, <1>5, <1>6, LevelPassIs

LEMMA PassStepsUp ==
  ASSUME flow \in Flows, PlacedAsDescribed, ~Misplaced, HasStepUp,
         NEW st \in Sessions, Clear(st), Sound(st), st[<<2, 2>>] # "success",
         NEW r \in Requests, r.ticket = "valid"
  PROVE  Pass(st, r, TRUE).answer = Asking(<<2, 2>>)
<1>1. Depth = 3 /\ 1 \in Levels /\ 2 \in Levels /\ 3 \in Levels
  BY DEF HasStepUp
<1>2. PICK p \in [1..Depth + 1 -> Passes] :
        /\ p[Depth + 1] = ButtonPass(st, r, TRUE)
        /\ \A k \in 1..Depth : p[k] = LevelPass(st, k, p[k + 1])
        /\ Pass(st, r, TRUE) = p[1]
  BY PassRecurs
<1>3. /\ p[1] = LevelPass(st, 1, p[2]) /\ p[2] = LevelPass(st, 2, p[3])
      /\ p[3] = LevelPass(st, 3, p[4]) /\ p[4] = ButtonPass(st, r, TRUE)
      /\ p[2] \in Passes /\ p[3] \in Passes /\ p[4] \in Passes
  <2>1. p \in [1..4 -> Passes] /\ p[4] = ButtonPass(st, r, TRUE)
    <3>1. Depth + 1 = 4
      BY <1>1
    <3> QED
      BY <1>2, <3>1, Zenon
  <2>2. \A k \in 1..3 : p[k] = LevelPass(st, k, p[k + 1])
    BY <1>1, <1>2
  <2>3. 1 + 1 = 2 /\ 2 + 1 = 3 /\ 3 + 1 = 4 /\ 1 \in 1..3 /\ 2 \in 1..3 /\ 3 \in 1..3
    OBVIOUS
  <2>4. p[1] = LevelPass(st, 1, p[1 + 1]) /\ p[2] = LevelPass(st, 2, p[2 + 1])
        /\ p[3] = LevelPass(st, 3, p[3 + 1])
    BY <2>2, <2>3, Zenon
  <2>5. p[1 + 1] = p[2] /\ p[2 + 1] = p[3] /\ p[3 + 1] = p[4]
    BY <2>3, Zenon
  <2>6. p[2] \in Passes /\ p[3] \in Passes /\ p[4] \in Passes
    <3>1. 2 \in 1..4 /\ 3 \in 1..4 /\ 4 \in 1..4
      OBVIOUS
    <3> QED
      BY <2>1, <3>1, Zenon
  <2> QED
    BY <2>1, <2>4, <2>5, <2>6, Zenon
<1>4. p[3].result = "success"
  <2> DEFINE sub == p[4]
  <2>1. sub \in Passes /\ sub.result = "success" /\ sub.used /\ OnlyTheWay(3)
    BY <1>3, ButtonAccepts DEF HasStepUp
  <2> HIDE DEF sub
  <2>2. LevelPass(st, 3, sub).result = "success"
    BY <1>1, <2>1, LevelAccepts
  <2> QED
    BY <1>3, <2>2 DEF sub
<1>5. p[2].result = "challenged" /\ p[2].answer = Asking(<<2, 2>>)
  BY <1>3, <1>4, LevelStepsUp
<1>6. /\ ~Settled(st, 1) /\ ~Processed(st, Way(1)) 
      /\ \A j \in Stops(st, 1, p[2]) : OnPath(1) <= j
  BY <1>1, EnteredWhenClear DEF Clear
<1>7. p[2].result # GoesOn(1)
  BY <1>5 DEF GoesOn
<1>8. p[1].answer = p[2].answer
  <2> DEFINE sub == p[2]
  <2>1. /\ sub \in Passes /\ sub.result = "challenged" /\ sub.result # GoesOn(1)
        /\ ~Settled(st, 1) /\ ~Processed(st, Way(1))
        /\ \A j \in Stops(st, 1, sub) : OnPath(1) <= j
    BY <1>3, <1>5, <1>6, <1>7
  <2> HIDE DEF sub
  <2>2. LevelPass(st, 1, sub).answer = sub.answer
    BY <1>1, <2>1, WayDecides
  <2> QED
    BY <1>3, <2>2 DEF sub
<1> QED
  BY <1>2, <1>5, <1>8

LEMMA WaitingStepsUp ==
  ASSUME flow \in Flows, PlacedAsDescribed, ~Misplaced, HasStepUp,
         "valid" \in Outcomes, status \in Sessions, requested \in BOOLEAN, Waiting,
         status[<<2, 2>>] # "success", NEW pr, Serve(status, requested, Get("valid"), pr)
  PROVE  page'.kind = "asks" /\ ~LoginPage(page')
<1> DEFINE r == Get("valid")
           p == Pass(status, r, TRUE)
           s == Served(status, TRUE, r, pr)
<1>1. r \in Requests /\ requested = TRUE /\ r.ticket = "valid"
  BY TicketsMakeRequests DEF Headers, Waiting, Get
<1> HIDE DEF r
<1>2. p.answer = Asking(<<2, 2>>)
  BY <1>1, PassStepsUp DEF Waiting
<1> HIDE DEF p
<1>3. p.answer # Showing("resets") /\ p.answer # Nothing
  BY <1>2 DEF Asking, Nothing, Showing
<1>4. s.page = Asking(<<2, 2>>)
  BY <1>2, <1>3 DEF Served, p
<1> HIDE DEF s
<1>5. page' = s.page
  BY <1>1 DEF Serve, s, r
<1>6. Exec(<<2, 2>>).req # "ALTERNATIVE"
  BY DEF HasStepUp, Exec
<1> QED
  BY <1>4, <1>5, <1>6 DEF Asking, LoginPage

\* Without a ticket, a click is answered by a challenge.
LEMMA ClickIsChallenged ==
  ASSUME flow \in Flows, PlacedAsDescribed, ~Misplaced, status \in Sessions, Clear(status),
         requested, requested \in BOOLEAN, NEW pr, Serve(status, requested, Get("none"), pr)
  PROVE  page'.kind = "negotiate"
<1> DEFINE r == Get("none")
           p == Pass(status, r, TRUE)
           s == Served(status, TRUE, r, pr)
<1>1. r \in Requests /\ requested = TRUE /\ ~Evaluates(r, TRUE)
  BY TicketsMakeRequests DEF Headers, Evaluates, Get
<1> HIDE DEF r
<1>2. p.used \in BOOLEAN /\ ~p.used
  <2>1. p \in Passes
    BY <1>1, PassTyped
  <2> QED
    BY <1>1, <2>1, PassUses DEF Passes
<1> HIDE DEF p
<1>3. s.requested
  BY <1>2 DEF Served, p
<1> HIDE DEF s
<1>4. s.page = Negotiating(r.method)
  BY <1>1, <1>3, ServedClear DEF s
<1>5. page' = s.page
  BY <1>1 DEF Serve, s, r
<1> QED
  BY <1>4, <1>5 DEF Negotiating

\* What the browser gets from a button placed as described: with a ticket to
\* send the user is logged in, where nothing else is asked for; without one the
\* browser is challenged, and the fallback form, or a new start, leads back to
\* the login form, which offers the button.
ClickIsServed ==
  /\ ByTicketAlone /\ requested /\ (FollowRedirect("valid") \/ SendTicket("valid"))
       => page'.kind = "done"
  /\ PlacedAsDescribed /\ requested /\ FollowRedirect("none") => page'.kind = "negotiate"
  /\ PlacedAsDescribed /\ ~Misplaced /\ (PostFallback \/ \E ticket \in Headers : Restart(ticket))
       => LoginPage(page') /\ OnForm'

LEMMA ClickWaitsForService ==
  ASSUME "valid" \in Outcomes, ClickInv
  PROVE  ClickIsServed
<1>1. /\ flow \in Flows /\ status \in Sessions /\ requested \in BOOLEAN
      /\ PlacedAsDescribed /\ requested => ~Misplaced /\ Clear(status)
      /\ PlacedAsDescribed /\ page.kind = "negotiate" => page.answers = "GET"
  BY DEF ClickInv, ClickWaits, ButtonInv, TypeOK, Sessions, Statuses
<1>2. ASSUME ByTicketAlone, requested, FollowRedirect("valid") \/ SendTicket("valid")
      PROVE  page'.kind = "done"
  <2>1. PlacedAsDescribed
    BY <1>2 DEF ByTicketAlone
  <2>2. Serve(status, requested, Get("valid"), proven)
    BY <1>1, <1>2, <2>1 DEF FollowRedirect, Continue, SendTicket
  <2> QED
    BY <1>1, <1>2, <2>1, <2>2, ClickIsAccepted
<1>3. ASSUME PlacedAsDescribed, requested, FollowRedirect("none")
      PROVE  page'.kind = "negotiate"
  <2>1. Serve(status, requested, Get("none"), proven)
    BY <1>3 DEF FollowRedirect, Continue
  <2> QED
    BY <1>1, <1>3, <2>1, ClickIsChallenged
<1>4. ASSUME PlacedAsDescribed, ~Misplaced, PostFallback \/ \E ticket \in Headers : Restart(ticket)
      PROVE  LoginPage(page') /\ OnForm'
  <2>1. PICK r \in Requests : Serve(Fresh, FALSE, r, {})
    BY <1>4, TicketsMakeRequests DEF PostFallback, Restart, StartOver, Headers
  <2> QED
    BY <1>1, <1>4, <2>1, FreshShowsForm
<1> QED
  BY <1>2, <1>3, <1>4 DEF ClickIsServed

\* A click is never in vain, for every flow the button is placed in as described:
\* authenticate finds the note it left and nothing in its way (REQUESTED_NOTE,
\* skipAlternatives), and action starts over without it.
THEOREM ClicksAreServed ==
  ASSUME "valid" \in Outcomes
  PROVE  Spec => [][ClickIsServed]_vars
<1>1. ClickInv /\ [Next]_vars => [ClickIsServed]_vars
  BY ClickWaitsForService
<1> QED
  BY <1>1, ClickHolds, PTL DEF Spec

-----------------------------------------------------------------------------
(***************************************************************************)
(* The flows of the realm: where they have the button.                     *)
(***************************************************************************)

Holds(x, req, does) == x.req = req /\ x.does = does /\ x.on = TRUE

LEMMA FlowHas == \A req, does : Holds(Flow(req, does), req, does)
BY DEF Flow, Holds

LEMMA SilentIs ==
  /\ Silent.req = "ALTERNATIVE" /\ Silent.on = TRUE
  /\ Silent.does # "path" /\ Silent.does # "asks" /\ Silent.does # "condition"
<1>1. Silent.req = "ALTERNATIVE" /\ Silent.on = TRUE /\ Silent.does = "stays silent"
  BY FlowHas, Zenon DEF Silent, Holds
<1> QED
  BY <1>1, Zenon

LEMMA StepsAre ==
  /\ \A req : Holds(Below(req), req, "path")
  /\ \A req : Holds(Asks(req), req, "asks")
BY FlowHas, Zenon DEF Below, Asks

\* The levels of the realm's flows.
IsTopLevel(k) ==
  /\ DOMAIN flow[k] = 1 .. 5 /\ flow[k][1] = Silent /\ flow[k][2] = Silent
  /\ Holds(flow[k][3], "ALTERNATIVE", "asks")
  /\ Holds(flow[k][4], "ALTERNATIVE", "path")
  /\ Holds(flow[k][5], "ALTERNATIVE", "asks")

IsPair(k, a, b) == DOMAIN flow[k] = 1 .. 2 /\ flow[k][1] = a /\ flow[k][2] = b

AreFive(s, a, b, c, d, e) ==
  DOMAIN s = 1 .. 5 /\ s[1] = a /\ s[2] = b /\ s[3] = c /\ s[4] = d /\ s[5] = e

LEMMA FiveOnALevel ==
  ASSUME NEW a, NEW b, NEW c, NEW d, NEW e
  PROVE  AreFive(<<a, b, c, d, e>>, a, b, c, d, e)
BY DEF AreFive

LEMMA TwoOnALevel ==
  ASSUME NEW k, NEW a, NEW b, flow[k] = <<a, b>>
  PROVE  IsPair(k, a, b)
BY DEF IsPair

LEMMA OneOnALevel ==
  ASSUME NEW k, NEW a, flow[k] = <<a>>
  PROVE  DOMAIN flow[k] = 1 .. 1 /\ flow[k][1] = a
OBVIOUS

LEMMA OneLevel ==
  ASSUME NEW a, flow = <<a>>
  PROVE  Depth = 1 /\ Levels = 1 .. 1 /\ flow[1] = a
BY DEF Depth, Levels

LEMMA ThreeLevels ==
  ASSUME NEW a, NEW b, NEW c, flow = <<a, b, c>>
  PROVE  Depth = 3 /\ Levels = 1 .. 3 /\ flow[1] = a /\ flow[2] = b /\ flow[3] = c
BY DEF Depth, Levels

\* The flows of setup_realm, as what they have on each level.
LEMMA TopLevelIs ==
  ASSUME NEW k, flow[k] = TopLevel(Below("ALTERNATIVE"))
  PROVE  IsTopLevel(k)
<1>1. flow[k] = <<Silent, Silent, Asks("ALTERNATIVE"), Below("ALTERNATIVE"), Asks("ALTERNATIVE")>>
  BY Zenon DEF TopLevel
<1>2. AreFive(flow[k], Silent, Silent, Asks("ALTERNATIVE"), Below("ALTERNATIVE"),
              Asks("ALTERNATIVE"))
  BY <1>1, FiveOnALevel, Zenon
<1> QED
  BY <1>2, StepsAre, Zenon DEF IsTopLevel, AreFive

LEMMA BuildFlowIs ==
  ASSUME flow = build_flow
  PROVE  Depth = 1 /\ Levels = 1 .. 1 /\ IsTopLevel(1)
<1>1. Depth = 1 /\ Levels = 1 .. 1 /\ flow[1] = TopLevel(Below("ALTERNATIVE"))
  BY OneLevel, Zenon DEF build_flow
<1> QED
  BY <1>1, TopLevelIs, Zenon

\* The second level of the nested flow is the sub-flow behind the condition.
LEMMA NestedFlowIs ==
  ASSUME NEW holds \in BOOLEAN, flow = build_nested_flow(holds)
  PROVE  /\ Depth = 3 /\ Levels = 1 .. 3 /\ IsTopLevel(1)
         /\ DOMAIN flow[2] = 1 .. 1 /\ flow[2][1].req = "CONDITIONAL"
         /\ flow[2][1].does = "path" /\ flow[2][1].on = holds
         /\ DOMAIN flow[3] = 1 .. 2 /\ Holds(flow[3][1], "REQUIRED", "condition")
         /\ Holds(flow[3][2], "ALTERNATIVE", "path")
<1> DEFINE x == [req |-> "CONDITIONAL", does |-> "path", on |-> holds]
<1>1. x.req = "CONDITIONAL" /\ x.does = "path" /\ x.on = holds
  OBVIOUS
<1> HIDE DEF x
<1>2. flow = << TopLevel(Below("ALTERNATIVE")), <<x>>,
                <<Flow("REQUIRED", "condition"), Below("ALTERNATIVE")>> >>
  BY Zenon DEF build_nested_flow, x
<1>3. /\ Depth = 3 /\ Levels = 1 .. 3 /\ flow[1] = TopLevel(Below("ALTERNATIVE"))
      /\ flow[2] = <<x>> /\ flow[3] = <<Flow("REQUIRED", "condition"), Below("ALTERNATIVE")>>
  BY <1>2, ThreeLevels, Zenon
<1>4. IsTopLevel(1) /\ DOMAIN flow[2] = 1 .. 1 /\ flow[2][1] = x
  BY <1>3, TopLevelIs, OneOnALevel, Zenon
<1>5. IsPair(3, Flow("REQUIRED", "condition"), Below("ALTERNATIVE"))
  BY <1>3, TwoOnALevel, Zenon
<1> QED
  BY <1>1, <1>3, <1>4, <1>5, FlowHas, StepsAre, Zenon DEF IsPair

LEMMA StepUpFlowIs ==
  ASSUME flow = build_stepup_flow
  PROVE  /\ Depth = 3 /\ Levels = 1 .. 3
         /\ DOMAIN flow[1] = 1 .. 2 /\ flow[1][1] = Silent
         /\ Holds(flow[1][2], "ALTERNATIVE", "path")
         /\ DOMAIN flow[2] = 1 .. 2 /\ Holds(flow[2][1], "REQUIRED", "path")
         /\ Holds(flow[2][2], "CONDITIONAL", "asks")
         /\ DOMAIN flow[3] = 1 .. 2 /\ Holds(flow[3][1], "ALTERNATIVE", "asks")
         /\ Holds(flow[3][2], "ALTERNATIVE", "path")
<1>1. /\ Depth = 3 /\ Levels = 1 .. 3 /\ flow[1] = <<Silent, Below("ALTERNATIVE")>>
      /\ flow[2] = <<Below("REQUIRED"), Asks("CONDITIONAL")>>
      /\ flow[3] = <<Asks("ALTERNATIVE"), Below("ALTERNATIVE")>>
  BY ThreeLevels, Zenon DEF build_stepup_flow
<1>2. /\ IsPair(1, Silent, Below("ALTERNATIVE")) /\ IsPair(2, Below("REQUIRED"), Asks("CONDITIONAL"))
      /\ IsPair(3, Asks("ALTERNATIVE"), Below("ALTERNATIVE"))
  BY <1>1, TwoOnALevel, Zenon
<1> QED
  BY <1>1, <1>2, StepsAre, Zenon DEF IsPair

\* What the placement asks of a single level.
WellPlaced(k) ==
  /\ OnPath(k) \in Steps(k)
  /\ \A i \in Mandatory(k) : i >= OnPath(k)
  /\ k \in AlternativeLevels => \A e \in Siblings(k) : Exec(e).req = "ALTERNATIVE"

AfterForm(k) == k \in AlternativeLevels /\ \E i \in 1 .. OnPath(k) - 1 : flow[k][i].does = "asks"

\* The placement holds if it holds level by level.
LEMMA LevelByLevel ==
  ASSUME \A k \in Levels : WellPlaced(k), \E k \in Levels : AfterForm(k)
  PROVE  PlacedAsDescribed /\ ~Misplaced
<1>1. AlternativeLevels \subseteq Levels
  BY DEF AlternativeLevels
<1>2. PlacedAsDescribed
  BY DEF PlacedAsDescribed, WellPlaced, AfterForm
<1>3. ~Misplaced
  BY <1>1 DEF Misplaced, WellPlaced
<1> QED
  BY <1>2, <1>3

LEMMA TopLevelPlaced ==
  ASSUME flow \in Flows, NEW k \in Levels, IsTopLevel(k)
  PROVE  /\ OnPath(k) = 4 /\ Steps(k) = 1 .. 5 /\ Mandatory(k) = {} /\ k \in AlternativeLevels
         /\ WellPlaced(k) /\ AfterForm(k) /\ OnlyTheWay(k)
<1>1. /\ \A i \in 1 .. 5 : /\ flow[k][i].req = "ALTERNATIVE" /\ flow[k][i].on = TRUE
                           /\ flow[k][i].does # "condition"
      /\ flow[k][4].does = "path" /\ flow[k][3].does = "asks" /\ DOMAIN flow[k] = 1 .. 5
  <2>1. DOMAIN flow[k] = 1 .. 5 /\ flow[k][1] = Silent /\ flow[k][2] = Silent
    BY DEF IsTopLevel
  <2>2. /\ Holds(flow[k][3], "ALTERNATIVE", "asks") /\ Holds(flow[k][4], "ALTERNATIVE", "path")
        /\ Holds(flow[k][5], "ALTERNATIVE", "asks")
    BY DEF IsTopLevel
  <2>3. \A i \in 1 .. 5 : i = 1 \/ i = 2 \/ i = 3 \/ i = 4 \/ i = 5
    OBVIOUS
  <2> QED
    BY <2>1, <2>2, <2>3, SilentIs DEF Holds
<1>2. OnPath(k) = 4
  BY <1>1, FlowFacts
<1>3. Steps(k) = 1 .. 5
  BY <1>1 DEF Steps
<1>4. Mandatory(k) = {}
  BY <1>1, <1>3 DEF Mandatory
<1>5. k \in AlternativeLevels
  BY <1>1, <1>2 DEF AlternativeLevels
<1>6. \A e \in Siblings(k) : Exec(e).req = "ALTERNATIVE"
  BY <1>1 DEF Siblings, Exec
<1>7. 4 \in 1 .. 5 /\ 3 \in 1 .. 4 - 1
  OBVIOUS
<1> QED
  BY <1>1, <1>2, <1>3, <1>4, <1>5, <1>6, <1>7 DEF WellPlaced, AfterForm, OnlyTheWay

\* The flows of the scenarios meet it, or ask for one more step.
LEMMA BuildFlowPlaced ==
  ASSUME flow \in Flows, flow = build_flow
  PROVE  ByTicketAlone
<1>1. Levels = 1 .. 1 /\ IsTopLevel(1)
  BY BuildFlowIs
<1>2. 1 \in Levels /\ \A k \in Levels : k = 1
  BY <1>1
<1>3. WellPlaced(1) /\ AfterForm(1) /\ OnlyTheWay(1)
  BY <1>1, <1>2, TopLevelPlaced
<1> QED
  BY <1>2, <1>3, LevelByLevel DEF ByTicketAlone

LEMMA NestedLevelsPlaced ==
  ASSUME flow \in Flows, Levels = 1 .. 3,
         DOMAIN flow[2] = 1 .. 1, flow[2][1].req = "CONDITIONAL", flow[2][1].does = "path",
         flow[2][1].on = TRUE,
         DOMAIN flow[3] = 1 .. 2, Holds(flow[3][1], "REQUIRED", "condition"),
         Holds(flow[3][2], "ALTERNATIVE", "path")
  PROVE  WellPlaced(2) /\ OnlyTheWay(2) /\ WellPlaced(3) /\ OnlyTheWay(3)
<1>1. OnPath(2) = 1 /\ OnPath(3) = 2
  <2>1. flow[3][2].does = "path"
    BY DEF Holds
  <2>2. 2 \in Levels /\ 3 \in Levels /\ 1 \in DOMAIN flow[2] /\ 2 \in DOMAIN flow[3]
    OBVIOUS
  <2> QED
    BY <2>1, <2>2, FlowFacts
<1>2. Steps(2) = {1} /\ Mandatory(2) = {1}
  <2>1. Steps(2) = {1}
    BY DEF Steps
  <2> QED
    BY <2>1 DEF Mandatory
<1>3. Steps(3) = {2} /\ Mandatory(3) = {}
  <2>1. \A i \in DOMAIN flow[3] : i = 1 \/ i = 2
    OBVIOUS
  <2>2. Steps(3) = {2}
    BY <2>1 DEF Steps, Holds
  <2> QED
    BY <2>2 DEF Mandatory, Holds
<1>4. 2 \notin AlternativeLevels
  BY <1>1 DEF AlternativeLevels
<1>5. Siblings(3) = {}
  <2>1. \A i \in DOMAIN flow[3] : i = 1 \/ i = 2
    OBVIOUS
  <2> QED
    BY <2>1 DEF Siblings, Holds
<1> QED
  BY <1>1, <1>2, <1>3, <1>4, <1>5 DEF WellPlaced, OnlyTheWay

LEMMA NestedFlowPlaced ==
  ASSUME flow \in Flows, flow = build_nested_flow(TRUE)
  PROVE  ByTicketAlone
<1> DEFINE holds == TRUE
<1>1. holds \in BOOLEAN /\ flow = build_nested_flow(holds) /\ holds = TRUE
  BY Zenon
<1> HIDE DEF holds
<1>2. /\ Levels = 1 .. 3 /\ IsTopLevel(1)
      /\ DOMAIN flow[2] = 1 .. 1 /\ flow[2][1].req = "CONDITIONAL"
      /\ flow[2][1].does = "path" /\ flow[2][1].on = TRUE
      /\ DOMAIN flow[3] = 1 .. 2 /\ Holds(flow[3][1], "REQUIRED", "condition")
      /\ Holds(flow[3][2], "ALTERNATIVE", "path")
  BY <1>1, NestedFlowIs, Zenon
<1>3. 1 \in Levels /\ \A k \in Levels : k = 1 \/ k = 2 \/ k = 3
  BY <1>2
<1>4. WellPlaced(1) /\ AfterForm(1) /\ OnlyTheWay(1)
  BY <1>2, <1>3, TopLevelPlaced
<1>5. WellPlaced(2) /\ OnlyTheWay(2) /\ WellPlaced(3) /\ OnlyTheWay(3)
  BY <1>2, NestedLevelsPlaced
<1> QED
  BY <1>3, <1>4, <1>5, LevelByLevel DEF ByTicketAlone

LEMMA StepUpFlowPlaced ==
  ASSUME flow \in Flows, flow = build_stepup_flow
  PROVE  PlacedAsDescribed /\ ~Misplaced /\ HasStepUp
<1>1. /\ Depth = 3 /\ Levels = 1 .. 3
      /\ DOMAIN flow[1] = 1 .. 2 /\ flow[1][1] = Silent
      /\ Holds(flow[1][2], "ALTERNATIVE", "path")
      /\ DOMAIN flow[2] = 1 .. 2 /\ Holds(flow[2][1], "REQUIRED", "path")
      /\ Holds(flow[2][2], "CONDITIONAL", "asks")
      /\ DOMAIN flow[3] = 1 .. 2 /\ Holds(flow[3][1], "ALTERNATIVE", "asks")
      /\ Holds(flow[3][2], "ALTERNATIVE", "path")
  BY StepUpFlowIs
<1>2. /\ \A i \in 1 .. 2 : i = 1 \/ i = 2
      /\ 1 \in Levels /\ 2 \in Levels /\ 3 \in Levels
      /\ \A k \in Levels : k = 1 \/ k = 2 \/ k = 3
  BY <1>1
<1>3. OnPath(1) = 2 /\ OnPath(2) = 1 /\ OnPath(3) = 2
  <2>1. flow[1][2].does = "path" /\ flow[2][1].does = "path" /\ flow[3][2].does = "path"
    BY <1>1 DEF Holds
  <2>2. 2 \in DOMAIN flow[1] /\ 1 \in DOMAIN flow[2] /\ 2 \in DOMAIN flow[3]
    BY <1>1
  <2> QED
    BY <1>2, <2>1, <2>2, FlowFacts
<1>4. Steps(1) = {1, 2} /\ Mandatory(1) = {}
  <2>1. Steps(1) = {1, 2}
    BY <1>1, <1>2, SilentIs DEF Steps, Holds
  <2> QED
    BY <1>1, <2>1, SilentIs DEF Mandatory, Holds
<1>5. Mandatory(2) = {1, 2} /\ Steps(2) = {1, 2}
  <2>1. Steps(2) = {1, 2}
    BY <1>1, <1>2 DEF Steps, Holds
  <2> QED
    BY <1>1, <2>1 DEF Mandatory, Holds
<1>6. Mandatory(3) = {} /\ Steps(3) = {1, 2}
  <2>1. Steps(3) = {1, 2}
    BY <1>1, <1>2 DEF Steps, Holds
  <2> QED
    BY <1>1, <2>1 DEF Mandatory, Holds
<1>7. \A k \in Levels : WellPlaced(k)
  <2>1. \A e \in Siblings(1) : Exec(e).req = "ALTERNATIVE"
    BY <1>1, <1>2, SilentIs DEF Siblings, Exec, Holds
  <2>2. \A e \in Siblings(3) : Exec(e).req = "ALTERNATIVE"
    BY <1>1, <1>2 DEF Siblings, Exec, Holds
  <2>3. 2 \notin AlternativeLevels
    BY <1>1, <1>3 DEF AlternativeLevels, Holds
  <2> QED
    BY <1>2, <1>3, <1>4, <1>5, <1>6, <2>1, <2>2, <2>3 DEF WellPlaced
<1>8. AfterForm(3)
  <2>1. 3 \in AlternativeLevels
    BY <1>1, <1>2, <1>3 DEF AlternativeLevels, Holds
  <2>2. flow[3][1].does = "asks" /\ 1 \in 1 .. OnPath(3) - 1
    BY <1>1, <1>3 DEF Holds
  <2> QED
    BY <2>1, <2>2 DEF AfterForm
<1>9. HasStepUp
  BY <1>1, <1>3, <1>4, <1>5, <1>6 DEF HasStepUp, OnlyTheWay, Holds
<1> QED
  BY <1>2, <1>7, <1>8, <1>9, LevelByLevel

\* The button under a condition that is false: the form comes first all the
\* same, and does not offer the button.
LEMMA HiddenFlowIs ==
  ASSUME flow \in Flows, flow = build_nested_flow(FALSE)
  PROVE  /\ Levels = 1 .. 3 /\ IsTopLevel(1) /\ OnPath(2) \notin Steps(2)
<1> DEFINE holds == FALSE
<1>1. holds \in BOOLEAN /\ flow = build_nested_flow(holds) /\ holds = FALSE
  BY Zenon
<1> HIDE DEF holds
<1>2. /\ Levels = 1 .. 3 /\ IsTopLevel(1) /\ DOMAIN flow[2] = 1 .. 1 /\ flow[2][1].on = FALSE
  BY <1>1, NestedFlowIs, Zenon
<1>3. Steps(2) = {}
  <2>1. \A i \in 1 .. 1 : i = 1
    OBVIOUS
  <2> QED
    BY <1>2, <2>1 DEF Steps
<1> QED
  BY <1>2, <1>3

\* The button under a condition that is false is not on the login page.
LEMMA HiddenShowsForm ==
  ASSUME flow \in Flows, Levels = 1 .. 3, IsTopLevel(1), OnPath(2) \notin Steps(2),
         NEW r \in Requests, NEW note \in BOOLEAN, NEW pr, Serve(Fresh, note, r, pr)
  PROVE  LoginPage(page') /\ ~OnForm'
<1> DEFINE first == Pass(Fresh, r, note)
           s == Served(Fresh, note, r, pr)
<1>1. Depth \in Nat /\ Depth >= 1 /\ Levels = 1..Depth /\ Fresh \in Sessions /\ 1 \in Levels
  BY FlowFacts, FreshIsHonest
<1>2. PICK p \in [1..Depth + 1 -> Passes] :
        /\ p[Depth + 1] = ButtonPass(Fresh, r, note)
        /\ \A k \in 1..Depth : p[k] = LevelPass(Fresh, k, p[k + 1])
        /\ first = p[1]
  BY <1>1, PassRecurs
<1> DEFINE sub == p[1 + 1]
<1>3. first = LevelPass(Fresh, 1, sub)
  BY <1>1, <1>2
<1> HIDE DEF sub
<1>4. /\ OnPath(1) = 4 /\ Steps(1) = 1 .. 5 /\ Mandatory(1) = {} /\ Candidates(1) = 1 .. 5
      /\ GoesOn(1) = "attempted"
  BY <1>1, TopLevelPlaced DEF Candidates, GoesOn
<1>5. /\ Exec(<<1, 1>>) = Silent /\ Exec(<<1, 2>>) = Silent
      /\ Exec(<<1, 3>>).does = "asks" /\ Exec(<<1, 3>>).req = "ALTERNATIVE"
  BY DEF Exec, IsTopLevel, Holds
<1>6. \A i \in 1 .. 5 : Fresh[<<1, i>>] = "none"
  BY <1>1, <1>4, StepFacts DEF Fresh
<1>7. ~Settled(Fresh, 1)
  BY <1>4, <1>6 DEF Settled
<1>8. Result(Fresh, sub, <<1, 3>>) = "challenged"
  <2>1. ~Processed(Fresh, <<1, 3>>)
    BY <1>6 DEF Processed
  <2> QED
    BY <1>5, <2>1, Zenon DEF Result
<1>9. Result(Fresh, sub, <<1, 1>>) = "attempted" /\ Result(Fresh, sub, <<1, 2>>) = "attempted"
  <2>1. Silent.does = "stays silent"
    BY FlowHas, Zenon DEF Silent, Holds
  <2>2. ~Processed(Fresh, <<1, 1>>) /\ ~Processed(Fresh, <<1, 2>>)
    BY <1>6 DEF Processed
  <2> QED
    BY <1>5, <2>1, <2>2, Zenon DEF Result
<1>10. Min(Stops(Fresh, 1, sub)) = 3
  <2>1. 3 \in Stops(Fresh, 1, sub) /\ 1 \notin Stops(Fresh, 1, sub) /\ 2 \notin Stops(Fresh, 1, sub)
    BY <1>4, <1>8, <1>9 DEF Stops
  <2> DEFINE m == Min(Stops(Fresh, 1, sub))
  <2>2. m \in Stops(Fresh, 1, sub) /\ m <= 3 /\ m \in Steps(1)
    BY <1>1, <2>1, FirstStop
  <2> HIDE DEF m
  <2>3. m \in 1 .. 5 /\ m # 1 /\ m # 2
    BY <1>4, <2>1, <2>2
  <2>4. m = 3
    BY <2>2, <2>3
  <2> QED
    BY <2>4 DEF m
<1>11. LevelResult(Fresh, 1, sub) = "challenged"
  <2>1. Stops(Fresh, 1, sub) # {}
    BY <1>4, <1>8 DEF Stops
  <2> QED
    BY <1>7, <1>8, <1>10, <2>1 DEF LevelResult
<1>12. first.answer = Asking(<<1, 3>>)
  BY <1>3, <1>4, <1>10, <1>11, LevelPassIs
<1>13. s.page = Asking(<<1, 3>>)
  <2>1. first.answer # Showing("resets") /\ first.answer # Nothing
    BY <1>12 DEF Asking, Nothing, Showing
  <2> HIDE DEF first
  <2> QED
    BY <1>12, <2>1 DEF Served, first
<1> HIDE DEF s
<1>14. flow' = flow /\ page' = Asking(<<1, 3>>)
  BY <1>13 DEF Serve, s
<1>15. LoginPage(page')
  BY <1>4, <1>5, <1>14 DEF LoginPage, Asking
<1>16. ~Offered(page.step)'
  <2>1. Levels' = Levels /\ (\A k : OnPath(k)' = OnPath(k)) /\ \A k : Steps(k)' = Steps(k)
    BY <1>14, SameFlow
  <2>2. page'.step[1] = 1 /\ 2 \in Levels
    BY <1>14 DEF Asking
  <2> QED
    BY <2>1, <2>2 DEF Offered
<1> QED
  BY <1>15, <1>16 DEF OnForm

\* Who has not clicked is neither sent on nor asked for a ticket, and who has
\* passed nothing is not logged in.
LEMMA UnaskedStays ==
  ASSUME flow \in Flows, status \in Sessions, requested = FALSE, proven = {},
         Honest(status, {}), NEW r \in Requests, Serve(status, requested, r, proven)
  PROVE  /\ requested' = FALSE /\ proven' = {}
         /\ page'.kind \notin {"redirect", "negotiate", "done"}
<1> DEFINE s == Served(status, FALSE, r, {})
           p == Pass(status, r, FALSE)
<1>1. page' = s.page /\ requested' = s.requested /\ proven' = s.proven
  BY DEF Serve
<1>2. ~p.used
  BY PassHonest
<1>3. s.requested = FALSE /\ s.proven = {}
  <2> HIDE DEF p
  <2> QED
    BY <1>2 DEF Served, p
<1>4. s.page.kind = "done" => Won({})[1]
  <2>1. s.page.kind = "done" => Won(s.proven)[1]
    BY ServedFacts
  <2> HIDE DEF s
  <2> QED
    BY <1>3, <2>1
<1>5. s.page.kind # "negotiate"
  BY ServedNegotiates
<1>6. s.page.kind # "redirect"
  <2> DEFINE second == Pass(Fresh, r, FALSE)
             last == IF p.answer = Showing("resets") THEN second ELSE p
  <2>1. p \in Passes /\ second \in Passes
    BY PassTyped, FreshIsHonest
  <2> HIDE DEF p, second
  <2>2. last.answer \in Answers
    BY <2>1 DEF Passes
  <2>3. last.answer.kind # "redirect"
    BY <2>2 DEF Answers, Asking, Negotiating, Showing
  <2>4. s.page = IF last.answer # Nothing THEN last.answer
                 ELSE Showing(IF last.result = "success" THEN "done" ELSE "error")
    BY DEF Served, p, second
  <2> HIDE DEF last, s
  <2> QED
    BY <2>3, <2>4 DEF Showing
<1> HIDE DEF s
<1> QED
  BY <1>1, <1>3, <1>4, <1>5, <1>6, NothingWinsNothing

-----------------------------------------------------------------------------
(***************************************************************************)
(* The scenarios of the realm: what each of their steps does.              *)
(***************************************************************************)

\* Whether kinit has fetched a ticket for a scenario.
LEMMA TicketsOfMain ==
  ASSUME NEW i \in DOMAIN main
  PROVE  main[i].ticket = (i \notin {2, 4})
<1>1. /\ main[1].ticket = TRUE /\ main[2].ticket = FALSE /\ main[3].ticket = TRUE
      /\ main[4].ticket = FALSE /\ main[5].ticket = TRUE /\ main[6].ticket = TRUE
      /\ main[7].ticket = TRUE
  <2>1. /\ main[1] = Scenario("A", build_flow, TRUE, scenario_a)
        /\ main[2] = Scenario("B", build_flow, FALSE, scenario_b)
        /\ main[3] = Scenario("F", build_nested_flow(TRUE), TRUE, scenario_a)
        /\ main[4] = Scenario("FB", build_nested_flow(TRUE), FALSE, scenario_b)
        /\ main[5] = Scenario("F", build_nested_flow(FALSE), TRUE, scenario_f_off)
        /\ main[6] = Scenario("G", build_stepup_flow, TRUE, scenario_g)
        /\ main[7] = Scenario("C", build_flow, TRUE, scenario_c)
    BY MainIs, Zenon DEF AreSeven
  <2> QED
    BY <2>1 DEF Scenario
<1>2. i = 1 \/ i = 2 \/ i = 3 \/ i = 4 \/ i = 5 \/ i = 6 \/ i = 7
  BY ScenariosOfMain
<1> QED
  BY <1>1, <1>2

\* The flows the scenarios bind.
LEMMA FlowsOfMain ==
  ASSUME NEW i \in DOMAIN main
  PROVE  /\ i \in {1, 2, 7} => main[i].flow = build_flow
         /\ i \in {3, 4} => main[i].flow = build_nested_flow(TRUE)
         /\ i = 5 => main[i].flow = build_nested_flow(FALSE)
         /\ i = 6 => main[i].flow = build_stepup_flow
BY ScenariosOfMain, Zenon DEF IsScenario

\* The other scripts have four steps.
AreFour(s, a, b, c, d) == DOMAIN s = 1 .. 4 /\ s[1] = a /\ s[2] = b /\ s[3] = c /\ s[4] = d

LEMMA FourOfThem ==
  ASSUME NEW a, NEW b, NEW c, NEW d
  PROVE  AreFour(<<a, b, c, d>>, a, b, c, d) /\ AreFour(<<a, b>> \o <<c, d>>, a, b, c, d)
BY DEF AreFour

LEMMA StepsOfHidden ==
  /\ DOMAIN scenario_f_off = 1 .. 4
  /\ scenario_f_off[1].does = "open" /\ scenario_f_off[2].does = "hidden"
  /\ scenario_f_off[3].does = "forge" /\ scenario_f_off[4].does = "no login"
<1>1. AreFour(scenario_f_off, Step(6, "open"), Step(6, "hidden"), Step(7, "forge"),
              Step(7, "no login"))
  BY FourOfThem, Zenon DEF scenario_f_off
<1>2. DOMAIN scenario_f_off = 1 .. 4
  BY <1>1, Zenon DEF AreFour
<1>3. /\ IsStep(scenario_f_off[1], 6, "open") /\ IsStep(scenario_f_off[2], 6, "hidden")
      /\ IsStep(scenario_f_off[3], 7, "forge") /\ IsStep(scenario_f_off[4], 7, "no login")
  BY <1>1, StepHas, Zenon DEF AreFour
<1> QED
  BY <1>2, <1>3, Zenon DEF IsStep

LEMMA StepsOfG ==
  /\ DOMAIN scenario_g = 1 .. 4
  /\ scenario_g[1].does = "open" /\ scenario_g[2].does = "offered"
  /\ scenario_g[3].does = "select" /\ scenario_g[4].does = "step up"
<1>1. AreFour(scenario_g, Step(1, "open"), Step(1, "offered"), Step(1, "select"),
              Step(1, "step up"))
  BY FourOfThem, Zenon DEF scenario_g, OpenAndSelect
<1>2. DOMAIN scenario_g = 1 .. 4
  BY <1>1, Zenon DEF AreFour
<1>3. /\ IsStep(scenario_g[1], 1, "open") /\ IsStep(scenario_g[2], 1, "offered")
      /\ IsStep(scenario_g[3], 1, "select") /\ IsStep(scenario_g[4], 1, "step up")
  BY <1>1, StepHas, Zenon DEF AreFour
<1> QED
  BY <1>2, <1>3, Zenon DEF IsStep

LEMMA StepsOfC ==
  /\ DOMAIN scenario_c = 1 .. 4
  /\ scenario_c[1].does = "open" /\ scenario_c[2].does = "offered"
  /\ scenario_c[3].does = "select built-in" /\ scenario_c[4].does = "expire"
<1>1. AreFour(scenario_c, Step(1, "open"), Step(1, "offered"), Step(1, "select built-in"),
              Step(1, "expire"))
  BY FourOfThem, Zenon DEF scenario_c, OpenAndSelect
<1>2. DOMAIN scenario_c = 1 .. 4
  BY <1>1, Zenon DEF AreFour
<1>3. /\ IsStep(scenario_c[1], 1, "open") /\ IsStep(scenario_c[2], 1, "offered")
      /\ IsStep(scenario_c[3], 1, "select built-in") /\ IsStep(scenario_c[4], 1, "expire")
  BY <1>1, StepHas, Zenon DEF AreFour
<1> QED
  BY <1>2, <1>3, Zenon DEF IsStep

\* What a step of main does, by its place.
LEMMA DoesAt ==
  ASSUME NEW i \in DOMAIN main, NEW j \in DOMAIN main[i].steps
  PROVE  LET does == main[i].steps[j].does IN
         /\ j \in 1 .. 6 /\ (j > 4 => i \in 1 .. 4)
         /\ j = 1 => does = "open"
         /\ j = 2 => does = IF i = 5 THEN "hidden" ELSE "offered"
         /\ j = 3 => does = IF i = 5 THEN "forge" ELSE IF i = 7 THEN "select built-in"
                            ELSE "select"
         /\ j = 4 /\ i \in {1, 3} => does = "refresh"
         /\ j = 4 /\ i \in {2, 4} => does = "refresh without ticket"
         /\ j = 4 /\ i = 5 => does = "no login"
         /\ j = 4 /\ i = 6 => does = "step up"
         /\ j = 4 /\ i = 7 => does = "expire"
         /\ j = 5 => does = IF i \in {1, 3} THEN "log in" ELSE "fall back"
         /\ j = 6 => does = IF i \in {1, 3} THEN "token" ELSE "offered"
<1>1. i \in {1, 3} \/ i \in {2, 4} \/ i = 5 \/ i = 6 \/ i = 7
  BY ScenariosOfMain
<1>2. CASE i \in {1, 3}
  <2>1. DOMAIN scenario_a = 1 .. 6
    BY StepsOfA, Zenon
  <2>2. main[i].steps = scenario_a
    BY <1>2, ScenariosOfMain, Zenon DEF IsScenario
  <2>3. j \in 1 .. 6 /\ i \in 1 .. 4 /\ i # 5 /\ i # 6 /\ i # 7 /\ i # 2 /\ i # 4
    BY <1>2, <2>1, <2>2
  <2> QED
    BY <1>2, <2>2, <2>3, StepsOfA, Zenon DEF IsStep
<1>3. CASE i \in {2, 4}
  <2>1. DOMAIN scenario_b = 1 .. 6
    BY StepsOfB, Zenon
  <2>2. main[i].steps = scenario_b
    BY <1>3, ScenariosOfMain, Zenon DEF IsScenario
  <2>3. j \in 1 .. 6 /\ i \in 1 .. 4 /\ i # 5 /\ i # 6 /\ i # 7 /\ i # 1 /\ i # 3
    BY <1>3, <2>1, <2>2
  <2> QED
    BY <1>3, <2>2, <2>3, StepsOfB, Zenon DEF IsStep
<1>4. CASE i = 5
  <2>1. DOMAIN scenario_f_off = 1 .. 4
    BY StepsOfHidden, Zenon
  <2>2. main[i].steps = scenario_f_off
    BY <1>4, ScenariosOfMain, Zenon DEF IsScenario
  <2>3. /\ j \in 1 .. 6 /\ ~(j > 4) /\ j # 5 /\ j # 6
        /\ i # 1 /\ i # 2 /\ i # 3 /\ i # 4 /\ i # 6 /\ i # 7
    BY <1>4, <2>1, <2>2
  <2> QED
    BY <1>4, <2>2, <2>3, StepsOfHidden, Zenon
<1>5. CASE i = 6
  <2>1. DOMAIN scenario_g = 1 .. 4
    BY StepsOfG, Zenon
  <2>2. main[i].steps = scenario_g
    BY <1>5, ScenariosOfMain, Zenon DEF IsScenario
  <2>3. /\ j \in 1 .. 6 /\ ~(j > 4) /\ j # 5 /\ j # 6
        /\ i # 1 /\ i # 2 /\ i # 3 /\ i # 4 /\ i # 5 /\ i # 7
    BY <1>5, <2>1, <2>2
  <2> QED
    BY <1>5, <2>2, <2>3, StepsOfG, Zenon
<1>6. CASE i = 7
  <2>1. DOMAIN scenario_c = 1 .. 4
    BY StepsOfC, Zenon
  <2>2. main[i].steps = scenario_c
    BY <1>6, ScenariosOfMain, Zenon DEF IsScenario
  <2>3. /\ j \in 1 .. 6 /\ ~(j > 4) /\ j # 5 /\ j # 6
        /\ i # 1 /\ i # 2 /\ i # 3 /\ i # 4 /\ i # 5 /\ i # 6
    BY <1>6, <2>1, <2>2
  <2> QED
    BY <1>6, <2>2, <2>3, StepsOfC, Zenon
<1> QED
  BY <1>1, <1>2, <1>3, <1>4, <1>5, <1>6, Zenon

\* A scenario goes on, or ends, without a failure.
Advances ==
  /\ failures' = failures /\ cached' = cached /\ exit' = exit
  /\ at'.step = 0 \/ at' = [scenario |-> at.scenario, step |-> at.step + 1]

LEMMA JudgePasses ==
  ASSUME InPlace, NEW ok, Judge(ok), ok
  PROVE  Advances
<1>1. NextScenario.step = 0
  BY DEF NextScenario
<1>2. [at EXCEPT !.step = @ + 1] = [scenario |-> at.scenario, step |-> at.step + 1]
  BY DEF InPlace
<1> QED
  BY <1>1, <1>2 DEF Judge, Advances

\* The one action there is for what the step does.
LEMMA ActionFor ==
  ASSUME ScriptNext, Running, at.step # 0, ~Disturb
  PROVE  LET does == Now.steps[at.step].does IN
         /\ does = "open" => OpenLogin
         /\ does = "offered" => TryAnotherWay
         /\ does = "hidden" => TryAnotherWay
         /\ does = "select" => Select
         /\ does = "refresh" => Refresh
         /\ does = "refresh without ticket" => Refresh
         /\ does = "log in" => LogIn
         /\ does = "token" => Token
         /\ does = "fall back" => FallBack
         /\ does = "forge" => Forge
         /\ does = "no login" => NoLogin
         /\ does = "step up" => StepUp
         /\ does = "select built-in" => SelectBuiltin
         /\ does = "expire" => Expire
<1> DEFINE does == Now.steps[at.step].does
<1>1. does = "open" => OpenLogin
  BY StepDecides, Zenon
<1>2. does = "offered" => TryAnotherWay
  BY StepDecides, Zenon
<1>3. does = "hidden" => TryAnotherWay
  BY StepDecides, Zenon
<1>4. does = "select" => Select
  BY StepDecides, Zenon
<1>5. does = "refresh" => Refresh
  BY StepDecides, Zenon
<1>6. does = "refresh without ticket" => Refresh
  BY StepDecides, Zenon
<1>7. does = "log in" => LogIn
  BY StepDecides, Zenon
<1>8. does = "token" => Token
  BY StepDecides, Zenon
<1>9. does = "fall back" => FallBack
  BY StepDecides, Zenon
<1>10. does = "forge" => Forge
  BY StepDecides, Zenon
<1>11. does = "no login" => NoLogin
  BY StepDecides, Zenon
<1>12. does = "step up" => StepUp
  BY StepDecides, Zenon
<1>13. does = "select built-in" => SelectBuiltin
  BY StepDecides, Zenon
<1>14. does = "expire" => Expire
  BY StepDecides, Zenon
<1> HIDE DEF does
<1> QED
  BY <1>1, <1>2, <1>3, <1>4, <1>5, <1>6, <1>7, <1>8, <1>9, <1>10, <1>11, <1>12, <1>13, <1>14, Zenon
     DEF does

-----------------------------------------------------------------------------
(***************************************************************************)
(* Every step of every scenario finds what it expects, and passes.         *)
(***************************************************************************)

\* What a browser has to show for itself that has not clicked.
Unasked == requested = FALSE /\ proven = {}

LEMMA SessionFacts ==
  ASSUME ButtonInv
  PROVE  /\ flow \in Flows /\ status \in Sessions /\ requested \in BOOLEAN
         /\ Honest(status, proven)
BY DEF ButtonInv, TypeOK, Sessions, Statuses

LEMMA PlainRequests == Get("none") \in Requests /\ Post("none") \in Requests
BY TicketsMakeRequests DEF Headers

\* What each action of a scenario leaves to the next one.
LEMMA OpenPasses ==
  ASSUME ButtonInv, InPlace, PlacedAsDescribed, ~Misplaced, status = Fresh, OpenLogin
  PROVE  Advances /\ OnForm'
<1>1. Load("none") /\ Judge(Opened(page'))
  BY Zenon DEF OpenLogin
<1>2. Serve(Fresh, requested, Get("none"), proven)
  BY <1>1 DEF Load, Continue
<1>3. LoginPage(page') /\ OnForm'
  BY <1>2, PlainRequests, SessionFacts, FreshShowsForm
<1>4. Opened(page')
  BY <1>3 DEF Opened
<1> QED
  BY <1>1, <1>3, <1>4, JudgePasses

LEMMA OpenHiddenPasses ==
  ASSUME ButtonInv, InPlace, Levels = 1 .. 3, IsTopLevel(1), OnPath(2) \notin Steps(2),
         status = Fresh, Unasked, OpenLogin
  PROVE  /\ Advances /\ Unasked'
         /\ page'.kind = "asks" /\ ~Offered(page.step)'
<1>1. Load("none") /\ Judge(Opened(page'))
  BY Zenon DEF OpenLogin
<1>2. Serve(status, requested, Get("none"), proven)
  BY <1>1 DEF Load, Continue
<1>3. LoginPage(page') /\ ~OnForm'
  BY <1>2, PlainRequests, SessionFacts, HiddenShowsForm
<1>4. requested' = FALSE /\ proven' = {}
  BY <1>2, PlainRequests, SessionFacts, UnaskedStays DEF Unasked
<1>5. page'.kind = "asks"
  BY <1>3 DEF LoginPage
<1>6. Opened(page')
  BY <1>3 DEF Opened
<1> QED
  BY <1>1, <1>3, <1>4, <1>5, <1>6, JudgePasses DEF Unasked, OnForm

LEMMA OfferedPasses ==
  ASSUME InPlace, TryAnotherWay, Now.steps[at.step].does = "offered", OnForm
  PROVE  Advances
<1>1. Judge(page.kind = "asks" /\ Offered(page.step))
  BY Zenon DEF TryAnotherWay, Does
<1> QED
  BY <1>1, JudgePasses DEF OnForm

LEMMA HiddenPasses ==
  ASSUME InPlace, TryAnotherWay, Now.steps[at.step].does = "hidden",
         page.kind = "asks", ~Offered(page.step), Unasked
  PROVE  Advances /\ Unasked'
<1>1. Judge(page.kind = "asks" /\ ~Offered(page.step)) /\ UNCHANGED vars
  BY Zenon DEF TryAnotherWay, Does
<1>2. Unasked'
  BY <1>1 DEF Unasked, vars
<1> QED
  BY <1>1, <1>2, JudgePasses

LEMMA SelectPasses ==
  ASSUME ButtonInv, InPlace, PlacedAsDescribed, ~Misplaced, Select
  PROVE  Advances /\ Waiting'
<1>1. (ClickButton("none") \/ ClickRefused("none")) /\ Judge(page'.kind = "redirect")
  BY Zenon DEF Select
<1>2. "none" \in Headers /\ flow \in Flows /\ requested \in BOOLEAN
  BY SessionFacts DEF Headers
<1>3. ClickButton("none")
  BY <1>1, <1>2, RefusedIfMisplaced DEF ClickRefused, Continue
<1> DEFINE sk == Skipped
<1>4. flow' = flow /\ status' = sk /\ page' = Showing("redirect") /\ requested' = TRUE
  BY <1>3 DEF ClickButton, ClickAnswer
<1>5. Clear(sk)
  BY <1>2, SkippedIsClear
<1>6. Sound(sk)
  BY DEF Sound, Skipped
<1> HIDE DEF sk
<1>7. Waiting'
  BY <1>4, <1>5, <1>6, WaitingNext
<1> QED
  BY <1>1, <1>4, <1>7, JudgePasses DEF Showing

LEMMA BuiltinPasses ==
  ASSUME InPlace, SelectBuiltin
  PROVE  Advances /\ page' = Negotiating("POST")
<1>1. page' = Negotiating("POST") /\ Judge(page'.kind = "negotiate")
  BY Zenon DEF SelectBuiltin
<1> QED
  BY <1>1, JudgePasses DEF Negotiating

LEMMA ForgePasses ==
  ASSUME ButtonInv, InPlace, Unasked, Forge
  PROVE  Advances /\ Unasked'
<1>1. /\ Serve(status, requested, Post("none"), proven)
      /\ Judge(page'.kind \notin {"redirect", "negotiate"})
  BY Zenon DEF Forge, Continue
<1>2. requested' = FALSE /\ proven' = {} /\ page'.kind \notin {"redirect", "negotiate"}
  BY <1>1, PlainRequests, SessionFacts, UnaskedStays DEF Unasked
<1> QED
  BY <1>1, <1>2, JudgePasses DEF Unasked

LEMMA NoLoginPasses ==
  ASSUME "valid" \in Outcomes, ButtonInv, InPlace, Unasked, NoLogin
  PROVE  Advances /\ Unasked'
<1>1. Load(Ticket) /\ Judge(page'.kind # "done")
  BY Zenon DEF NoLogin
<1>2. Serve(status, requested, Get(Ticket), proven) /\ Get(Ticket) \in Requests
  BY <1>1, TicketIs, TicketsMakeRequests DEF Load, Continue
<1>3. requested' = FALSE /\ proven' = {} /\ page'.kind # "done"
  BY <1>2, SessionFacts, UnaskedStays DEF Unasked
<1> QED
  BY <1>1, <1>3, JudgePasses DEF Unasked

LEMMA RefreshPasses ==
  ASSUME "valid" \in Outcomes, ButtonInv, InPlace, PlacedAsDescribed, ~Misplaced, Waiting,
         Now.steps[at.step].does = "refresh" \/ ~cached, Refresh
  PROVE  Advances /\ Waiting'
<1>1. (FetchRefresh("none") \/ (~cached /\ FetchRefresh(Ticket))) /\ Judge(Challenge(page'))
  BY Zenon DEF Refresh, Does
<1>2. ~cached => Ticket = "none"
  BY DEF Ticket
<1>3. FetchRefresh("none")
  BY <1>1, <1>2
<1>4. Serve(status, requested, Get("none"), proven)
  BY <1>3, FetchIsNext DEF Headers
<1>5. page'.kind = "negotiate" /\ Waiting'
  BY <1>4, SessionFacts, WaitingIsChallenged
<1> QED
  BY <1>1, <1>5, JudgePasses DEF Challenge

LEMMA LogInPasses ==
  ASSUME "valid" \in Outcomes, ButtonInv, InPlace, ByTicketAlone, Waiting, cached, LogIn
  PROVE  Advances /\ Button' \in proven'
<1>1. FetchRefresh(Ticket) /\ Judge(page'.kind = "done")
  BY Zenon DEF LogIn
<1>2. Ticket = "valid"
  BY DEF Ticket
<1>3. Serve(status, requested, Get("valid"), proven)
  BY <1>1, <1>2, FetchIsNext DEF Headers
<1>4. page'.kind = "done" /\ Button' \in proven'
  BY <1>3, SessionFacts, ClickIsAccepted DEF Waiting
<1> QED
  BY <1>1, <1>4, JudgePasses

LEMMA TokenPasses ==
  ASSUME InPlace, Button \in proven, Token
  PROVE  Advances
<1>1. Judge(Button \in proven)
  BY Zenon DEF Token
<1> QED
  BY <1>1, JudgePasses

LEMMA FallBackPasses ==
  ASSUME ButtonInv, InPlace, PlacedAsDescribed, ~Misplaced, FallBack
  PROVE  Advances /\ OnForm'
<1>1. Serve(Fresh, FALSE, Post("none"), {}) /\ Judge(LoginPage(page'))
  BY Zenon DEF FallBack, PostFallback, StartOver
<1>2. LoginPage(page') /\ OnForm'
  BY <1>1, PlainRequests, SessionFacts, FreshShowsForm
<1> QED
  BY <1>1, <1>2, JudgePasses

LEMMA StepUpPasses ==
  ASSUME "valid" \in Outcomes, ButtonInv, proven \subseteq {Button}, InPlace,
         PlacedAsDescribed, ~Misplaced, HasStepUp, Waiting, cached, StepUp
  PROVE  Advances
<1>1. FetchRefresh(Ticket) /\ Judge(page'.kind = "asks" /\ ~LoginPage(page'))
  BY Zenon DEF StepUp
<1>2. Ticket = "valid"
  BY DEF Ticket
<1>3. Serve(status, requested, Get("valid"), proven)
  BY <1>1, <1>2, FetchIsNext DEF Headers
<1>4. status[<<2, 2>>] # "success"
  <2>1. 2 \in Levels /\ 2 \in Mandatory(2) /\ OnPath(2) = 1 /\ Depth = 3
    BY DEF HasStepUp
  <2>2. <<2, 2>> \in Executions
    BY <2>1, SessionFacts, StepFacts
  <2>3. <<2, 2>> # Button
    BY <2>1 DEF Button
  <2> QED
    BY <2>1, <2>2, <2>3, SessionFacts DEF Honest
<1>5. page'.kind = "asks" /\ ~LoginPage(page')
  BY <1>3, <1>4, SessionFacts, WaitingStepsUp
<1> QED
  BY <1>1, <1>5, JudgePasses

LEMMA ExpirePasses ==
  ASSUME InPlace, page = Negotiating("POST"), Expire
  PROVE  Advances
<1>1. SendTicket("valid") /\ Judge(page'.kind = "expired")
  BY Zenon DEF Expire
<1>2. page' = Showing("expired")
  BY <1>1 DEF SendTicket, Continue, Negotiating
<1> QED
  BY <1>1, <1>2, JudgePasses DEF Showing

\* No step of a scenario binds another flow.
LEMMA FlowStays ==
  ASSUME "valid" \in Outcomes, ScriptNext, Running, at.step # 0
  PROVE  flow' = flow
<1>1. Forge => flow' = flow
  <2> SUFFICES ASSUME Forge PROVE flow' = flow
    OBVIOUS
  <2>1. Serve(status, requested, Post("none"), proven)
    BY Zenon DEF Forge, Continue
  <2> QED
    BY <2>1, ServeProves
<1>2. SelectBuiltin => flow' = flow
  BY Zenon DEF SelectBuiltin
<1> QED
  BY <1>1, <1>2, ScriptRequests, Zenon

\* What each step of each scenario finds, as long as only the button is to blame.
Expected(i, j) ==
  /\ j = 1 => status = Fresh /\ Unasked
  /\ i = 5 => Unasked
  /\ i = 5 /\ j = 2 => page.kind = "asks" /\ ~Offered(page.step)
  /\ i # 5 /\ j = 2 => OnForm
  /\ i \notin {5, 7} /\ j = 4 => Waiting
  /\ i = 7 /\ j = 4 => page = Negotiating("POST")
  /\ i \in {1, 3} /\ j = 5 => Waiting
  /\ i \in {1, 3} /\ j = 6 => Button \in proven
  /\ i \in {2, 4} /\ j = 6 => OnForm

\* The flows the scenarios are run with have the button where it should be,
\* except where its condition is false.
LEMMA FlowsPlaced ==
  ASSUME flow \in Flows, NEW i \in DOMAIN main, flow = main[i].flow
  PROVE  /\ i # 5 => PlacedAsDescribed /\ ~Misplaced
         /\ i \notin {5, 6} => ByTicketAlone
         /\ i = 6 => HasStepUp
         /\ i = 5 => Levels = 1 .. 3 /\ IsTopLevel(1) /\ OnPath(2) \notin Steps(2)
<1>1. i \in {1, 2, 7} \/ i \in {3, 4} \/ i = 5 \/ i = 6
  BY ScenariosOfMain
<1>2. ASSUME i \in {1, 2, 7} \/ i \in {3, 4} PROVE ByTicketAlone
  BY <1>2, FlowsOfMain, BuildFlowPlaced, NestedFlowPlaced, Zenon
<1>3. ByTicketAlone => PlacedAsDescribed /\ ~Misplaced
  BY Zenon DEF ByTicketAlone
<1>4. ASSUME i = 6 PROVE PlacedAsDescribed /\ ~Misplaced /\ HasStepUp
  BY <1>4, FlowsOfMain, StepUpFlowPlaced, Zenon
<1>5. ASSUME i = 5 PROVE Levels = 1 .. 3 /\ IsTopLevel(1) /\ OnPath(2) \notin Steps(2)
  BY <1>5, FlowsOfMain, HiddenFlowIs, Zenon
<1> QED
  BY <1>1, <1>2, <1>3, <1>4, <1>5

LEMMA OpensFirst ==
  ASSUME NEW i \in DOMAIN main, NEW j \in DOMAIN main[i].steps
  PROVE  j = 1 => main[i].steps[j].does = "open"
BY DoesAt, Zenon

\* As long as only the button is to blame, every step of every scenario passes,
\* and the next one finds what it expects.
LEMMA StepPasses ==
  ASSUME "valid" \in Outcomes, InPlace, TestedInv, ScriptNext, Running, at.step # 0, ~Disturb,
         NEW i \in DOMAIN main, NEW j \in DOMAIN main[i].steps,
         at.scenario = i, at.step = j, flow = main[i].flow, cached = main[i].ticket,
         Expected(i, j)
  PROVE  Advances /\ Expected(i, j + 1)'
<1>1. ButtonInv /\ proven \subseteq {Button} /\ flow \in Flows
  BY DEF TestedInv, ButtonInv, TypeOK
<1>2. /\ i \in {2, 4} => ~cached
      /\ i \notin {2, 4} => cached
  BY TicketsOfMain, Zenon
<1>3. PICK does : does = Now.steps[at.step].does /\ does = main[i].steps[j].does
  BY DEF Now
<1>4. i \in 1 .. 7 /\ j \in 1 .. 6 /\ (j > 4 => i \in 1 .. 4)
  <2>1. i \in 1 .. 7
    BY ScenariosOfMain
  <2> QED
    BY <2>1, DoesAt, Zenon
<1>a. /\ does = "open" => OpenLogin
      /\ does = "offered" => TryAnotherWay
      /\ does = "hidden" => TryAnotherWay
      /\ does = "select" => Select
      /\ does = "refresh" => Refresh
      /\ does = "refresh without ticket" => Refresh
      /\ does = "log in" => LogIn
      /\ does = "token" => Token
      /\ does = "fall back" => FallBack
      /\ does = "forge" => Forge
      /\ does = "no login" => NoLogin
      /\ does = "step up" => StepUp
      /\ does = "select built-in" => SelectBuiltin
      /\ does = "expire" => Expire
  BY <1>3, ActionFor, Zenon
<1>b. /\ j = 1 => does = "open"
      /\ j = 2 => does = IF i = 5 THEN "hidden" ELSE "offered"
      /\ j = 3 => does = IF i = 5 THEN "forge" ELSE IF i = 7 THEN "select built-in"
                         ELSE "select"
      /\ j = 4 /\ i \in {1, 3} => does = "refresh"
      /\ j = 4 /\ i \in {2, 4} => does = "refresh without ticket"
      /\ j = 4 /\ i = 5 => does = "no login"
      /\ j = 4 /\ i = 6 => does = "step up"
      /\ j = 4 /\ i = 7 => does = "expire"
      /\ j = 5 => does = IF i \in {1, 3} THEN "log in" ELSE "fall back"
      /\ j = 6 => does = IF i \in {1, 3} THEN "token" ELSE "offered"
  <2>1. j = 1 => does = "open"
    <3>1. j = 1 => main[i].steps[j].does = "open"
      BY OpensFirst, Zenon
    <3> QED
      BY <1>3, <3>1, Zenon
  <2>2. j = 2 => does = IF i = 5 THEN "hidden" ELSE "offered"
    BY <1>3, DoesAt, Zenon
  <2>3. j = 3 => does = IF i = 5 THEN "forge" ELSE IF i = 7 THEN "select built-in" ELSE "select"
    BY <1>3, DoesAt, Zenon
  <2>4. j = 4 /\ i \in {1, 3} => does = "refresh"
    BY <1>3, DoesAt, Zenon
  <2>5. j = 4 /\ i \in {2, 4} => does = "refresh without ticket"
    BY <1>3, DoesAt, Zenon
  <2>6. j = 4 /\ i = 5 => does = "no login"
    BY <1>3, DoesAt, Zenon
  <2>7. j = 4 /\ i = 6 => does = "step up"
    BY <1>3, DoesAt, Zenon
  <2>8. j = 4 /\ i = 7 => does = "expire"
    BY <1>3, DoesAt, Zenon
  <2>9. j = 5 => does = IF i \in {1, 3} THEN "log in" ELSE "fall back"
    BY <1>3, DoesAt, Zenon
  <2>10. j = 6 => does = IF i \in {1, 3} THEN "token" ELSE "offered"
    BY <1>3, DoesAt, Zenon
  <2> QED
    BY <2>1, <2>2, <2>3, <2>4, <2>5, <2>6, <2>7, <2>8, <2>9, <2>10, Zenon
<1>5. CASE j = 1 /\ i # 5
  <2>1. OpenLogin
    BY <1>3, <1>5, <1>a, <1>b, Zenon
  <2>2. status = Fresh
    BY <1>5 DEF Expected
  <2>3. Advances /\ OnForm'
    BY <1>1, <1>5, <2>1, <2>2, FlowsPlaced, OpenPasses
  <2> QED
    BY <1>5, <2>3 DEF Expected
<1>6. CASE j = 1 /\ i = 5
  <2>1. OpenLogin
    BY <1>3, <1>6, <1>a, <1>b, Zenon
  <2>2. status = Fresh /\ Unasked
    BY <1>6 DEF Expected
  <2>3. Advances /\ Unasked' /\ page'.kind = "asks" /\ ~Offered(page.step)'
    BY <1>1, <1>6, <2>1, <2>2, FlowsPlaced, OpenHiddenPasses
  <2> QED
    BY <1>6, <2>3 DEF Expected
<1>7. CASE i # 5 /\ (j = 2 \/ (j = 6 /\ i \in {2, 4}))
  <2>1. TryAnotherWay /\ Now.steps[at.step].does = "offered"
    <3>1. i \in {2, 4} => i \notin {1, 3}
      OBVIOUS
    <3> QED
      BY <1>3, <1>7, <3>1, <1>a, <1>b, Zenon
  <2>2. OnForm
    BY <1>7 DEF Expected
  <2>3. Advances
    BY <2>1, <2>2, OfferedPasses
  <2> QED
    BY <1>7, <2>3 DEF Expected
<1>8. CASE j = 2 /\ i = 5
  <2>1. TryAnotherWay /\ Now.steps[at.step].does = "hidden"
    BY <1>3, <1>8, <1>a, <1>b, Zenon
  <2>2. page.kind = "asks" /\ ~Offered(page.step) /\ Unasked
    BY <1>8 DEF Expected
  <2>3. Advances /\ Unasked'
    BY <2>1, <2>2, HiddenPasses
  <2> QED
    BY <1>8, <2>3 DEF Expected
<1>9. CASE j = 3 /\ i \notin {5, 7}
  <2>1. Select
    <3>1. i # 5 /\ i # 7
      BY <1>9
    <3> QED
      BY <1>3, <1>9, <3>1, <1>a, <1>b, Zenon
  <2>2. Advances /\ Waiting'
    BY <1>1, <1>9, <2>1, FlowsPlaced, SelectPasses
  <2> QED
    BY <1>9, <2>2 DEF Expected
<1>10. CASE j = 3 /\ i = 7
  <2>1. SelectBuiltin
    <3>1. i # 5
      BY <1>10
    <3> QED
      BY <1>3, <1>10, <3>1, <1>a, <1>b, Zenon
  <2>2. Advances /\ page' = Negotiating("POST")
    BY <2>1, BuiltinPasses
  <2> QED
    BY <1>10, <2>2 DEF Expected
<1>11. CASE j = 3 /\ i = 5
  <2>1. Forge
    BY <1>3, <1>11, <1>a, <1>b, Zenon
  <2>2. Unasked
    BY <1>11 DEF Expected
  <2>3. Advances /\ Unasked'
    BY <1>1, <2>1, <2>2, ForgePasses
  <2> QED
    BY <1>11, <2>3 DEF Expected
<1>12. CASE j = 4 /\ i \in 1 .. 4
  <2>1. Refresh /\ (Now.steps[at.step].does = "refresh" \/ i \in {2, 4})
    <3>1. i \in {1, 3} \/ i \in {2, 4}
      BY <1>12
    <3> QED
      BY <1>3, <1>12, <3>1, <1>a, <1>b, Zenon
  <2>2. Waiting
    BY <1>12 DEF Expected
  <2>3. Advances /\ Waiting'
    BY <1>1, <1>2, <1>12, <2>1, <2>2, FlowsPlaced, RefreshPasses
  <2> QED
    BY <1>12, <2>3 DEF Expected
<1>13. CASE j = 4 /\ i = 5
  <2>1. NoLogin
    BY <1>3, <1>13, <1>a, <1>b, Zenon
  <2>2. Unasked
    BY <1>13 DEF Expected
  <2>3. Advances /\ Unasked'
    BY <1>1, <2>1, <2>2, NoLoginPasses
  <2> QED
    BY <1>13, <2>3 DEF Expected
<1>14. CASE j = 4 /\ i = 6
  <2>1. StepUp
    BY <1>3, <1>14, <1>a, <1>b, Zenon
  <2>2. Waiting
    BY <1>14 DEF Expected
  <2>3. Advances
    BY <1>1, <1>2, <1>14, <2>1, <2>2, FlowsPlaced, StepUpPasses
  <2> QED
    BY <1>14, <2>3 DEF Expected
<1>15. CASE j = 4 /\ i = 7
  <2>1. Expire
    BY <1>3, <1>15, <1>a, <1>b, Zenon
  <2>2. page = Negotiating("POST")
    BY <1>15 DEF Expected
  <2>3. Advances
    BY <2>1, <2>2, ExpirePasses
  <2> QED
    BY <1>15, <2>3 DEF Expected
<1>16. CASE j = 5 /\ i \in {1, 3}
  <2>1. LogIn
    BY <1>3, <1>16, <1>a, <1>b, Zenon
  <2>2. Waiting
    BY <1>16 DEF Expected
  <2>3. Advances /\ Button' \in proven'
    BY <1>1, <1>2, <1>16, <2>1, <2>2, FlowsPlaced, LogInPasses
  <2> QED
    BY <1>16, <2>3 DEF Expected
<1>17. CASE j = 5 /\ i \in {2, 4}
  <2>1. FallBack
    <3>1. i \notin {1, 3}
      BY <1>17
    <3> QED
      BY <1>3, <1>17, <3>1, <1>a, <1>b, Zenon
  <2>2. Advances /\ OnForm'
    BY <1>1, <1>17, <2>1, FlowsPlaced, FallBackPasses
  <2> QED
    BY <1>17, <2>2 DEF Expected
<1>18. CASE j = 6 /\ i \in {1, 3}
  <2>1. Token
    BY <1>3, <1>18, <1>a, <1>b, Zenon
  <2>2. Button \in proven
    BY <1>18 DEF Expected
  <2>3. Advances
    BY <2>1, <2>2, TokenPasses
  <2> QED
    BY <1>18, <2>3 DEF Expected
<1>19. \/ j = 1 /\ i # 5
       \/ j = 1 /\ i = 5
       \/ i # 5 /\ (j = 2 \/ (j = 6 /\ i \in {2, 4}))
       \/ j = 2 /\ i = 5
       \/ j = 3 /\ i \notin {5, 7}
       \/ j = 3 /\ i = 7
       \/ j = 3 /\ i = 5
       \/ j = 4 /\ i \in 1 .. 4
       \/ j = 4 /\ i = 5
       \/ j = 4 /\ i = 6
       \/ j = 4 /\ i = 7
       \/ j = 5 /\ i \in {1, 3}
       \/ j = 5 /\ i \in {2, 4}
       \/ j = 6 /\ i \in {1, 3}
  BY <1>4
<1> QED
  BY <1>5, <1>6, <1>7, <1>8, <1>9, <1>10, <1>11, <1>12, <1>13, <1>14, <1>15, <1>16, <1>17,
     <1>18, <1>19, Zenon

-----------------------------------------------------------------------------
(***************************************************************************)
(* What only the button could have failed is green.                        *)
(***************************************************************************)

\* As long as only the button is to blame nothing has failed, and the browser
\* is where the next step of the scenario expects it.
AsExpected ==
  /\ failures = {}
  /\ Running /\ at.step # 0 =>
       flow = Now.flow /\ cached = Now.ticket /\ Expected(at.scenario, at.step)

PassingInv ==
  /\ ~disturbed => AsExpected
  /\ ButtonPassesAllScenarios

\* What has gone wrong once stays so.
LEMMA DisturbedForGood ==
  ASSUME ScriptNext, ~disturbed'
  PROVE  ~disturbed /\ ~Abort /\ ~Disturb
<1>1. ~Abort /\ ~Disturb
  BY Zenon DEF Abort, Disturb
<1>2. ASSUME OpenLogin \/ Select \/ Refresh \/ LogIn \/ FallBack \/ NoLogin \/ StepUp \/ Expire
      PROVE  ~disturbed
  BY <1>2, Zenon DEF OpenLogin, Select, Refresh, LogIn, FallBack, NoLogin, StepUp, Expire
<1>3. ASSUME TryAnotherWay \/ Token \/ Forge \/ SelectBuiltin
      PROVE  ~disturbed
  BY <1>3, Zenon DEF TryAnotherWay, Token, Forge, Continue, SelectBuiltin
<1>4. ASSUME End \/ Ended
      PROVE  ~disturbed
  BY <1>4, Zenon DEF End, Ended, script
<1>5. ASSUME Begin
      PROVE  ~disturbed
  BY <1>5, Zenon DEF Begin
<1> QED
  BY <1>1, <1>2, <1>3, <1>4, <1>5, Zenon DEF ScriptNext

\* Each action of the script keeps the account.
LEMMA ScenarioKeepsPassing ==
  ASSUME "valid" \in Outcomes, InPlace, TestedInv, PassingInv, ScriptNext, Running, at.step # 0
  PROVE  PassingInv'
<1>1. CASE disturbed'
  BY <1>1 DEF PassingInv, ButtonPassesAllScenarios
<1>2. CASE ~disturbed'
  <2>1. ~disturbed /\ ~Disturb
    BY <1>2, DisturbedForGood
  <2>2. AsExpected
    BY <2>1 DEF PassingInv
  <2>3. PICK i, j : i = at.scenario /\ j = at.step
    OBVIOUS
  <2>4. i \in DOMAIN main /\ j \in DOMAIN main[i].steps /\ j \in Nat
    BY <2>3, MainIsAScript DEF InPlace, Running
  <2>5. flow = main[i].flow /\ cached = main[i].ticket /\ Expected(i, j)
    BY <2>2, <2>3 DEF AsExpected, Now
  <2>6. Advances /\ Expected(i, j + 1)'
    BY <2>1, <2>3, <2>4, <2>5, StepPasses
  <2>7. flow' = flow
    BY FlowStays
  <2>8. failures' = {} /\ exit' = "none" /\ cached' = cached
    BY <2>2, <2>6 DEF Advances, AsExpected, Running
  <2>9. ASSUME at'.step # 0
        PROVE  flow' = Now'.flow /\ cached' = Now'.ticket /\ Expected(at.scenario, at.step)'
    <3>1. at' = [scenario |-> i, step |-> j + 1]
      BY <2>3, <2>6, <2>9 DEF Advances
    <3>2. at'.scenario = i /\ at'.step = j + 1
      BY <3>1
    <3>3. Now' = main[i]
      BY <3>2 DEF Now
    <3> QED
      BY <2>5, <2>6, <2>7, <2>8, <3>2, <3>3 DEF Expected
  <2>10. AsExpected'
    BY <2>8, <2>9 DEF AsExpected
  <2> QED
    BY <2>8, <2>10 DEF PassingInv, ButtonPassesAllScenarios
<1> QED
  BY <1>1, <1>2

LEMMA BeginKeepsPassing ==
  ASSUME InPlace, PassingInv, Begin
  PROVE  PassingInv'
<1>1. exit' = "none"
  BY DEF Begin, Running
<1>2. CASE disturbed'
  BY <1>1, <1>2 DEF PassingInv, ButtonPassesAllScenarios
<1>3. CASE ~disturbed'
  <2>1. ~disturbed /\ cached' = Now.ticket
    BY <1>3, Zenon DEF Begin
  <2>2. failures' = {}
    BY <2>1 DEF PassingInv, AsExpected, Begin
  <2>3. at' = [scenario |-> at.scenario, step |-> 1]
    BY DEF Begin, InPlace
  <2>4. at'.scenario = at.scenario /\ at'.step = 1
    BY <2>3
  <2>5. Now' = Now /\ flow' = Now.flow
    BY <2>4 DEF Now, Begin
  <2>6. Expected(at.scenario, at.step)'
    <3>1. status' = Fresh' /\ requested' = FALSE /\ proven' = {}
      BY DEF Begin
    <3> QED
      BY <2>4, <3>1 DEF Expected, Unasked
  <2> QED
    BY <1>1, <2>1, <2>2, <2>5, <2>6 DEF PassingInv, AsExpected, ButtonPassesAllScenarios
<1> QED
  BY <1>2, <1>3

\* The exit code is 1 only if a check has failed.
LEMMA EndKeepsPassing ==
  ASSUME PassingInv, End
  PROVE  PassingInv'
<1>1. /\ disturbed' = disturbed /\ failures' = failures
      /\ exit' = IF failures # {} THEN "1" ELSE "0"
  BY DEF End
<1>2. ~Running'
  BY <1>1 DEF Running
<1> QED
  BY <1>1, <1>2 DEF PassingInv, AsExpected, ButtonPassesAllScenarios

LEMMA PassingStart ==
  ASSUME ScriptInit
  PROVE  PassingInv
BY DEF ScriptInit, PassingInv, AsExpected, ButtonPassesAllScenarios

LEMMA PassingNext ==
  ASSUME "valid" \in Outcomes, InPlace, TestedInv, PassingInv, [ScriptNext]_<<vars, script>>
  PROVE  PassingInv'
<1>1. CASE Abort
  BY <1>1 DEF Abort, PassingInv, ButtonPassesAllScenarios
<1>2. CASE UNCHANGED <<vars, script>>
  <2>1. Expected(at.scenario, at.step) => Expected(at.scenario, at.step)'
    <3>1. PICK i, j : i = at.scenario /\ j = at.step
      OBVIOUS
    <3>2. i = at'.scenario /\ j = at'.step
      BY <1>2, <3>1 DEF script
    <3>3. Expected(i, j) => Expected(i, j)'
      <4>1. /\ flow' = flow /\ status' = status /\ requested' = requested
            /\ page' = page /\ proven' = proven
        BY <1>2 DEF vars
      <4>2. Fresh' = Fresh /\ Button' = Button
        BY <4>1, SameFlow DEF Fresh
      <4>3. Offered(page.step)' <=> Offered(page.step)
        BY <4>1, SameFlow DEF Offered, Processed, Exec
      <4>4. OnForm => OnForm'
        BY <4>1, <4>3 DEF OnForm
      <4>5. Waiting => Waiting'
        <5> SUFFICES ASSUME Waiting PROVE Waiting'
          OBVIOUS
        <5>1. PICK st : st = status
          OBVIOUS
        <5> QED
          BY <4>1, <5>1, WaitingNext DEF Waiting
      <4> QED
        BY <4>1, <4>2, <4>3, <4>4, <4>5 DEF Expected, Unasked
    <3> QED
      BY <3>1, <3>2, <3>3 DEF Expected
  <2> QED
    BY <1>2, <2>1 DEF vars, script, PassingInv, AsExpected, ButtonPassesAllScenarios, Running, Now
<1>3. ASSUME ScriptNext, Running, at.step > 0 PROVE PassingInv'
  <2>1. at.step # 0
    BY <1>3
  <2> QED
    BY <1>3, <2>1, ScenarioKeepsPassing
<1> QED
  BY <1>1, <1>2, <1>3, StepsAreJudged, BeginKeepsPassing, EndKeepsPassing, Zenon

\* A test that only the button could have failed is green: its seven scenarios
\* describe what the button and the flow engine do in the four flows of the
\* realm, from the first page of a new browser to the last check (main,
\* scenario_a to scenario_g).
THEOREM ButtonPassesTheTest ==
  ASSUME E2eFlows \subseteq Flows, "valid" \in Outcomes
  PROVE  ScriptSpec => []ButtonPassesAllScenarios
<1>1. ScriptInit => ChecksInv /\ TestedInv /\ PassingInv
  BY ScriptStartsWithChecks, TestedStart, PassingStart
<1>2. ChecksInv /\ TestedInv /\ PassingInv /\ [ScriptNext]_<<vars, script>>
        => ChecksInv' /\ TestedInv' /\ PassingInv'
  BY ScriptKeepsChecks, TestedNext, PassingNext DEF ChecksInv
<1>3. PassingInv => ButtonPassesAllScenarios
  BY DEF PassingInv
<1> QED
  BY <1>1, <1>2, <1>3, PTL DEF ScriptSpec

=============================================================================

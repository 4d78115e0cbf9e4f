--------------------------- MODULE IdpMapperE2E_proofs ---------------------------
(***************************************************************************)
(* The administrator token, and the test that uses it, for every lifespan, *)
(* every age at which the token is renewed, all delays up to any timeout,  *)
(* any mappers under test and any number of disturbances.                  *)
(***************************************************************************)
EXTENDS IdpMapperE2E, TLAPS

-----------------------------------------------------------------------------
(***************************************************************************)
(* The administrator token.                                                *)
(***************************************************************************)

\* The note is never younger than the token it belongs to.
IInv ==
  /\ age \in 0..Old /\ issued \in 0..Old
  /\ age <= MaxAge => issued <= age
  /\ rejected = FALSE

\* Time passing keeps the order of two ages.
LEMMA LaterKeepsOrder ==
  ASSUME NEW a \in Nat, NEW i \in Nat, NEW d \in Nat
  PROVE  /\ Later(a, d) \in 0..Old /\ Later(i, d) \in 0..Old
         /\ i <= a => Later(i, d) <= Later(a, d)
         /\ Later(a, d) <= MaxAge => a <= MaxAge
BY TimeAssumption DEF TimeAssumption, Later, Old

LEMMA TokenInitHolds == TokenInit => IInv
BY TimeAssumption DEF TimeAssumption, TokenInit, IInv, Old

LEMMA WaitKeeps == ASSUME IInv, Wait PROVE IInv'
<1>1. PICK d \in Pauses :
        age' = Later(age, d) /\ issued' = Later(issued, d) /\ rejected' = rejected
  BY DEF Wait
<1>2. d \in Nat /\ age \in Nat /\ issued \in Nat
  BY TimeAssumption DEF TimeAssumption, IInv, Old
<1>3. /\ Later(age, d) \in 0..Old /\ Later(issued, d) \in 0..Old
      /\ issued <= age => Later(issued, d) <= Later(age, d)
      /\ Later(age, d) <= MaxAge => age <= MaxAge
  BY <1>2, LaterKeepsOrder
<1>4. QED BY <1>1, <1>3 DEF IInv, Old

\* What is sent with the request is young enough, whether held or new.
LEMMA RequestKeeps ==
  ASSUME IInv, NEW fetch \in Delays, NEW way \in Delays, NEW since \in 0..fetch,
         Request(fetch, way, since)
  PROVE  /\ age' \in 0..Old /\ issued' \in 0..Old
         /\ age' <= MaxAge => issued' <= age'
         /\ Prompt(fetch, way) => ~Expired(way, since)
<1> DEFINE a == IF Renew THEN NotedAge(fetch) ELSE age
           i == IF Renew THEN since ELSE issued
<1>1. /\ fetch \in Nat /\ way \in Nat /\ since \in Nat /\ since <= fetch
      /\ MaxAge \in Nat /\ Lifespan \in Nat /\ MaxAge < Lifespan
  BY TimeAssumption DEF TimeAssumption
<1>2. a \in Nat /\ i \in Nat /\ i <= a
  BY <1>1 DEF IInv, NotedAge, Old, Renew
<1>3. age' = Later(a, way) /\ issued' = Later(i, way)
  BY DEF Request
<1>4. Prompt(fetch, way) => i + way < Lifespan
  <2>1. CASE Renew
    <3>1. i <= fetch
      BY <1>1, <2>1
    <3>2. Prompt(fetch, way) => MaxAge + way + fetch < Lifespan
      BY <2>1 DEF Prompt
    <3> HIDE DEF i
    <3>3. QED BY <1>1, <1>2, <3>1, <3>2
  <2>2. CASE ~Renew
    <3>1. i = issued /\ issued <= age /\ age <= MaxAge /\ age \in Nat
      BY <1>1, <2>2 DEF IInv, Renew, Old
    <3>2. Prompt(fetch, way) => MaxAge + way + 0 < Lifespan
      BY <2>2 DEF Prompt
    <3> HIDE DEF i
    <3>3. QED BY <1>1, <1>2, <3>1, <3>2
  <2>3. QED BY <2>1, <2>2
<1>5. Expired(way, since) <=> i + way >= Lifespan
  BY DEF Expired
<1> HIDE DEF a, i
<1>6. /\ Later(a, way) \in 0..Old /\ Later(i, way) \in 0..Old
      /\ Later(i, way) <= Later(a, way)
  BY <1>1, <1>2, LaterKeepsOrder
<1>7. QED BY <1>1, <1>2, <1>3, <1>4, <1>5, <1>6

LEMMA CallKeeps == ASSUME IInv, AdminCall \/ SlowCall PROVE IInv'
<1>1. PICK fetch \in Delays, way \in Delays : \E since \in 0..fetch :
        /\ Request(fetch, way, since)
        /\ \/ /\ Prompt(fetch, way) \/ ~Expired(way, since)
              /\ rejected' = (rejected \/ Expired(way, since))
           \/ UNCHANGED rejected
  BY Zenon DEF AdminCall, SlowCall
<1>2. PICK since \in 0..fetch :
        /\ Request(fetch, way, since)
        /\ \/ /\ Prompt(fetch, way) \/ ~Expired(way, since)
              /\ rejected' = (rejected \/ Expired(way, since))
           \/ UNCHANGED rejected
  BY <1>1
<1>3. /\ age' \in 0..Old /\ issued' \in 0..Old
      /\ age' <= MaxAge => issued' <= age'
      /\ Prompt(fetch, way) => ~Expired(way, since)
  BY <1>2, RequestKeeps
<1>4. rejected' = FALSE
  <2>1. CASE UNCHANGED rejected
    BY <2>1 DEF IInv
  <2>2. CASE /\ Prompt(fetch, way) \/ ~Expired(way, since)
             /\ rejected' = (rejected \/ Expired(way, since))
    <3>1. ~Expired(way, since)
      BY <1>3, <2>2
    <3>2. rejected = FALSE
      BY DEF IInv
    <3>3. QED BY <2>2, <3>1, <3>2, Zenon
  <2>3. QED BY <1>2, <2>1, <2>2
<1>5. QED BY <1>3, <1>4 DEF IInv, Old

LEMMA TokenStepKeeps == IInv /\ [Wait \/ AdminCall \/ SlowCall]_token => IInv'
<1> SUFFICES ASSUME IInv, [Wait \/ AdminCall \/ SlowCall]_token PROVE IInv'
  OBVIOUS
<1>1. CASE Wait BY <1>1, WaitKeeps
<1>2. CASE AdminCall \/ SlowCall BY <1>2, CallKeeps
<1>3. CASE UNCHANGED token BY <1>3 DEF token, IInv, Old
<1>4. QED BY <1>1, <1>2, <1>3

\* kc_e2e.py: however slow requests and answers are, an administrator call is
\* refused for an expired token only if the call itself, with the fetch of a
\* new token if it needs one, takes longer than what is left between the age
\* limit and the lifespan.
THEOREM PromptCallsAreAuthorized == TokenSpec => []PromptCallsAuthorized
<1>1. IInv => PromptCallsAuthorized BY DEF IInv, PromptCallsAuthorized
<1>2. QED BY TokenInitHolds, TokenStepKeeps, <1>1, PTL DEF TokenSpec

\* Every step of the test is one of the token's, or leaves the token alone.
LEMMA StepOfToken ==
  [Next]_<<server, token, script>> => [Wait \/ AdminCall \/ SlowCall]_token
<1> SUFFICES ASSUME [Next]_<<server, token, script>> PROVE [Wait \/ AdminCall \/ SlowCall]_token
  OBVIOUS
<1>1. CASE Abort BY <1>1 DEF Abort
<1>2. CASE Setup BY <1>2 DEF Setup
<1>3. CASE CallAgain BY <1>3 DEF CallAgain
<1>4. CASE Configure BY <1>4 DEF Configure, Calling
<1>5. CASE SetUpstreamGroups BY <1>5 DEF SetUpstreamGroups, Calling
<1>6. CASE Login BY <1>6 DEF Login
<1>7. CASE CheckGroups BY <1>7 DEF CheckGroups, Calling
<1>8. CASE CheckNotMangled BY <1>8 DEF CheckNotMangled, Calling
<1>9. CASE JoinSibling BY <1>9 DEF JoinSibling, Calling
<1>10. CASE CheckLink BY <1>10 DEF CheckLink, Calling
<1>11. CASE CheckLog BY <1>11 DEF CheckLog
<1>12. CASE Disturb BY <1>12 DEF Disturb
<1>13. CASE End BY <1>13 DEF End
<1>14. CASE Ended BY <1>14 DEF Ended
<1>15. CASE Refused BY <1>15 DEF Refused
<1>16. CASE UNCHANGED <<server, token, script>> BY <1>16
<1>17. QED
  BY <1>1, <1>2, <1>3, <1>4, <1>5, <1>6, <1>7, <1>8, <1>9, <1>10, <1>11, <1>12, <1>13, <1>14, <1>15, <1>16
     DEF Next

\* idp_mapper_e2e.py against kc_e2e.py: however the scenarios go, the test uses
\* the token as the model of the token says.
THEOREM TestUsesToken == Spec => TokenSpec
<1>1. Init => TokenInit BY DEF Init
<1>2. QED BY <1>1, StepOfToken, PTL DEF Spec, TokenSpec

\* idp_mapper_e2e.py: none of the test's prompt calls is refused, whatever the
\* scenarios, logins and slow calls before it.
THEOREM TestCallsAreAuthorized == Spec => []PromptCallsAuthorized
BY TestUsesToken, PromptCallsAreAuthorized, PTL

-----------------------------------------------------------------------------
(***************************************************************************)
(* The scenarios, and what a login does in them.                           *)
(***************************************************************************)

LEMMA ScenariosAre ==
  /\ \E S : Scenarios \in Seq(S)
  /\ Len(Scenarios) = 12
  /\ \A i \in 1..5 : Scenarios[2 * i - 1] = scenario_update(MODES[i]) /\ Scenarios[2 * i] = scenario_late(MODES[i])
  /\ Scenarios[11] = scenario_sibling /\ Scenarios[12] = federated_link
<1>1. /\ Scenarios[1] = scenario_update(MODES[1]) /\ Scenarios[2] = scenario_late(MODES[1])
      /\ Scenarios[3] = scenario_update(MODES[2]) /\ Scenarios[4] = scenario_late(MODES[2])
      /\ Scenarios[5] = scenario_update(MODES[3]) /\ Scenarios[6] = scenario_late(MODES[3])
      /\ Scenarios[7] = scenario_update(MODES[4]) /\ Scenarios[8] = scenario_late(MODES[4])
      /\ Scenarios[9] = scenario_update(MODES[5]) /\ Scenarios[10] = scenario_late(MODES[5])
      /\ Scenarios[11] = scenario_sibling /\ Scenarios[12] = federated_link
  BY DEF Scenarios
<1>2. Len(Scenarios) = 12 /\ DOMAIN Scenarios = 1..12
  BY DEF Scenarios
<1>3. Scenarios = [i \in 1..12 |-> Scenarios[i]]
  BY <1>2 DEF Scenarios
<1>4. Scenarios \in Seq({Scenarios[i] : i \in 1..12})
  BY <1>3
<1>5. \A i \in 1..5 : Scenarios[2 * i - 1] = scenario_update(MODES[i]) /\ Scenarios[2 * i] = scenario_late(MODES[i])
  <2> SUFFICES ASSUME NEW i \in 1..5
               PROVE  Scenarios[2 * i - 1] = scenario_update(MODES[i]) /\ Scenarios[2 * i] = scenario_late(MODES[i])
    OBVIOUS
  <2>1. i = 1 \/ i = 2 \/ i = 3 \/ i = 4 \/ i = 5
    OBVIOUS
  <2> QED
    BY <2>1, <1>1
<1>6. QED
  BY <1>1, <1>2, <1>4, <1>5

LEMMA Joined ==
  ASSUME NEW S, NEW s \in Seq(S), NEW t \in Seq(S)
  PROVE  /\ s \o t \in Seq(S) /\ Len(s \o t) = Len(s) + Len(t)
         /\ \A i \in 1..Len(s) : (s \o t)[i] = s[i]
         /\ \A i \in 1..Len(t) : (s \o t)[Len(s) + i] = t[i]
OBVIOUS

\* The scenarios, and the checks of the log if there is one.
LEMMA MainIs ==
  ASSUME hasLog \in BOOLEAN
  PROVE  /\ Len(main) = IF hasLog THEN 14 ELSE 12
         /\ DOMAIN main = 1..Len(main)
         /\ \A i \in 1..5 : main[2 * i - 1] = scenario_update(MODES[i]) /\ main[2 * i] = scenario_late(MODES[i])
         /\ main[11] = scenario_sibling /\ main[12] = federated_link
         /\ hasLog => main[13] = <<Do("warning_free")>> /\ main[14] = <<Do("one_summary_per_sync")>>
<1>0. PICK S : Scenarios \in Seq(S)
  BY ScenariosAre
<1> DEFINE first == <<Do("warning_free")>>
           second == <<Do("one_summary_per_sync")>>
           All == S \cup {first, second}
<1>1. Scenarios \in Seq(All)
  BY <1>0
<1>2. log_checks = IF hasLog THEN <<first, second>> ELSE << >>
  BY DEF log_checks
<1>3. first \in All /\ second \in All
  OBVIOUS
<1> HIDE DEF All, first, second
<1>4. /\ Len(main) = IF hasLog THEN 14 ELSE 12
      /\ DOMAIN main = 1..Len(main)
      /\ \A i \in 1..12 : main[i] = Scenarios[i]
      /\ hasLog => main[13] = first /\ main[14] = second
  <2>1. CASE hasLog
    <3> DEFINE t == <<first, second>>
    <3>1. main = Scenarios \o t
      BY <2>1, <1>2 DEF main
    <3>2. t \in Seq(All) /\ Len(t) = 2 /\ t[1] = first /\ t[2] = second
      BY <1>3
    <3> HIDE DEF t
    <3>0. Len(Scenarios) = 12
      BY ScenariosAre
    <3>3. /\ main \in Seq(All) /\ Len(main) = Len(Scenarios) + Len(t)
          /\ \A i \in 1..Len(Scenarios) : main[i] = Scenarios[i]
          /\ \A i \in 1..Len(t) : main[Len(Scenarios) + i] = t[i]
      <4> DEFINE r == Scenarios \o t
      <4>1. t \in Seq(All)
        BY <3>2
      <4>2. r \in Seq(All) /\ Len(r) = Len(Scenarios) + Len(t)
        BY <4>1, <1>1, Joined
      <4>3. \A i \in 1..Len(Scenarios) : r[i] = Scenarios[i]
        BY <4>1, <1>1, Joined
      <4>4. \A i \in 1..Len(t) : r[Len(Scenarios) + i] = t[i]
        BY <4>1, <1>1, Joined
      <4> QED BY <3>1, <4>2, <4>3, <4>4
    <3>4. \A i \in 1..12 : main[i] = Scenarios[i]
      BY <3>0, <3>3
    <3>5. main[12 + 1] = first /\ main[12 + 2] = second
      BY <3>0, <3>2, <3>3
    <3>6. DOMAIN main = 1..14 /\ Len(main) = 14
      BY <3>0, <3>2, <3>3
    <3> QED BY <2>1, <3>4, <3>5, <3>6
  <2>2. CASE ~hasLog
    <3>1. main = Scenarios
      BY <2>2, <1>1, <1>2 DEF main
    <3> QED BY <2>2, <3>1, <1>1, ScenariosAre
  <2> QED BY <2>1, <2>2
<1>5. \A i \in 1..5 : 2 * i - 1 \in 1..12 /\ 2 * i \in 1..12
  OBVIOUS
<1>6. /\ \A i \in 1..5 : main[2 * i - 1] = scenario_update(MODES[i]) /\ main[2 * i] = scenario_late(MODES[i])
      /\ main[11] = scenario_sibling /\ main[12] = federated_link
  BY <1>4, <1>5, ScenariosAre
<1> USE DEF first, second
<1>7. QED
  BY <1>4, <1>6, Zenon

\* What a mode of the table is said to do is what Keycloak does with it.
LEMMA ModesAre ==
  ASSUME NEW i \in 1..5
  PROVE  /\ MODES[i].syncs \in BOOLEAN
         /\ MODES[i].syncs
              <=> (IF MODES[i].mode = "INHERIT" THEN MODES[i].idp ELSE MODES[i].mode) \in {"FORCE", "LEGACY"}
<1>1. i = 1 \/ i = 2 \/ i = 3 \/ i = 4 \/ i = 5
  OBVIOUS
<1>2. MODES[1] = Row("IMPORT", "IMPORT", FALSE) /\ MODES[2] = Row("IMPORT", "INHERIT", FALSE)
      /\ MODES[3] = Row("IMPORT", "FORCE", TRUE) /\ MODES[4] = Row("IMPORT", "LEGACY", TRUE)
      /\ MODES[5] = Row("FORCE", "INHERIT", TRUE)
  BY Zenon DEF MODES
<1> DEFINE F == {"FORCE", "LEGACY"}
           effective(m) == IF m.mode = "INHERIT" THEN m.idp ELSE m.mode
<1>3. "IMPORT" \notin F /\ "FORCE" \in F /\ "LEGACY" \in F
  OBVIOUS
<1>4. \A x, y : Row(x, y, TRUE).syncs = TRUE /\ Row(x, y, FALSE).syncs = FALSE
  BY DEF Row
<1>5. /\ effective(MODES[1]) = "IMPORT" /\ effective(MODES[2]) = "IMPORT" /\ effective(MODES[3]) = "FORCE"
      /\ effective(MODES[4]) = "LEGACY" /\ effective(MODES[5]) = "FORCE"
  BY <1>2 DEF Row
<1> HIDE DEF F, effective
<1>6. MODES[i].syncs \in BOOLEAN /\ (MODES[i].syncs <=> effective(MODES[i]) \in F)
  BY <1>1, <1>2, <1>3, <1>4, <1>5, Zenon
<1> USE DEF F, effective
<1>7. QED BY <1>6

\* Whether the mapper under test syncs a later login in mode m.
Syncing(m) == mapper = "syncs_always" \/ (mapper # "syncs_once" /\ m.syncs)

LEMMA SyncsNowIs ==
  ASSUME NEW i \in 1..5, config = [idp |-> MODES[i].idp, mode |-> MODES[i].mode, prefixed |-> FALSE]
  PROVE  SyncsNow <=> broker = NoUser \/ Syncing(MODES[i])
BY ModesAre DEF SyncsNow, Syncing, Mode

LEMMA ClaimedIs ==
  /\ ~config.prefixed => Claimed = upstream
  /\ config.prefixed /\ upstream = {"user", "x"} =>
       Claimed = {"user", IF mapper = "compares_characters" THEN "mangled" ELSE "under"}
<1>1. ASSUME ~config.prefixed PROVE Claimed = upstream
  BY <1>1 DEF Claimed
<1>2. ASSUME config.prefixed, upstream = {"user", "x"}
      PROVE  Claimed = {"user", IF mapper = "compares_characters" THEN "mangled" ELSE "under"}
  BY <1>2 DEF Claimed
<1>3. QED BY <1>1, <1>2

\* The user's groups before and after a login that syncs, and what it leaves in
\* the log.
Had == IF broker = NoUser THEN {} ELSE broker
Has == Claimed \cup (Had \ Managed)
Level == IF Has # Had \/ mapper = "always_INFO" THEN "INFO" ELSE "DEBUG"
Count == IF mapper = "writes_two_lines" THEN 2 ELSE 1

LEMMA LoginIs ==
  ASSUME ServerLogin
  PROVE  /\ broker' = IF SyncsNow THEN Has ELSE Had
         /\ lines' = IF SyncsNow THEN [lines EXCEPT ![Level] = @ + Count] ELSE lines
         /\ warned' = (warned \/ mapper = "warns")
         /\ UNCHANGED <<mapper, config, upstream, hasLog>>
BY DEF ServerLogin, Had, Has, Level, Count

-----------------------------------------------------------------------------
(***************************************************************************)
(* The invariant of the test: where the script is, what Keycloak has at    *)
(* that point of a scenario, and what the log has.                         *)
(***************************************************************************)

Position ==
  /\ at \in [scenario : Nat, step : Nat]
  /\ at.scenario \in DOMAIN main => at.step \in DOMAIN main[at.scenario]
  /\ at.scenario \notin DOMAIN main => at.step = 1
  /\ at.scenario <= Len(main) + 1
  /\ hasLog \in BOOLEAN
  /\ mapper \in Mappers
  /\ disturbed \in Nat

\* Every scenario behind has been judged, and the exit code is that of the
\* judgements.
Judged ==
  /\ \A s \in DOMAIN main : s < at.scenario => s \in passed \cup failures
  /\ exit \in {"none", "0", "1"}
  /\ exit = "0" => failures = {} /\ at.scenario > Len(main)
  /\ exit = "1" => failures # {} \/ disturbed > 0
  /\ at.scenario = 0 => failures = {}

Plainly(m) == [idp |-> m.idp, mode |-> m.mode, prefixed |-> FALSE]

\* What scenario_update has reached before each of its steps.
AtUpdate(m) ==
  LET k == at.step IN
  /\ k > 1 => config = Plainly(m)
  /\ k = 2 => upstream = {}
  /\ k \in 3..5 => upstream = {"user"}
  /\ k \in 6..7 => upstream = {"admin"}
  /\ k \in 2..3 => broker = NoUser
  /\ k \in 4..6 => broker = {"user"}
  /\ k = 7 => broker = IF Syncing(m) THEN {"admin"} \cup ({"user"} \ Managed) ELSE {"user"}

AtLate(m) ==
  LET k == at.step IN
  /\ k > 1 => config = Plainly(m)
  /\ k \in 2..4 => upstream = {}
  /\ k \in 5..6 => upstream = {"user"}
  /\ k = 2 => broker = NoUser
  /\ k \in 3..5 => broker = {}
  /\ k = 6 => broker = IF Syncing(m) THEN {"user"} ELSE {}

\* Where the mapper puts x below the prefixes.
Under == IF mapper = "compares_characters" THEN "mangled" ELSE "under"

AtSibling ==
  LET k == at.step
  IN  /\ k > 1 => config = [idp |-> "IMPORT", mode |-> "FORCE", prefixed |-> TRUE]
      /\ k = 2 => upstream = {}
      /\ k \in 3..8 => upstream = {"user", "x"}
      /\ k \in 2..3 => broker = NoUser
      /\ k = 4 => broker = {"user", Under}
      /\ k \in 5..8 => mapper # "compares_characters"
      /\ k \in 5..6 => broker = {"user", "under"}
      /\ k \in 7..8 => broker = {"user", "under", "x"}

AtLink ==
  LET k == at.step IN
  /\ k > 1 => config = [idp |-> "IMPORT", mode |-> "IMPORT", prefixed |-> FALSE]
  /\ k = 2 => upstream = {} /\ broker = NoUser

Situation ==
  /\ \A i \in 1..5 : at.scenario = 2 * i - 1 => AtUpdate(MODES[i])
  /\ \A i \in 1..5 : at.scenario = 2 * i => AtLate(MODES[i])
  /\ at.scenario = 11 => AtSibling
  /\ at.scenario = 12 => AtLink

\* The mappers that sync when they should, and say so as they should.
Regular == {"right", "writes_two_lines", "warns"}

\* Step k of scenario s is behind.
Beyond(s, k) == at.scenario > s \/ (at.scenario = s /\ at.step > k)

\* The summary lines, written and expected.
Log ==
  /\ lines \in [Levels -> Nat] /\ expected \in [Levels -> Nat]
  /\ mapper \in Regular /\ failures = {} => \A l \in Levels : lines[l] = Count * expected[l]
  /\ mapper = "always_INFO" => lines["DEBUG"] = 0
  /\ warned \in BOOLEAN /\ (mapper = "right" => ~warned)
  /\ failures = {} /\ Beyond(1, 3) => expected["INFO"] > 0 /\ (mapper = "warns" => warned)
  /\ failures = {} /\ Beyond(2, 2) => expected["DEBUG"] > 0

\* How far a wrong mapper gets without a failure.
Caught ==
  failures = {} =>
    /\ mapper = "syncs_always" => at.scenario <= 1
    /\ mapper \in {"syncs_once", "never_leaves"} => at.scenario <= 5
    /\ mapper = "compares_characters" => at.scenario <= 11
    /\ mapper = "warns" /\ hasLog => at.scenario <= 13
    /\ mapper \in {"writes_two_lines", "always_INFO"} /\ hasLog => at.scenario <= 14

\* The right one never fails by itself.
Passing == mapper = "right" /\ disturbed = 0 => failures = {}

TestInv == Position /\ Judged /\ Situation /\ Log /\ Caught /\ Passing

LEMMA TestInvMeans == TestInv => GreenMeansMapperRight /\ RightMapperIsGreen
<1> SUFFICES ASSUME TestInv PROVE GreenMeansMapperRight /\ RightMapperIsGreen
  OBVIOUS
<1>1. /\ Len(main) = IF hasLog THEN 14 ELSE 12
      /\ DOMAIN main = 1..Len(main)
  BY MainIs DEF TestInv, Position
<1>2. at.scenario \in Nat /\ hasLog \in BOOLEAN /\ disturbed \in Nat /\ mapper \in Faults \cup {"right"}
  BY MapperAssumption DEF MapperAssumption, TestInv, Position
<1>3. ASSUME exit = "0" PROVE failures = {} /\ at.scenario > Len(main) /\ DOMAIN main \subseteq passed
  BY <1>1, <1>2, <1>3 DEF TestInv, Judged
<1>4. ASSUME exit = "0" PROVE mapper = "right" \/ (mapper \in OnlyInLog /\ ~hasLog)
  <2>1. Caught /\ failures = {} /\ at.scenario > Len(main)
    BY <1>3, <1>4 DEF TestInv
  <2>2. (hasLog => at.scenario > 14) /\ at.scenario > 12
    <3>1. CASE hasLog
      <4>1. Len(main) = 14
        BY <3>1, <1>1
      <4>2. QED BY <1>2, <2>1, <4>1
    <3>2. CASE ~hasLog
      <4>1. Len(main) = 12
        BY <3>2, <1>1
      <4>2. QED BY <3>2, <1>2, <2>1, <4>1
    <3>3. QED BY <3>1, <3>2
  <2>3. mapper \notin {"syncs_always", "syncs_once", "never_leaves", "compares_characters"}
    <3>1. ~(at.scenario <= 1) /\ ~(at.scenario <= 5) /\ ~(at.scenario <= 11)
      BY <1>2, <2>2
    <3>2. QED BY <2>1, <3>1, Zenon DEF Caught
  <2>4. hasLog => mapper \notin {"writes_two_lines", "always_INFO", "warns"}
    <3>1. hasLog => ~(at.scenario <= 13) /\ ~(at.scenario <= 14)
      BY <1>2, <2>2
    <3>2. QED BY <2>1, <3>1, Zenon DEF Caught
  <2>5. QED BY <1>2, <2>3, <2>4, Zenon DEF OnlyInLog, Faults
<1>5. GreenMeansMapperRight
  BY <1>3, <1>4 DEF GreenMeansMapperRight
<1>6. RightMapperIsGreen
  BY <1>2 DEF RightMapperIsGreen, TestInv, Judged, Passing
<1>7. QED BY <1>5, <1>6

LEMMA TestStarts == Init => TestInv
<1> SUFFICES ASSUME Init PROVE TestInv
  OBVIOUS
<1>1. hasLog \in BOOLEAN /\ at = [scenario |-> 0, step |-> 1]
  BY DEF Init
<1>2. Len(main) \in Nat /\ DOMAIN main = 1..Len(main)
  BY <1>1, MainIs
<1>3. Position
  BY <1>1, <1>2, MapperAssumption DEF Init, Position, MapperAssumption
<1>4. Judged /\ Situation /\ Caught /\ Passing
  BY <1>1, <1>2 DEF Init, Judged, Situation, Caught, Passing
<1>5. Log
  <2>1. lines \in [Levels -> Nat] /\ expected \in [Levels -> Nat]
        /\ \A l \in Levels : lines[l] = 0 /\ expected[l] = 0
    BY DEF Init, NoLines
  <2>2. \A l \in Levels : lines[l] = Count * expected[l]
    <3>1. Count \in Nat
      BY DEF Count
    <3>2. \A n \in Nat : n * 0 = 0
      OBVIOUS
    <3>3. QED BY <2>1, <3>1, <3>2
  <2>3. "DEBUG" \in Levels
    BY DEF Levels
  <2>4. warned \in BOOLEAN /\ ~warned
    BY DEF Init
  <2>5. ~Beyond(1, 3) /\ ~Beyond(2, 2)
    BY <1>1 DEF Beyond
  <2>6. QED BY <2>1, <2>2, <2>3, <2>4, <2>5, Zenon DEF Log
<1>6. QED BY <1>3, <1>4, <1>5 DEF TestInv

-----------------------------------------------------------------------------
(***************************************************************************)
(* The steps of the scenarios.                                             *)
(***************************************************************************)

LEMMA UpdateSteps ==
  ASSUME NEW m
  PROVE  LET s == scenario_update(m) IN
         /\ Len(s) = 7 /\ DOMAIN s = 1..7
         /\ s[1] = configure(m.idp, m.mode, FALSE) /\ s[2] = set_upstream_groups({"user"})
         /\ s[3] = login("INFO") /\ s[4] = expect_groups({"user"}) /\ s[5] = set_upstream_groups({"admin"})
         /\ s[6] = login(IF m.syncs THEN "INFO" ELSE "none")
         /\ s[7] = expect_groups(IF m.syncs THEN {"admin"} ELSE {"user"})
BY DEF scenario_update

LEMMA LateSteps ==
  ASSUME NEW m
  PROVE  LET s == scenario_late(m) IN
         /\ Len(s) = 6 /\ DOMAIN s = 1..6
         /\ s[1] = configure(m.idp, m.mode, FALSE) /\ s[2] = login("DEBUG") /\ s[3] = expect_groups({})
         /\ s[4] = set_upstream_groups({"user"})
         /\ s[5] = login(IF m.syncs THEN "INFO" ELSE "none")
         /\ s[6] = expect_groups(IF m.syncs THEN {"user"} ELSE {})
BY DEF scenario_late

LEMMA SiblingSteps ==
  LET s == scenario_sibling IN
  /\ Len(s) = 8 /\ DOMAIN s = 1..8
  /\ s[1] = configure("IMPORT", "FORCE", TRUE) /\ s[2] = set_upstream_groups({"user", "x"})
  /\ s[3] = login("INFO") /\ s[4] = expect_groups({"under", "user"}) /\ s[5] = Do("not_mangled")
  /\ s[6] = Do("join_sibling") /\ s[7] = login("DEBUG") /\ s[8] = expect_groups({"under", "user", "x"})
BY DEF scenario_sibling

LEMMA LinkSteps ==
  LET s == federated_link IN
  /\ Len(s) = 3 /\ DOMAIN s = 1..3
  /\ s[1] = configure("IMPORT", "IMPORT", FALSE) /\ s[2] = login("DEBUG") /\ s[3] = Do("link")
BY DEF federated_link

LEMMA WhatSteps ==
  /\ \A idp, mode, prefixed : configure(idp, mode, prefixed).does = "configure"
       /\ configure(idp, mode, prefixed).config = [idp |-> idp, mode |-> mode, prefixed |-> prefixed]
  /\ \A groups : set_upstream_groups(groups).does = "upstream" /\ set_upstream_groups(groups).groups = groups
  /\ \A level : login(level).does = "login" /\ login(level).level = level
  /\ \A groups : expect_groups(groups).does = "groups" /\ expect_groups(groups).groups = groups
  /\ \A what : Do(what).does = what
BY DEF configure, set_upstream_groups, login, expect_groups, Do

\* Every scenario and every check of the log has a first step, and after the
\* last one there is none.
LEMMA Lengths ==
  ASSUME Position, NEW s \in DOMAIN main
  PROVE  DOMAIN main[s] = 1..Len(main[s]) /\ Len(main[s]) \in Nat \ {0}
<1>1. Len(main) = (IF hasLog THEN 14 ELSE 12) /\ DOMAIN main = 1..Len(main) /\ hasLog \in BOOLEAN
  BY MainIs DEF Position
<1>2. \/ \E i \in 1..5 : s = 2 * i - 1 \/ s = 2 * i
      \/ s = 11 \/ s = 12 \/ (hasLog /\ (s = 13 \/ s = 14))
  BY <1>1
<1>3. ASSUME NEW i \in 1..5, s = 2 * i - 1 PROVE DOMAIN main[s] = 1..7 /\ Len(main[s]) = 7
  BY <1>1, <1>3, MainIs, UpdateSteps
<1>4. ASSUME NEW i \in 1..5, s = 2 * i PROVE DOMAIN main[s] = 1..6 /\ Len(main[s]) = 6
  BY <1>1, <1>4, MainIs, LateSteps
<1>5. ASSUME s = 11 PROVE DOMAIN main[s] = 1..8 /\ Len(main[s]) = 8
  BY <1>1, <1>5, MainIs, SiblingSteps
<1>6. ASSUME s = 12 PROVE DOMAIN main[s] = 1..3 /\ Len(main[s]) = 3
  BY <1>1, <1>6, MainIs, LinkSteps
<1>7. ASSUME hasLog, s = 13 \/ s = 14 PROVE DOMAIN main[s] = 1..1 /\ Len(main[s]) = 1
  <2>2. main[13] = <<Do("warning_free")>> /\ main[14] = <<Do("one_summary_per_sync")>>
    BY <1>1, <1>7, MainIs
  <2>3. CASE s = 13 BY <2>2, <2>3
  <2>4. CASE s = 14 BY <2>2, <2>4
  <2>5. QED BY <1>7, <2>3, <2>4
<1>8. \E n \in {7, 6, 8, 3, 1} : DOMAIN main[s] = 1..n /\ Len(main[s]) = n
  BY <1>2, <1>3, <1>4, <1>5, <1>6, <1>7, Zenon
<1>9. QED BY <1>8

\* The steps of a script that are neither repeated calls nor disturbed.
Acts ==
  \/ Configure \/ SetUpstreamGroups \/ Login \/ CheckGroups
  \/ CheckNotMangled \/ JoinSibling \/ CheckLink \/ CheckLog

LEMMA ActIs ==
  ASSUME Acts
  PROVE  /\ Running
         /\ Now.does = "configure" => Configure
         /\ Now.does = "upstream" => SetUpstreamGroups
         /\ Now.does = "login" => Login
         /\ Now.does = "groups" => CheckGroups
         /\ Now.does = "not_mangled" => CheckNotMangled
         /\ Now.does = "join_sibling" => JoinSibling
         /\ Now.does = "link" => CheckLink
         /\ Now.does \in {"warning_free", "one_summary_per_sync"} => CheckLog
BY DEF Acts, Configure, SetUpstreamGroups, Login, CheckGroups, CheckNotMangled, JoinSibling, CheckLink, CheckLog, Does

\* check(): the next step, or the next scenario.
Succeeds ==
  /\ failures' = failures
  /\ passed' = IF LastStep THEN passed \cup {at.scenario} ELSE passed
  /\ at' = IF LastStep THEN [scenario |-> at.scenario + 1, step |-> 1]
           ELSE [scenario |-> at.scenario, step |-> at.step + 1]

Fails ==
  /\ failures' = failures \cup {at.scenario}
  /\ passed' = passed
  /\ at' = [scenario |-> at.scenario + 1, step |-> 1]

LEMMA JudgeIs ==
  ASSUME Position, NEW ok, Judge(ok)
  PROVE  /\ exit' = exit
         /\ ok => Succeeds
         /\ ~ok => Fails
<1>1. at \in [scenario : Nat, step : Nat]
  BY DEF Position
<1>2. [at EXCEPT !.step = @ + 1] = [scenario |-> at.scenario, step |-> at.step + 1]
  BY <1>1
<1>3. CASE ok BY <1>2, <1>3 DEF Judge, Succeeds
<1>4. CASE ~ok BY <1>4 DEF Judge, Fails
<1>5. QED BY <1>3, <1>4 DEF Judge

LEMMA ActsJudge ==
  ASSUME Position, Acts, rejected' = rejected
  PROVE  /\ Running /\ (Succeeds \/ Fails)
         /\ UNCHANGED <<mapper, hasLog, disturbed, exit>>
<1>1. CASE Configure
  BY <1>1, JudgeIs DEF Configure, Calling, Does
<1>2. CASE SetUpstreamGroups
  BY <1>2, JudgeIs DEF SetUpstreamGroups, Calling, Does
<1>3. CASE Login
  BY <1>3, JudgeIs, LoginIs DEF Login, Does
<1>4. CASE CheckGroups
  BY <1>4, JudgeIs DEF CheckGroups, Calling, Does, server
<1>5. CASE CheckNotMangled
  BY <1>5, JudgeIs DEF CheckNotMangled, Calling, Does, server
<1>6. CASE JoinSibling
  BY <1>6, JudgeIs DEF JoinSibling, Calling, Does
<1>7. CASE CheckLink
  BY <1>7, JudgeIs DEF CheckLink, Calling, Does, server
<1>8. CASE CheckLog
  BY <1>8, JudgeIs DEF CheckLog, Does, server
<1>9. QED BY <1>1, <1>2, <1>3, <1>4, <1>5, <1>6, <1>7, <1>8 DEF Acts

-----------------------------------------------------------------------------
(***************************************************************************)
(* What the steps of a scenario lead to, one after the other.              *)
(***************************************************************************)

\* A step goes on within its scenario.
GoesOn == at' = [scenario |-> at.scenario, step |-> at.step + 1] /\ Succeeds

\* What the acts do to Keycloak.
LEMMA Effects ==
  ASSUME Acts
  PROVE  /\ mapper' = mapper
         /\ Configure => config' = Now.config /\ broker' = NoUser /\ upstream' = {}
         /\ SetUpstreamGroups => upstream' = Now.groups /\ config' = config /\ broker' = broker
         /\ Login => config' = config /\ upstream' = upstream /\ broker' = IF SyncsNow THEN Has ELSE Had
         /\ CheckGroups \/ CheckNotMangled \/ CheckLink \/ CheckLog =>
              config' = config /\ upstream' = upstream /\ broker' = broker
         /\ JoinSibling => config' = config /\ upstream' = upstream /\ broker' = broker \cup {"x"}
         /\ ~Login => lines' = lines /\ warned' = warned /\ expected' = expected
<1>1. CASE Configure BY <1>1 DEF Configure, SetUpstreamGroups, Login, CheckGroups, CheckNotMangled, JoinSibling, CheckLink, CheckLog, Does
<1>2. CASE SetUpstreamGroups BY <1>2 DEF Configure, SetUpstreamGroups, Login, CheckGroups, CheckNotMangled, JoinSibling, CheckLink, CheckLog, Does
<1>3. CASE Login BY <1>3, LoginIs DEF Configure, SetUpstreamGroups, Login, CheckGroups, CheckNotMangled, JoinSibling, CheckLink, CheckLog, Does
<1>4. CASE CheckGroups \/ CheckNotMangled \/ CheckLink \/ CheckLog
  BY <1>4 DEF Configure, SetUpstreamGroups, Login, CheckGroups, CheckNotMangled, JoinSibling, CheckLink, CheckLog, Does, server
<1>5. CASE JoinSibling BY <1>5 DEF Configure, SetUpstreamGroups, Login, CheckGroups, CheckNotMangled, JoinSibling, CheckLink, CheckLog, Does
<1>6. QED BY <1>1, <1>2, <1>3, <1>4, <1>5 DEF Acts

LEMMA ConfigureIs ==
  ASSUME Acts, NEW idp, NEW mode, NEW prefixed, Now = configure(idp, mode, prefixed)
  PROVE  /\ config' = [idp |-> idp, mode |-> mode, prefixed |-> prefixed]
         /\ upstream' = {} /\ broker' = NoUser
<1>1. Now.does = "configure" /\ Now.config = [idp |-> idp, mode |-> mode, prefixed |-> prefixed]
  BY DEF configure
<1>2. QED BY <1>1, ActIs, Effects

\* A check of groups succeeds if they are found.
LEMMA GroupsChecked ==
  ASSUME Position, CheckGroups, rejected' = rejected
  PROVE  IF broker = Now.groups THEN Succeeds ELSE Fails
<1>1. Judge(SameGroups(broker, Now.groups) /\ (rejected' = rejected))
  BY DEF CheckGroups, Calling
<1>2. QED BY <1>1, JudgeIs DEF SameGroups

\* A login that syncs a user with groups below the prefixes, and a first one.
LEMMA LoginPlain ==
  ASSUME ~config.prefixed
  PROVE  /\ broker = NoUser => Had = {} /\ Has = upstream
         /\ broker # NoUser => Had = broker /\ Has = upstream \cup (broker \ Managed)
BY ClaimedIs DEF Had, Has

LEMMA NoUserIs == NoUser # {} /\ NoUser # {"user"} /\ NoUser # {"user", "under", "x"}
<1>1. "no_user" \in NoUser /\ "no_user" \notin {} /\ "no_user" \notin {"user"} /\ "no_user" \notin {"user", "under", "x"}
  BY DEF NoUser
<1>2. QED BY <1>1

LEMMA UpdateGoesOn ==
  ASSUME NEW i \in 1..5, at.scenario = 2 * i - 1, main[at.scenario] = scenario_update(MODES[i]),
         at.step \in 1..6, GoesOn, AtUpdate(MODES[i]), Acts
  PROVE  AtUpdate(MODES[i])'
<1> DEFINE m == MODES[i]
           k == at.step
<1>0. at'.step = k + 1 /\ mapper' = mapper
  BY Effects DEF GoesOn
<1>1. CASE k = 1
  <2>1. Now = configure(m.idp, m.mode, FALSE)
    BY <1>1, UpdateSteps DEF Now
  <2>2. config' = Plainly(m) /\ upstream' = {} /\ broker' = NoUser
    BY <2>1, ConfigureIs, Zenon DEF Plainly
  <2>3. QED BY <1>0, <1>1, <2>2 DEF AtUpdate, Plainly
<1>2. CASE k = 2
  <2>1. Now = set_upstream_groups({"user"})
    BY <1>2, UpdateSteps DEF Now
  <2>2. config' = config /\ upstream' = {"user"} /\ broker' = broker
    BY <2>1, ActIs, Effects, WhatSteps
  <2>3. QED BY <1>0, <1>2, <2>2 DEF AtUpdate, Plainly
<1>3. CASE k = 3
  <2>1. Now = login("INFO")
    BY <1>3, UpdateSteps DEF Now
  <2>2. config = Plainly(m) /\ ~config.prefixed /\ upstream = {"user"} /\ broker = NoUser
    BY <1>3 DEF AtUpdate, Plainly
  <2>3. SyncsNow /\ Has = {"user"}
    BY <2>2, LoginPlain DEF SyncsNow
  <2>4. config' = config /\ upstream' = upstream /\ broker' = {"user"}
    BY <2>1, <2>3, ActIs, Effects, WhatSteps
  <2>5. QED BY <1>0, <1>3, <2>2, <2>4 DEF AtUpdate, Plainly
<1>4. CASE k = 4
  <2>1. Now = expect_groups({"user"})
    BY <1>4, UpdateSteps DEF Now
  <2>2. config' = config /\ upstream' = upstream /\ broker' = broker
    BY <2>1, ActIs, Effects, WhatSteps
  <2>3. QED BY <1>0, <1>4, <2>2 DEF AtUpdate, Plainly
<1>5. CASE k = 5
  <2>1. Now = set_upstream_groups({"admin"})
    BY <1>5, UpdateSteps DEF Now
  <2>2. config' = config /\ upstream' = {"admin"} /\ broker' = broker
    BY <2>1, ActIs, Effects, WhatSteps
  <2>3. QED BY <1>0, <1>5, <2>2 DEF AtUpdate, Plainly
<1>6. CASE k = 6
  <2>1. Now = login(IF m.syncs THEN "INFO" ELSE "none")
    BY <1>6, UpdateSteps DEF Now
  <2>2. config = Plainly(m) /\ ~config.prefixed /\ upstream = {"admin"} /\ broker = {"user"}
    BY <1>6 DEF AtUpdate, Plainly
  <2>3. SyncsNow <=> Syncing(m)
    BY <2>2, SyncsNowIs, NoUserIs DEF Plainly
  <2>4. Had = {"user"} /\ Has = {"admin"} \cup ({"user"} \ Managed)
    BY <2>2, LoginPlain, NoUserIs
  <2>5. config' = config /\ upstream' = upstream /\ broker' = IF SyncsNow THEN Has ELSE Had
    BY <2>1, ActIs, Effects, WhatSteps
  <2>6. broker' = IF Syncing(m) THEN {"admin"} \cup ({"user"} \ Managed) ELSE {"user"}
    BY <2>3, <2>4, <2>5
  <2>7. Managed' = Managed /\ (Syncing(m))' = Syncing(m)
    BY <1>0 DEF Managed, Syncing
  <2>8. QED BY <1>0, <1>6, <2>2, <2>5, <2>6, <2>7 DEF AtUpdate, Plainly
<1>7. QED BY <1>1, <1>2, <1>3, <1>4, <1>5, <1>6

LEMMA LateGoesOn ==
  ASSUME NEW i \in 1..5, at.scenario = 2 * i, main[at.scenario] = scenario_late(MODES[i]),
         at.step \in 1..5, GoesOn, AtLate(MODES[i]), Acts
  PROVE  AtLate(MODES[i])'
<1> DEFINE m == MODES[i]
           k == at.step
<1>0. at'.step = k + 1 /\ mapper' = mapper
  BY Effects DEF GoesOn
<1>1. CASE k = 1
  <2>1. Now = configure(m.idp, m.mode, FALSE)
    BY <1>1, LateSteps DEF Now
  <2>2. config' = Plainly(m) /\ upstream' = {} /\ broker' = NoUser
    BY <2>1, ConfigureIs, Zenon DEF Plainly
  <2>3. QED BY <1>0, <1>1, <2>2 DEF AtLate, Plainly
<1>2. CASE k = 2
  <2>1. Now = login("DEBUG")
    BY <1>2, LateSteps DEF Now
  <2>2. config = Plainly(m) /\ ~config.prefixed /\ upstream = {} /\ broker = NoUser
    BY <1>2 DEF AtLate, Plainly
  <2>3. SyncsNow /\ Has = {}
    BY <2>2, LoginPlain DEF SyncsNow
  <2>4. config' = config /\ upstream' = upstream /\ broker' = {}
    BY <2>1, <2>3, ActIs, Effects, WhatSteps
  <2>5. QED BY <1>0, <1>2, <2>2, <2>4 DEF AtLate, Plainly
<1>3. CASE k = 3
  <2>1. Now = expect_groups({})
    BY <1>3, LateSteps DEF Now
  <2>2. config' = config /\ upstream' = upstream /\ broker' = broker
    BY <2>1, ActIs, Effects, WhatSteps
  <2>3. QED BY <1>0, <1>3, <2>2 DEF AtLate, Plainly
<1>4. CASE k = 4
  <2>1. Now = set_upstream_groups({"user"})
    BY <1>4, LateSteps DEF Now
  <2>2. config' = config /\ upstream' = {"user"} /\ broker' = broker
    BY <2>1, ActIs, Effects, WhatSteps
  <2>3. QED BY <1>0, <1>4, <2>2 DEF AtLate, Plainly
<1>5. CASE k = 5
  <2>1. Now = login(IF m.syncs THEN "INFO" ELSE "none")
    BY <1>5, LateSteps DEF Now
  <2>2. config = Plainly(m) /\ ~config.prefixed /\ upstream = {"user"} /\ broker = {}
    BY <1>5 DEF AtLate, Plainly
  <2>3. SyncsNow <=> Syncing(m)
    BY <2>2, SyncsNowIs, NoUserIs DEF Plainly
  <2>4. Had = {} /\ Has = {"user"}
    BY <2>2, LoginPlain, NoUserIs
  <2>5. config' = config /\ upstream' = upstream /\ broker' = IF SyncsNow THEN Has ELSE Had
    BY <2>1, ActIs, Effects, WhatSteps
  <2>6. broker' = IF Syncing(m) THEN {"user"} ELSE {}
    BY <2>3, <2>4, <2>5
  <2>7. (Syncing(m))' = Syncing(m)
    BY <1>0 DEF Syncing
  <2>8. at'.step = 6 /\ config' = Plainly(m) /\ upstream' = {"user"}
    BY <1>0, <1>5, <2>2, <2>5
  <2>9. broker' = (IF Syncing(m) THEN {"user"} ELSE {})'
    BY <2>6, <2>7
  <2>10. QED BY <2>8, <2>9 DEF AtLate, Plainly
<1>6. QED BY <1>1, <1>2, <1>3, <1>4, <1>5

\* Where the groups are below prefixes, only the mapper that compares characters
\* takes x for a managed group.
LEMMA ManagedIs ==
  ASSUME mapper # "compares_characters"
  PROVE  "x" \notin Managed
BY DEF Managed

\* A sync of the sibling scenario: with the user's own group and x, and again
\* with x joined by hand.
LEMMA LoginPrefixed ==
  ASSUME config.prefixed, upstream = {"user", "x"}
  PROVE  /\ broker = NoUser => Had = {} /\ Has = {"user", Under}
         /\ broker = {"user", "under", "x"} /\ mapper # "compares_characters" =>
              Had = broker /\ Has = broker
<1>1. Claimed = {"user", Under} /\ (mapper # "compares_characters" => Under = "under")
  BY ClaimedIs DEF Under
<1>2. ASSUME broker = NoUser
      PROVE  Had = {} /\ Has = {"user", Under}
  BY <1>1, <1>2 DEF Had, Has
<1>3. ASSUME broker = {"user", "under", "x"}, mapper # "compares_characters"
      PROVE  Had = broker /\ Has = broker
  <2>1. Had = broker
    BY <1>3, NoUserIs DEF Had
  <2>2. Has = {"user", "under"} \cup (broker \ Managed)
    BY <1>1, <1>3, <2>1 DEF Has
  <2>3. QED BY <1>3, <2>1, <2>2, ManagedIs
<1>4. QED BY <1>2, <1>3

LEMMA SiblingGoesOn ==
  ASSUME Position, at.scenario = 11, main[at.scenario] = scenario_sibling,
         at.step \in 1..7, GoesOn, AtSibling, Acts, rejected' = rejected
  PROVE  AtSibling'
<1> DEFINE k == at.step
           prefixes == [idp |-> "IMPORT", mode |-> "FORCE", prefixed |-> TRUE]
<1>0. at'.step = k + 1 /\ mapper' = mapper
  BY Effects DEF GoesOn
<1>1. CASE k = 1
  <2>1. Now = configure("IMPORT", "FORCE", TRUE)
    BY <1>1, SiblingSteps DEF Now
  <2>2. config' = prefixes /\ upstream' = {} /\ broker' = NoUser
    BY <2>1, ConfigureIs, Zenon
  <2>3. QED BY <1>0, <1>1, <2>2 DEF AtSibling
<1>2. CASE k = 2
  <2>1. Now = set_upstream_groups({"user", "x"})
    BY <1>2, SiblingSteps DEF Now
  <2>2. config' = config /\ upstream' = {"user", "x"} /\ broker' = broker
    BY <2>1, ActIs, Effects, WhatSteps
  <2>3. QED BY <1>0, <1>2, <2>2 DEF AtSibling
<1>3. CASE k = 3
  <2>1. Now = login("INFO")
    BY <1>3, SiblingSteps DEF Now
  <2>2. config = prefixes /\ config.prefixed /\ upstream = {"user", "x"} /\ broker = NoUser
    BY <1>3 DEF AtSibling
  <2>3. SyncsNow /\ Has = {"user", Under}
    BY <2>2, LoginPrefixed DEF SyncsNow
  <2>4. /\ config' = config /\ upstream' = upstream
        /\ broker' = {"user", Under}
    BY <2>1, <2>3, ActIs, Effects, WhatSteps
  <2>5. Under' = Under
    BY <1>0 DEF Under
  <2>6. QED BY <1>0, <1>3, <2>2, <2>4, <2>5 DEF AtSibling
<1>4. CASE k = 4
  <2>1. Now = expect_groups({"under", "user"})
    BY <1>4, SiblingSteps DEF Now
  <2>2. config' = config /\ upstream' = upstream /\ broker' = broker /\ CheckGroups
    BY <2>1, ActIs, Effects, WhatSteps
  <2>3. broker = {"under", "user"}
    <3>1. ~Fails
      BY DEF GoesOn, Fails, Position
    <3>2. Now.groups = {"under", "user"}
      BY <2>1, WhatSteps
    <3>3. QED BY <2>2, <3>1, <3>2, GroupsChecked
  <2>4. mapper # "compares_characters"
    <3>1. Under \in broker
      BY <1>4 DEF AtSibling
    <3>2. "mangled" \notin broker
      BY <2>3
    <3>3. QED BY <3>1, <3>2 DEF Under
  <2>5. QED BY <1>0, <1>4, <2>2, <2>3, <2>4 DEF AtSibling
<1>5. CASE k = 5
  <2>1. Now = Do("not_mangled")
    BY <1>5, SiblingSteps DEF Now
  <2>2. config' = config /\ upstream' = upstream /\ broker' = broker
    BY <2>1, ActIs, Effects, WhatSteps
  <2>3. QED BY <1>0, <1>5, <2>2 DEF AtSibling
<1>6. CASE k = 6
  <2>1. Now = Do("join_sibling")
    BY <1>6, SiblingSteps DEF Now
  <2>2. config' = config /\ upstream' = upstream /\ broker' = broker \cup {"x"}
    BY <2>1, ActIs, Effects, WhatSteps
  <2>3. broker' = {"user", "under", "x"}
    BY <1>6, <2>2 DEF AtSibling
  <2>4. QED BY <1>0, <1>6, <2>2, <2>3 DEF AtSibling
<1>7. CASE k = 7
  <2>1. Now = login("DEBUG")
    BY <1>7, SiblingSteps DEF Now
  <2>2. /\ config = prefixes /\ config.prefixed /\ upstream = {"user", "x"}
        /\ broker = {"user", "under", "x"} /\ mapper # "compares_characters"
    BY <1>7 DEF AtSibling
  <2>3. config' = config /\ upstream' = upstream /\ broker' = broker
    BY <2>1, <2>2, LoginPrefixed, ActIs, Effects, WhatSteps
  <2>4. QED BY <1>0, <1>7, <2>2, <2>3 DEF AtSibling
<1>8. QED BY <1>1, <1>2, <1>3, <1>4, <1>5, <1>6, <1>7

LEMMA LinkGoesOn ==
  ASSUME at.scenario = 12, main[at.scenario] = federated_link,
         at.step \in 1..2, GoesOn, AtLink, Acts
  PROVE  AtLink'
<1> DEFINE k == at.step
<1>0. at'.step = k + 1
  BY DEF GoesOn
<1>1. CASE k = 1
  <2>1. Now = configure("IMPORT", "IMPORT", FALSE)
    BY <1>1, LinkSteps DEF Now
  <2>2. /\ config' = [idp |-> "IMPORT", mode |-> "IMPORT", prefixed |-> FALSE]
        /\ upstream' = {} /\ broker' = NoUser
    BY <2>1, ConfigureIs, Zenon
  <2>3. QED BY <1>0, <1>1, <2>2 DEF AtLink
<1>2. CASE k = 2
  <2>1. Now = login("DEBUG")
    BY <1>2, LinkSteps DEF Now
  <2>2. config' = config
    BY <2>1, ActIs, Effects, WhatSteps
  <2>3. QED BY <1>0, <1>2, <2>2 DEF AtLink
<1>3. QED BY <1>1, <1>2

-----------------------------------------------------------------------------
(***************************************************************************)
(* The acts keep the invariant.                                            *)
(***************************************************************************)

LEMMA Places ==
  ASSUME Position, Running
  PROVE  LET s == at.scenario IN
         \/ \E i \in 1..5 : s = 2 * i - 1 /\ main[s] = scenario_update(MODES[i]) /\ at.step \in 1..7
         \/ \E i \in 1..5 : s = 2 * i /\ main[s] = scenario_late(MODES[i]) /\ at.step \in 1..6
         \/ s = 11 /\ main[s] = scenario_sibling /\ at.step \in 1..8
         \/ s = 12 /\ main[s] = federated_link /\ at.step \in 1..3
         \/ s = 13 /\ Now = Do("warning_free") /\ at.step = 1 /\ LastStep
         \/ s = 14 /\ Now = Do("one_summary_per_sync") /\ at.step = 1 /\ LastStep
<1> DEFINE s == at.scenario
<1>0. s \in DOMAIN main /\ at.step \in DOMAIN main[s]
  BY DEF Running, Position
<1>1. Len(main) = (IF hasLog THEN 14 ELSE 12) /\ DOMAIN main = 1..Len(main) /\ hasLog \in BOOLEAN
  BY MainIs DEF Position
<1>2. \/ \E i \in 1..5 : s = 2 * i - 1 \/ s = 2 * i
      \/ s = 11 \/ s = 12 \/ (hasLog /\ (s = 13 \/ s = 14))
  BY <1>0, <1>1
<1>3. ASSUME NEW i \in 1..5, s = 2 * i - 1 PROVE main[s] = scenario_update(MODES[i]) /\ at.step \in 1..7
  <2>1. main[s] = scenario_update(MODES[i])
    BY <1>1, <1>3, MainIs
  <2>2. DOMAIN scenario_update(MODES[i]) = 1..7
    BY UpdateSteps
  <2>3. QED BY <1>0, <2>1, <2>2
<1>4. ASSUME NEW i \in 1..5, s = 2 * i PROVE main[s] = scenario_late(MODES[i]) /\ at.step \in 1..6
  <2>1. main[s] = scenario_late(MODES[i])
    BY <1>1, <1>4, MainIs
  <2>2. DOMAIN scenario_late(MODES[i]) = 1..6
    BY LateSteps
  <2>3. QED BY <1>0, <2>1, <2>2
<1>5. ASSUME s = 11 PROVE main[s] = scenario_sibling /\ at.step \in 1..8
  BY <1>0, <1>1, <1>5, MainIs, SiblingSteps
<1>6. ASSUME s = 12 PROVE main[s] = federated_link /\ at.step \in 1..3
  BY <1>0, <1>1, <1>6, MainIs, LinkSteps
<1>7. ASSUME hasLog, s = 13 PROVE Now = Do("warning_free") /\ at.step = 1 /\ LastStep
  <2>1. main[s] = <<Do("warning_free")>>
    BY <1>1, <1>7, MainIs
  <2>2. QED BY <1>0, <2>1 DEF Now, LastStep
<1>8. ASSUME hasLog, s = 14 PROVE Now = Do("one_summary_per_sync") /\ at.step = 1 /\ LastStep
  <2>1. main[s] = <<Do("one_summary_per_sync")>>
    BY <1>1, <1>8, MainIs
  <2>2. QED BY <1>0, <2>1 DEF Now, LastStep
<1> HIDE DEF s
<1>9. QED BY <1>2, <1>3, <1>4, <1>5, <1>6, <1>7, <1>8, Zenon DEF s

\* At the first step of a scenario nothing is asked of what was before.
LEMMA SituationStarts == ASSUME at'.step = 1 PROVE Situation'
<1>1. \A m : AtUpdate(m)' /\ AtLate(m)'
  BY DEF AtUpdate, AtLate
<1>2. AtSibling' /\ AtLink'
  BY DEF AtSibling, AtLink
<1>3. QED BY <1>1, <1>2 DEF Situation

LEMMA SituationKept ==
  ASSUME Position, Situation, Acts, rejected' = rejected
  PROVE  Situation'
<1>1. Running /\ (Succeeds \/ Fails)
  BY ActsJudge
<1>2. CASE at'.step = 1
  BY <1>2, SituationStarts
<1>3. CASE at'.step # 1
  <2>1. Succeeds /\ ~LastStep /\ GoesOn
    BY <1>1, <1>3 DEF Succeeds, Fails, GoesOn
  <2>2. at'.scenario = at.scenario /\ at.step # Len(main[at.scenario])
    BY <2>1 DEF GoesOn, LastStep
  <2>3. ASSUME NEW i \in 1..5, at.scenario = 2 * i - 1, main[at.scenario] = scenario_update(MODES[i]), at.step \in 1..7
        PROVE  Situation'
    <3>1. at.step \in 1..6
      <4>1. Len(scenario_update(MODES[i])) = 7
        BY UpdateSteps
      <4>2. QED BY <2>2, <2>3, <4>1
    <3>2. AtUpdate(MODES[i])
      BY <2>3 DEF Situation
    <3>3. AtUpdate(MODES[i])'
      BY <2>1, <2>3, <3>1, <3>2, UpdateGoesOn
    <3>4. at'.scenario = 2 * i - 1
      BY <2>2, <2>3
    <3>5. QED BY <3>3, <3>4 DEF Situation
  <2>4. ASSUME NEW i \in 1..5, at.scenario = 2 * i, main[at.scenario] = scenario_late(MODES[i]), at.step \in 1..6
        PROVE  Situation'
    <3>1. at.step \in 1..5
      <4>1. Len(scenario_late(MODES[i])) = 6
        BY LateSteps
      <4>2. QED BY <2>2, <2>4, <4>1
    <3>2. AtLate(MODES[i])
      BY <2>4 DEF Situation
    <3>3. AtLate(MODES[i])'
      BY <2>1, <2>4, <3>1, <3>2, LateGoesOn
    <3>4. at'.scenario = 2 * i
      BY <2>2, <2>4
    <3>5. QED BY <3>3, <3>4 DEF Situation
  <2>5. ASSUME at.scenario = 11, main[at.scenario] = scenario_sibling, at.step \in 1..8 PROVE Situation'
    <3>1. at.step \in 1..7
      BY <2>2, <2>5, SiblingSteps
    <3>2. AtSibling
      BY <2>5 DEF Situation
    <3>3. AtSibling'
      BY <2>1, <2>5, <3>1, <3>2, SiblingGoesOn
    <3>4. at'.scenario = 11
      BY <2>2, <2>5
    <3>5. QED BY <3>3, <3>4 DEF Situation
  <2>6. ASSUME at.scenario = 12, main[at.scenario] = federated_link, at.step \in 1..3 PROVE Situation'
    <3>1. at.step \in 1..2
      BY <2>2, <2>6, LinkSteps
    <3>2. AtLink
      BY <2>6 DEF Situation
    <3>3. AtLink'
      BY <2>1, <2>6, <3>1, <3>2, LinkGoesOn
    <3>4. at'.scenario = 12
      BY <2>2, <2>6
    <3>5. QED BY <3>3, <3>4 DEF Situation
  <2>7. QED BY <1>1, <2>1, <2>3, <2>4, <2>5, <2>6, Places, Zenon
<1>4. QED BY <1>2, <1>3

LEMMA PositionKept ==
  ASSUME Position, Running, Succeeds \/ Fails, UNCHANGED <<mapper, hasLog>>, disturbed' \in Nat
  PROVE  Position'
<1> DEFINE s == at.scenario
<1>1. s \in DOMAIN main /\ at \in [scenario : Nat, step : Nat]
  BY DEF Running, Position
<1>2. main' = main
  BY DEF main, log_checks
<1>3. DOMAIN main = 1..Len(main) /\ Len(main) \in Nat
  BY MainIs DEF Position
<1>4. DOMAIN main[s] = 1..Len(main[s]) /\ Len(main[s]) \in Nat \ {0} /\ at.step \in DOMAIN main[s]
  BY <1>1, Lengths DEF Position
<1>5. ASSUME at' = [scenario |-> s + 1, step |-> 1] PROVE Position'
  <2>1. s + 1 \in DOMAIN main => 1 \in DOMAIN main[s + 1]
    BY Lengths
  <2>2. QED BY <1>1, <1>2, <1>3, <1>5, <2>1 DEF Position
<1>6. ASSUME at' = [scenario |-> s, step |-> at.step + 1], ~LastStep PROVE Position'
  <2>1. at.step + 1 \in DOMAIN main[s]
    BY <1>1, <1>4, <1>6 DEF LastStep
  <2>2. QED BY <1>1, <1>2, <1>3, <1>6, <2>1 DEF Position
<1>7. QED BY <1>5, <1>6 DEF Succeeds, Fails

LEMMA JudgedKept ==
  ASSUME Position, Judged, Running, Succeeds \/ Fails, UNCHANGED <<hasLog, exit>>
  PROVE  Judged'
<1> DEFINE s == at.scenario
<1>1. s \in DOMAIN main /\ at \in [scenario : Nat, step : Nat] /\ exit = "none"
  BY DEF Running, Position
<1>2. main' = main
  BY DEF main, log_checks
<1>3. DOMAIN main = 1..Len(main) /\ Len(main) \in Nat
  BY MainIs DEF Position
<1>4. ASSUME NEW t \in DOMAIN main, t < at'.scenario PROVE t \in passed' \cup failures'
  <2>1. t < s => t \in passed \cup failures
    BY <1>4 DEF Judged
  <2>2. passed \subseteq passed' /\ failures \subseteq failures'
    BY DEF Succeeds, Fails
  <2>3. t < s \/ (t = s /\ at'.scenario = s + 1)
    BY <1>1, <1>3, <1>4 DEF Succeeds, Fails
  <2>4. at'.scenario = s + 1 => s \in passed' \cup failures'
    BY <1>1 DEF Succeeds, Fails
  <2>5. QED BY <2>1, <2>2, <2>3, <2>4
<1>5. at'.scenario # 0
  BY <1>1, <1>3 DEF Succeeds, Fails
<1>6. QED BY <1>1, <1>2, <1>4, <1>5 DEF Judged

-----------------------------------------------------------------------------
(***************************************************************************)
(* Logins and checks.                                                      *)
(***************************************************************************)

LEMMA NowInUpdate ==
  ASSUME NEW i \in 1..5, main[at.scenario] = scenario_update(MODES[i]), at.step \in 1..7
  PROVE  LET m == MODES[i]  k == at.step IN
         /\ Now.does = "login" =>
              \/ k = 3 /\ Now.level = "INFO"
              \/ k = 6 /\ Now.level = IF m.syncs THEN "INFO" ELSE "none"
         /\ Now.does = "groups" =>
              \/ k = 4 /\ Now.groups = {"user"}
              \/ k = 7 /\ Now.groups = IF m.syncs THEN {"admin"} ELSE {"user"}
         /\ Now.does \in {"configure", "upstream", "login", "groups"}
         /\ k = 3 => Now.does = "login"
         /\ k = 7 => Now.does = "groups"
<1> DEFINE m == MODES[i]
           k == at.step
<1>1. CASE k = 1
  <2>1. Now = configure(m.idp, m.mode, FALSE) BY <1>1, UpdateSteps DEF Now
  <2>2. Now.does = "configure" BY <2>1 DEF configure
  <2>3. QED BY <1>1, <2>2
<1>2. CASE k = 2
  <2>1. Now = set_upstream_groups({"user"}) BY <1>2, UpdateSteps DEF Now
  <2>2. QED BY <1>2, <2>1, WhatSteps
<1>3. CASE k = 3
  <2>1. Now = login("INFO") BY <1>3, UpdateSteps DEF Now
  <2>2. QED BY <1>3, <2>1, WhatSteps
<1>4. CASE k = 4
  <2>1. Now = expect_groups({"user"}) BY <1>4, UpdateSteps DEF Now
  <2>2. QED BY <1>4, <2>1, WhatSteps
<1>5. CASE k = 5
  <2>1. Now = set_upstream_groups({"admin"}) BY <1>5, UpdateSteps DEF Now
  <2>2. QED BY <1>5, <2>1, WhatSteps
<1>6. CASE k = 6
  <2>1. Now = login(IF m.syncs THEN "INFO" ELSE "none") BY <1>6, UpdateSteps DEF Now
  <2>2. QED BY <1>6, <2>1, WhatSteps
<1>7. CASE k = 7
  <2>1. Now = expect_groups(IF m.syncs THEN {"admin"} ELSE {"user"}) BY <1>7, UpdateSteps DEF Now
  <2>2. QED BY <1>7, <2>1, WhatSteps
<1>8. QED BY <1>1, <1>2, <1>3, <1>4, <1>5, <1>6, <1>7

LEMMA NowInLate ==
  ASSUME NEW i \in 1..5, main[at.scenario] = scenario_late(MODES[i]), at.step \in 1..6
  PROVE  LET m == MODES[i]  k == at.step IN
         /\ Now.does = "login" =>
              \/ k = 2 /\ Now.level = "DEBUG"
              \/ k = 5 /\ Now.level = IF m.syncs THEN "INFO" ELSE "none"
         /\ Now.does = "groups" =>
              \/ k = 3 /\ Now.groups = {}
              \/ k = 6 /\ Now.groups = IF m.syncs THEN {"user"} ELSE {}
         /\ Now.does \in {"configure", "upstream", "login", "groups"}
         /\ k = 2 => Now.does = "login"
<1> DEFINE m == MODES[i]
           k == at.step
<1>1. CASE k = 1
  <2>1. Now = configure(m.idp, m.mode, FALSE) BY <1>1, LateSteps DEF Now
  <2>2. Now.does = "configure" BY <2>1 DEF configure
  <2>3. QED BY <1>1, <2>2
<1>2. CASE k = 2
  <2>1. Now = login("DEBUG") BY <1>2, LateSteps DEF Now
  <2>2. QED BY <1>2, <2>1, WhatSteps
<1>3. CASE k = 3
  <2>1. Now = expect_groups({}) BY <1>3, LateSteps DEF Now
  <2>2. QED BY <1>3, <2>1, WhatSteps
<1>4. CASE k = 4
  <2>1. Now = set_upstream_groups({"user"}) BY <1>4, LateSteps DEF Now
  <2>2. QED BY <1>4, <2>1, WhatSteps
<1>5. CASE k = 5
  <2>1. Now = login(IF m.syncs THEN "INFO" ELSE "none") BY <1>5, LateSteps DEF Now
  <2>2. QED BY <1>5, <2>1, WhatSteps
<1>6. CASE k = 6
  <2>1. Now = expect_groups(IF m.syncs THEN {"user"} ELSE {}) BY <1>6, LateSteps DEF Now
  <2>2. QED BY <1>6, <2>1, WhatSteps
<1>7. QED BY <1>1, <1>2, <1>3, <1>4, <1>5, <1>6

LEMMA NowInSibling ==
  ASSUME main[at.scenario] = scenario_sibling, at.step \in 1..8
  PROVE  LET k == at.step IN
         /\ Now.does = "login" => \/ k = 3 /\ Now.level = "INFO"
                                  \/ k = 7 /\ Now.level = "DEBUG"
         /\ Now.does = "groups" => \/ k = 4 /\ Now.groups = {"under", "user"}
                                   \/ k = 8 /\ Now.groups = {"under", "user", "x"}
         /\ Now.does = "not_mangled" => k = 5
         /\ Now.does \in {"configure", "upstream", "login", "groups", "not_mangled", "join_sibling"}
<1> DEFINE k == at.step
<1>1. CASE k = 1
  <2>1. Now = configure("IMPORT", "FORCE", TRUE) BY <1>1, SiblingSteps DEF Now
  <2>2. Now.does = "configure" BY <2>1 DEF configure
  <2>3. QED BY <1>1, <2>2
<1>2. CASE k = 2
  <2>1. Now = set_upstream_groups({"user", "x"}) BY <1>2, SiblingSteps DEF Now
  <2>2. QED BY <1>2, <2>1, WhatSteps
<1>3. CASE k = 3
  <2>1. Now = login("INFO") BY <1>3, SiblingSteps DEF Now
  <2>2. QED BY <1>3, <2>1, WhatSteps
<1>4. CASE k = 4
  <2>1. Now = expect_groups({"under", "user"}) BY <1>4, SiblingSteps DEF Now
  <2>2. QED BY <1>4, <2>1, WhatSteps
<1>5. CASE k = 5
  <2>1. Now = Do("not_mangled") BY <1>5, SiblingSteps DEF Now
  <2>2. QED BY <1>5, <2>1, WhatSteps
<1>6. CASE k = 6
  <2>1. Now = Do("join_sibling") BY <1>6, SiblingSteps DEF Now
  <2>2. QED BY <1>6, <2>1, WhatSteps
<1>7. CASE k = 7
  <2>1. Now = login("DEBUG") BY <1>7, SiblingSteps DEF Now
  <2>2. QED BY <1>7, <2>1, WhatSteps
<1>8. CASE k = 8
  <2>1. Now = expect_groups({"under", "user", "x"}) BY <1>8, SiblingSteps DEF Now
  <2>2. QED BY <1>8, <2>1, WhatSteps
<1>9. QED BY <1>1, <1>2, <1>3, <1>4, <1>5, <1>6, <1>7, <1>8

LEMMA NowInLink ==
  ASSUME main[at.scenario] = federated_link, at.step \in 1..3
  PROVE  /\ Now.does = "login" => at.step = 2 /\ Now.level = "DEBUG"
         /\ Now.does \in {"configure", "login", "link"}
<1> DEFINE k == at.step
<1>1. CASE k = 1
  <2>1. Now = configure("IMPORT", "IMPORT", FALSE) BY <1>1, LinkSteps DEF Now
  <2>2. Now.does = "configure" BY <2>1 DEF configure
  <2>3. QED BY <1>1, <2>2
<1>2. CASE k = 2
  <2>1. Now = login("DEBUG") BY <1>2, LinkSteps DEF Now
  <2>2. QED BY <1>2, <2>1, WhatSteps
<1>3. CASE k = 3
  <2>1. Now = Do("link") BY <1>3, LinkSteps DEF Now
  <2>2. QED BY <1>3, <2>1, WhatSteps
<1>4. QED BY <1>1, <1>2, <1>3

\* A mapper without a fault of its memberships removes what it manages.
LEMMA ManagedAll ==
  ASSUME mapper \in Regular \/ mapper = "right"
  PROVE  "user" \in Managed /\ "admin" \in Managed /\ mapper # "compares_characters"
         /\ mapper # "always_INFO" /\ \A m : m.syncs \in BOOLEAN => (Syncing(m) <=> m.syncs)
BY DEF Managed, Regular, Syncing

\* A regular mapper writes the line that the step expects, or none.
LoginAsExpected ==
  /\ Now.level \in {"INFO", "DEBUG", "none"}
  /\ mapper \in Regular =>
       IF Now.level = "none" THEN ~SyncsNow ELSE SyncsNow /\ Level = Now.level

LEMMA LoginIsAsExpected ==
  ASSUME Position, Situation, Running, Now.does = "login"
  PROVE  LoginAsExpected
<1> DEFINE s == at.scenario
           k == at.step
<1>1. ASSUME NEW i \in 1..5, s = 2 * i - 1, main[s] = scenario_update(MODES[i]), k \in 1..7
      PROVE  LoginAsExpected
  <2> DEFINE m == MODES[i]
  <2>1. AtUpdate(m)
    BY <1>1 DEF Situation
  <2>2. CASE k = 3 /\ Now.level = "INFO"
    <3>1. config = Plainly(m) /\ ~config.prefixed /\ upstream = {"user"} /\ broker = NoUser
      BY <2>1, <2>2 DEF AtUpdate, Plainly
    <3>2. SyncsNow /\ Has = {"user"} /\ Had = {}
      BY <3>1, LoginPlain DEF SyncsNow
    <3>3. "INFO" # "none" /\ Has # Had
      BY <3>2
    <3>4. QED BY <2>2, <3>2, <3>3 DEF LoginAsExpected, Level
  <2>3. CASE k = 6 /\ Now.level = IF m.syncs THEN "INFO" ELSE "none"
    <3>1. config = Plainly(m) /\ ~config.prefixed /\ upstream = {"admin"} /\ broker = {"user"}
      BY <2>1, <2>3 DEF AtUpdate, Plainly
    <3>2. SyncsNow <=> Syncing(m)
      BY <3>1, SyncsNowIs, NoUserIs DEF Plainly
    <3>3. Had = {"user"} /\ Has = {"admin"} \cup ({"user"} \ Managed)
      BY <3>1, LoginPlain, NoUserIs
    <3>4. "admin" \in Has /\ "admin" \notin Had
      BY <3>3
    <3>5. Level = "INFO"
      BY <3>4 DEF Level
    <3>6. mapper \in Regular => (SyncsNow <=> m.syncs)
      BY <3>2, ModesAre, ManagedAll
    <3>7. "INFO" # "none"
      OBVIOUS
    <3>8. CASE m.syncs
      BY <2>3, <3>5, <3>6, <3>7, <3>8 DEF LoginAsExpected
    <3>9. CASE ~m.syncs
      BY <2>3, <3>5, <3>6, <3>7, <3>9 DEF LoginAsExpected
    <3>10. QED BY <3>8, <3>9
  <2>4. QED BY <1>1, <2>2, <2>3, NowInUpdate
<1>2. ASSUME NEW i \in 1..5, s = 2 * i, main[s] = scenario_late(MODES[i]), k \in 1..6
      PROVE  LoginAsExpected
  <2> DEFINE m == MODES[i]
  <2>1. AtLate(m)
    BY <1>2 DEF Situation
  <2>2. CASE k = 2 /\ Now.level = "DEBUG"
    <3>1. config = Plainly(m) /\ ~config.prefixed /\ upstream = {} /\ broker = NoUser
      BY <2>1, <2>2 DEF AtLate, Plainly
    <3>2. SyncsNow /\ Has = {} /\ Had = {}
      BY <3>1, LoginPlain DEF SyncsNow
    <3>3. mapper \in Regular => Level = "DEBUG"
      BY <3>2, ManagedAll DEF Level
    <3>4. QED BY <2>2, <3>2, <3>3 DEF LoginAsExpected
  <2>3. CASE k = 5 /\ Now.level = IF m.syncs THEN "INFO" ELSE "none"
    <3>1. config = Plainly(m) /\ ~config.prefixed /\ upstream = {"user"} /\ broker = {}
      BY <2>1, <2>3 DEF AtLate, Plainly
    <3>2. SyncsNow <=> Syncing(m)
      BY <3>1, SyncsNowIs, NoUserIs DEF Plainly
    <3>3. Had = {} /\ Has = {"user"}
      BY <3>1, LoginPlain, NoUserIs
    <3>4. Has # Had
      BY <3>3
    <3>5. Level = "INFO"
      BY <3>4 DEF Level
    <3>6. mapper \in Regular => (SyncsNow <=> m.syncs)
      BY <3>2, ModesAre, ManagedAll
    <3>7. "INFO" # "none"
      OBVIOUS
    <3>8. CASE m.syncs
      BY <2>3, <3>5, <3>6, <3>7, <3>8 DEF LoginAsExpected
    <3>9. CASE ~m.syncs
      BY <2>3, <3>5, <3>6, <3>7, <3>9 DEF LoginAsExpected
    <3>10. QED BY <3>8, <3>9
  <2>4. QED BY <1>2, <2>2, <2>3, NowInLate
<1>3. ASSUME s = 11, main[s] = scenario_sibling, k \in 1..8
      PROVE  LoginAsExpected
  <2>1. AtSibling
    BY <1>3 DEF Situation
  <2>2. CASE k = 3 /\ Now.level = "INFO"
    <3>1. config.prefixed /\ upstream = {"user", "x"} /\ broker = NoUser
      BY <2>1, <2>2 DEF AtSibling
    <3>2. SyncsNow /\ Has = {"user", Under} /\ Had = {}
      BY <3>1, LoginPrefixed DEF SyncsNow
    <3>3. Has # Had
      BY <3>2
    <3>4. QED BY <2>2, <3>2, <3>3 DEF LoginAsExpected, Level
  <2>3. CASE k = 7 /\ Now.level = "DEBUG"
    <3>1. /\ config.prefixed /\ config.mode = "FORCE" /\ upstream = {"user", "x"}
          /\ broker = {"user", "under", "x"} /\ mapper # "compares_characters"
      BY <2>1, <2>3 DEF AtSibling
    <3>2. Has = Had
      BY <3>1, LoginPrefixed
    <3>3. mapper \in Regular => SyncsNow
      BY <3>1 DEF SyncsNow, Mode, Regular
    <3>4. mapper \in Regular => Level = "DEBUG"
      BY <3>2, ManagedAll DEF Level
    <3>5. QED BY <2>3, <3>3, <3>4 DEF LoginAsExpected
  <2>4. QED BY <1>3, <2>2, <2>3, NowInSibling
<1>4. ASSUME s = 12, main[s] = federated_link, k \in 1..3
      PROVE  LoginAsExpected
  <2>1. k = 2 /\ Now.level = "DEBUG"
    BY <1>4, NowInLink
  <2>2. ~config.prefixed /\ upstream = {} /\ broker = NoUser
    BY <1>4, <2>1 DEF Situation, AtLink
  <2>3. SyncsNow /\ Has = {} /\ Had = {}
    BY <2>2, LoginPlain DEF SyncsNow
  <2>4. mapper \in Regular => Level = "DEBUG"
    BY <2>3, ManagedAll DEF Level
  <2>5. QED BY <2>1, <2>3, <2>4 DEF LoginAsExpected
<1>5. ~(Now = Do("warning_free") \/ Now = Do("one_summary_per_sync"))
  BY WhatSteps
<1>6. QED BY <1>1, <1>2, <1>3, <1>4, <1>5, Places, Zenon

\* The groups a right mapper has led to are those the scenario expects.
LEMMA RightGroups ==
  ASSUME Position, Situation, Running, mapper = "right", Now.does = "groups"
  PROVE  broker = Now.groups
<1> DEFINE s == at.scenario
           k == at.step
<1>1. ASSUME NEW i \in 1..5, s = 2 * i - 1, main[s] = scenario_update(MODES[i]), k \in 1..7
      PROVE  broker = Now.groups
  <2> DEFINE m == MODES[i]
  <2>1. AtUpdate(m)
    BY <1>1 DEF Situation
  <2>2. CASE k = 4 /\ Now.groups = {"user"}
    BY <2>1, <2>2 DEF AtUpdate
  <2>3. CASE k = 7 /\ Now.groups = IF m.syncs THEN {"admin"} ELSE {"user"}
    <3>1. Syncing(m) <=> m.syncs
      BY ModesAre, ManagedAll
    <3>2. {"admin"} \cup ({"user"} \ Managed) = {"admin"}
      BY ManagedAll
    <3>3. broker = IF Syncing(m) THEN {"admin"} \cup ({"user"} \ Managed) ELSE {"user"}
      BY <2>1, <2>3 DEF AtUpdate
    <3>4. CASE m.syncs BY <2>3, <3>1, <3>2, <3>3, <3>4
    <3>5. CASE ~m.syncs BY <2>3, <3>1, <3>3, <3>5
    <3>6. QED BY <3>4, <3>5
  <2>4. QED BY <1>1, <2>2, <2>3, NowInUpdate
<1>2. ASSUME NEW i \in 1..5, s = 2 * i, main[s] = scenario_late(MODES[i]), k \in 1..6
      PROVE  broker = Now.groups
  <2> DEFINE m == MODES[i]
  <2>1. AtLate(m)
    BY <1>2 DEF Situation
  <2>2. CASE k = 3 /\ Now.groups = {}
    BY <2>1, <2>2 DEF AtLate
  <2>3. CASE k = 6 /\ Now.groups = IF m.syncs THEN {"user"} ELSE {}
    <3>1. Syncing(m) <=> m.syncs
      BY ModesAre, ManagedAll
    <3>2. broker = IF Syncing(m) THEN {"user"} ELSE {}
      BY <2>1, <2>3 DEF AtLate
    <3>3. CASE m.syncs BY <2>3, <3>1, <3>2, <3>3
    <3>4. CASE ~m.syncs BY <2>3, <3>1, <3>2, <3>4
    <3>5. QED BY <3>3, <3>4
  <2>4. QED BY <1>2, <2>2, <2>3, NowInLate
<1>3. ASSUME s = 11, main[s] = scenario_sibling, k \in 1..8
      PROVE  broker = Now.groups
  <2>1. AtSibling
    BY <1>3 DEF Situation
  <2>2. CASE k = 4 /\ Now.groups = {"under", "user"}
    <3>1. broker = {"user", Under} /\ Under = "under"
      BY <2>1, <2>2 DEF AtSibling, Under
    <3>2. QED BY <2>2, <3>1
  <2>3. CASE k = 8 /\ Now.groups = {"under", "user", "x"}
    <3>1. broker = {"user", "under", "x"}
      BY <2>1, <2>3 DEF AtSibling
    <3>2. QED BY <2>3, <3>1
  <2>4. QED BY <1>3, <2>2, <2>3, NowInSibling
<1>4. ASSUME s = 12, main[s] = federated_link, k \in 1..3
      PROVE  FALSE
  BY <1>4, NowInLink
<1>5. ~(Now = Do("warning_free") \/ Now = Do("one_summary_per_sync"))
  BY WhatSteps
<1>6. QED BY <1>1, <1>2, <1>3, <1>4, <1>5, Places, Zenon

\* What is behind after a step was behind or is the step.
LEMMA BeyondIs ==
  ASSUME Position, Succeeds \/ Fails, NEW s \in Nat, NEW k \in Nat \ {0}, Beyond(s, k)', k < Len(main[s])
  PROVE  Beyond(s, k) \/ (at.scenario = s /\ at.step = k) \/ Fails
<1>1. at \in [scenario : Nat, step : Nat]
  BY DEF Position
<1>2. CASE Fails BY <1>2
<1>3. CASE Succeeds /\ LastStep
  <2>1. at'.scenario = at.scenario + 1 /\ at'.step = 1
    BY <1>3 DEF Succeeds
  <2>2. at.scenario >= s
    BY <1>1, <2>1 DEF Beyond
  <2>3. CASE at.scenario > s BY <2>3 DEF Beyond
  <2>4. CASE at.scenario = s
    <3>1. at.step = Len(main[s])
      BY <1>3, <2>4 DEF LastStep
    <3>2. QED BY <1>1, <2>4, <3>1 DEF Beyond
  <2>5. QED BY <1>1, <2>2, <2>3, <2>4
<1>4. CASE Succeeds /\ ~LastStep
  <2>1. at'.scenario = at.scenario /\ at'.step = at.step + 1
    BY <1>4 DEF Succeeds
  <2>2. QED BY <1>1, <2>1 DEF Beyond
<1>5. QED BY <1>2, <1>3, <1>4

LEMMA LogKept ==
  ASSUME Position, Situation, Log, Acts, rejected' = rejected
  PROVE  Log'
<1>1. Running /\ (Succeeds \/ Fails) /\ mapper' = mapper
  BY ActsJudge
<1>2. failures' = {} => failures = {} /\ ~Fails
  BY <1>1 DEF Succeeds, Fails
<1>3. Count' = Count /\ Count \in {1, 2}
  BY <1>1 DEF Count
<1>4. main[1] = scenario_update(MODES[1]) /\ main[2] = scenario_late(MODES[1])
  BY MainIs DEF Position
<1>5. Len(main[1]) = 7 /\ Len(main[2]) = 6
  BY <1>4, UpdateSteps, LateSteps
<1>6. ASSUME failures' = {}, Beyond(1, 3)'
      PROVE  failures = {} /\ (Beyond(1, 3) \/ (at.scenario = 1 /\ at.step = 3))
  <2>1. 3 < Len(main[1]) /\ 3 \in Nat \ {0}
    BY <1>5
  <2>2. QED BY <1>1, <1>2, <1>6, <2>1, BeyondIs
<1>7. ASSUME failures' = {}, Beyond(2, 2)'
      PROVE  failures = {} /\ (Beyond(2, 2) \/ (at.scenario = 2 /\ at.step = 2))
  <2>1. 2 < Len(main[2]) /\ 2 \in Nat \ {0}
    BY <1>5
  <2>2. QED BY <1>1, <1>2, <1>7, <2>1, BeyondIs
<1>8. at.scenario = 1 /\ at.step = 3 => Now.does = "login" /\ Now.level = "INFO"
  BY <1>4, NowInUpdate
<1>9. at.scenario = 2 /\ at.step = 2 => Now.does = "login" /\ Now.level = "DEBUG"
  BY <1>4, NowInLate
<1>10. CASE Now.does # "login"
  <2>1. ~Login
    BY <1>10 DEF Login, Does
  <2>2. lines' = lines /\ warned' = warned /\ expected' = expected
    BY <2>1, Effects
  <2>3. mapper \in Regular /\ failures' = {} => \A l \in Levels : lines'[l] = Count' * expected'[l]
    BY <1>2, <1>3, <2>2 DEF Log
  <2>4. failures' = {} /\ Beyond(1, 3)' => expected'["INFO"] > 0 /\ (mapper = "warns" => warned')
    BY <1>6, <1>8, <1>10, <2>2, Zenon DEF Log
  <2>5. failures' = {} /\ Beyond(2, 2)' => expected'["DEBUG"] > 0
    BY <1>7, <1>9, <1>10, <2>2, Zenon DEF Log
  <2>6. QED BY <1>1, <2>2, <2>3, <2>4, <2>5, Zenon DEF Log
<1>11. CASE Now.does = "login"
  <2>1. Login /\ LoginAsExpected
    BY <1>1, <1>11, ActIs, LoginIsAsExpected
  <2>2. /\ lines' = IF SyncsNow THEN [lines EXCEPT ![Level] = @ + Count] ELSE lines
        /\ warned' = (warned \/ mapper = "warns")
        /\ expected' = IF Now.level = "none" THEN expected ELSE [expected EXCEPT ![Now.level] = @ + 1]
    BY <2>1, LoginIs DEF Login, expect_sync
  <2>3. lines \in [Levels -> Nat] /\ expected \in [Levels -> Nat] /\ Levels = {"DEBUG", "INFO", "WARN"}
    BY DEF Log, Levels
  <2>4. Level \in Levels /\ Now.level \in {"INFO", "DEBUG", "none"}
    BY <2>1 DEF Level, Levels, LoginAsExpected
  <2>5. lines' \in [Levels -> Nat] /\ expected' \in [Levels -> Nat]
    BY <1>3, <2>2, <2>3, <2>4
  <2>6. ASSUME mapper \in Regular, failures' = {}, NEW l \in Levels PROVE lines'[l] = Count' * expected'[l]
    <3>1. lines[l] = Count * expected[l]
      BY <1>2, <2>6 DEF Log
    <3>2. CASE Now.level = "none"
      <4>1. lines' = lines /\ expected' = expected
        BY <2>1, <2>2, <2>6, <3>2 DEF LoginAsExpected
      <4>2. QED BY <1>3, <3>1, <4>1
    <3>3. CASE Now.level # "none"
      <4>1. /\ lines' = [lines EXCEPT ![Now.level] = @ + Count]
            /\ expected' = [expected EXCEPT ![Now.level] = @ + 1]
        BY <2>1, <2>2, <2>6, <3>3 DEF LoginAsExpected
      <4>2. CASE l = Now.level
        <5>1. lines'[l] = lines[l] + Count /\ expected'[l] = expected[l] + 1
          BY <2>3, <4>1, <4>2
        <5>2. expected[l] \in Nat
          BY <2>3
        <5>3. QED BY <1>3, <3>1, <5>1, <5>2
      <4>3. CASE l # Now.level
        <5>1. lines'[l] = lines[l] /\ expected'[l] = expected[l]
          BY <2>3, <4>1, <4>3
        <5>2. QED BY <1>3, <3>1, <5>1
      <4>4. QED BY <4>2, <4>3
    <3>4. QED BY <3>2, <3>3
  <2>7. ASSUME mapper = "always_INFO" PROVE lines'["DEBUG"] = 0
    <3>1. Level = "INFO" /\ lines["DEBUG"] = 0
      BY <2>7 DEF Level, Log
    <3>2. QED BY <2>2, <2>3, <3>1
  <2>8. warned' \in BOOLEAN /\ (mapper = "right" => ~warned')
    <3>1. mapper = "right" => ~(mapper = "warns")
      OBVIOUS
    <3>2. QED BY <2>2, <3>1, Zenon DEF Log
  <2>9. ASSUME failures' = {}, Beyond(1, 3)' PROVE expected'["INFO"] > 0 /\ (mapper = "warns" => warned')
    <3>1. expected["INFO"] > 0 \/ Now.level = "INFO"
      BY <1>6, <1>8, <2>9 DEF Log
    <3>2. expected'["INFO"] > 0
      BY <2>2, <2>3, <2>4, <3>1
    <3>3. mapper = "warns" => warned'
      BY <2>2, Zenon
    <3>4. QED BY <3>2, <3>3
  <2>10. ASSUME failures' = {}, Beyond(2, 2)' PROVE expected'["DEBUG"] > 0
    <3>1. expected["DEBUG"] > 0 \/ Now.level = "DEBUG"
      BY <1>7, <1>9, <2>10 DEF Log
    <3>2. QED BY <2>2, <2>3, <2>4, <3>1
  <2>11. QED BY <1>1, <2>5, <2>6, <2>7, <2>8, <2>9, <2>10, Zenon DEF Log
<1>12. QED BY <1>10, <1>11

\* The scenario that a faulty mapper does not pass, or the check of the log.
LEMMA CaughtKept ==
  ASSUME Position, Situation, Log, Caught, Acts, rejected' = rejected
  PROVE  Caught'
<1> SUFFICES ASSUME failures' = {} PROVE Caught'
  BY DEF Caught
<1> DEFINE s == at.scenario
<1>1. Running /\ Succeeds /\ ~Fails /\ mapper' = mapper /\ hasLog' = hasLog /\ failures = {}
  BY ActsJudge DEF Succeeds, Fails
<1>2. /\ at \in [scenario : Nat, step : Nat]
      /\ (at'.scenario = s /\ ~LastStep) \/ (at'.scenario = s + 1 /\ LastStep)
  BY <1>1 DEF Succeeds, Position
<1>3. ASSUME NEW i \in 1..5, s = 2 * i - 1, LastStep
      PROVE  broker = (IF MODES[i].syncs THEN {"admin"} ELSE {"user"})
             /\ broker = IF Syncing(MODES[i]) THEN {"admin"} \cup ({"user"} \ Managed) ELSE {"user"}
  <2>1. main[s] = scenario_update(MODES[i])
    BY <1>3, MainIs DEF Position
  <2>2. at.step = 7
    BY <1>3, <2>1, UpdateSteps DEF LastStep
  <2>3. Now.does = "groups" /\ Now.groups = IF MODES[i].syncs THEN {"admin"} ELSE {"user"}
    BY <2>1, <2>2, NowInUpdate
  <2>4. broker = Now.groups
    BY <1>1, <2>3, ActIs, GroupsChecked
  <2>5. AtUpdate(MODES[i])
    BY <1>3 DEF Situation
  <2>6. QED BY <2>2, <2>3, <2>4, <2>5 DEF AtUpdate
<1>4. MODES[1].syncs = FALSE /\ MODES[3].syncs = TRUE
  BY DEF MODES, Row
<1>5. {"admin"} # {"user"} /\ {"admin"} \cup {"user"} # {"admin"}
  OBVIOUS
<1>6. ASSUME mapper = "syncs_always" PROVE at'.scenario <= 1
  <2>1. s <= 1
    BY <1>1, <1>6 DEF Caught
  <2>2. CASE s = 1 /\ LastStep
    <3>1. broker = {"user"}
      BY <1>3, <1>4, <2>2
    <3>2. Syncing(MODES[1]) /\ "user" \in Managed
      BY <1>6 DEF Syncing, Managed
    <3>3. broker = {"admin"}
      BY <1>3, <2>2, <3>2
    <3>4. QED BY <1>5, <3>1, <3>3
  <2>3. s # 0
    BY <1>1, MainIs DEF Running, Position
  <2>4. QED BY <1>2, <2>1, <2>2, <2>3
<1>7. ASSUME mapper \in {"syncs_once", "never_leaves"} PROVE at'.scenario <= 5
  <2>1. s <= 5
    BY <1>1, <1>7 DEF Caught
  <2>2. CASE s = 5 /\ LastStep
    <3>1. broker = {"admin"}
      BY <1>3, <1>4, <2>2
    <3>2. CASE mapper = "syncs_once"
      <4>1. ~Syncing(MODES[3])
        BY <3>2 DEF Syncing
      <4>2. broker = {"user"}
        BY <1>3, <2>2, <4>1
      <4>3. QED BY <1>5, <3>1, <4>2
    <3>3. CASE mapper = "never_leaves"
      <4>1. Syncing(MODES[3]) /\ Managed = {}
        BY <1>4, <3>3 DEF Syncing, Managed
      <4>2. broker = {"admin"} \cup {"user"}
        BY <1>3, <2>2, <4>1
      <4>3. QED BY <1>5, <3>1, <4>2
    <3>4. QED BY <1>7, <3>2, <3>3
  <2>3. QED BY <1>2, <2>1, <2>2
<1>8. ASSUME mapper = "compares_characters" PROVE at'.scenario <= 11
  <2>1. s <= 11
    BY <1>1, <1>8 DEF Caught
  <2>2. CASE s = 11 /\ LastStep
    <3>1. main[s] = scenario_sibling
      BY <2>2, MainIs DEF Position
    <3>2. at.step = 8
      BY <2>2, <3>1, SiblingSteps DEF LastStep
    <3>3. QED BY <1>8, <2>2, <3>2 DEF Situation, AtSibling
  <2>3. QED BY <1>2, <2>1, <2>2
<1>9. ASSUME mapper = "warns", hasLog PROVE at'.scenario <= 13
  <2>1. s <= 13
    BY <1>1, <1>9 DEF Caught
  <2>2. CASE s = 13
    <3>1. Now = Do("warning_free")
      BY <1>1, <2>2, Places
    <3>2. CheckLog /\ Judge(~warned)
      BY <3>1, WhatSteps, ActIs DEF CheckLog, Does
    <3>3. warned
      BY <1>1, <1>2, <1>9, <2>2 DEF Log, Beyond
    <3>4. QED BY <1>1, <3>2, <3>3, JudgeIs
  <2>3. QED BY <1>2, <2>1, <2>2
<1>10. ASSUME mapper \in {"writes_two_lines", "always_INFO"}, hasLog PROVE at'.scenario <= 14
  <2>1. s <= 14
    BY <1>1, <1>10 DEF Caught
  <2>2. CASE s = 14
    <3>1. Now = Do("one_summary_per_sync")
      BY <1>1, <2>2, Places
    <3>2. Judge(failures \cap DOMAIN Scenarios = {} /\ lines = expected)
      BY <3>1, WhatSteps, ActIs DEF CheckLog, Does
    <3>3. Beyond(1, 3) /\ Beyond(2, 2)
      BY <2>2 DEF Beyond
    <3>4. expected["INFO"] > 0 /\ expected["DEBUG"] > 0
      BY <1>1, <3>3 DEF Log
    <3>5. lines # expected
      <4>1. CASE mapper = "writes_two_lines"
        <5>1. lines["INFO"] = 2 * expected["INFO"] /\ expected["INFO"] \in Nat
          BY <1>1, <4>1 DEF Log, Regular, Levels, Count
        <5>2. QED BY <3>4, <5>1
      <4>2. CASE mapper = "always_INFO"
        BY <3>4, <4>2 DEF Log
      <4>3. QED BY <1>10, <4>1, <4>2
    <3>6. QED BY <1>1, <3>2, <3>5, JudgeIs
  <2>3. QED BY <1>2, <2>1, <2>2
<1>11. QED BY <1>1, <1>6, <1>7, <1>8, <1>9, <1>10, Zenon DEF Caught

\* The right mapper passes.
LEMMA RightSucceeds ==
  ASSUME Position, Situation, Log, Acts, rejected' = rejected, mapper = "right", failures = {}
  PROVE  failures' = {}
<1>1. Running
  BY ActIs
<1>2. ASSUME Succeeds PROVE failures' = {}
  BY <1>2 DEF Succeeds
<1>3. CASE Configure BY <1>2, <1>3, JudgeIs DEF Configure, Calling
<1>4. CASE SetUpstreamGroups BY <1>2, <1>4, JudgeIs DEF SetUpstreamGroups, Calling
<1>5. CASE Login BY <1>2, <1>5, JudgeIs DEF Login
<1>6. CASE CheckGroups
  BY <1>1, <1>2, <1>6, RightGroups, GroupsChecked DEF CheckGroups, Does
<1>7. CASE CheckNotMangled
  <2>1. Now.does = "not_mangled"
    BY <1>7 DEF CheckNotMangled, Does
  <2>2. at.scenario = 11 /\ at.step = 5
    BY <1>1, <2>1, Places, NowInUpdate, NowInLate, NowInSibling, NowInLink, WhatSteps
  <2>3. "mangled" \notin broker
    BY <2>2 DEF Situation, AtSibling
  <2>4. Judge("mangled" \notin broker /\ rejected' = rejected)
    BY <1>7 DEF CheckNotMangled, Calling
  <2>5. QED BY <1>2, <2>3, <2>4, JudgeIs
<1>8. CASE JoinSibling BY <1>2, <1>8, JudgeIs DEF JoinSibling, Calling
<1>9. CASE CheckLink BY <1>2, <1>9, JudgeIs DEF CheckLink, Calling
<1>10. CASE CheckLog
  <2>1. ~warned
    BY DEF Log
  <2>2. lines = expected
    <3>1. lines \in [Levels -> Nat] /\ expected \in [Levels -> Nat]
      BY DEF Log
    <3>2. Count = 1
      BY DEF Count
    <3>3. \A l \in Levels : lines[l] = expected[l]
      BY <3>1, <3>2 DEF Log, Regular
    <3>4. QED BY <3>1, <3>3
  <2>3. Judge(~warned) \/ Judge(failures \cap DOMAIN Scenarios = {} /\ lines = expected)
    BY <1>10 DEF CheckLog
  <2>4. QED BY <1>2, <2>1, <2>2, <2>3, JudgeIs
<1>11. QED BY <1>3, <1>4, <1>5, <1>6, <1>7, <1>8, <1>9, <1>10 DEF Acts

-----------------------------------------------------------------------------
(***************************************************************************)
(* Every step keeps the invariant.                                         *)
(***************************************************************************)

LEMMA ActsKeep ==
  ASSUME TestInv, Acts, rejected' = rejected
  PROVE  TestInv'
<1>1. /\ Running /\ (Succeeds \/ Fails)
      /\ UNCHANGED <<mapper, hasLog, disturbed, exit>>
  BY ActsJudge DEF TestInv
<1>2. Position' /\ Judged' /\ Situation' /\ Log' /\ Caught'
  BY <1>1, PositionKept, JudgedKept, SituationKept, LogKept, CaughtKept DEF TestInv, Position
<1>3. Passing'
  BY <1>1, RightSucceeds DEF TestInv, Passing
<1>4. QED BY <1>2, <1>3 DEF TestInv

\* A request that fails or is refused ends the scenario, whether Keycloak has
\* acted on it or not.
LEMMA DisturbKeeps ==
  ASSUME TestInv, Disturb \/ Refused
  PROVE  TestInv'
<1>1. Running /\ (UNCHANGED server \/ ServerLogin)
  BY DEF Disturb, Refused, MakesCalls
<1>2. Fails /\ exit' = exit /\ disturbed' = disturbed + 1 /\ expected' = expected /\ Running
  BY JudgeIs DEF Disturb, Refused, MakesCalls, TestInv
<1>3. UNCHANGED <<mapper, hasLog>>
  BY <1>1, LoginIs DEF server
<1>4. failures' # {} /\ at'.step = 1 /\ disturbed' > 0 /\ disturbed' \in Nat
  BY <1>2 DEF Fails, TestInv, Position
<1>5. Position' /\ Judged' /\ Situation'
  BY <1>2, <1>3, <1>4, PositionKept, JudgedKept, SituationStarts DEF TestInv
<1>6. /\ lines' \in [Levels -> Nat] /\ (mapper = "always_INFO" => lines'["DEBUG"] = 0)
      /\ warned' \in BOOLEAN /\ (mapper = "right" => ~warned')
  <2>1. /\ lines \in [Levels -> Nat] /\ (mapper = "always_INFO" => lines["DEBUG"] = 0)
        /\ warned \in BOOLEAN /\ (mapper = "right" => ~warned)
    BY DEF TestInv, Log
  <2>2. CASE UNCHANGED server
    BY <2>1, <2>2 DEF server
  <2>3. CASE ServerLogin
    <3>1. /\ lines' = IF SyncsNow THEN [lines EXCEPT ![Level] = @ + Count] ELSE lines
          /\ warned' = (warned \/ mapper = "warns")
      BY <2>3, LoginIs
    <3>2. Count \in Nat /\ Level \in Levels /\ (mapper = "always_INFO" => Level = "INFO")
      BY DEF Count, Level, Levels
    <3>3. lines' \in [Levels -> Nat]
      BY <2>1, <3>1, <3>2
    <3>4. mapper = "always_INFO" => lines'["DEBUG"] = 0
      BY <2>1, <3>1, <3>2 DEF Levels
    <3>5. mapper = "right" => ~(mapper = "warns")
      OBVIOUS
    <3>6. warned' \in BOOLEAN /\ (mapper = "right" => ~warned')
      BY <2>1, <3>1, <3>5, Zenon
    <3>7. QED BY <3>3, <3>4, <3>6
  <2>4. QED BY <1>1, <2>2, <2>3
<1>7. Log' /\ Caught' /\ Passing'
  <2>1. expected' \in [Levels -> Nat]
    BY <1>2 DEF TestInv, Log
  <2>2. Log'
    BY <1>3, <1>4, <1>6, <2>1, Zenon DEF Log
  <2>3. Caught' /\ Passing'
    BY <1>3, <1>4 DEF Caught, Passing
  <2>4. QED BY <2>2, <2>3
<1>8. QED BY <1>5, <1>7 DEF TestInv

\* The setup leads to the first scenario.
LEMMA SetupKeeps ==
  ASSUME TestInv, Setup
  PROVE  TestInv'
<1>1. /\ at.scenario = 0 /\ at' = [scenario |-> 1, step |-> 1] /\ exit = "none"
      /\ UNCHANGED <<server, expected, passed, failures, disturbed, exit>>
  BY DEF Setup
<1>2. /\ main' = main /\ Count' = Count /\ UNCHANGED <<mapper, hasLog, lines, warned>>
  BY <1>1 DEF main, log_checks, Count, server
<1>3. DOMAIN main = 1..Len(main) /\ Len(main) \in {12, 14} /\ hasLog \in BOOLEAN
  BY MainIs DEF TestInv, Position
<1>4. Position'
  <2>1. 1 \in DOMAIN main /\ 1 \in DOMAIN main[1]
    BY <1>3, Lengths DEF TestInv
  <2>2. QED BY <1>1, <1>2, <1>3, <2>1 DEF TestInv, Position
<1>5. Judged'
  BY <1>1, <1>2, <1>3 DEF TestInv, Judged
<1>6. Situation'
  BY <1>1, SituationStarts
<1>7. ~Beyond(1, 3)' /\ ~Beyond(2, 2)'
  BY <1>1 DEF Beyond
<1>8. Log'
  BY <1>1, <1>2, <1>7, Zenon DEF TestInv, Log
<1>9. Caught' /\ Passing'
  BY <1>1, <1>2 DEF TestInv, Caught, Passing
<1>10. QED BY <1>4, <1>5, <1>6, <1>8, <1>9 DEF TestInv

\* The steps that move neither the script nor Keycloak, but for the exit code.
LEMMA RestKeeps ==
  ASSUME TestInv, UNCHANGED <<server, expected, at, passed, failures>>,
         exit' \in {"none", "0", "1"}, disturbed' \in Nat, disturbed' >= disturbed,
         exit' = "0" => failures = {} /\ at.scenario > Len(main),
         exit' = "1" => failures # {} \/ disturbed' > 0
  PROVE  TestInv'
<1>1. UNCHANGED <<mapper, config, upstream, broker, lines, warned, hasLog>>
  BY DEF server
<1>2. main' = main /\ Count' = Count /\ Managed' = Managed
  BY <1>1 DEF main, log_checks, Count, Managed
<1>3. Position'
  BY <1>1, <1>2 DEF TestInv, Position
<1>4. Judged'
  BY <1>2 DEF TestInv, Judged
<1>5. Situation'
  <2>1. \A m : (AtUpdate(m)' <=> AtUpdate(m)) /\ (AtLate(m)' <=> AtLate(m))
    BY <1>1 DEF AtUpdate, AtLate, Syncing, Managed
  <2>2. (AtSibling' <=> AtSibling) /\ (AtLink' <=> AtLink)
    BY <1>1 DEF AtSibling, AtLink, Under
  <2>3. QED BY <2>1, <2>2 DEF TestInv, Situation
<1>6. Log'
  <2>1. (Beyond(1, 3)' <=> Beyond(1, 3)) /\ (Beyond(2, 2)' <=> Beyond(2, 2))
    BY DEF Beyond
  <2>2. QED BY <1>1, <1>2, <2>1, Zenon DEF TestInv, Log
<1>7. Caught'
  BY <1>1 DEF TestInv, Caught
<1>8. Passing'
  <2>1. disturbed' = 0 => disturbed = 0
    BY DEF TestInv, Position
  <2>2. QED BY <1>1, <2>1 DEF TestInv, Passing
<1>9. QED BY <1>3, <1>4, <1>5, <1>6, <1>7, <1>8 DEF TestInv

LEMMA TestStepKeeps ==
  ASSUME TestInv, IInv, IInv', [Next]_<<server, token, script>>
  PROVE  TestInv'
<1>1. rejected' = rejected
  BY DEF IInv
<1>2. /\ exit \in {"none", "0", "1"} /\ disturbed \in Nat
      /\ exit = "0" => failures = {} /\ at.scenario > Len(main)
      /\ exit = "1" => failures # {} \/ disturbed > 0
  BY DEF TestInv, Judged, Position
<1>3. disturbed >= disturbed
  BY <1>2
<1>4. CASE UNCHANGED <<server, script>>
  BY <1>2, <1>3, <1>4, RestKeeps DEF script
<1>5. CASE Abort
  <2>1. exit' = "1" /\ disturbed' = disturbed + 1 /\ UNCHANGED <<server, expected, at, passed, failures>>
    BY <1>5 DEF Abort
  <2>2. disturbed' > 0 /\ disturbed' >= disturbed /\ disturbed' \in Nat
    BY <1>2, <2>1
  <2>3. QED BY <2>1, <2>2, RestKeeps
<1>6. CASE Setup BY <1>6, SetupKeeps
<1>7. CASE CallAgain
  BY <1>1, <1>4, <1>7 DEF CallAgain
<1>8. CASE Acts BY <1>1, <1>8, ActsKeep
<1>9. CASE Disturb \/ Refused BY <1>9, DisturbKeeps
<1>10. CASE End
  <2>1. /\ at.scenario > Len(main) /\ exit' = (IF failures # {} THEN "1" ELSE "0")
        /\ UNCHANGED <<server, expected, at, passed, failures, disturbed>>
    BY <1>10 DEF End
  <2>2. disturbed' >= disturbed /\ disturbed' \in Nat
    BY <1>2, <2>1
  <2>3. QED BY <2>1, <2>2, RestKeeps
<1>11. CASE Ended BY <1>4, <1>11 DEF Ended
<1>12. CASE UNCHANGED <<server, token, script>> BY <1>4, <1>12
<1>13. QED
  BY <1>5, <1>6, <1>7, <1>8, <1>9, <1>10, <1>11, <1>12 DEF Next, Acts

LEMMA TestHolds == Spec => [](IInv /\ TestInv)
<1>1. Init => IInv /\ TestInv
  BY TokenInitHolds, TestStarts DEF Init
<1>2. IInv /\ TestInv /\ [Next]_<<server, token, script>> => (IInv /\ TestInv)'
  BY StepOfToken, TokenStepKeeps, TestStepKeeps
<1>3. QED BY <1>1, <1>2, PTL DEF Spec

\* idp_mapper_e2e.py, main(): exit code 0 is earned.  Every scenario has been
\* made and has passed, and none of the faulty mappers gets there, but those
\* that only the log shows, and these only if there is no log.
THEOREM GreenIsEarned == Spec => []GreenMeansMapperRight
BY TestHolds, TestInvMeans, PTL

\* idp_mapper_e2e.py, main(): a mapper that does what it should makes the test
\* exit with 0 unless a request fails for another reason.
THEOREM RightIsGreen == Spec => []RightMapperIsGreen
BY TestHolds, TestInvMeans, PTL

==================================================================================

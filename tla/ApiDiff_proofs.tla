---------------------------- MODULE ApiDiff_proofs ----------------------------
(***************************************************************************)
(* The API comparison for all programs of ours, class paths and sizes.     *)
(* The issue: what is shown stays within the budget, and nothing is cut or *)
(* left out that would have fit.  The report: the loop over the supertypes *)
(* ends and finds what the runtime finds, so that references and overrides *)
(* are judged as the runtime will, and every changed class is traced back  *)
(* to a class of ours.  The verdict PASS: two releases without anything to *)
(* report look the same from our classes, so that what worked still works. *)
(***************************************************************************)
EXTENDS ApiDiff, FiniteSetTheorems, SequenceTheorems, WellFoundedInduction, TLAPS

-----------------------------------------------------------------------------
(***************************************************************************)
(* The issue.                                                              *)
(***************************************************************************)

\* The size of the details in hand, uncut.
Uncut == BlockSize(block.frame, block.diff, MaxDiff)

Sizes ==
  /\ issue.head \in Nat /\ issue.size \in Nat /\ issue.full \in Nat /\ issue.notice \in Nat
  /\ block.frame \in Nat /\ block.diff \in Nat /\ block.limit \in Nat
  /\ block.limit <= MaxDiff

IssueRecord ==
  issue = [head |-> issue.head, size |-> issue.size, full |-> issue.full,
           notice |-> issue.notice, shown |-> issue.shown, cut |-> issue.cut,
           skipped |-> issue.skipped]

BlockRecord ==
  block = [class |-> block.class, frame |-> block.frame, diff |-> block.diff, limit |-> block.limit]

\* The sum of all details never falls behind what is written, and exceeds the
\* budget as soon as a limit below MaxDiff is tried.
Accounted ==
  /\ block = NoBlock => issue.size <= issue.full
  /\ block # NoBlock => issue.size + Uncut <= issue.full
  /\ block # NoBlock /\ block.limit < MaxDiff => issue.full > Budget

Untouched ==
  /\ stage = "release" => block = NoBlock /\ issue.cut = {} /\ issue.skipped = {}
  /\ stage # "done" => issue.notice = 0
  /\ block # NoBlock => stage = "issue"

IInv ==
  /\ IssueRecord /\ BlockRecord /\ Sizes
  /\ IssueFits
  /\ NothingOmittedThatFits
  /\ Accounted
  /\ Untouched

\* A diff cut off earlier never takes more room.
LEMMA ShorterIsSmaller ==
  ASSUME NEW frame \in Nat, NEW diff \in Nat, NEW n \in Nat, n <= MaxDiff
  PROVE  /\ BlockSize(frame, diff, n) \in Nat
         /\ BlockSize(frame, diff, MaxDiff) \in Nat
         /\ BlockSize(frame, diff, n) <= BlockSize(frame, diff, MaxDiff)
BY SizeAssumption DEF SizeAssumption, BlockSize

\* Cut off later than it is long, a diff takes the room it takes uncut.
LEMMA LongEnough ==
  ASSUME NEW frame \in Nat, NEW diff \in Nat, NEW n \in Nat, n <= MaxDiff, ~(diff > n)
  PROVE  BlockSize(frame, diff, n) = BlockSize(frame, diff, MaxDiff)
BY SizeAssumption DEF SizeAssumption, BlockSize

LEMMA InitHolds == Init => IInv
<1>1. ASSUME Init PROVE IInv
  <2>1. /\ issue = [head |-> 0, size |-> 0, full |-> 0, notice |-> 0,
                  shown |-> {}, cut |-> {}, skipped |-> {}]
        /\ block = NoBlock /\ stage = "release"
    BY <1>1 DEF Init
  <2>2. IssueRecord /\ BlockRecord /\ Sizes
    BY <2>1, SizeAssumption DEF IssueRecord, BlockRecord, Sizes, NoBlock, SizeAssumption
  <2>3. IssueFits /\ NothingOmittedThatFits /\ Accounted /\ Untouched
    BY <2>1, SizeAssumption
       DEF IssueFits, NothingOmittedThatFits, Accounted, Untouched, SizeAssumption
  <2>4. QED BY <2>2, <2>3 DEF IInv
<1>2. QED BY <1>1

\* The head of the issue is written whatever its size.
LEMMA CompareKeeps == ASSUME IInv, Compare PROVE IInv'
<1>1. PICK head \in Heads : issue' = [issue EXCEPT !.head = head, !.size = head, !.full = head]
  BY DEF Compare
<1>2. head \in Nat /\ MaxDiff \in Nat /\ Budget \in Nat
  BY SizeAssumption DEF SizeAssumption
<1>3. block = NoBlock /\ issue.cut = {} /\ issue.skipped = {} /\ issue.notice = 0
  BY DEF IInv, Untouched, Compare
<1>4. issue' = [head |-> head, size |-> head, full |-> head,
                notice |-> 0, shown |-> issue.shown, cut |-> {}, skipped |-> {}]
  BY <1>1, <1>3 DEF IInv, IssueRecord
<1>5. block' = NoBlock /\ stage' = "issue"
  BY <1>3 DEF Compare
<1>6. IssueRecord' /\ BlockRecord' /\ Sizes'
  BY <1>2, <1>4, <1>5 DEF IssueRecord, BlockRecord, Sizes, NoBlock
<1>7. IssueFits' /\ NothingOmittedThatFits' /\ Accounted' /\ Untouched'
  BY <1>2, <1>4, <1>5 DEF IssueFits, NothingOmittedThatFits, Accounted, Untouched
<1>8. QED BY <1>6, <1>7 DEF IInv

\* The next class is taken up with its diff as long as it may be.
LEMMA RenderKeeps == ASSUME IInv, RenderClass PROVE IInv'
<1>1. PICK i \in DOMAIN ByName, frame \in Frames, diff \in DiffSizes :
        /\ block' = [class |-> ByName[i], frame |-> frame, diff |-> diff, limit |-> MaxDiff]
        /\ issue' = [issue EXCEPT !.full = @ + BlockSize(frame, diff, MaxDiff)]
  BY DEF RenderClass
<1>2. frame \in Nat /\ diff \in Nat /\ MaxDiff \in Nat /\ Budget \in Nat
  BY SizeAssumption DEF SizeAssumption
<1>3. BlockSize(frame, diff, MaxDiff) \in Nat
  BY <1>2, ShorterIsSmaller
<1>4. PICK full \in Nat : full = issue.full + BlockSize(frame, diff, MaxDiff) /\ full >= issue.full
  BY <1>3 DEF IInv, Sizes
<1>5. issue' = [head |-> issue.head, size |-> issue.size, full |-> full,
                notice |-> issue.notice, shown |-> issue.shown, cut |-> issue.cut, skipped |-> issue.skipped]
  BY <1>1, <1>4 DEF IInv, IssueRecord
<1>6. stage = "issue" /\ stage' = "issue" /\ block = NoBlock
  BY DEF RenderClass
<1>7. IssueRecord' /\ BlockRecord' /\ Sizes'
  BY <1>1, <1>2, <1>5 DEF IInv, IssueRecord, BlockRecord, Sizes
<1>8. IssueFits' /\ Untouched'
  BY <1>5, <1>6 DEF IInv, IssueFits, Untouched
<1>9. NothingOmittedThatFits'
  BY <1>2, <1>4, <1>5 DEF IInv, NothingOmittedThatFits, Sizes
<1>10. Accounted'
  <2>1. Uncut' = BlockSize(frame, diff, MaxDiff)
    BY <1>1 DEF Uncut
  <2>2. issue.size <= issue.full
    BY <1>6 DEF IInv, Accounted
  <2>3. issue.size + BlockSize(frame, diff, MaxDiff) <= full /\ issue.size <= full
    BY <1>3, <1>4, <2>2 DEF IInv, Sizes
  <2>4. block'.limit = MaxDiff
    BY <1>1
  <2>5. QED BY <1>2, <1>5, <2>1, <2>3, <2>4 DEF Accounted
<1>11. QED BY <1>7, <1>8, <1>9, <1>10 DEF IInv

\* What all three continuations of a class in hand rest on.
LEMMA InHand ==
  ASSUME IInv, block # NoBlock
  PROVE  /\ Size \in Nat /\ Uncut \in Nat
         /\ Size <= issue.size + Uncut
         /\ issue.size + Uncut <= issue.full
         /\ ~Fits => issue.full > Budget
<1>1. issue.size \in Nat /\ issue.full \in Nat /\ Budget \in Nat
  BY SizeAssumption DEF IInv, Sizes, SizeAssumption
<1>2. /\ BlockSize(block.frame, block.diff, block.limit) \in Nat
      /\ Uncut \in Nat
      /\ BlockSize(block.frame, block.diff, block.limit) <= Uncut
  BY ShorterIsSmaller DEF IInv, Sizes, Uncut
<1>3. issue.size + Uncut <= issue.full
  BY DEF IInv, Accounted
<1>4. QED BY <1>1, <1>2, <1>3 DEF Size, Fits

LEMMA ShortenKeeps == ASSUME IInv, Shorten PROVE IInv'
<1>1. /\ block # NoBlock /\ ~Fits
      /\ block' = [block EXCEPT !.limit = @ \div 2]
      /\ UNCHANGED <<issue, stage>>
  BY DEF Shorten
<1>2. issue.full > Budget
  BY <1>1, InHand
<1>3. PICK n \in Nat : n = block.limit \div 2 /\ n <= MaxDiff
  BY SizeAssumption DEF IInv, Sizes, SizeAssumption
<1>4. block' = [class |-> block.class, frame |-> block.frame, diff |-> block.diff, limit |-> n]
  BY <1>1, <1>3 DEF IInv, BlockRecord
<1>5. IssueRecord' /\ BlockRecord' /\ Sizes'
  BY <1>1, <1>3, <1>4 DEF IInv, IssueRecord, BlockRecord, Sizes
<1>6. IssueFits' /\ NothingOmittedThatFits'
  BY <1>1 DEF IInv, IssueFits, NothingOmittedThatFits
<1>7. Uncut' = Uncut
  BY <1>4 DEF Uncut
<1>8. issue.size + Uncut <= issue.full /\ issue.size <= issue.full
  BY <1>1, InHand DEF IInv, Sizes
<1>9. Accounted'
  BY <1>1, <1>2, <1>7, <1>8 DEF Accounted
<1>10. Untouched'
  BY <1>1 DEF IInv, Untouched
<1>11. QED BY <1>5, <1>6, <1>9, <1>10 DEF IInv

LEMMA AppendKeeps == ASSUME IInv, AppendClass PROVE IInv'
<1> DEFINE cut == IF block.diff > block.limit /\ block.limit < MaxDiff
                  THEN issue.cut \cup {block.class} ELSE issue.cut
<1>1. /\ block # NoBlock /\ Fits /\ block' = NoBlock /\ UNCHANGED stage
      /\ issue' = [issue EXCEPT !.shown = @ \cup {block.class}, !.size = Size, !.cut = cut]
  BY DEF AppendClass
<1>2. issue' = [head |-> issue.head, size |-> Size, full |-> issue.full,
                notice |-> issue.notice, shown |-> issue.shown \cup {block.class},
                cut |-> cut, skipped |-> issue.skipped]
  BY <1>1 DEF IInv, IssueRecord
<1>3. Size \in Nat /\ Size <= issue.full
  BY <1>1, InHand DEF IInv, Sizes
<1> HIDE DEF cut
<1>4. IssueRecord' /\ BlockRecord' /\ Sizes'
  <2>1. issue.head \in Nat /\ issue.full \in Nat /\ issue.notice \in Nat
    BY DEF IInv, Sizes
  <2>2. block'.frame = 0 /\ block'.diff = 0 /\ block'.limit = 0 /\ BlockRecord'
    BY <1>1 DEF BlockRecord, NoBlock
  <2>3. issue'.head \in Nat /\ issue'.size \in Nat /\ issue'.full \in Nat /\ issue'.notice \in Nat /\ IssueRecord'
    BY <1>2, <1>3, <2>1 DEF IssueRecord
  <2>4. QED BY <2>2, <2>3, SizeAssumption DEF Sizes, SizeAssumption
<1>5. IssueFits'
  <2>1. issue'.notice = 0 /\ issue'.size = Size /\ Size <= Budget
    BY <1>1, <1>2 DEF IInv, Untouched, Fits
  <2>2. Budget \in Nat
    BY SizeAssumption DEF SizeAssumption
  <2>3. QED BY <1>3, <2>1, <2>2 DEF IssueFits
<1>6. NothingOmittedThatFits'
  <2>1. block.limit < MaxDiff => issue.full > Budget
    BY <1>1 DEF IInv, Accounted
  <2>2. cut # issue.cut => issue.full > Budget
    BY <2>1 DEF cut
  <2>3. QED BY <1>2, <2>2 DEF IInv, NothingOmittedThatFits
<1>7. Accounted'
  BY <1>1, <1>2, <1>3 DEF Accounted
<1>8. Untouched'
  BY <1>1 DEF IInv, Untouched
<1>9. QED BY <1>4, <1>5, <1>6, <1>7, <1>8 DEF IInv

LEMMA SkipKeeps == ASSUME IInv, SkipClass PROVE IInv'
<1>1. /\ block # NoBlock /\ ~Fits /\ block' = NoBlock /\ UNCHANGED stage
      /\ issue' = [issue EXCEPT !.skipped = @ \cup {block.class}]
  BY DEF SkipClass
<1>2. issue' = [head |-> issue.head, size |-> issue.size, full |-> issue.full,
                notice |-> issue.notice, shown |-> issue.shown, cut |-> issue.cut,
                skipped |-> issue.skipped \cup {block.class}]
  BY <1>1 DEF IInv, IssueRecord
<1>3. issue.full > Budget /\ issue.size <= issue.full
  BY <1>1, InHand DEF IInv, Sizes
<1>4. IssueRecord' /\ BlockRecord' /\ Sizes'
  <2>1. /\ issue'.head \in Nat /\ issue'.size \in Nat /\ issue'.full \in Nat
        /\ issue'.notice \in Nat /\ IssueRecord'
    BY <1>2 DEF IInv, Sizes, IssueRecord
  <2>2. block'.frame = 0 /\ block'.diff = 0 /\ block'.limit = 0 /\ BlockRecord'
    BY <1>1 DEF BlockRecord, NoBlock
  <2>3. QED BY <2>1, <2>2, SizeAssumption DEF Sizes, SizeAssumption
<1>5. IssueFits' /\ NothingOmittedThatFits' /\ Accounted'
  <2>1. issue.notice = 0 /\ issue.size \in Nat /\ Budget \in Nat
    BY <1>1, SizeAssumption DEF IInv, Untouched, Sizes, SizeAssumption
  <2>2. QED BY <1>1, <1>2, <1>3, <2>1 DEF IInv, IssueFits, NothingOmittedThatFits, Accounted
<1>6. Untouched'
  BY <1>1 DEF IInv, Untouched
<1>7. QED BY <1>4, <1>5, <1>6 DEF IInv

\* The paragraph about what was left out is all that is added at the end.
LEMMA FinishKeeps == ASSUME IInv, Finish PROVE IInv'
<1>1. PICK notice \in IF issue.skipped = {} THEN {0} ELSE Notices :
        issue' = [issue EXCEPT !.notice = notice]
  BY DEF Finish
<1>2. notice \in Nat /\ Budget \in Nat /\ (notice # 0 => issue.skipped # {})
  <2>1. CASE issue.skipped = {}
    <3>1. notice \in {0}
      BY <1>1, <2>1
    <3>2. QED BY <3>1, SizeAssumption DEF SizeAssumption
  <2>2. CASE issue.skipped # {}
    <3>1. notice \in Notices
      BY <1>1, <2>2
    <3>2. QED BY <2>2, <3>1, SizeAssumption DEF SizeAssumption
  <2>3. QED BY <2>1, <2>2
<1>3. issue' = [head |-> issue.head, size |-> issue.size, full |-> issue.full,
                notice |-> notice, shown |-> issue.shown, cut |-> issue.cut,
                skipped |-> issue.skipped]
  BY <1>1 DEF IInv, IssueRecord
<1>4. block = NoBlock /\ block' = block /\ stage = "issue" /\ stage' = "done"
  BY DEF Finish
<1>5. IssueRecord' /\ BlockRecord' /\ Sizes'
  BY <1>2, <1>3, <1>4 DEF IInv, IssueRecord, BlockRecord, Sizes
<1>6. IssueFits'
  <2>1. issue.size \in Nat /\ issue.notice = 0
    BY <1>4 DEF IInv, Sizes, Untouched
  <2>2. QED BY <1>2, <1>3, <2>1 DEF IInv, IssueFits
<1>7. NothingOmittedThatFits' /\ Accounted' /\ Untouched'
  BY <1>3, <1>4 DEF IInv, NothingOmittedThatFits, Accounted, Untouched
<1>8. QED BY <1>5, <1>6, <1>7 DEF IInv

\* Steps that leave the issue and the class in hand alone.
LEMMA OthersKeep ==
  ASSUME IInv, UNCHANGED <<issue, block, stage>>
  PROVE  IInv'
BY DEF IInv, IssueRecord, BlockRecord, Sizes, IssueFits, NothingOmittedThatFits, Accounted,
       Uncut, Untouched

LEMMA StepKeeps == IInv /\ [Next]_vars => IInv'
<1> SUFFICES ASSUME IInv, [Next]_vars PROVE IInv'
  OBVIOUS
<1>1. CASE Develop
  <2>1. UNCHANGED <<issue, block, stage>> BY <1>1 DEF Develop
  <2>2. QED BY <2>1, OthersKeep
<1>2. CASE Compare BY <1>2, CompareKeeps
<1>3. CASE RenderClass BY <1>3, RenderKeeps
<1>4. CASE Shorten BY <1>4, ShortenKeeps
<1>5. CASE AppendClass BY <1>5, AppendKeeps
<1>6. CASE SkipClass BY <1>6, SkipKeeps
<1>7. CASE Finish BY <1>7, FinishKeeps
<1>8. CASE UNCHANGED vars
  <2>1. UNCHANGED <<issue, block, stage>> BY <1>8 DEF vars
  <2>2. QED BY <2>1, OthersKeep
<1>9. QED BY <1>1, <1>2, <1>3, <1>4, <1>5, <1>6, <1>7, <1>8 DEF Next

\* render_issue: however many classes changed and however long their diffs
\* are, the details stay within the budget; the issue exceeds it only if its
\* head does, or by the paragraph about classes left out.
THEOREM IssuesFit == Spec => []IssueFits
<1>1. IInv => IssueFits BY DEF IInv
<1>2. QED BY InitHolds, StepKeeps, <1>1, PTL DEF Spec

\* render_issue: a diff is cut, or a class left out, only when the issue with
\* the whole of all details exceeds the budget.
THEOREM NothingIsOmittedThatFits == Spec => []NothingOmittedThatFits
<1>1. IInv => NothingOmittedThatFits BY DEF IInv
<1>2. QED BY InitHolds, StepKeeps, <1>1, PTL DEF Spec

-----------------------------------------------------------------------------
(***************************************************************************)
(* Numbers and recursive functions.                                        *)
(***************************************************************************)

Less == {p \in Nat \X Nat : p[1] < p[2]}

LEMMA LeastElement ==
  ASSUME NEW U, U \subseteq Nat, U # {}
  PROVE  \E x \in U : \A y \in U : x <= y
<1>1. IsWellFoundedOn(Less, Nat)
  BY NatLessThanWellFounded DEF OpToRel, Less
<1>2. PICK x \in U : \A y \in U : ~(<<y, x>> \in Less)
  BY <1>1, WFMin
<1>3. ASSUME NEW y \in U PROVE x <= y
  <2>1. x \in Nat /\ y \in Nat
    OBVIOUS
  <2>2. y < x => <<y, x>> \in Less
    BY <2>1 DEF Less
  <2>3. ~(y < x)
    BY <1>2, <2>2
  <2> QED
    BY <2>1, <2>3
<1> QED
  BY <1>3

LEMMA NatSteps ==
  ASSUME NEW T, 0 \in T, \A k \in Nat : k \in T => k + 1 \in T
  PROVE  Nat \subseteq T
<1> DEFINE U == Nat \ T
<1>1. ASSUME U # {} PROVE FALSE
  <2>1. PICK x \in U : \A y \in U : x <= y
    BY <1>1, LeastElement
  <2>2. x \in Nat /\ x # 0 /\ x - 1 \in Nat
    BY <2>1
  <2>3. x - 1 \in T
    BY <2>1, <2>2
  <2> QED
    BY <2>1, <2>2, <2>3
<1> QED
  BY <1>1

\* Repeating F from a value on.
LEMMA Iterates ==
  ASSUME NEW V, NEW v \in V, NEW F \in [V -> V]
  PROVE  \E g \in [Nat -> V] : g[0] = v /\ \A k \in Nat : g[k + 1] = F[g[k]]
<1> DEFINE Good(R) == <<0, v>> \in R /\ \A k \in Nat, x \in V : <<k, x>> \in R => <<k + 1, F[x]>> \in R
           R == {p \in Nat \X V : \A Q \in SUBSET (Nat \X V) : Good(Q) => p \in Q}
           One(k) == \E x \in V : <<k, x>> \in R /\ \A y \in V : <<k, y>> \in R => y = x
           T == {k \in Nat : One(k)}
<1>1. <<0, v>> \in R
  OBVIOUS
<1>2. ASSUME NEW k \in Nat, NEW x \in V, <<k, x>> \in R PROVE <<k + 1, F[x]>> \in R
  <2>1. F[x] \in V
    OBVIOUS
  <2> QED
    BY <1>2, <2>1
<1>3. Good(R)
  BY <1>1, <1>2
<1>4. ASSUME NEW k \in Nat, NEW x \in V, <<k, x>> \in R, <<k, x>> # <<0, v>>,
             \A j \in Nat, y \in V : <<j, y>> \in R => <<j + 1, F[y]>> # <<k, x>>
      PROVE  FALSE
  <2> DEFINE Q == R \ {<<k, x>>}
  <2>1. Q \in SUBSET (Nat \X V)
    OBVIOUS
  <2>2. Good(Q)
    BY <1>3, <1>4
  <2>3. <<k, x>> \in Q
    BY <1>4, <2>1, <2>2
  <2> QED
    BY <2>3
<1> HIDE DEF R
<1>5. One(0)
  <2>1. ASSUME NEW y \in V, <<0, y>> \in R PROVE y = v
    <3>1. SUFFICES ASSUME y # v PROVE FALSE
      OBVIOUS
    <3>2. \A j \in Nat, z \in V : <<j + 1, F[z]>> # <<0, y>>
      OBVIOUS
    <3>3. <<0, y>> # <<0, v>> /\ 0 \in Nat
      BY <3>1
    <3>4. \A j \in Nat, z \in V : <<j, z>> \in R => <<j + 1, F[z]>> # <<0, y>>
      BY <3>2
    <3> HIDE DEF One, Good
    <3> QED
      BY <1>4, <2>1, <3>3, <3>4
  <2> QED
    BY <1>1, <2>1
<1>6. ASSUME NEW k \in Nat, One(k) PROVE One(k + 1)
  <2>1. PICK x \in V : <<k, x>> \in R /\ \A y \in V : <<k, y>> \in R => y = x
    BY <1>6
  <2>2. ASSUME NEW y \in V, <<k + 1, y>> \in R PROVE y = F[x]
    <3>1. SUFFICES ASSUME y # F[x] PROVE FALSE
      OBVIOUS
    <3>2. ASSUME NEW j \in Nat, NEW z \in V, <<j, z>> \in R, <<j + 1, F[z]>> = <<k + 1, y>> PROVE FALSE
      <4>1. j = k /\ F[z] = y
        BY <3>2
      <4> QED
        BY <2>1, <3>1, <3>2, <4>1
    <3>3. k + 1 \in Nat /\ <<k + 1, y>> # <<0, v>>
      OBVIOUS
    <3> QED
      BY <1>4, <2>2, <3>2, <3>3
  <2>3. F[x] \in V /\ <<k + 1, F[x]>> \in R
    BY <1>2, <2>1
  <2> QED
    BY <2>2, <2>3
<1>7. \A k \in Nat : One(k)
  <2> HIDE DEF One
  <2>1. 0 \in T
    BY <1>5
  <2>2. \A k \in Nat : k \in T => k + 1 \in T
    BY <1>6
  <2>3. Nat \subseteq T
    BY <2>1, <2>2, NatSteps
  <2> QED
    BY <2>3
<1> DEFINE g == [k \in Nat |-> CHOOSE x \in V : <<k, x>> \in R]
<1>8. \A k \in Nat : g[k] \in V /\ <<k, g[k]>> \in R
  BY <1>7
<1>9. ASSUME NEW k \in Nat, NEW x \in V, <<k, x>> \in R PROVE g[k] = x
  BY <1>7, <1>8, <1>9
<1>10. g[0] = v
  BY <1>1, <1>9
<1> HIDE DEF g
<1>11. ASSUME NEW k \in Nat PROVE g[k + 1] = F[g[k]]
  <2>1. g[k] \in V /\ <<k, g[k]>> \in R
    BY <1>8
  <2>2. <<k + 1, F[g[k]]>> \in R /\ F[g[k]] \in V /\ k + 1 \in Nat
    BY <1>2, <2>1
  <2> QED
    BY <1>9, <2>2
<1>12. g \in [Nat -> V]
  BY <1>8 DEF g
<1> QED
  BY <1>10, <1>11, <1>12

-----------------------------------------------------------------------------
(***************************************************************************)
(* supertypes: the loop ends, with all supertypes and nothing else.        *)
(***************************************************************************)

LEMMA ToSetOf ==
  ASSUME NEW N, NEW s \in Seq(N)
  PROVE  /\ ToSet(s) \subseteq N
         /\ \A e : Contains(s, e) <=> e \in ToSet(s)
         /\ ToSet(s) = Range(s)
BY DEF ToSet, Contains, Range

LEMMA ToSetAppend ==
  ASSUME NEW N, NEW s \in Seq(N), NEW e \in N
  PROVE  Append(s, e) \in Seq(N) /\ ToSet(Append(s, e)) = ToSet(s) \cup {e}
<1> DEFINE r == Append(s, e)
<1>1. /\ r \in Seq(N) /\ Len(r) = Len(s) + 1 /\ Len(s) \in Nat
      /\ \A i \in 1..Len(s) : r[i] = s[i]
      /\ r[Len(s) + 1] = e
      /\ DOMAIN r = 1..Len(s) + 1 /\ DOMAIN s = 1..Len(s)
  OBVIOUS
<1> HIDE DEF r
<1>2. \A x \in ToSet(r) : x \in ToSet(s) \cup {e}
  BY <1>1 DEF ToSet
<1>3. \A x \in ToSet(s) \cup {e} : x \in ToSet(r)
  BY <1>1 DEF ToSet
<1> QED
  BY <1>1, <1>2, <1>3 DEF r

LEMMA ToSetConcat ==
  ASSUME NEW N, NEW s \in Seq(N), NEW t \in Seq(N)
  PROVE  s \o t \in Seq(N) /\ ToSet(s \o t) = ToSet(s) \cup ToSet(t)
<1> DEFINE r == s \o t
<1>1. /\ r \in Seq(N) /\ Len(r) = Len(s) + Len(t) /\ Len(s) \in Nat /\ Len(t) \in Nat
      /\ \A i \in 1..Len(r) : r[i] = IF i <= Len(s) THEN s[i] ELSE t[i - Len(s)]
      /\ DOMAIN r = 1..Len(r) /\ DOMAIN s = 1..Len(s) /\ DOMAIN t = 1..Len(t)
  BY ConcatProperties
<1> HIDE DEF r
<1>2. ASSUME NEW i \in DOMAIN r PROVE r[i] \in ToSet(s) \cup ToSet(t)
  <2>1. CASE i <= Len(s)
    BY <1>1, <2>1 DEF ToSet
  <2>2. CASE ~(i <= Len(s))
    <3>1. i - Len(s) \in DOMAIN t /\ r[i] = t[i - Len(s)]
      BY <1>1, <2>2
    <3> QED
      BY <3>1 DEF ToSet
  <2> QED
    BY <2>1, <2>2
<1>3. ASSUME NEW i \in DOMAIN s PROVE s[i] \in ToSet(r)
  <2>1. i \in DOMAIN r /\ r[i] = s[i]
    BY <1>1
  <2> QED
    BY <2>1 DEF ToSet
<1>4. ASSUME NEW i \in DOMAIN t PROVE t[i] \in ToSet(r)
  <2>1. i + Len(s) \in DOMAIN r /\ r[i + Len(s)] = t[i]
    BY <1>1
  <2> QED
    BY <2>1 DEF ToSet
<1>5. ToSet(r) = ToSet(s) \cup ToSet(t)
  BY <1>2, <1>3, <1>4 DEF ToSet
<1> QED
  BY <1>1, <1>5 DEF r

LEMMA ToSetTail ==
  ASSUME NEW N, NEW s \in Seq(N), s # << >>
  PROVE  /\ Head(s) \in N /\ Tail(s) \in Seq(N) /\ Len(Tail(s)) = Len(s) - 1
         /\ ToSet(Tail(s)) \cup {Head(s)} = ToSet(s)
<1> DEFINE r == Tail(s)
<1>1. /\ r \in Seq(N) /\ Len(s) \in Nat /\ Len(s) # 0 /\ Len(r) = Len(s) - 1
      /\ Head(s) \in N /\ Head(s) = s[1]
      /\ \A i \in 1..Len(r) : r[i] = s[i + 1]
      /\ DOMAIN r = 1..Len(r) /\ DOMAIN s = 1..Len(s)
  BY HeadTailProperties
<1> HIDE DEF r
<1>2. ASSUME NEW i \in DOMAIN s, i # 1 PROVE s[i] \in ToSet(r)
  <2>1. i - 1 \in DOMAIN r /\ r[i - 1] = s[i]
    BY <1>1, <1>2
  <2> QED
    BY <2>1 DEF ToSet
<1>3. ASSUME NEW i \in DOMAIN r PROVE r[i] \in ToSet(s)
  <2>1. i + 1 \in DOMAIN s /\ r[i] = s[i + 1]
    BY <1>1
  <2> QED
    BY <2>1 DEF ToSet
<1>4. Head(s) \in ToSet(s)
  BY <1>1 DEF ToSet
<1>5. ToSet(r) \cup {Head(s)} = ToSet(s)
  <2>1. \A x \in ToSet(s) : x \in ToSet(r) \cup {Head(s)}
    BY <1>1, <1>2 DEF ToSet
  <2>2. \A x \in ToSet(r) : x \in ToSet(s)
    BY <1>3 DEF ToSet
  <2> QED
    BY <1>4, <2>1, <2>2
<1> QED
  BY <1>1, <1>5 DEF r

Loops(N) == Seq(N) \X Seq(N)

\* A class path whose names are all in N.
Listed(cp, N) ==
  /\ IsClassPath(cp.classes) /\ DOMAIN cp.classes \subseteq N
  /\ \A t \in DOMAIN cp.classes : cp.classes[t].super \in N /\ cp.classes[t].interfaces \in Seq(N)

ParentsAt(cp, t) == {cp.classes[t].super} \cup ToSet(cp.classes[t].interfaces)

\* From w to v, the first name h is dropped, or moved and replaced by its parents.
Dropped(cp, w, v, h) ==
  /\ h \in ToSet(w[1]) \/ h \notin DOMAIN cp.classes
  /\ v[1] = w[1] /\ Len(v[2]) = Len(w[2]) - 1
  /\ ToSet(v[2]) \cup {h} = ToSet(w[2])

Moved(cp, w, v, h) ==
  /\ h \in DOMAIN cp.classes /\ h \notin ToSet(w[1])
  /\ ToSet(v[1]) = ToSet(w[1]) \cup {h}
  /\ ToSet(v[2]) \cup {h} = ToSet(w[2]) \cup ParentsAt(cp, h)

LEMMA TurnIs ==
  ASSUME NEW cp, NEW N, Listed(cp, N), NEW w \in Loops(N), w[2] # << >>,
         NEW v, v = Turn(cp, w[1], w[2]), NEW h, h = Head(w[2])
  PROVE  v \in Loops(N) /\ h \in N /\ (Dropped(cp, w, v, h) \/ Moved(cp, w, v, h))
<1>1. w[1] \in Seq(N) /\ w[2] \in Seq(N)
  BY DEF Loops
<1>2. h \in N /\ Tail(w[2]) \in Seq(N) /\ Len(Tail(w[2])) = Len(w[2]) - 1 /\ ToSet(Tail(w[2])) \cup {h} = ToSet(w[2])
  BY <1>1, ToSetTail
<1> DEFINE s == w[1]
           r == Tail(w[2])
           c == cp.classes[h]
           q == <<c.super>>
<1>3. CASE h \in ToSet(w[1]) \/ h \notin DOMAIN cp.classes
  <2>1. v = <<s, r>>
    BY <1>1, <1>3, ToSetOf DEF Turn, Has
  <2>2. s \in Seq(N) /\ r \in Seq(N)
    BY <1>1, <1>2
  <2> HIDE DEF r, s
  <2>3. v[1] = s /\ v[2] = r /\ v \in Loops(N)
    BY <2>1, <2>2 DEF Loops
  <2> QED
    BY <1>2, <1>3, <2>3 DEF r, s, Dropped
<1>4. CASE h \in DOMAIN cp.classes \ ToSet(w[1])
  <2>1. v = <<Append(s, h), r \o q \o c.interfaces>>
    BY <1>1, <1>4, ToSetOf DEF Turn, Has
  <2>2. c.super \in N /\ c.interfaces \in Seq(N)
    BY <1>4 DEF Listed
  <2>3. Append(s, h) \in Seq(N) /\ ToSet(Append(s, h)) = ToSet(s) \cup {h}
    BY <1>1, <1>2, ToSetAppend
  <2>4. q \in Seq(N) /\ ToSet(q) = {c.super}
    <3> HIDE DEF c
    <3>1. <<c.super>> \in Seq(N) /\ DOMAIN <<c.super>> = {1} /\ <<c.super>>[1] = c.super
      BY <2>2
    <3> QED
      BY <3>1 DEF ToSet
  <2>5. r \in Seq(N) /\ ToSet(r) \cup {h} = ToSet(w[2])
    BY <1>2
  <2>6. ParentsAt(cp, h) = {c.super} \cup ToSet(c.interfaces)
    BY DEF ParentsAt
  <2> HIDE DEF c, q, r, s
  <2>7. r \o q \in Seq(N) /\ ToSet(r \o q) = ToSet(r) \cup ToSet(q)
    BY <2>4, <2>5, ToSetConcat
  <2> DEFINE z == r \o q
  <2>8. z \in Seq(N) /\ ToSet(z) = ToSet(r) \cup ToSet(q)
    BY <2>7
  <2> HIDE DEF z
  <2>9. /\ z \o c.interfaces \in Seq(N)
        /\ ToSet(z \o c.interfaces) = ToSet(z) \cup ToSet(c.interfaces)
    BY <2>2, <2>8, ToSetConcat
  <2> DEFINE y == z \o c.interfaces
             x == Append(s, h)
  <2>10. v = <<x, y>>
    BY <2>1 DEF z
  <2>11. x \in Seq(N) /\ ToSet(x) = ToSet(s) \cup {h} /\ y \in Seq(N)
    BY <2>3, <2>9
  <2>12. ToSet(y) \cup {h} = ToSet(w[2]) \cup ParentsAt(cp, h)
    <3>1. ToSet(y) = ToSet(r) \cup {c.super} \cup ToSet(c.interfaces)
      BY <2>4, <2>8, <2>9
    <3> QED
      BY <2>5, <2>6, <3>1
  <2> HIDE DEF x, y
  <2>13. v[1] = x /\ v[2] = y /\ v \in Loops(N)
    BY <2>10, <2>11 DEF Loops
  <2> QED
    BY <1>2, <1>4, <2>11, <2>12, <2>13 DEF s, Moved
<1> QED
  BY <1>3, <1>4

\* What holds when the list is empty, and before a turn if after it, holds of
\* every loop: types are seen once only, and there are finitely many.
LEMMA LoopEnds ==
  ASSUME NEW cp, NEW N, Listed(cp, N), NEW Q,
         \A w \in Loops(N) : w[2] = << >> => w \in Q,
         \A w \in Loops(N) : w[2] # << >> /\ Turn(cp, w[1], w[2]) \in Q => w \in Q
  PROVE  Loops(N) \subseteq Q
<1> DEFINE Left(w) == Cardinality(DOMAIN cp.classes \ ToSet(w[1]))
           B == Loops(N) \ Q
           U == {Left(w) : w \in B}
<1>1. IsFiniteSet(DOMAIN cp.classes)
  BY DEF Listed, IsClassPath
<1>2. \A w \in Loops(N) : Left(w) \in Nat
  <2>1. \A w : IsFiniteSet(DOMAIN cp.classes \ ToSet(w[1]))
    BY <1>1, FS_Subset
  <2> QED
    BY <2>1, FS_CardinalityType
<1>3. SUFFICES ASSUME B # {} PROVE FALSE
  OBVIOUS
<1>4. PICK u \in U : \A y \in U : u <= y
  BY <1>2, <1>3, LeastElement
<1> DEFINE L == {Len(w[2]) : w \in {x \in B : Left(x) = u}}
<1>5. L \subseteq Nat /\ L # {}
  <2>1. \A w \in Loops(N) : Len(w[2]) \in Nat
    BY DEF Loops
  <2>2. PICK w \in B : Left(w) = u
    BY <1>4
  <2> HIDE DEF Left
  <2> QED
    BY <2>1, <2>2
<1>6. PICK l \in L : \A y \in L : l <= y
  BY <1>5, LeastElement
<1>7. PICK w \in B : Left(w) = u /\ Len(w[2]) = l
  BY <1>6
<1> DEFINE v == Turn(cp, w[1], w[2])
           h == Head(w[2])
<1>8. w \in Loops(N) /\ w[2] # << >> /\ v \notin Q
  BY <1>7
<1> HIDE DEF v, h
<1>9. /\ v \in Loops(N) /\ h \in N
      /\ \/ /\ v[1] = w[1] /\ Len(v[2]) = Len(w[2]) - 1
         \/ /\ h \in DOMAIN cp.classes \ ToSet(w[1])
            /\ ToSet(v[1]) = ToSet(w[1]) \cup {h}
  <2>1. v = Turn(cp, w[1], w[2]) /\ h = Head(w[2])
    BY DEF v, h
  <2> HIDE DEF B, U, L, Left
  <2>2. v \in Loops(N) /\ h \in N /\ (Dropped(cp, w, v, h) \/ Moved(cp, w, v, h))
    BY <1>8, <2>1, TurnIs
  <2> QED
    BY <2>2 DEF Dropped, Moved
<1>10. v \in B
  BY <1>8, <1>9
<1> HIDE DEF B
<1>11. CASE v[1] = w[1] /\ Len(v[2]) = Len(w[2]) - 1
  <2>1. Left(v) = u
    BY <1>7, <1>11
  <2>2. Len(v[2]) \in L /\ l <= Len(v[2]) /\ l \in Nat
    BY <1>5, <1>6, <1>10, <2>1
  <2> QED
    BY <1>7, <1>11, <2>2
<1>12. CASE h \in DOMAIN cp.classes \ ToSet(w[1]) /\ ToSet(v[1]) = ToSet(w[1]) \cup {h}
  <2> DEFINE R == DOMAIN cp.classes \ ToSet(w[1])
  <2>1. DOMAIN cp.classes \ ToSet(v[1]) = R \ {h} /\ h \in R
    BY <1>12
  <2>2. IsFiniteSet(R)
    BY <1>1, FS_Subset
  <2> HIDE DEF R
  <2>3. Cardinality(R \ {h}) = Cardinality(R) - 1
    BY <2>1, <2>2, FS_RemoveElement
  <2>4. Left(v) = Left(w) - 1
    BY <2>1, <2>3 DEF R
  <2>5. Left(v) \in U /\ Left(v) \in Nat /\ Left(w) \in Nat
    BY <1>2, <1>8, <1>9, <1>10
  <2> DEFINE a == Left(v)
             b == Left(w)
  <2>6. a = b - 1 /\ a \in Nat /\ b \in Nat /\ b <= a
    BY <1>4, <1>7, <2>4, <2>5
  <2> HIDE DEF a, b
  <2> QED
    BY <2>6
<1> QED
  BY <1>9, <1>11, <1>12

Walk(cp, N, g) ==
  g = [w \in Seq(N) \X Seq(N) |-> IF w[2] = << >> THEN w[1] ELSE g[Turn(cp, w[1], w[2])]]

\* The recursive function of supertypes exists.
LEMMA WalkExists ==
  ASSUME NEW cp, NEW N, Listed(cp, N)
  PROVE  \E g : Walk(cp, N, g)
<1> DEFINE V == Seq(N)
           Good(R) == /\ \A w \in Loops(N) : w[2] = << >> => <<w, w[1]>> \in R
                      /\ \A w \in Loops(N), x \in V :
                           w[2] # << >> /\ <<Turn(cp, w[1], w[2]), x>> \in R => <<w, x>> \in R
           R == {p \in Loops(N) \X V : \A Q \in SUBSET (Loops(N) \X V) : Good(Q) => p \in Q}
           One(w) == \E x \in V : <<w, x>> \in R /\ \A y \in V : <<w, y>> \in R => y = x
           T == {w \in Loops(N) : One(w)}
<1>1. \A w \in Loops(N) : w[1] \in V
  BY DEF Loops
<1>2. ASSUME NEW w \in Loops(N), w[2] = << >> PROVE <<w, w[1]>> \in R
  BY <1>1, <1>2
<1>3. ASSUME NEW w \in Loops(N), NEW x \in V, w[2] # << >>, <<Turn(cp, w[1], w[2]), x>> \in R
      PROVE  <<w, x>> \in R
  BY <1>3
<1>4. Good(R)
  BY <1>2, <1>3
<1>5. ASSUME NEW w \in Loops(N), NEW x \in V, <<w, x>> \in R,
             w[2] = << >> => x # w[1],
             w[2] # << >> => <<Turn(cp, w[1], w[2]), x>> \notin R
      PROVE  FALSE
  <2> DEFINE Q == R \ {<<w, x>>}
  <2>1. Q \in SUBSET (Loops(N) \X V)
    OBVIOUS
  <2>2. ASSUME NEW v \in Loops(N), v[2] = << >> PROVE <<v, v[1]>> \in Q
    <3>1. <<v, v[1]>> \in R
      BY <1>2, <2>2
    <3>2. <<v, v[1]>> # <<w, x>>
      <4>1. ASSUME v = w PROVE v[1] # x
        BY <1>5, <2>2, <4>1
      <4> QED
        BY <4>1
    <3> QED
      BY <3>1, <3>2
  <2>3. ASSUME NEW v \in Loops(N), NEW y \in V, v[2] # << >>, <<Turn(cp, v[1], v[2]), y>> \in Q
        PROVE  <<v, y>> \in Q
    <3>1. <<v, y>> \in R
      BY <1>3, <2>3
    <3>2. <<v, y>> # <<w, x>>
      <4>1. ASSUME v = w, y = x PROVE FALSE
        BY <1>5, <2>3, <4>1
      <4> QED
        BY <4>1
    <3> QED
      BY <3>1, <3>2
  <2>4. Good(Q)
    BY <2>2, <2>3
  <2>5. <<w, x>> \in Q
    BY <1>5, <2>1, <2>4
  <2> QED
    BY <2>5
<1> HIDE DEF R
<1>6. \A w \in Loops(N) : w[2] = << >> => w \in T
  <2> SUFFICES ASSUME NEW w \in Loops(N), w[2] = << >> PROVE One(w)
    OBVIOUS
  <2>1. <<w, w[1]>> \in R /\ w[1] \in V
    BY <1>1, <1>2
  <2>2. ASSUME NEW y \in V, <<w, y>> \in R PROVE y = w[1]
    BY <1>5, <2>2
  <2> QED
    BY <2>1, <2>2
<1>7. \A w \in Loops(N) : w[2] # << >> /\ Turn(cp, w[1], w[2]) \in T => w \in T
  <2> SUFFICES ASSUME NEW w \in Loops(N), w[2] # << >>, Turn(cp, w[1], w[2]) \in T PROVE One(w)
    OBVIOUS
  <2> DEFINE v == Turn(cp, w[1], w[2])
  <2> HIDE DEF v
  <2>1. PICK x \in V : <<v, x>> \in R /\ \A y \in V : <<v, y>> \in R => y = x
    BY DEF v
  <2>2. <<w, x>> \in R
    BY <1>3, <2>1 DEF v
  <2>3. ASSUME NEW y \in V, <<w, y>> \in R PROVE <<v, y>> \in R
    BY <1>5, <2>3 DEF v
  <2>4. \A y \in V : <<w, y>> \in R => y = x
    BY <2>1, <2>3
  <2> QED
    BY <2>2, <2>4
<1> HIDE DEF One
<1>8. Loops(N) \subseteq T
  BY <1>6, <1>7, LoopEnds
<1>9. \A w \in Loops(N) : One(w)
  BY <1>8
<1> DEFINE G(w) == CHOOSE x \in V : <<w, x>> \in R
           g == [w \in Loops(N) |-> G(w)]
<1>10. \A w \in Loops(N) : g[w] \in V /\ <<w, g[w]>> \in R
  BY <1>9 DEF One
<1>11. ASSUME NEW w \in Loops(N), NEW x \in V, <<w, x>> \in R PROVE g[w] = x
  BY <1>9, <1>10, <1>11 DEF One
<1> HIDE DEF G
<1>12. g = [w \in Loops(N) |-> G(w)] /\ \A w \in Loops(N) : g[w] = G(w)
  OBVIOUS
<1> HIDE DEF g
<1>13. ASSUME NEW w \in Loops(N)
       PROVE  g[w] = IF w[2] = << >> THEN w[1] ELSE g[Turn(cp, w[1], w[2])]
  <2>1. CASE w[2] = << >>
    BY <1>1, <1>2, <1>11, <2>1
  <2>2. CASE w[2] # << >>
    <3> DEFINE v == Turn(cp, w[1], w[2])
    <3>1. v \in Loops(N)
      BY <2>2, TurnIs
    <3>2. g[v] \in V /\ <<v, g[v]>> \in R
      BY <1>10, <3>1
    <3>3. <<w, g[v]>> \in R
      BY <1>3, <2>2, <3>2
    <3> HIDE DEF v
    <3>4. g[w] = g[v]
      BY <1>11, <3>2, <3>3
    <3> QED
      BY <2>2, <3>4 DEF v
  <2> QED
    BY <2>1, <2>2
<1>14. g = [w \in Loops(N) |-> IF w[2] = << >> THEN w[1] ELSE g[Turn(cp, w[1], w[2])]]
  <2>1. \A w \in Loops(N) : G(w) = IF w[2] = << >> THEN w[1] ELSE g[Turn(cp, w[1], w[2])]
    BY <1>12, <1>13
  <2> QED
    BY <1>12, <2>1
<1>15. Walk(cp, N, g)
  BY <1>14 DEF Walk, Loops
<1> QED
  BY <1>15

\* A set that contains the parents of its members, as far as there are any.
Closed(cp, A) == A \subseteq DOMAIN cp /\ \A t \in A : DirectParents(cp[t]) \cap DOMAIN cp \subseteq A

\* The least such set that contains n, if n is there.
IsHull(cp, n, A) ==
  /\ Closed(cp, A) /\ {n} \cap DOMAIN cp \subseteq A
  /\ \A B : Closed(cp, B) /\ {n} \cap DOMAIN cp \subseteq B => A \subseteq B

LEMMA WalkCovers ==
  ASSUME NEW cp, NEW N, Listed(cp, N), NEW g, Walk(cp, N, g)
  PROVE  \A w \in Loops(N) : /\ g[w] \in Seq(N)
                             /\ ToSet(w[1]) \subseteq ToSet(g[w])
                             /\ ToSet(w[2]) \cap DOMAIN cp.classes \subseteq ToSet(g[w])
<1> DEFINE D == DOMAIN cp.classes
           P(w) == /\ g[w] \in Seq(N)
                   /\ ToSet(w[1]) \subseteq ToSet(g[w])
                   /\ ToSet(w[2]) \cap D \subseteq ToSet(g[w])
           Q == {w \in Loops(N) : P(w)}
<1>1. ASSUME NEW w \in Loops(N), w[2] = << >> PROVE P(w)
  <2>1. g[w] = w[1] /\ w[1] \in Seq(N)
    BY <1>1 DEF Walk, Loops
  <2>2. ToSet(w[2]) = {}
    BY <1>1 DEF ToSet
  <2> QED
    BY <2>1, <2>2
<1>2. ASSUME NEW w \in Loops(N), w[2] # << >>, Turn(cp, w[1], w[2]) \in Q PROVE P(w)
  <2> DEFINE v == Turn(cp, w[1], w[2])
             h == Head(w[2])
  <2>1. g[w] = g[v]
    BY <1>2 DEF Walk, Loops
  <2>2. P(v)
    BY <1>2
  <2>3. v = Turn(cp, w[1], w[2]) /\ h = Head(w[2])
    OBVIOUS
  <2> HIDE DEF v, h
  <2>4. Dropped(cp, w, v, h) \/ Moved(cp, w, v, h)
    BY <1>2, <2>3, TurnIs
  <2> DEFINE S == ToSet(g[v])
  <2>5. g[w] \in Seq(N) /\ ToSet(g[w]) = S /\ ToSet(v[1]) \subseteq S /\ ToSet(v[2]) \cap D \subseteq S
    BY <2>1, <2>2
  <2> HIDE DEF S, P
  <2>6. ToSet(w[1]) \subseteq S
    BY <2>4, <2>5 DEF Dropped, Moved
  <2>7. ToSet(w[2]) \cap D \subseteq S
    BY <2>4, <2>5 DEF Dropped, Moved
  <2> QED
    BY <2>5, <2>6, <2>7 DEF P
<1> HIDE DEF P
<1>3. Loops(N) \subseteq Q
  BY <1>1, <1>2, LoopEnds
<1> QED
  BY <1>3 DEF P

\* Parents in sight are in the result.
LEMMA WalkClosed ==
  ASSUME NEW cp, NEW N, Listed(cp, N), NEW g, Walk(cp, N, g)
  PROVE  \A w \in Loops(N) :
           /\ ToSet(w[1]) \subseteq DOMAIN cp.classes
           /\ \A t \in ToSet(w[1]) :
                ParentsAt(cp, t) \cap DOMAIN cp.classes \subseteq ToSet(w[1]) \cup ToSet(w[2])
           => /\ ToSet(g[w]) \subseteq DOMAIN cp.classes
              /\ \A t \in ToSet(g[w]) : ParentsAt(cp, t) \cap DOMAIN cp.classes \subseteq ToSet(g[w])
<1> DEFINE D == DOMAIN cp.classes
           Before(w) == /\ ToSet(w[1]) \subseteq D
                        /\ \A t \in ToSet(w[1]) : ParentsAt(cp, t) \cap D \subseteq ToSet(w[1]) \cup ToSet(w[2])
           After(S) == S \subseteq D /\ \A t \in S : ParentsAt(cp, t) \cap D \subseteq S
           Q == {w \in Loops(N) : Before(w) => After(ToSet(g[w]))}
<1>1. ASSUME NEW w \in Loops(N), w[2] = << >>, Before(w) PROVE After(ToSet(g[w]))
  <2>1. g[w] = w[1]
    BY <1>1 DEF Walk, Loops
  <2>2. ToSet(w[2]) = {}
    BY <1>1 DEF ToSet
  <2> QED
    BY <1>1, <2>1, <2>2
<1>2. ASSUME NEW w \in Loops(N), w[2] # << >>, Turn(cp, w[1], w[2]) \in Q, Before(w)
      PROVE  After(ToSet(g[w]))
  <2> DEFINE v == Turn(cp, w[1], w[2])
             h == Head(w[2])
  <2>1. g[w] = g[v]
    BY <1>2 DEF Walk, Loops
  <2>2. v \in Loops(N) /\ (Before(v) => After(ToSet(g[v])))
    BY <1>2
  <2>3. v = Turn(cp, w[1], w[2]) /\ h = Head(w[2])
    OBVIOUS
  <2> HIDE DEF v, h, After
  <2>4. Dropped(cp, w, v, h) \/ Moved(cp, w, v, h)
    BY <1>2, <2>3, TurnIs
  <2>5. Before(v)
    <3>1. CASE Dropped(cp, w, v, h)
      BY <1>2, <3>1 DEF Dropped
    <3>2. CASE Moved(cp, w, v, h)
      <4>1. h \in D /\ ToSet(v[1]) = ToSet(w[1]) \cup {h}
            /\ ToSet(v[2]) \cup {h} = ToSet(w[2]) \cup ParentsAt(cp, h)
        BY <3>2 DEF Moved
      <4>2. ASSUME NEW t \in ToSet(v[1]), NEW p \in ParentsAt(cp, t) \cap D
            PROVE  p \in ToSet(v[1]) \cup ToSet(v[2])
        <5>1. CASE t = h
          BY <4>1, <4>2, <5>1
        <5>2. CASE t \in ToSet(w[1])
          BY <1>2, <4>1, <4>2, <5>2
        <5> QED
          BY <4>1, <4>2, <5>1, <5>2
      <4> QED
        BY <1>2, <4>1, <4>2
    <3> QED
      BY <2>4, <3>1, <3>2
  <2> QED
    BY <2>1, <2>2, <2>5
<1> HIDE DEF Before, After
<1>3. Loops(N) \subseteq Q
  BY <1>1, <1>2, LoopEnds
<1> QED
  BY <1>3 DEF Before, After

\* Nothing comes in that is not a supertype.
LEMMA WalkStays ==
  ASSUME NEW cp, NEW N, Listed(cp, N), NEW g, Walk(cp, N, g), NEW B,
         \A t \in B \cap DOMAIN cp.classes : ParentsAt(cp, t) \cap DOMAIN cp.classes \subseteq B
  PROVE  \A w \in Loops(N) :
           ToSet(w[1]) \subseteq B /\ ToSet(w[2]) \cap DOMAIN cp.classes \subseteq B => ToSet(g[w]) \subseteq B
<1> DEFINE D == DOMAIN cp.classes
           Before(w) == ToSet(w[1]) \subseteq B /\ ToSet(w[2]) \cap D \subseteq B
           Q == {w \in Loops(N) : Before(w) => ToSet(g[w]) \subseteq B}
<1>1. ASSUME NEW w \in Loops(N), w[2] = << >>, Before(w) PROVE ToSet(g[w]) \subseteq B
  <2>1. g[w] = w[1]
    BY <1>1 DEF Walk, Loops
  <2> QED
    BY <1>1, <2>1
<1>2. ASSUME NEW w \in Loops(N), w[2] # << >>, Turn(cp, w[1], w[2]) \in Q, Before(w)
      PROVE  ToSet(g[w]) \subseteq B
  <2> DEFINE v == Turn(cp, w[1], w[2])
             h == Head(w[2])
  <2>1. g[w] = g[v]
    BY <1>2 DEF Walk, Loops
  <2>2. v \in Loops(N) /\ (Before(v) => ToSet(g[v]) \subseteq B)
    BY <1>2
  <2>3. v = Turn(cp, w[1], w[2]) /\ h = Head(w[2])
    OBVIOUS
  <2> HIDE DEF v, h
  <2>4. Dropped(cp, w, v, h) \/ Moved(cp, w, v, h)
    BY <1>2, <2>3, TurnIs
  <2>5. Before(v)
    <3>1. CASE Dropped(cp, w, v, h)
      BY <1>2, <3>1 DEF Dropped
    <3>2. CASE Moved(cp, w, v, h)
      <4>1. h \in D /\ ToSet(v[1]) = ToSet(w[1]) \cup {h}
            /\ ToSet(v[2]) \cup {h} = ToSet(w[2]) \cup ParentsAt(cp, h)
        BY <3>2 DEF Moved
      <4>2. h \in ToSet(w[2])
        <5>1. w[2] \in Seq(N)
          BY DEF Loops
        <5> QED
          BY <1>2, <2>3, <5>1, ToSetTail
      <4>3. h \in B
        BY <1>2, <4>1, <4>2
      <4>4. ParentsAt(cp, h) \cap D \subseteq B
        BY <4>1, <4>3
      <4> QED
        BY <1>2, <4>1, <4>3, <4>4
    <3> QED
      BY <2>4, <3>1, <3>2
  <2> QED
    BY <2>1, <2>2, <2>5
<1> HIDE DEF Before
<1>3. Loops(N) \subseteq Q
  BY <1>1, <1>2, LoopEnds
<1> QED
  BY <1>3 DEF Before

\* Each type of s but n comes after one it is a parent of.
Behind(cp, n, s) ==
  \A i \in DOMAIN s : s[i] = n \/ \E j \in DOMAIN s : j < i /\ s[i] \in ParentsAt(cp, s[j])

LEMMA AppendBehind ==
  ASSUME NEW cp, NEW N, NEW n, NEW s \in Seq(N), NEW h \in N, Behind(cp, n, s),
         h = n \/ \E t \in ToSet(s) : h \in ParentsAt(cp, t)
  PROVE  Behind(cp, n, Append(s, h))
<1> DEFINE r == Append(s, h)
<1>1. /\ r \in Seq(N) /\ Len(r) = Len(s) + 1 /\ DOMAIN r = 1..(Len(s) + 1) /\ r[Len(s) + 1] = h
      /\ \A i \in 1..Len(s) : r[i] = s[i]
      /\ DOMAIN s = 1..Len(s) /\ Len(s) \in Nat
  BY AppendProperties
<1> HIDE DEF r
<1>2. ASSUME NEW i \in DOMAIN r
      PROVE  r[i] = n \/ \E j \in DOMAIN r : j < i /\ r[i] \in ParentsAt(cp, r[j])
  <2>1. CASE i \in DOMAIN s
    <3>1. r[i] = s[i] /\ \A j \in DOMAIN s : j \in DOMAIN r /\ r[j] = s[j]
      BY <1>1, <2>1
    <3>2. s[i] = n \/ \E j \in DOMAIN s : j < i /\ s[i] \in ParentsAt(cp, s[j])
      BY <2>1 DEF Behind
    <3> QED
      BY <3>1, <3>2
  <2>2. CASE i \notin DOMAIN s
    <3>1. i = Len(s) + 1 /\ r[i] = h
      BY <1>1, <2>2
    <3>2. CASE h # n
      <4>1. PICK t \in ToSet(s) : h \in ParentsAt(cp, t)
        BY <3>2
      <4>2. PICK j \in DOMAIN s : t = s[j]
        BY DEF ToSet
      <4>3. j \in DOMAIN r /\ j < i /\ r[j] = t
        BY <1>1, <3>1, <4>2
      <4> QED
        BY <3>1, <4>1, <4>3
    <3> QED
      BY <3>1, <3>2
  <2> QED
    BY <2>1, <2>2
<1> QED
  BY <1>2 DEF Behind, r

\* The loop finds a type after one it is a parent of.
LEMMA WalkBehind ==
  ASSUME NEW cp, NEW N, Listed(cp, N), NEW g, Walk(cp, N, g), NEW n
  PROVE  \A w \in Loops(N) :
           /\ Behind(cp, n, w[1])
           /\ \A x \in ToSet(w[2]) : x = n \/ \E t \in ToSet(w[1]) : x \in ParentsAt(cp, t)
           => Behind(cp, n, g[w])
<1> DEFINE Seen(w) == \A x \in ToSet(w[2]) : x = n \/ \E t \in ToSet(w[1]) : x \in ParentsAt(cp, t)
           Before(w) == Behind(cp, n, w[1]) /\ Seen(w)
           Q == {w \in Loops(N) : Before(w) => Behind(cp, n, g[w])}
<1>1. ASSUME NEW w \in Loops(N), w[2] = << >>, Before(w) PROVE Behind(cp, n, g[w])
  <2>1. g[w] = w[1]
    BY <1>1 DEF Walk, Loops
  <2> QED
    BY <1>1, <2>1
<1>2. ASSUME NEW w \in Loops(N), w[2] # << >>, Turn(cp, w[1], w[2]) \in Q, Before(w)
      PROVE  Behind(cp, n, g[w])
  <2> DEFINE v == Turn(cp, w[1], w[2])
             h == Head(w[2])
  <2>1. g[w] = g[v]
    BY <1>2 DEF Walk, Loops
  <2>2. v \in Loops(N) /\ (Before(v) => Behind(cp, n, g[v]))
    BY <1>2
  <2>3. v = Turn(cp, w[1], w[2]) /\ h = Head(w[2])
    OBVIOUS
  <2>4. v[1] = w[1] \/ v[1] = Append(w[1], h)
    BY DEF Turn
  <2> HIDE DEF v, h
  <2>5. (Dropped(cp, w, v, h) \/ Moved(cp, w, v, h)) /\ h \in N
    BY <1>2, <2>3, TurnIs
  <2>6. w[1] \in Seq(N) /\ w[2] \in Seq(N) /\ h \in ToSet(w[2])
    <3>1. w[1] \in Seq(N) /\ w[2] \in Seq(N)
      BY DEF Loops
    <3> QED
      BY <1>2, <2>3, <3>1, ToSetTail
  <2>7. Behind(cp, n, v[1])
    <3>1. h = n \/ \E t \in ToSet(w[1]) : h \in ParentsAt(cp, t)
      BY <1>2, <2>6
    <3>2. Behind(cp, n, Append(w[1], h))
      BY <1>2, <2>5, <2>6, <3>1, AppendBehind
    <3> QED
      BY <1>2, <2>4, <3>2
  <2>8. Seen(v)
    <3>1. CASE Dropped(cp, w, v, h)
      BY <1>2, <3>1 DEF Dropped
    <3>2. CASE Moved(cp, w, v, h)
      BY <1>2, <3>2 DEF Moved
    <3> QED
      BY <2>5, <3>1, <3>2
  <2> QED
    BY <2>1, <2>2, <2>7, <2>8
<1> HIDE DEF Before
<1>3. Loops(N) \subseteq Q
  BY <1>1, <1>2, LoopEnds
<1> QED
  BY <1>3 DEF Before
LEMMA ParentsInSight ==
  ASSUME NEW cp, IsClassPath(cp.classes), NEW t \in DOMAIN cp.classes
  PROVE  ParentsAt(cp, t) \cap DOMAIN cp.classes
           = DirectParents(cp.classes[t]) \cap DOMAIN cp.classes
<1>1. cp.classes[t].interfaces \in Seq(Range(cp.classes[t].interfaces))
  BY DEF IsClassPath
<1>2. ToSet(cp.classes[t].interfaces) = Range(cp.classes[t].interfaces)
  BY DEF ToSet, Range
<1> QED
  BY <1>2 DEF ParentsAt, DirectParents, IsClassPath

LEMMA AllListed ==
  ASSUME NEW cp, IsClassPath(cp.classes), NEW N,
         DOMAIN cp.classes \subseteq N, NoClass \in N,
         UNION {DirectParents(f) : f \in Range(cp.classes)} \subseteq N
  PROVE  Listed(cp, N)
<1>1. ASSUME NEW t \in DOMAIN cp.classes
      PROVE  cp.classes[t].super \in N /\ cp.classes[t].interfaces \in Seq(N)
  <2> DEFINE f == cp.classes[t]
             I == Range(f.interfaces)
  <2>1. f \in Range(cp.classes)
    BY DEF Range
  <2>2. DirectParents(f) \subseteq N
    BY <2>1
  <2>3. f.super \in N /\ I \subseteq N
    <3>1. DirectParents(f) = ({f.super} \cup I) \ {NoClass} /\ NoClass \in N
      BY DEF DirectParents
    <3> HIDE DEF f, I
    <3> QED
      BY <2>2, <3>1
  <2>4. f.interfaces \in Seq(I)
    BY DEF IsClassPath
  <2> HIDE DEF f, I
  <2>5. Seq(I) \subseteq Seq(N)
    BY <2>3, SeqMonotonic
  <2> QED
    BY <2>3, <2>4, <2>5 DEF f
<1> QED
  BY <1>1 DEF Listed

\* The list of supertypes is what the loop makes of n alone.
LEMMA LoopStarts ==
  ASSUME NEW cp, IsClassPath(cp.classes), NEW n, NEW w, w = << << >>, <<n>> >>
  PROVE  /\ w[1] = << >> /\ w[2] = <<n>> /\ ToSet(w[1]) = {} /\ ToSet(w[2]) = {n}
         /\ \E N, g : /\ Listed(cp, N) /\ Walk(cp, N, g) /\ w \in Loops(N)
                      /\ supertypes(cp, n) = g[w]
<1> DEFINE D == DOMAIN cp.classes
           P == UNION {DirectParents(f) : f \in Range(cp.classes)}
           N == D \cup {n, NoClass} \cup P
           g == CHOOSE walk : Walk(cp, N, walk)
<1>1. supertypes(cp, n) = g[w]
  BY DEF supertypes, Walk
<1> HIDE DEF P
<1>2. n \in N /\ D \subseteq N /\ NoClass \in N /\ P \subseteq N
  OBVIOUS
<1> HIDE DEF N
<1>3. Listed(cp, N)
  BY <1>2, AllListed DEF P
<1>4. Walk(cp, N, g)
  BY <1>3, WalkExists
<1> HIDE DEF g
<1>5. << >> \in Seq(N) /\ <<n>> \in Seq(N) /\ DOMAIN <<n>> = {1} /\ <<n>>[1] = n
  BY <1>2
<1>6. w \in Loops(N)
  BY <1>5 DEF Loops
<1>7. ToSet(<<n>>) = {n} /\ ToSet(<< >>) = {}
  BY <1>5 DEF ToSet
<1>8. w[1] = << >> /\ w[2] = <<n>>
  OBVIOUS
<1> HIDE DEF P
<1> QED
  BY <1>1, <1>3, <1>4, <1>6, <1>7, <1>8

\* supertypes finds the supertypes, in a sequence.
LEMMA SupertypesIsHull ==
  ASSUME NEW cp, IsClassPath(cp.classes), NEW n
  PROVE  /\ \E N : supertypes(cp, n) \in Seq(N)
         /\ IsHull(cp.classes, n, Supertypes(cp, n))
         /\ Behind(cp, n, supertypes(cp, n))
<1> DEFINE D == DOMAIN cp.classes
           w == << << >>, <<n>> >>
           S == Supertypes(cp, n)
<1>1. w = << << >>, <<n>> >>
  OBVIOUS
<1> HIDE DEF w
<1>2. PICK N, g : /\ Listed(cp, N) /\ Walk(cp, N, g) /\ w \in Loops(N)
                  /\ supertypes(cp, n) = g[w]
  BY <1>1, LoopStarts
<1>3. w[1] = << >> /\ w[2] = <<n>> /\ ToSet(w[1]) = {} /\ ToSet(w[2]) = {n}
  BY <1>1, LoopStarts
<1>4. S = ToSet(g[w])
  BY <1>2 DEF Supertypes
<1>5. g[w] \in Seq(N) /\ {n} \cap D \subseteq S
  BY <1>2, <1>3, <1>4, WalkCovers
<1>6. S \subseteq D /\ \A t \in S : ParentsAt(cp, t) \cap D \subseteq S
  <2>1. /\ ToSet(w[1]) \subseteq D
        /\ \A t \in ToSet(w[1]) : ParentsAt(cp, t) \cap D \subseteq ToSet(w[1]) \cup ToSet(w[2])
    BY <1>3
  <2> QED
    BY <1>2, <1>3, <1>4, <2>1, WalkClosed
<1>7. Closed(cp.classes, S)
  <2>1. ASSUME NEW t \in S PROVE DirectParents(cp.classes[t]) \cap D \subseteq S
    <3>1. t \in D /\ ParentsAt(cp, t) \cap D \subseteq S
      BY <1>6
    <3> QED
      BY <3>1, ParentsInSight
  <2> QED
    BY <1>6, <2>1 DEF Closed
<1>8. ASSUME NEW B, Closed(cp.classes, B), {n} \cap D \subseteq B PROVE S \subseteq B
  <2>1. ASSUME NEW t \in B \cap D PROVE ParentsAt(cp, t) \cap D \subseteq B
    <3>1. ParentsAt(cp, t) \cap D = DirectParents(cp.classes[t]) \cap D
      BY ParentsInSight
    <3> QED
      BY <1>8, <3>1 DEF Closed
  <2>2. ToSet(w[1]) \subseteq B /\ ToSet(w[2]) \cap D \subseteq B
    BY <1>3, <1>8
  <2> QED
    BY <1>2, <1>3, <1>4, <2>1, <2>2, WalkStays
<1>9. IsHull(cp.classes, n, S)
  BY <1>5, <1>7, <1>8 DEF IsHull
<1>10. Behind(cp, n, g[w])
  <2>1. Behind(cp, n, w[1]) /\ \A x \in ToSet(w[2]) : x = n \/ \E t \in ToSet(w[1]) : x \in ParentsAt(cp, t)
    BY <1>3 DEF Behind
  <2> QED
    BY <1>2, <1>3, <2>1, WalkBehind
<1> QED
  BY <1>2, <1>5, <1>9, <1>10

\* The yardstick: after as many steps as there are classes nothing is added.
LEMMA AncestorsIsHull ==
  ASSUME NEW C, IsClassPath(C), NEW n
  PROVE  IsHull(C, n, Ancestors(C, n))
<1> DEFINE D == DOMAIN C
           Up(A) == A \cup (D \cap UNION {DirectParents(C[t]) : t \in A})
           IsUp(g) == g = [k \in Nat |-> IF k = 0 THEN {n} \cap D ELSE Up(g[k - 1])]
           up == CHOOSE g : IsUp(g)
           F == [A \in SUBSET D |-> Up(A)]
<1>1. Ancestors(C, n) = up[Cardinality(D)]
  BY DEF Ancestors
<1>2. \A A \in SUBSET D : F[A] = Up(A) /\ Up(A) \in SUBSET D
  OBVIOUS
<1>3. F \in [SUBSET D -> SUBSET D] /\ {n} \cap D \in SUBSET D
  BY <1>2
<1> HIDE DEF F
<1>4. PICK h \in [Nat -> SUBSET D] : h[0] = {n} \cap D /\ \A k \in Nat : h[k + 1] = F[h[k]]
  <2> DEFINE V == SUBSET D
             v == {n} \cap D
  <2>1. v \in V /\ F \in [V -> V]
    BY <1>3
  <2> HIDE DEF V, v
  <2>2. \E h \in [Nat -> V] : h[0] = v /\ \A k \in Nat : h[k + 1] = F[h[k]]
    BY <2>1, Iterates
  <2> QED
    BY <2>2 DEF V, v
<1>5. IsUp(h)
  <2>1. ASSUME NEW k \in Nat PROVE h[k] = IF k = 0 THEN {n} \cap D ELSE Up(h[k - 1])
    <3>1. CASE k = 0
      BY <1>4, <3>1
    <3>2. CASE k # 0
      <4> DEFINE j == k - 1
      <4>1. j \in Nat /\ k = j + 1
        BY <3>2
      <4> HIDE DEF j
      <4>2. h[k] = F[h[j]] /\ h[j] \in SUBSET D
        BY <1>4, <4>1
      <4>3. h[k] = Up(h[j])
        BY <1>2, <4>2
      <4> QED
        BY <3>2, <4>3 DEF j
    <3> QED
      BY <3>1, <3>2
  <2> HIDE DEF Up
  <2>2. h = [k \in Nat |-> h[k]]
    BY <1>4
  <2> QED
    BY <2>1, <2>2
<1>6. IsUp(up)
  BY <1>5
<1> HIDE DEF up
<1>7. up[0] = {n} \cap D /\ \A k \in Nat : up[k + 1] = Up(up[k])
  <2> HIDE DEF Up
  <2>1. up[0] = {n} \cap D
    BY <1>6
  <2>2. ASSUME NEW k \in Nat PROVE up[k + 1] = Up(up[k])
    <3> DEFINE j == k + 1
    <3>1. j \in Nat /\ j # 0 /\ j - 1 = k
      OBVIOUS
    <3> HIDE DEF j
    <3>2. up[j] = Up(up[j - 1])
      BY <1>6, <3>1
    <3> QED
      BY <3>1, <3>2 DEF j
  <2> QED
    BY <2>1, <2>2
<1>8. IsFiniteSet(D)
  BY DEF IsClassPath
<1> DEFINE Fixed(A) == Up(A) \subseteq A
           T == {k \in Nat : up[k] \subseteq D /\ IsFiniteSet(up[k]) /\ (Fixed(up[k]) \/ Cardinality(up[k]) >= k)}
<1>9. Nat \subseteq T
  <2>1. 0 \in T
    <3>1. up[0] \subseteq D
      BY <1>7
    <3>2. IsFiniteSet(up[0]) /\ Cardinality(up[0]) \in Nat
      BY <1>8, <3>1, FS_Subset, FS_CardinalityType
    <3> QED
      BY <3>1, <3>2
  <2>2. ASSUME NEW k \in Nat, k \in T PROVE k + 1 \in T
    <3> DEFINE A == up[k]
               B == up[k + 1]
    <3>1. B = Up(A) /\ A \subseteq D /\ IsFiniteSet(A)
      BY <1>7, <2>2
    <3>2. A \subseteq B /\ B \subseteq D
      BY <3>1
    <3> HIDE DEF A, B
    <3>3. IsFiniteSet(B) /\ Cardinality(A) \in Nat /\ Cardinality(B) \in Nat /\ Cardinality(A) <= Cardinality(B)
          /\ (Cardinality(B) = Cardinality(A) => A = B)
      BY <1>8, <3>1, <3>2, FS_Subset, FS_CardinalityType
    <3>4. CASE Fixed(A)
      <4>1. B = A
        BY <3>1, <3>2, <3>4
      <4> QED
        BY <3>2, <3>3, <3>4, <4>1 DEF A, B
    <3>5. CASE ~Fixed(A)
      <4>1. A # B
        BY <3>1, <3>5
      <4>2. Cardinality(A) >= k
        BY <2>2, <3>5 DEF A
      <4>3. Cardinality(B) >= k + 1
        BY <3>3, <4>1, <4>2
      <4> QED
        BY <3>2, <3>3, <4>3 DEF B
    <3> QED
      BY <3>4, <3>5
  <2> HIDE DEF T
  <2> QED
    BY <2>1, <2>2, NatSteps
<1> DEFINE A == up[Cardinality(D)]
<1>10. Cardinality(D) \in Nat
  BY <1>8, FS_CardinalityType
<1>11. A \subseteq D /\ Fixed(A)
  <2>1. A \subseteq D /\ IsFiniteSet(A) /\ (Fixed(A) \/ Cardinality(A) >= Cardinality(D))
    BY <1>9, <1>10
  <2> HIDE DEF A
  <2>2. ASSUME Cardinality(A) >= Cardinality(D) PROVE A = D
    <3>1. Cardinality(A) \in Nat /\ Cardinality(A) <= Cardinality(D) /\ (Cardinality(D) = Cardinality(A) => D = A)
      BY <1>8, <2>1, FS_Subset, FS_CardinalityType
    <3> QED
      BY <1>10, <2>2, <3>1
  <2>3. Fixed(D)
    OBVIOUS
  <2> QED
    BY <2>1, <2>2, <2>3
<1>12. Closed(C, A)
  BY <1>11 DEF Closed
<1>13. {n} \cap D \subseteq A
  <2> DEFINE V == {k \in Nat : {n} \cap D \subseteq up[k]}
  <2>1. 0 \in V
    BY <1>7
  <2>2. \A k \in Nat : k \in V => k + 1 \in V
    BY <1>7
  <2> HIDE DEF V
  <2>3. Nat \subseteq V
    BY <2>1, <2>2, NatSteps
  <2> QED
    BY <1>10, <2>3 DEF V
<1>14. ASSUME NEW B, Closed(C, B), {n} \cap D \subseteq B PROVE A \subseteq B
  <2> DEFINE V == {k \in Nat : up[k] \subseteq B}
  <2>1. 0 \in V
    BY <1>7, <1>14
  <2>2. \A k \in Nat : k \in V => k + 1 \in V
    BY <1>7, <1>14 DEF Closed
  <2> HIDE DEF V
  <2>3. Nat \subseteq V
    BY <2>1, <2>2, NatSteps
  <2> QED
    BY <1>10, <2>3 DEF V
<1>15. IsHull(C, n, A)
  <2> HIDE DEF A
  <2> QED
    BY <1>12, <1>13, <1>14 DEF IsHull
<1> QED
  BY <1>1, <1>15

\* api_diff.py and the runtime see the same supertypes.
LEMMA SameSupertypes ==
  ASSUME NEW cp, IsClassPath(cp.classes), NEW n
  PROVE  Supertypes(cp, n) = Ancestors(cp.classes, n)
<1> DEFINE S == Supertypes(cp, n)
           A == Ancestors(cp.classes, n)
<1>1. IsHull(cp.classes, n, S) /\ IsHull(cp.classes, n, A)
  BY SupertypesIsHull, AncestorsIsHull
<1> HIDE DEF S, A
<1>2. S \subseteq A /\ A \subseteq S
  BY <1>1 DEF IsHull
<1> QED
  BY <1>2 DEF S, A

\* A step up from class to superclass.
NextUp(C, s) ==
  IF Last(s) \in DOMAIN C /\ C[Last(s)].super \in DOMAIN C THEN Append(s, C[Last(s)].super) ELSE s

Lines(A) == {s \in Seq(A) : s # << >>}

LEMMA LastOf ==
  ASSUME NEW A, NEW s \in Lines(A)
  PROVE  Last(s) \in A /\ Last(s) \in ToSet(s)
BY DEF Lines, Last, ToSet

LEMMA NextUpStays ==
  ASSUME NEW C, IsClassPath(C), NEW n, NEW s \in Lines(Ancestors(C, n))
  PROVE  NextUp(C, s) \in Lines(Ancestors(C, n))
<1> DEFINE A == Ancestors(C, n)
           t == Last(s)
           p == C[t].super
<1>1. IsHull(C, n, A) /\ NoClass \notin DOMAIN C
  BY AncestorsIsHull DEF IsClassPath
<1> HIDE DEF A
<1>2. s \in Lines(A)
  BY DEF A
<1>3. CASE t \in DOMAIN C /\ p \in DOMAIN C
  <2>1. t \in A
    BY <1>2, LastOf
  <2>2. NextUp(C, s) = Append(s, p)
    BY <1>3 DEF NextUp
  <2> HIDE DEF t
  <2>3. p \in DirectParents(C[t])
    BY <1>1, <1>3 DEF DirectParents
  <2>4. p \in A
    BY <1>1, <1>3, <2>1, <2>3 DEF IsHull, Closed
  <2> HIDE DEF p
  <2>5. s \in Seq(A)
    BY <1>2 DEF Lines
  <2>6. Append(s, p) \in Seq(A) /\ Append(s, p) # << >>
    BY <2>4, <2>5, AppendProperties
  <2> QED
    BY <2>2, <2>6 DEF Lines, A
<1>4. CASE ~(t \in DOMAIN C /\ p \in DOMAIN C)
  BY <1>4 DEF NextUp
<1> QED
  BY <1>3, <1>4

\* SuperChain takes as many steps up as there are classes.
IsClimb(C, n, h) ==
  /\ h \in [Nat -> Lines(Ancestors(C, n))]
  /\ h[0] = <<n>>
  /\ \A k \in Nat : h[k + 1] = NextUp(C, h[k])
  /\ SuperChain(C, n) = h[Cardinality(DOMAIN C)]

LEMMA Climbs ==
  ASSUME NEW C, IsClassPath(C), NEW n \in DOMAIN C
  PROVE  \E h : IsClimb(C, n, h)
<1> DEFINE A == Ancestors(C, n)
           V == Lines(A)
           F == [s \in V |-> NextUp(C, s)]
           v == <<n>>
           IsChain(g) == g = [k \in Nat |-> IF k = 0 THEN v ELSE NextUp(C, g[k - 1])]
           chain == CHOOSE g : IsChain(g)
<1>1. SuperChain(C, n) = chain[Cardinality(DOMAIN C)]
  BY DEF SuperChain, NextUp
<1>2. v \in V
  <2>1. n \in A
    BY AncestorsIsHull DEF IsHull
  <2> HIDE DEF A
  <2> QED
    BY <2>1 DEF Lines
<1>3. \A s \in V : NextUp(C, s) \in V
  BY NextUpStays
<1> HIDE DEF V, v
<1>4. F \in [V -> V] /\ \A s \in V : F[s] = NextUp(C, s)
  BY <1>3
<1> HIDE DEF F
<1>5. PICK h \in [Nat -> V] : h[0] = v /\ \A k \in Nat : h[k + 1] = F[h[k]]
  BY <1>2, <1>4, Iterates, SMTT(60)
<1>6. \A k \in Nat : h[k] \in V
  BY <1>5
<1>7. \A k \in Nat : h[k + 1] = NextUp(C, h[k])
  BY <1>4, <1>5, <1>6
<1>8. IsChain(h)
  <2>1. ASSUME NEW k \in Nat PROVE h[k] = IF k = 0 THEN v ELSE NextUp(C, h[k - 1])
    <3>1. CASE k = 0
      BY <1>5, <3>1
    <3>2. CASE k # 0
      <4>1. k - 1 \in Nat /\ (k - 1) + 1 = k
        BY <3>2
      <4> QED
        BY <1>7, <3>2, <4>1
    <3> QED
      BY <3>1, <3>2
  <2>2. h = [k \in Nat |-> h[k]]
    BY <1>5
  <2> QED
    BY <2>1, <2>2
<1>9. IsChain(chain)
  BY <1>8
<1> HIDE DEF chain
<1>10. chain[0] = v /\ \A k \in Nat : chain[k + 1] = NextUp(C, chain[k])
  <2>1. chain[0] = v
    BY <1>9
  <2>2. ASSUME NEW k \in Nat PROVE chain[k + 1] = NextUp(C, chain[k])
    <3> DEFINE j == k + 1
    <3>1. j \in Nat /\ j # 0 /\ j - 1 = k
      OBVIOUS
    <3> HIDE DEF j
    <3>2. chain[j] = NextUp(C, chain[j - 1])
      BY <1>9, <3>1
    <3> QED
      BY <3>1, <3>2 DEF j
  <2> QED
    BY <2>1, <2>2
<1>11. Cardinality(DOMAIN C) \in Nat
  BY FS_CardinalityType DEF IsClassPath
<1> DEFINE T == {k \in Nat : chain[k] \in V}
<1>12. Nat \subseteq T
  <2>1. 0 \in T
    BY <1>2, <1>10
  <2>2. \A k \in Nat : k \in T => k + 1 \in T
    BY <1>3, <1>10
  <2> HIDE DEF T
  <2> QED
    BY <2>1, <2>2, NatSteps
<1>13. DOMAIN chain = Nat /\ chain = [k \in Nat |-> chain[k]]
  BY <1>9
<1>14. chain \in [Nat -> V]
  BY <1>12, <1>13
<1>15. IsClimb(C, n, chain)
  BY <1>1, <1>10, <1>14 DEF IsClimb, V, v
<1> QED
  BY <1>15

\* The superclasses are among the supertypes.
LEMMA ChainIsAbove ==
  ASSUME NEW C, IsClassPath(C), NEW n
  PROVE  \A i \in DOMAIN SuperChain(C, n) : SuperChain(C, n)[i] \in Ancestors(C, n)
<1>1. CASE n \notin DOMAIN C
  <2>1. SuperChain(C, n) = << >>
    BY <1>1 DEF SuperChain
  <2> QED
    BY <2>1
<1>2. CASE n \in DOMAIN C
  <2> DEFINE A == Ancestors(C, n)
  <2>1. PICK h : IsClimb(C, n, h)
    BY <1>2, Climbs
  <2>2. Cardinality(DOMAIN C) \in Nat
    BY FS_CardinalityType DEF IsClassPath
  <2>3. h[Cardinality(DOMAIN C)] \in Lines(A) /\ SuperChain(C, n) = h[Cardinality(DOMAIN C)]
    BY <2>1, <2>2 DEF IsClimb
  <2> HIDE DEF A
  <2>4. SuperChain(C, n) \in Seq(A)
    BY <2>3 DEF Lines
  <2> QED
    BY <2>4 DEF A
<1> QED
  BY <1>1, <1>2

Declares(C, kind, t, name) == name \in DOMAIN (IF kind = "field" THEN C[t].fields ELSE C[t].methods)

\* resolve finds a member exactly if a supertype declares it.
LEMMA ResolvedIff ==
  ASSUME NEW cp, IsClassPath(cp.classes), NEW kind, NEW owner, NEW name
  PROVE  resolve(cp, kind, owner, name) # NoClass
           <=> \E t \in Supertypes(cp, owner) : Declares(cp.classes, kind, t, name)
<1> DEFINE types == supertypes(cp, owner)
           decl == {i \in DOMAIN types : name \in DOMAIN members(cp.classes[types[i]], kind)}
           first == CHOOSE i \in decl : \A j \in decl : i <= j
<1>1. PICK N : types \in Seq(N)
  BY SupertypesIsHull
<1>2. Supertypes(cp, owner) = {types[i] : i \in DOMAIN types}
  BY DEF Supertypes, ToSet
<1>3. Supertypes(cp, owner) \subseteq DOMAIN cp.classes
  BY SupertypesIsHull DEF IsHull, Closed
<1>4. resolve(cp, kind, owner, name) = IF decl = {} THEN NoClass ELSE types[first]
  BY DEF resolve, FirstOf
<1> HIDE DEF types
<1>5. decl \subseteq Nat
  BY <1>1
<1>6. decl # {} => first \in decl
  <2>1. decl # {} => \E i \in decl : \A j \in decl : i <= j
    BY <1>5, LeastElement
  <2> QED
    BY <2>1
<1>7. decl = {i \in DOMAIN types : Declares(cp.classes, kind, types[i], name)}
  BY DEF Declares, members
<1> HIDE DEF first, decl
<1>8. decl # {} => types[first] # NoClass
  BY <1>2, <1>3, <1>6, <1>7 DEF IsClassPath
<1> QED
  BY <1>2, <1>4, <1>7, <1>8

\* So does the runtime, but for constructors, which it looks for in owner only.
LEMMA FoundIff ==
  ASSUME NEW C, IsClassPath(C), NEW kind, NEW owner, NEW name
  PROVE  Found(C, kind, owner, name) # {}
           <=> \E t \in Ancestors(C, owner) : Declares(C, kind, t, name) /\ (name = "<init>" => t = owner)
<1> DEFINE mem(t) == IF kind = "field" THEN C[t].fields ELSE C[t].methods
           here(t) == name \in DOMAIN mem(t) /\ (name = "<init>" => t = owner)
           chain == SuperChain(C, owner)
           decl == {i \in DOMAIN chain : here(chain[i])}
           any == {t \in Ancestors(C, owner) : here(t)}
           one == mem(chain[CHOOSE i \in decl : \A j \in decl : i <= j])[name]
<1>1. Found(C, kind, owner, name) = IF decl # {} THEN {one} ELSE {mem(t)[name] : t \in any}
  BY DEF Found
<1>2. \A i \in DOMAIN chain : chain[i] \in Ancestors(C, owner)
  BY ChainIsAbove
<1> HIDE DEF chain, one, here
<1>3. decl # {} => any # {}
  BY <1>2
<1>4. Found(C, kind, owner, name) # {} <=> any # {}
  <2> HIDE DEF decl, any, mem
  <2> QED
    BY <1>1, <1>3
<1> USE DEF here
<1>5. any # {} <=> \E t \in Ancestors(C, owner) : Declares(C, kind, t, name) /\ (name = "<init>" => t = owner)
  BY DEF Declares
<1> QED
  BY <1>4, <1>5

\* A reference resolves for api_diff.py exactly if it does at run time.
LEMMA ResolvesAsFound ==
  ASSUME NEW cp, IsClassPath(cp.classes), NEW kind, NEW owner, NEW name, name # "<init>"
  PROVE  resolve(cp, kind, owner, name) # NoClass <=> Found(cp.classes, kind, owner, name) # {}
BY ResolvedIff, FoundIff, SameSupertypes

-----------------------------------------------------------------------------
(***************************************************************************)
(* Classes and interfaces of a release that compiles.                      *)
(***************************************************************************)

IsClass(C, t) == t \in DOMAIN C /\ ~IsInterface(C[t])

\* A class is the superclass of what it is a parent of, another class.
LEMMA OnlySuperclasses ==
  ASSUME NEW C, IsClassPath(C), Compiles(C), NEW t \in DOMAIN C,
         NEW p \in DirectParents(C[t]), IsClass(C, p)
  PROVE  IsClass(C, t) /\ p = C[t].super
<1>1. LegalParents(C, t) /\ "Object" \notin DOMAIN C
  BY DEF Compiles
<1>2. p = C[t].super
  BY <1>1 DEF LegalParents, IsClass
<1>3. ~IsInterface(C[t])
  BY <1>1, <1>2 DEF LegalParents, IsClass
<1> QED
  BY <1>2, <1>3 DEF IsClass

LEMMA InterfacesAbove ==
  ASSUME NEW C, IsClassPath(C), Compiles(C), NEW n, ~IsClass(C, n),
         NEW x \in Ancestors(C, n)
  PROVE  IsInterface(C[x])
<1> DEFINE A == Ancestors(C, n)
           B == {t \in A : IsInterface(C[t])}
<1>1. IsHull(C, n, A)
  BY AncestorsIsHull
<1> HIDE DEF A
<1>2. {n} \cap DOMAIN C \subseteq B
  BY <1>1 DEF IsHull, IsClass
<1>3. A \subseteq DOMAIN C
  BY <1>1 DEF IsHull, Closed
<1>4. ASSUME NEW t \in B, NEW p \in DirectParents(C[t]) \cap DOMAIN C PROVE p \in B
  <2>1. p \in A
    BY <1>1, <1>4 DEF IsHull, Closed
  <2>2. ~IsClass(C, t) /\ t \in DOMAIN C
    BY <1>3 DEF IsClass
  <2>3. ~IsClass(C, p)
    BY <2>2, OnlySuperclasses
  <2> QED
    BY <2>1, <2>3 DEF IsClass
<1>5. Closed(C, B)
  BY <1>3, <1>4 DEF Closed
<1>6. A \subseteq B
  <2> HIDE DEF B
  <2> QED
    BY <1>1, <1>2, <1>5 DEF IsHull
<1> QED
  BY <1>6 DEF A

LEMMA AncestorsOf ==
  ASSUME NEW C, IsClassPath(C), NEW n \in DOMAIN C, NEW x \in Ancestors(C, n), x # n
  PROVE  \E p \in DirectParents(C[n]) : x \in Ancestors(C, p)
<1> DEFINE U == UNION {Ancestors(C, p) : p \in DirectParents(C[n])}
           B == {n} \cup U
<1>1. \A p : IsHull(C, p, Ancestors(C, p))
  BY AncestorsIsHull
<1>2. \A p : Closed(C, Ancestors(C, p)) /\ (p \in DOMAIN C => p \in Ancestors(C, p))
  BY <1>1 DEF IsHull
<1>3. B \subseteq DOMAIN C
  BY <1>2 DEF Closed
<1>4. ASSUME NEW t \in B, NEW q \in DirectParents(C[t]) \cap DOMAIN C PROVE q \in B
  <2>1. CASE t = n
    BY <1>2, <1>4, <2>1
  <2>2. CASE t # n
    <3>1. PICK p \in DirectParents(C[n]) : t \in Ancestors(C, p)
      BY <2>2
    <3>2. q \in Ancestors(C, p)
      BY <1>2, <1>4, <3>1 DEF Closed
    <3> QED
      BY <3>2
  <2> QED
    BY <2>1, <2>2
<1>5. Closed(C, B)
  BY <1>3, <1>4 DEF Closed
<1>6. Ancestors(C, n) \subseteq B
  <2>1. {n} \cap DOMAIN C \subseteq B
    OBVIOUS
  <2> HIDE DEF B
  <2> QED
    BY <1>1, <1>5, <2>1 DEF IsHull
<1> QED
  BY <1>6

\* The classes above a class are itself and those above its superclass.
LEMMA ClassesAbove ==
  ASSUME NEW C, IsClassPath(C), Compiles(C), NEW n, IsClass(C, n),
         NEW x \in Ancestors(C, n), IsClass(C, x), x # n
  PROVE  /\ x \in Ancestors(C, C[n].super)
         /\ IsClass(C, C[n].super)
<1>1. PICK p \in DirectParents(C[n]) : x \in Ancestors(C, p)
  BY AncestorsOf DEF IsClass
<1>2. IsClass(C, p)
  BY <1>1, InterfacesAbove DEF IsClass
<1>3. p = C[n].super
  BY <1>2, OnlySuperclasses DEF IsClass
<1> QED
  BY <1>1, <1>2, <1>3

\* A class comes first in the list of supertypes, or the classes below it do.
LEMMA ClassesInOrder ==
  ASSUME NEW C, IsClassPath(C), Compiles(C), NEW n, NEW cp, cp.classes = C,
         NEW i \in DOMAIN supertypes(cp, n), IsClass(C, supertypes(cp, n)[i]),
         NEW x \in Ancestors(C, n), IsClass(C, x)
  PROVE  \/ \E j \in DOMAIN supertypes(cp, n) : j <= i /\ supertypes(cp, n)[j] = x
         \/ x \in Ancestors(C, supertypes(cp, n)[i])
<1> DEFINE s == supertypes(cp, n)
           Good(k) == \/ \E j \in DOMAIN s : j <= k /\ s[j] = x
                      \/ x \in Ancestors(C, s[k])
           T == {k \in Nat : \A j \in DOMAIN s : j <= k /\ IsClass(C, s[j]) => Good(j)}
<1>1. /\ \E N : s \in Seq(N)
      /\ IsHull(C, n, Supertypes(cp, n))
      /\ Behind(cp, n, s)
  BY SupertypesIsHull
<1>2. \A k \in DOMAIN s : s[k] \in DOMAIN C
  BY <1>1 DEF IsHull, Closed, Supertypes, ToSet
<1> HIDE DEF s
<1>3. DOMAIN s = 1..Len(s) /\ Len(s) \in Nat
  BY <1>1
<1>4. 0 \in T
  BY <1>3
<1>5. ASSUME NEW k \in Nat, k \in T PROVE k + 1 \in T
  <2>1. SUFFICES ASSUME k + 1 \in DOMAIN s, IsClass(C, s[k + 1]) PROVE Good(k + 1)
    BY <1>3, <1>5
  <2> DEFINE y == s[k + 1]
  <2>2. CASE y = n
    BY <2>2
  <2>3. CASE y # n
    <3>1. PICK j \in DOMAIN s : j < k + 1 /\ y \in ParentsAt(cp, s[j])
      BY <1>1, <2>1, <2>3 DEF Behind
    <3>2. j <= k /\ s[j] \in DOMAIN C
      BY <1>2, <1>3, <3>1
    <3> HIDE DEF y
    <3>3. IsClass(C, y) /\ y \in DirectParents(C[s[j]])
      BY <2>1, <3>1, <3>2, ParentsInSight DEF IsClass, y
    <3>4. IsClass(C, s[j]) /\ y = C[s[j]].super
      BY <3>2, <3>3, OnlySuperclasses
    <3>5. Good(j)
      BY <1>5, <3>2, <3>4
    <3>6. CASE \E h \in DOMAIN s : h <= j /\ s[h] = x
      BY <1>3, <3>2, <3>6
    <3>7. CASE x \in Ancestors(C, s[j])
      <4>1. CASE x = s[j]
        BY <1>3, <3>2, <4>1
      <4>2. CASE x # s[j]
        <5>1. x \in Ancestors(C, y)
          BY <3>4, <3>7, <4>2, ClassesAbove
        <5> QED
          BY <5>1 DEF y
      <4> QED
        BY <4>1, <4>2
    <3> QED
      BY <3>5, <3>6, <3>7
  <2> QED
    BY <2>2, <2>3
<1>6. Nat \subseteq T
  <2> HIDE DEF T
  <2> QED
    BY <1>4, <1>5, NatSteps
<1>7. Good(i)
  <2>1. i \in DOMAIN s /\ IsClass(C, s[i]) /\ i \in Nat
    BY <1>3 DEF s
  <2> QED
    BY <1>6, <2>1
<1> QED
  BY <1>7 DEF s

\* Superclasses of n, each but the last followed by its superclass.
IsLine(C, n, s) ==
  /\ n \in ToSet(s)
  /\ \A t \in ToSet(s) : IsClass(C, t) /\ (t = Last(s) \/ C[t].super \in ToSet(s))

AtTop(C, s) == C[Last(s)].super \notin DOMAIN C

LEMMA LineGrows ==
  ASSUME NEW C, Compiles(C), NEW n, NEW A, NEW s \in Lines(A), IsLine(C, n, s), ~AtTop(C, s)
  PROVE  /\ Last(NextUp(C, s)) = C[Last(s)].super
         /\ IsLine(C, n, NextUp(C, s))
<1> DEFINE t == Last(s)
           p == C[t].super
           S == A \cup {p}
           r == Append(s, p)
<1>1. t \in ToSet(s) /\ IsClass(C, t) /\ p \in DOMAIN C
  BY LastOf DEF IsLine, AtTop
<1>2. NextUp(C, s) = r
  BY <1>1 DEF NextUp, IsClass
<1>3. IsClass(C, p)
  BY <1>1 DEF Compiles, LegalParents, IsClass
<1>4. s \in Seq(S) /\ p \in S /\ s # << >>
  <2>1. s \in Seq(A) /\ s # << >>
    BY DEF Lines
  <2>2. Seq(A) \subseteq Seq(S)
    BY SeqMonotonic
  <2> QED
    BY <2>1, <2>2
<1> HIDE DEF p, S
<1>5. ToSet(r) = ToSet(s) \cup {p}
  BY <1>4, ToSetAppend
<1>6. Last(r) = p
  BY <1>4, AppendProperties DEF Last
<1>7. \A x \in ToSet(s) : x = t \/ C[x].super \in ToSet(s)
  BY DEF IsLine
<1>8. p = C[t].super
  BY DEF p
<1> HIDE DEF r, t
<1>9. IsLine(C, n, r)
  BY <1>3, <1>5, <1>6, <1>7, <1>8 DEF IsLine
<1> QED
  BY <1>2, <1>6, <1>8, <1>9 DEF t

\* Above its superclass a class has fewer types than above itself.
LEMMA FewerAbove ==
  ASSUME NEW C, IsClassPath(C), Compiles(C), NEW t, IsClass(C, t), NEW p, p = C[t].super, p \in DOMAIN C
  PROVE  /\ Cardinality(Ancestors(C, t)) \in Nat /\ Cardinality(Ancestors(C, p)) \in Nat
         /\ Cardinality(Ancestors(C, p)) < Cardinality(Ancestors(C, t))
<1>1. IsHull(C, t, Ancestors(C, t)) /\ IsHull(C, p, Ancestors(C, p))
  BY AncestorsIsHull
<1>2. t \in Ancestors(C, t) /\ Closed(C, Ancestors(C, t)) /\ Ancestors(C, t) \subseteq DOMAIN C
  BY <1>1 DEF IsHull, IsClass, Closed
<1>3. p \in DirectParents(C[t])
  BY DEF DirectParents, IsClassPath
<1>4. p \in Ancestors(C, t)
  BY <1>2, <1>3 DEF Closed
<1>5. Ancestors(C, p) \subseteq Ancestors(C, t)
  BY <1>1, <1>2, <1>4 DEF IsHull
<1>6. t \notin Ancestors(C, p)
  BY <1>3 DEF Compiles, LegalParents, IsClass
<1>7. IsFiniteSet(Ancestors(C, t)) /\ IsFiniteSet(Ancestors(C, p))
  BY <1>2, <1>5, FS_Subset DEF IsClassPath
<1>8. Ancestors(C, p) # Ancestors(C, t)
  BY <1>2, <1>6
<1> QED
  BY <1>5, <1>7, <1>8, FS_Subset, FS_CardinalityType

\* What has climbed is a line, and at the top after as many steps as there are
\* types above n.
LEMMA ClimbIsLine ==
  ASSUME NEW C, IsClassPath(C), Compiles(C), NEW n, IsClass(C, n), NEW h, IsClimb(C, n, h), NEW k \in Nat
  PROVE  IsLine(C, n, h[k]) /\ (Cardinality(Ancestors(C, n)) <= k => AtTop(C, h[k]))
<1> DEFINE A == Ancestors(C, n)
           K == Cardinality(A)
           few(s) == Cardinality(Ancestors(C, Last(s)))
<1>1. \A j \in Nat : h[j] \in Lines(A) /\ h[j + 1] = NextUp(C, h[j])
  BY DEF IsClimb
<1>2. h[0] = <<n>> /\ Last(<<n>>) = n /\ ToSet(<<n>>) = {n}
  BY DEF IsClimb, Last, ToSet
<1>3. IsFiniteSet(A) /\ K \in Nat
  <2>1. A \subseteq DOMAIN C
    BY AncestorsIsHull DEF IsHull, Closed
  <2> QED
    BY <2>1, FS_Subset, FS_CardinalityType DEF IsClassPath
<1> HIDE DEF A, K
<1>4. \A s : AtTop(C, s) => NextUp(C, s) = s
  BY DEF AtTop, NextUp
<1> DEFINE Holds(j) == IsLine(C, n, h[j]) /\ (AtTop(C, h[j]) \/ few(h[j]) + j <= K)
           T == {j \in Nat : Holds(j)}
<1>5. \A s \in Lines(A) : IsLine(C, n, s) => few(s) \in Nat /\ few(s) # 0
  <2>1. ASSUME NEW s \in Lines(A), IsLine(C, n, s) PROVE few(s) \in Nat /\ few(s) # 0
    <3>1. IsHull(C, Last(s), Ancestors(C, Last(s))) /\ Last(s) \in DOMAIN C
      BY <2>1, AncestorsIsHull, LastOf DEF IsLine, IsClass
    <3>2. Ancestors(C, Last(s)) \subseteq DOMAIN C /\ Last(s) \in Ancestors(C, Last(s))
      BY <3>1 DEF IsHull, Closed
    <3>3. IsFiniteSet(Ancestors(C, Last(s)))
      BY <3>2, FS_Subset DEF IsClassPath
    <3> QED
      BY <3>2, <3>3, FS_EmptySet, FS_CardinalityType
  <2> QED
    BY <2>1
<1>6. Holds(0)
  <2>1. IsLine(C, n, h[0])
    BY <1>2 DEF IsLine
  <2>2. few(h[0]) = K
    BY <1>2 DEF A, K
  <2> QED
    BY <1>3, <2>1, <2>2
<1>7. ASSUME NEW j \in Nat, Holds(j) PROVE Holds(j + 1)
  <2> DEFINE s == h[j]
             r == h[j + 1]
  <2>1. s \in Lines(A) /\ r = NextUp(C, s) /\ IsLine(C, n, s)
    BY <1>1, <1>7
  <2>2. CASE AtTop(C, s)
    BY <1>4, <2>1, <2>2
  <2>3. CASE ~AtTop(C, s)
    <3>1. few(s) + j <= K
      BY <1>7, <2>3
    <3> HIDE DEF s, r
    <3>2. Last(r) = C[Last(s)].super /\ IsLine(C, n, r)
      BY <2>1, <2>3, LineGrows
    <3>3. IsClass(C, Last(s)) /\ C[Last(s)].super \in DOMAIN C
      BY <2>1, <2>3, LastOf DEF IsLine, AtTop
    <3>4. few(s) \in Nat /\ few(r) \in Nat /\ few(r) < few(s)
      BY <3>2, <3>3, FewerAbove
    <3>5. few(r) + (j + 1) <= K
      <4> HIDE DEF few
      <4> QED
        BY <1>3, <3>1, <3>4
    <3> QED
      BY <3>2, <3>5 DEF r
  <2> QED
    BY <2>2, <2>3
<1>8. 0 \in T /\ \A j \in Nat : j \in T => j + 1 \in T
  BY <1>6, <1>7
<1> HIDE DEF T
<1>9. Nat \subseteq T
  BY <1>8, NatSteps
<1>10. Holds(k)
  BY <1>9 DEF T
<1>11. few(h[k]) \in Nat /\ few(h[k]) # 0
  BY <1>1, <1>5, <1>10
<1> HIDE DEF few
<1>12. K <= k => AtTop(C, h[k])
  BY <1>3, <1>10, <1>11
<1> QED
  BY <1>10, <1>12 DEF K, A

\* The chain of superclasses has all classes above a class, and only classes.
LEMMA ChainIsComplete ==
  ASSUME NEW C, IsClassPath(C), Compiles(C), NEW n, IsClass(C, n), NEW x
  PROVE  x \in Range(SuperChain(C, n)) <=> x \in Ancestors(C, n) /\ IsClass(C, x)
<1> DEFINE A == Ancestors(C, n)
           K == Cardinality(DOMAIN C)
<1>1. PICK h : IsClimb(C, n, h)
  BY Climbs DEF IsClass
<1>2. K \in Nat
  BY FS_CardinalityType DEF IsClassPath
<1>3. /\ \A k \in Nat : h[k] \in Lines(A) /\ h[k + 1] = NextUp(C, h[k])
      /\ h[0] = <<n>> /\ SuperChain(C, n) = h[K]
  BY <1>1 DEF IsClimb
<1>4. IsHull(C, n, A)
  BY AncestorsIsHull
<1> HIDE DEF A, K
<1>5. Cardinality(A) <= K
  <2>1. A \subseteq DOMAIN C
    BY <1>4 DEF IsHull, Closed
  <2> QED
    BY <2>1, FS_Subset DEF IsClassPath, K
<1> DEFINE s == h[K]
           R == ToSet(s)
<1>6. IsLine(C, n, s) /\ AtTop(C, s) /\ s \in Seq(A)
  BY <1>1, <1>2, <1>3, <1>5, ClimbIsLine DEF A, Lines
<1>7. Range(SuperChain(C, n)) = R
  BY <1>3 DEF Range, ToSet
<1> HIDE DEF s
<1>8. R \subseteq A
  BY <1>6 DEF ToSet
<1>9. \A t \in R : IsClass(C, t)
  BY <1>6 DEF IsLine
<1> DEFINE B == {t \in A : IsClass(C, t) => t \in R}
<1>10. n \in R
  BY <1>6 DEF IsLine
<1>11. ASSUME NEW t \in B, NEW q \in DirectParents(C[t]) \cap DOMAIN C PROVE q \in B
  <2>1. q \in A /\ t \in DOMAIN C
    BY <1>4, <1>11 DEF IsHull, Closed
  <2>2. ASSUME IsClass(C, q) PROVE q \in R
    <3>1. IsClass(C, t) /\ q = C[t].super
      BY <2>1, <2>2, OnlySuperclasses
    <3>2. t \in R
      BY <3>1
    <3>3. t # Last(s)
      BY <1>6, <3>1 DEF AtTop
    <3> QED
      BY <1>6, <3>1, <3>2, <3>3 DEF IsLine
  <2> QED
    BY <2>1, <2>2
<1>12. Closed(C, B) /\ {n} \cap DOMAIN C \subseteq B
  <2>1. A \subseteq DOMAIN C
    BY <1>4 DEF IsHull, Closed
  <2>2. Closed(C, B)
    BY <1>11, <2>1 DEF Closed
  <2> QED
    BY <1>8, <1>10, <2>2
<1>13. A \subseteq B
  <2> HIDE DEF B
  <2> QED
    BY <1>4, <1>12 DEF IsHull
<1> QED
  BY <1>7, <1>8, <1>9, <1>13 DEF A

-----------------------------------------------------------------------------
(***************************************************************************)
(* Two class paths that look the same.                                     *)
(***************************************************************************)

\* On the types of N, which include all above them, class path D has the
\* hierarchy of C.
SameAbove(C, D, N) ==
  /\ Closed(C, N) /\ N \subseteq DOMAIN D
  /\ \A t \in N : /\ D[t].super = C[t].super
                  /\ DirectParents(D[t]) = DirectParents(C[t])
                  /\ DirectParents(C[t]) \cap DOMAIN D \subseteq DOMAIN C

LEMMA SameAncestors ==
  ASSUME NEW C, IsClassPath(C), NEW D, IsClassPath(D), NEW N, SameAbove(C, D, N), NEW n \in N
  PROVE  Ancestors(D, n) = Ancestors(C, n) /\ Ancestors(C, n) \subseteq N
<1> DEFINE A == Ancestors(C, n)
           B == Ancestors(D, n)
<1>1. IsHull(C, n, A) /\ IsHull(D, n, B)
  BY AncestorsIsHull
<1> HIDE DEF A, B
<1>2. A \subseteq N
  BY <1>1 DEF IsHull, SameAbove
<1>3. n \in A /\ n \in B
  BY <1>1 DEF IsHull, SameAbove, Closed
<1>4. \A t \in N : DirectParents(D[t]) \cap DOMAIN D = DirectParents(C[t]) \cap DOMAIN C
  BY DEF SameAbove, Closed
<1>5. Closed(D, A)
  BY <1>1, <1>2, <1>4 DEF IsHull, Closed, SameAbove
<1>6. B \subseteq A
  BY <1>1, <1>3, <1>5 DEF IsHull
<1>7. Closed(C, B)
  BY <1>1, <1>2, <1>4, <1>6 DEF IsHull, Closed, SameAbove
<1>8. A \subseteq B
  BY <1>1, <1>3, <1>7 DEF IsHull
<1> QED
  BY <1>2, <1>6, <1>8 DEF A, B

\* After as many steps as there are types above n, a climb is at the top.
LEMMA TopReached ==
  ASSUME NEW C, IsClassPath(C), Compiles(C), NEW n \in DOMAIN C, NEW h, IsClimb(C, n, h),
         NEW k \in Nat, Cardinality(Ancestors(C, n)) <= k
  PROVE  h[k + 1] = h[k]
<1>1. h[0] = <<n>> /\ h[k + 1] = NextUp(C, h[k]) /\ Last(<<n>>) = n
  BY DEF IsClimb, Last
<1>2. \A s : AtTop(C, s) => NextUp(C, s) = s
  BY DEF AtTop, NextUp
<1>3. CASE ~IsClass(C, n)
  <2>1. C[n].super = "Object" /\ "Object" \notin DOMAIN C
    BY <1>3 DEF Compiles, LegalParents, IsClass
  <2> DEFINE T == {j \in Nat : h[j] = <<n>>}
  <2>2. \A j \in Nat : h[j + 1] = NextUp(C, h[j])
    BY DEF IsClimb
  <2>3. 0 \in T /\ \A j \in Nat : j \in T => j + 1 \in T
    BY <1>1, <1>2, <2>1, <2>2 DEF AtTop
  <2> HIDE DEF T
  <2>4. Nat \subseteq T
    BY <2>3, NatSteps
  <2> QED
    BY <2>4 DEF T
<1>4. CASE IsClass(C, n)
  BY <1>1, <1>2, <1>4, ClimbIsLine
<1> QED
  BY <1>3, <1>4

\* ... and stays there.
LEMMA TopKept ==
  ASSUME NEW h, NEW m \in Nat, \A k \in Nat : m <= k => h[k + 1] = h[k]
  PROVE  \A k \in Nat : m <= k => h[k] = h[m]
<1> DEFINE T == {j \in Nat : h[m + j] = h[m]}
<1>1. 0 \in T
  OBVIOUS
<1>2. ASSUME NEW j \in Nat, j \in T PROVE j + 1 \in T
  <2>1. h[(m + j) + 1] = h[m + j] /\ (m + j) + 1 = m + (j + 1)
    OBVIOUS
  <2> QED
    BY <1>2, <2>1
<1> HIDE DEF T
<1>3. Nat \subseteq T
  BY <1>1, <1>2, NatSteps
<1>4. ASSUME NEW k \in Nat, m <= k PROVE h[k] = h[m]
  <2>1. k - m \in Nat /\ m + (k - m) = k
    BY <1>4
  <2> QED
    BY <1>3, <2>1 DEF T
<1> QED
  BY <1>4

LEMMA SameChain ==
  ASSUME NEW C, IsClassPath(C), Compiles(C), NEW D, IsClassPath(D), NEW N, SameAbove(C, D, N), NEW n \in N
  PROVE  SuperChain(D, n) = SuperChain(C, n)
<1> DEFINE A == Ancestors(C, n)
<1>1. n \in DOMAIN C /\ n \in DOMAIN D /\ Ancestors(D, n) = A /\ A \subseteq N
  BY SameAncestors DEF SameAbove, Closed
<1>2. PICK g : IsClimb(C, n, g)
  BY <1>1, Climbs
<1>3. PICK h : IsClimb(D, n, h)
  BY <1>1, Climbs
<1>4. \A k \in Nat : /\ g[k] \in Lines(A) /\ g[k + 1] = NextUp(C, g[k])
                     /\ h[k + 1] = NextUp(D, h[k])
  BY <1>2, <1>3 DEF IsClimb
<1>5. /\ g[0] = h[0]
      /\ SuperChain(C, n) = g[Cardinality(DOMAIN C)] /\ SuperChain(D, n) = h[Cardinality(DOMAIN D)]
  BY <1>2, <1>3 DEF IsClimb
<1> HIDE DEF A
<1>6. ASSUME NEW s \in Lines(A) PROVE NextUp(D, s) = NextUp(C, s)
  <2> DEFINE t == Last(s)
  <2>1. t \in N
    BY <1>1, LastOf
  <2> HIDE DEF t
  <2>2. t \in DOMAIN C /\ t \in DOMAIN D /\ D[t].super = C[t].super
    BY <2>1 DEF SameAbove, Closed
  <2>3. C[t].super \in DOMAIN C <=> D[t].super \in DOMAIN D
    BY <2>1, <2>2 DEF SameAbove, Closed, DirectParents, IsClassPath
  <2> QED
    BY <2>2, <2>3 DEF NextUp, t
<1> DEFINE T == {k \in Nat : h[k] = g[k]}
<1>7. 0 \in T /\ \A k \in Nat : k \in T => k + 1 \in T
  BY <1>4, <1>5, <1>6
<1> HIDE DEF T
<1>8. \A k \in Nat : h[k] = g[k]
  BY <1>7, NatSteps DEF T
<1> DEFINE m == Cardinality(A)
           c == Cardinality(DOMAIN C)
           d == Cardinality(DOMAIN D)
<1>9. m \in Nat /\ c \in Nat /\ d \in Nat /\ m <= c /\ m <= d
  <2>1. A \subseteq DOMAIN C /\ A \subseteq DOMAIN D
    BY <1>1 DEF SameAbove, Closed
  <2> QED
    BY <2>1, FS_Subset, FS_CardinalityType DEF IsClassPath
<1>10. \A k \in Nat : m <= k => g[k + 1] = g[k]
  BY <1>1, <1>2, TopReached DEF A
<1> HIDE DEF m, c, d
<1>11. \A k \in Nat : m <= k => g[k] = g[m]
  BY <1>9, <1>10, TopKept
<1> QED
  BY <1>5, <1>8, <1>9, <1>11 DEF c, d

\* What other packages see of the members is the same.
Visible(g, m) == m \in DOMAIN g /\ IsApi(g[m])

Alike(g, h) ==
  \A m : /\ Visible(g, m) <=> Visible(h, m)
         /\ Visible(g, m) => \A a \in Compared : a \in g[m] <=> a \in h[m]

SameSight(C, D, N) ==
  /\ SameAbove(C, D, N)
  /\ \A t \in N : Alike(C[t].methods, D[t].methods) /\ Alike(C[t].fields, D[t].fields)

LEMMA NothingNoted ==
  ASSUME NEW g, NEW h, MemberNotes(g, h) = {}
  PROVE  Alike(g, h)
<1> SUFFICES ASSUME NEW m
             PROVE  /\ Visible(g, m) <=> Visible(h, m)
                    /\ Visible(g, m) => \A a \in Compared : a \in g[m] <=> a \in h[m]
  BY DEF Alike
<1>1. CASE m \in DOMAIN g /\ m \in DOMAIN h
  <2>1. IsApi(g[m]) \/ IsApi(h[m]) => g[m] \cap Compared = h[m] \cap Compared
    BY <1>1 DEF MemberNotes
  <2>2. ASSUME g[m] \cap Compared = h[m] \cap Compared
        PROVE  (IsApi(g[m]) <=> IsApi(h[m])) /\ \A a \in Compared : a \in g[m] <=> a \in h[m]
    <3>1. \A a \in Compared : a \in g[m] <=> a \in h[m]
      BY <2>2
    <3> QED
      BY <3>1 DEF IsApi, Compared
  <2> QED
    BY <1>1, <2>1, <2>2 DEF Visible
<1>2. CASE m \in DOMAIN g /\ m \notin DOMAIN h
  BY <1>2 DEF MemberNotes, Visible
<1>3. CASE m \notin DOMAIN g /\ m \in DOMAIN h
  BY <1>3 DEF MemberNotes, Visible
<1> QED
  BY <1>1, <1>2, <1>3 DEF Visible

Here(C, kind, owner, name, t) == Declares(C, kind, t, name) /\ (name = "<init>" => t = owner)

LEMMA ChainNumbers ==
  ASSUME NEW C, IsClassPath(C), NEW n
  PROVE  DOMAIN SuperChain(C, n) \subseteq Nat
<1>1. CASE n \notin DOMAIN C
  BY <1>1 DEF SuperChain
<1>2. CASE n \in DOMAIN C
  <2>1. PICK h : IsClimb(C, n, h)
    BY <1>2, Climbs
  <2>2. Cardinality(DOMAIN C) \in Nat
    BY FS_CardinalityType DEF IsClassPath
  <2>3. SuperChain(C, n) \in Seq(Ancestors(C, n))
    BY <2>1, <2>2 DEF IsClimb, Lines
  <2> QED
    BY <2>3
<1> QED
  BY <1>1, <1>2

\* Found in the chain, at its first place, or else anywhere above.
LEMMA FoundInChain ==
  ASSUME NEW C, IsClassPath(C), NEW kind, NEW owner, NEW name,
         NEW i \in DOMAIN SuperChain(C, owner), Here(C, kind, owner, name, SuperChain(C, owner)[i]),
         \A j \in DOMAIN SuperChain(C, owner) : Here(C, kind, owner, name, SuperChain(C, owner)[j]) => i <= j
  PROVE  Found(C, kind, owner, name) = {members(C[SuperChain(C, owner)[i]], kind)[name]}
<1> DEFINE chain == SuperChain(C, owner)
           decl == {j \in DOMAIN chain : Here(C, kind, owner, name, chain[j])}
           first == CHOOSE j \in decl : \A k \in decl : j <= k
           any == {t \in Ancestors(C, owner) : Here(C, kind, owner, name, t)}
<1>1. Found(C, kind, owner, name) = IF decl # {} THEN {members(C[chain[first]], kind)[name]}
                                    ELSE {members(C[t], kind)[name] : t \in any}
  BY DEF Found, Here, Declares, members
<1>2. i \in decl /\ \A j \in decl : i <= j
  OBVIOUS
<1>3. decl \subseteq Nat
  BY ChainNumbers
<1> HIDE DEF decl
<1>4. first = i
  <2>1. first \in decl /\ \A j \in decl : first <= j
    BY <1>2
  <2> HIDE DEF first
  <2>2. first <= i /\ i <= first /\ first \in Nat /\ i \in Nat
    BY <1>2, <1>3, <2>1
  <2> QED
    BY <2>2
<1> HIDE DEF first
<1> QED
  BY <1>1, <1>2, <1>4

LEMMA FoundAbove ==
  ASSUME NEW C, NEW kind, NEW owner, NEW name,
         \A j \in DOMAIN SuperChain(C, owner) : ~Here(C, kind, owner, name, SuperChain(C, owner)[j])
  PROVE  Found(C, kind, owner, name)
           = {members(C[t], kind)[name] : t \in {u \in Ancestors(C, owner) : Here(C, kind, owner, name, u)}}
<1> DEFINE chain == SuperChain(C, owner)
           decl == {j \in DOMAIN chain : Here(C, kind, owner, name, chain[j])}
           first == CHOOSE j \in decl : \A k \in decl : j <= k
           any == {t \in Ancestors(C, owner) : Here(C, kind, owner, name, t)}
<1>1. Found(C, kind, owner, name) = IF decl # {} THEN {members(C[chain[first]], kind)[name]}
                                    ELSE {members(C[t], kind)[name] : t \in any}
  BY DEF Found, Here, Declares, members
<1>2. decl = {}
  OBVIOUS
<1> HIDE DEF decl, first
<1> QED
  BY <1>1, <1>2

\* A reference that no longer links is hidden by a member which is new and not
\* visible.
LEMMA HiddenIfBroken ==
  ASSUME NEW C, IsClassPath(C), Compiles(C), NEW D, IsClassPath(D), NEW N, SameSight(C, D, N),
         NEW r, r.owner \in N, NEW static, Links(C, r, static), ~Links(D, r, static)
  PROVE  \E t \in N : /\ t \in Hiding(D, r.kind, r.owner, r.name)
                      /\ members(C[t], r.kind) # members(D[t], r.kind)
<1> DEFINE kind == r.kind
           owner == r.owner
           name == r.name
           chain == SuperChain(C, owner)
           A == Ancestors(C, owner)
           InC(t) == Here(C, kind, owner, name, t)
           InD(t) == Here(D, kind, owner, name, t)
           FC(t) == members(C[t], kind)
           FD(t) == members(D[t], kind)
<1>1. SuperChain(D, owner) = chain /\ Ancestors(D, owner) = A /\ A \subseteq N
  BY SameAncestors, SameChain DEF SameSight
<1>2. DOMAIN chain \subseteq Nat /\ \A i \in DOMAIN chain : chain[i] \in A
  BY ChainNumbers, ChainIsAbove
<1>3. \A t \in N : Alike(FC(t), FD(t))
  BY DEF SameSight, members
<1>4. \A t : /\ InC(t) <=> name \in DOMAIN FC(t) /\ (name = "<init>" => t = owner)
             /\ InD(t) <=> name \in DOMAIN FD(t) /\ (name = "<init>" => t = owner)
  BY DEF Here, Declares, members
<1>5. PICK flags \in Found(C, kind, owner, name) : IsApi(flags) /\ ("static" \in flags <=> static)
  BY DEF Links
<1>6. ~\E g \in Found(D, kind, owner, name) : IsApi(g) /\ ("static" \in g <=> static)
  BY DEF Links
<1>7. ASSUME NEW t \in N, InC(t), IsApi(FC(t)[name])
      PROVE  InD(t) /\ IsApi(FD(t)[name]) /\ ("static" \in FC(t)[name] <=> "static" \in FD(t)[name])
  <2>1. Visible(FC(t), name)
    BY <1>4, <1>7 DEF Visible
  <2>2. Visible(FD(t), name) /\ ("static" \in FC(t)[name] <=> "static" \in FD(t)[name])
    BY <1>3, <2>1 DEF Alike, Compared
  <2> QED
    BY <1>4, <1>7, <2>2 DEF Visible
<1>8. ASSUME NEW t \in N, t \in A, NEW i \in DOMAIN chain, t = chain[i], InD(t), ~InC(t)
      PROVE  t \in Hiding(D, kind, owner, name) /\ FC(t) # FD(t)
  <2>1. name \in DOMAIN FD(t) /\ name \notin DOMAIN FC(t)
    BY <1>4, <1>8
  <2>2. ~IsApi(FD(t)[name])
    BY <1>3, <2>1 DEF Alike, Visible
  <2>3. t \in Range(SuperChain(D, owner))
    BY <1>1, <1>8 DEF Range
  <2> QED
    BY <2>1, <2>2, <2>3 DEF Hiding, members
<1> DEFINE Goal == \E t \in N : t \in Hiding(D, kind, owner, name) /\ FC(t) # FD(t)
           declC == {i \in DOMAIN chain : InC(chain[i])}
           declD == {i \in DOMAIN chain : InD(chain[i])}
<1> SUFFICES ASSUME ~Goal PROVE FALSE
  OBVIOUS
<1>9. \A i \in declD : i \in declC
  BY <1>1, <1>2, <1>8
<1> HIDE DEF Goal
<1>10. CASE declC # {}
  <2> HIDE DEF InC, InD, FC, FD, chain
  <2>1. PICK k \in declC : \A j \in declC : k <= j
    BY <1>2, <1>10, LeastElement
  <2> USE DEF chain, FC, FD, InC, InD
  <2>2. Found(C, kind, owner, name) = {FC(chain[k])[name]}
    BY <2>1, FoundInChain
  <2> HIDE DEF InC, InD, FC, FD
  <2>3. chain[k] \in N /\ InC(chain[k])
    BY <1>1, <1>2, <2>1
  <2>4. flags = FC(chain[k])[name]
    BY <1>5, <2>2
  <2>5. /\ InD(chain[k]) /\ IsApi(FD(chain[k])[name])
        /\ "static" \in FC(chain[k])[name] <=> "static" \in FD(chain[k])[name]
    BY <1>5, <1>7, <2>3, <2>4
  <2>6. \A j \in DOMAIN chain : InD(chain[j]) => k <= j
    BY <1>9, <2>1
  <2>7. Found(D, kind, owner, name) = {FD(chain[k])[name]}
    BY <1>1, <2>1, <2>5, <2>6, FoundInChain DEF InD, FD
  <2> QED
    BY <1>5, <1>6, <2>4, <2>5, <2>7
<1>11. CASE declC = {}
  <2>1. /\ \A i \in DOMAIN chain : ~InC(chain[i])
        /\ \A i \in DOMAIN chain : ~InD(chain[i])
    BY <1>9, <1>11
  <2>2. /\ Found(C, kind, owner, name) = {FC(t)[name] : t \in {u \in A : InC(u)}}
        /\ Found(D, kind, owner, name) = {FD(t)[name] : t \in {u \in A : InD(u)}}
    <3>1. Found(C, kind, owner, name) = {FC(t)[name] : t \in {u \in A : InC(u)}}
      BY <2>1, FoundAbove
    <3>2. Found(D, kind, owner, name) = {FD(t)[name] : t \in {u \in A : InD(u)}}
      BY <1>1, <2>1, FoundAbove
    <3> QED
      BY <3>1, <3>2
  <2> HIDE DEF InC, InD, FC, FD, A
  <2>3. PICK t \in A : InC(t) /\ flags = FC(t)[name]
    BY <1>5, <2>2
  <2>4. InD(t) /\ IsApi(FD(t)[name]) /\ ("static" \in FC(t)[name] <=> "static" \in FD(t)[name])
    BY <1>1, <1>5, <1>7, <2>3
  <2>5. FD(t)[name] \in Found(D, kind, owner, name)
    BY <2>2, <2>4
  <2> QED
    BY <1>5, <1>6, <2>3, <2>4, <2>5
<1> QED
  BY <1>10, <1>11

\* Which method a call selects depends on what is in sight only.
LEMMA SameSelected ==
  ASSUME NEW C, IsClassPath(C), Compiles(C), NEW D, IsClassPath(D), NEW N, SameSight(C, D, N),
         NEW n \in N, NEW m, Unimplemented(D, n, m)
  PROVE  Unimplemented(C, n, m)
<1> DEFINE chain == SuperChain(C, n)
           A == Ancestors(C, n)
           InC(t) == m \in DOMAIN C[t].methods /\ IsApi(C[t].methods[m]) /\ "static" \notin C[t].methods[m]
           InD(t) == m \in DOMAIN D[t].methods /\ IsApi(D[t].methods[m]) /\ "static" \notin D[t].methods[m]
           AbC(t) == "abstract" \in C[t].methods[m]
           AbD(t) == "abstract" \in D[t].methods[m]
           declC == {i \in DOMAIN chain : InC(chain[i])}
           declD == {i \in DOMAIN chain : InD(chain[i])}
           allC == {t \in A : InC(t)}
           allD == {t \in A : InD(t)}
           nearC == {t \in allC : \A u \in allC \ {t} : t \notin Ancestors(C, u)}
           nearD == {t \in allD : \A u \in allD \ {t} : t \notin Ancestors(D, u)}
<1>1. SuperChain(D, n) = chain /\ Ancestors(D, n) = A /\ A \subseteq N
  BY SameAncestors, SameChain DEF SameSight
<1>2. \A i \in DOMAIN chain : chain[i] \in A
  BY ChainIsAbove
<1>3. Unimplemented(C, n, m) = IF declC # {}
                               THEN AbC(chain[CHOOSE i \in declC : \A j \in declC : i <= j])
                               ELSE nearC # {} /\ \A t \in nearC : AbC(t)
  BY DEF Unimplemented
<1>4. Unimplemented(D, n, m) = IF declD # {}
                               THEN AbD(chain[CHOOSE i \in declD : \A j \in declD : i <= j])
                               ELSE nearD # {} /\ \A t \in nearD : AbD(t)
  BY <1>1 DEF Unimplemented
<1>5. \A t \in A : (InC(t) <=> InD(t)) /\ (InC(t) => (AbC(t) <=> AbD(t)))
  <2> SUFFICES ASSUME NEW t \in A PROVE (InC(t) <=> InD(t)) /\ (InC(t) => (AbC(t) <=> AbD(t)))
    OBVIOUS
  <2>1. Alike(C[t].methods, D[t].methods)
    BY <1>1 DEF SameSight
  <2> QED
    BY <2>1 DEF Alike, Visible, Compared
<1>6. \A u \in A : Ancestors(D, u) = Ancestors(C, u)
  BY <1>1, SameAncestors DEF SameSight
<1> HIDE DEF A, chain, InC, InD, AbC, AbD
<1>7. declC = declD /\ allC = allD
  BY <1>2, <1>5
<1>8. nearC = nearD
  BY <1>5, <1>6, <1>7
<1>9. declC # {} => (CHOOSE i \in declC : \A j \in declC : i <= j) \in declC
  <2>1. declC \subseteq Nat
    BY ChainNumbers DEF chain
  <2> HIDE DEF declC
  <2>2. declC # {} => \E i \in declC : \A j \in declC : i <= j
    BY <2>1, LeastElement
  <2> QED
    BY <2>2
<1> DEFINE first == CHOOSE i \in declC : \A j \in declC : i <= j
<1>10. CASE declC # {}
  <2>1. AbD(chain[first])
    BY <1>4, <1>7, <1>10
  <2>2. chain[first] \in A /\ InC(chain[first])
    BY <1>2, <1>9, <1>10
  <2> HIDE DEF first
  <2>3. AbC(chain[first])
    BY <1>5, <2>1, <2>2
  <2> QED
    BY <1>3, <1>10, <2>3 DEF first
<1>11. CASE declC = {}
  <2>1. nearD # {} /\ \A t \in nearD : AbD(t)
    BY <1>4, <1>7, <1>11
  <2>2. \A t \in nearC : t \in A /\ InC(t)
    OBVIOUS
  <2> HIDE DEF nearC, nearD
  <2>3. nearC # {} /\ \A t \in nearC : AbC(t)
    BY <1>5, <1>8, <2>1, <2>2
  <2> QED
    BY <1>3, <1>11, <2>3
<1> QED
  BY <1>10, <1>11

-----------------------------------------------------------------------------
(***************************************************************************)
(* The order in which two class paths are searched.                        *)
(***************************************************************************)

\* What is in s before x first is, everything if it never is.
Prior(s, x) == {s[i] : i \in {j \in DOMAIN s : \A k \in DOMAIN s : k <= j => s[k] # x}}

LEMMA PriorConcat ==
  ASSUME NEW N, NEW s \in Seq(N), NEW t \in Seq(N), NEW x
  PROVE  Prior(s \o t, x) = IF x \in ToSet(s) THEN Prior(s, x) ELSE ToSet(s) \cup Prior(t, x)
<1> DEFINE r == s \o t
           l == Len(s)
<1>1. /\ r \in Seq(N) /\ Len(r) = l + Len(t) /\ l \in Nat /\ Len(t) \in Nat
      /\ \A i \in 1..Len(r) : r[i] = IF i <= l THEN s[i] ELSE t[i - l]
      /\ DOMAIN r = 1..Len(r) /\ DOMAIN s = 1..l /\ DOMAIN t = 1..Len(t)
  BY ConcatProperties
<1> HIDE DEF r, l
<1>2. /\ \A i \in DOMAIN s : i \in DOMAIN r /\ r[i] = s[i]
      /\ \A i \in DOMAIN t : l + i \in DOMAIN r /\ r[l + i] = t[i] /\ l + i \notin DOMAIN s
      /\ \A i \in DOMAIN r \ DOMAIN s : i - l \in DOMAIN t /\ r[i] = t[i - l]
  <2>1. \A i \in DOMAIN s : i \in DOMAIN r /\ r[i] = s[i]
    BY <1>1
  <2>2. ASSUME NEW i \in DOMAIN t PROVE l + i \in DOMAIN r /\ r[l + i] = t[i] /\ l + i \notin DOMAIN s
    <3>1. l + i \in DOMAIN r /\ ~(l + i <= l) /\ (l + i) - l = i
      BY <1>1
    <3> QED
      BY <1>1, <3>1
  <2>3. \A i \in DOMAIN r \ DOMAIN s : i - l \in DOMAIN t /\ r[i] = t[i - l]
    BY <1>1
  <2> QED
    BY <2>1, <2>2, <2>3
<1> DEFINE before(q, j) == \A k \in DOMAIN q : k <= j => q[k] # x
<1>3. CASE x \in ToSet(s)
  <2>1. PICK k \in DOMAIN s : s[k] = x
    BY <1>3 DEF ToSet
  <2>2. ASSUME NEW j \in DOMAIN r PROVE before(r, j) <=> j \in DOMAIN s /\ before(s, j)
    <3>1. ASSUME before(r, j) PROVE j \in DOMAIN s /\ before(s, j)
      <4>1. ~(k <= j)
        BY <1>2, <2>1, <3>1
      <4>2. j \in DOMAIN s
        BY <1>1, <2>1, <4>1
      <4> QED
        BY <1>2, <3>1, <4>2
    <3>2. ASSUME j \in DOMAIN s, before(s, j), NEW i \in DOMAIN r, i <= j PROVE r[i] # x
      <4>1. i \in DOMAIN s
        BY <1>1, <3>2
      <4> QED
        BY <1>2, <3>2, <4>1
    <3> QED
      BY <3>1, <3>2
  <2> HIDE DEF before
  <2>3. {r[i] : i \in {j \in DOMAIN r : before(r, j)}} = {s[i] : i \in {j \in DOMAIN s : before(s, j)}}
    BY <1>2, <2>2
  <2> QED
    BY <1>3, <2>3 DEF Prior, before, r
<1>4. CASE x \notin ToSet(s)
  <2>1. \A k \in DOMAIN s : s[k] # x
    BY <1>4 DEF ToSet
  <2>2. \A j \in DOMAIN s : before(r, j)
    <3>1. ASSUME NEW j \in DOMAIN s, NEW i \in DOMAIN r, i <= j PROVE r[i] # x
      <4>1. i \in DOMAIN s
        BY <1>1, <3>1
      <4> QED
        BY <1>2, <2>1, <4>1
    <3> QED
      BY <3>1
  <2>3. ASSUME NEW j \in DOMAIN t PROVE before(r, l + j) <=> before(t, j)
    <3>1. ASSUME before(r, l + j), NEW i \in DOMAIN t, i <= j PROVE t[i] # x
      <4>1. l + i <= l + j
        BY <1>1, <3>1
      <4> QED
        BY <1>2, <3>1, <4>1
    <3>2. ASSUME before(t, j), NEW i \in DOMAIN r, i <= l + j PROVE r[i] # x
      <4>1. CASE i \in DOMAIN s
        BY <1>2, <2>1, <4>1
      <4>2. CASE i \notin DOMAIN s
        <5>1. i - l <= j /\ i - l \in DOMAIN t
          BY <1>1, <1>2, <3>2, <4>2
        <5> QED
          BY <1>2, <3>2, <4>2, <5>1
      <4> QED
        BY <4>1, <4>2
    <3> QED
      BY <3>1, <3>2
  <2>4. \A i \in DOMAIN r \ DOMAIN s : l + (i - l) = i
    BY <1>1
  <2> HIDE DEF before
  <2>5. ASSUME NEW i \in DOMAIN r, before(r, i)
        PROVE  r[i] \in ToSet(s) \cup {t[j] : j \in {k \in DOMAIN t : before(t, k)}}
    <3>1. CASE i \in DOMAIN s
      BY <1>2, <3>1 DEF ToSet
    <3>2. CASE i \notin DOMAIN s
      <4>1. i - l \in DOMAIN t /\ r[i] = t[i - l] /\ before(r, l + (i - l))
        BY <1>2, <2>4, <2>5, <3>2
      <4>2. before(t, i - l)
        BY <2>3, <4>1
      <4> QED
        BY <4>1, <4>2
    <3> QED
      BY <3>1, <3>2
  <2>6. ASSUME NEW i \in DOMAIN s PROVE s[i] \in {r[j] : j \in {k \in DOMAIN r : before(r, k)}}
    BY <1>2, <2>2
  <2>7. ASSUME NEW i \in DOMAIN t, before(t, i) PROVE t[i] \in {r[j] : j \in {k \in DOMAIN r : before(r, k)}}
    BY <1>2, <2>3, <2>7
  <2>8. {r[i] : i \in {j \in DOMAIN r : before(r, j)}}
          = ToSet(s) \cup {t[i] : i \in {j \in DOMAIN t : before(t, j)}}
    BY <2>5, <2>6, <2>7 DEF ToSet
  <2> QED
    BY <1>4, <2>8 DEF Prior, before, r
<1> QED
  BY <1>3, <1>4

LEMMA PriorOne ==
  ASSUME NEW e, NEW x
  PROVE  Prior(<<e>>, x) = IF e = x THEN {} ELSE {e}
<1>1. DOMAIN <<e>> = {1} /\ <<e>>[1] = e
  OBVIOUS
<1>2. \A k \in DOMAIN <<e>> : k <= 1
  BY <1>1
<1> QED
  BY <1>1, <1>2 DEF Prior

LEMMA PriorAll ==
  ASSUME NEW s, NEW x, x \notin ToSet(s)
  PROVE  Prior(s, x) = ToSet(s)
BY DEF Prior, ToSet

LEMMA PriorAppend ==
  ASSUME NEW N, NEW s \in Seq(N), NEW e \in N, NEW x
  PROVE  Prior(Append(s, e), x) = IF x \in ToSet(s) THEN Prior(s, x)
                                  ELSE IF e = x THEN ToSet(s) ELSE ToSet(s) \cup {e}
<1> DEFINE q == <<e>>
<1>1. Append(s, e) = s \o q /\ q \in Seq(N)
  OBVIOUS
<1>2. Prior(q, x) = IF e = x THEN {} ELSE {e}
  BY PriorOne
<1> HIDE DEF q
<1>3. Prior(s \o q, x) = IF x \in ToSet(s) THEN Prior(s, x) ELSE ToSet(s) \cup Prior(q, x)
  BY <1>1, PriorConcat
<1> QED
  BY <1>1, <1>2, <1>3

LEMMA PriorHead ==
  ASSUME NEW N, NEW s \in Seq(N), s # << >>, NEW x
  PROVE  Prior(s, x) = IF Head(s) = x THEN {} ELSE {Head(s)} \cup Prior(Tail(s), x)
<1> DEFINE h == <<Head(s)>>
           r == Tail(s)
<1>1. s = h \o r /\ h \in Seq(N) /\ r \in Seq(N)
  BY HeadTailProperties
<1>2. ToSet(h) = {Head(s)}
  BY DEF ToSet
<1>3. Prior(h, x) = IF Head(s) = x THEN {} ELSE {Head(s)}
  BY PriorOne
<1> HIDE DEF h, r
<1>4. Prior(h \o r, x) = IF x \in ToSet(h) THEN Prior(h, x) ELSE ToSet(h) \cup Prior(r, x)
  BY <1>1, PriorConcat
<1>5. CASE Head(s) = x
  BY <1>1, <1>2, <1>3, <1>4, <1>5 DEF r
<1>6. CASE Head(s) # x
  BY <1>1, <1>2, <1>4, <1>6 DEF r
<1> QED
  BY <1>5, <1>6

\* n and the parents of the types in S, as far as there are any.
Following(cp, n, S) == ({n} \cup UNION {ParentsAt(cp, t) : t \in S}) \cap DOMAIN cp.classes

\* x is the only type among A that y is a parent of, and y comes with it.
OnlyChild(cp, n, A, x, y) ==
  /\ x \in DOMAIN cp.classes /\ y \in DOMAIN cp.classes /\ x # y /\ y # n
  /\ y = cp.classes[x].super
  /\ \A t \in A : y \in ParentsAt(cp, t) => t = x

\* The loop has looked at h, which joins the types seen.
Extended(cp, N, w, v, h, r) ==
  /\ h \in N /\ r \in Seq(N) /\ ToSet(r) \cup {h} = ToSet(w[2])
  /\ cp.classes[h].super \in N /\ cp.classes[h].interfaces \in Seq(N)
  /\ v[1] = Append(w[1], h)
  /\ v[2] = Append(r, cp.classes[h].super) \o cp.classes[h].interfaces

\* A turn whose name is a type not seen yet.
LEMMA TurnMoves ==
  ASSUME NEW cp, NEW N, Listed(cp, N), NEW w \in Loops(N), w[2] # << >>,
         NEW h, h = Head(w[2]), h \in DOMAIN cp.classes, h \notin ToSet(w[1]),
         NEW v, v = Turn(cp, w[1], w[2]), NEW t, t = Tail(w[2])
  PROVE  Extended(cp, N, w, v, h, t)
<1>1. w[1] \in Seq(N) /\ w[2] \in Seq(N)
  BY DEF Loops
<1> DEFINE r == Tail(w[2])
           c == cp.classes[h]
           q == <<c.super>>
<1>2. h \in N /\ r \in Seq(N) /\ ToSet(r) \cup {h} = ToSet(w[2])
  BY <1>1, ToSetTail
<1>3. c.super \in N /\ c.interfaces \in Seq(N)
  BY DEF Listed
<1>4. v = <<Append(w[1], h), r \o q \o c.interfaces>>
  BY <1>1, ToSetOf DEF Turn, Has
<1>5. r \o q = Append(r, c.super)
  <2> HIDE DEF c, r
  <2> QED
    BY <1>2, <1>3 DEF q
<1> DEFINE s == Append(w[1], h)
           e == r \o q \o c.interfaces
<1>6. v = <<s, e>>
  BY <1>4
<1>7. e = Append(r, c.super) \o c.interfaces
  BY <1>5
<1> HIDE DEF e, s
<1>8. v[1] = s /\ v[2] = e
  BY <1>6
<1> QED
  BY <1>2, <1>3, <1>7, <1>8 DEF s, Extended

\* The loop takes what is before y when it takes what is before x, n and the
\* parents of that.
LEMMA WalkInTurn ==
  ASSUME NEW cp, NEW N, Listed(cp, N), NEW g, Walk(cp, N, g), NEW n, NEW A,
         A \subseteq DOMAIN cp.classes,
         \A t \in A : ParentsAt(cp, t) \cap DOMAIN cp.classes \subseteq A,
         NEW x, NEW y, OnlyChild(cp, n, A, x, y)
  PROVE  \A w \in Loops(N) :
           /\ ToSet(w[1]) \subseteq A /\ ToSet(w[2]) \cap DOMAIN cp.classes \subseteq A
           /\ IF y \in ToSet(w[1])
              THEN x \in ToSet(w[1]) /\ Prior(w[1], y) = Following(cp, n, Prior(w[1], x))
              ELSE /\ y \in ToSet(w[2]) <=> x \in ToSet(w[1])
                   /\ Following(cp, n, Prior(w[1], x))
                        = ToSet(w[1]) \cup (Prior(w[2], y) \cap DOMAIN cp.classes)
           => (x \in ToSet(g[w]) => Prior(g[w], y) = Following(cp, n, Prior(g[w], x)))
<1> DEFINE D == DOMAIN cp.classes
           S(w) == Following(cp, n, Prior(w[1], x))
           Kept(w) == ToSet(w[1]) \subseteq A /\ ToSet(w[2]) \cap D \subseteq A
           Level(w) == IF y \in ToSet(w[1])
                       THEN x \in ToSet(w[1]) /\ Prior(w[1], y) = S(w)
                       ELSE /\ y \in ToSet(w[2]) <=> x \in ToSet(w[1])
                            /\ S(w) = ToSet(w[1]) \cup (Prior(w[2], y) \cap D)
           After(s) == x \in ToSet(s) => Prior(s, y) = Following(cp, n, Prior(s, x))
           Q == {w \in Loops(N) : Kept(w) /\ Level(w) => After(g[w])}
<1>1. ASSUME NEW w \in Loops(N), w[2] = << >>, Kept(w), Level(w) PROVE After(g[w])
  <2>1. g[w] = w[1]
    BY <1>1 DEF Walk, Loops
  <2>2. y \notin ToSet(w[2])
    BY <1>1 DEF ToSet
  <2> QED
    BY <1>1, <2>1, <2>2
<1>2. ASSUME NEW w \in Loops(N), w[2] # << >>, Turn(cp, w[1], w[2]) \in Q, Kept(w), Level(w)
      PROVE  After(g[w])
  <2> DEFINE v == Turn(cp, w[1], w[2])
             h == Head(w[2])
             r == Tail(w[2])
  <2>1. g[w] = g[v]
    BY <1>2 DEF Walk, Loops
  <2>2. v \in Loops(N) /\ (Kept(v) /\ Level(v) => After(g[v]))
    BY <1>2
  <2>3. w[1] \in Seq(N) /\ w[2] \in Seq(N)
    BY DEF Loops
  <2>4. h \in N /\ r \in Seq(N) /\ ToSet(r) \cup {h} = ToSet(w[2])
    BY <1>2, <2>3, ToSetTail
  <2>5. \A z : Prior(w[2], z) = IF h = z THEN {} ELSE {h} \cup Prior(r, z)
    BY <1>2, <2>3, PriorHead
  <2>6. v = Turn(cp, w[1], w[2]) /\ h = Head(w[2]) /\ r = Tail(w[2])
    OBVIOUS
  <2>7. CASE h \in ToSet(w[1]) \/ h \notin D
    <3>1. v = <<w[1], r>>
      BY <2>3, <2>7, ToSetOf DEF Turn, Has
    <3> HIDE DEF v, h, r, After
    <3>2. v[1] = w[1] /\ v[2] = r
      BY <3>1
    <3>3. Kept(v)
      BY <1>2, <2>4, <3>2
    <3>4. y \notin ToSet(w[1]) => h # y
      BY <2>7 DEF OnlyChild
    <3>5. Level(v)
      <4>1. S(v) = S(w)
        BY <3>2
      <4> HIDE DEF S
      <4>2. CASE y \in ToSet(w[1])
        BY <1>2, <3>2, <4>1, <4>2
      <4>3. CASE y \notin ToSet(w[1])
        <5>1. y \in ToSet(r) <=> y \in ToSet(w[2])
          BY <2>4, <3>4, <4>3
        <5>2. ToSet(w[1]) \cup (Prior(w[2], y) \cap D) = ToSet(w[1]) \cup (Prior(r, y) \cap D)
          BY <2>5, <2>7, <3>4, <4>3
        <5> QED
          BY <1>2, <3>2, <4>1, <4>3, <5>1, <5>2
      <4> QED
        BY <4>2, <4>3
    <3> QED
      BY <2>1, <2>2, <3>3, <3>5
  <2>8. CASE h \in D \ ToSet(w[1])
    <3> DEFINE c == cp.classes[h]
               q == Append(r, c.super)
    <3> HIDE DEF v, h, After, Kept, Level, Q
    <3>1. /\ c.super \in N /\ c.interfaces \in Seq(N)
          /\ v[1] = Append(w[1], h) /\ v[2] = q \o c.interfaces
      <4>1. Extended(cp, N, w, v, h, r)
        <5>1. w \in Loops(N) /\ w[2] # << >> /\ h \in DOMAIN cp.classes /\ h \notin ToSet(w[1])
          BY <1>2, <2>8
        <5> HIDE DEF S, r
        <5> QED
          BY <2>6, <5>1, TurnMoves
      <4> HIDE DEF S
      <4> QED
        BY <4>1 DEF Extended
    <3> HIDE DEF r
    <3>2. ParentsAt(cp, h) = {c.super} \cup ToSet(c.interfaces)
      BY DEF ParentsAt
    <3> DEFINE p == c.super
               i == c.interfaces
               s == w[1]
    <3> HIDE DEF c, p, i, s
    <3>3. /\ q \in Seq(N) /\ ToSet(q) = ToSet(r) \cup {p}
          /\ \A z : Prior(q, z) = IF z \in ToSet(r) THEN Prior(r, z)
                                  ELSE IF p = z THEN ToSet(r) ELSE ToSet(r) \cup {p}
      <4>1. p \in N /\ q = Append(r, p)
        BY <3>1 DEF p
      <4> HIDE DEF q
      <4> QED
        BY <2>4, <4>1, ToSetAppend, PriorAppend
    <3> HIDE DEF q
    <3>4. /\ ToSet(v[2]) = ToSet(r) \cup ParentsAt(cp, h)
          /\ Prior(v[2], y) = IF y \in ToSet(q) THEN Prior(q, y) ELSE ToSet(q) \cup Prior(i, y)
      <4>1. i \in Seq(N) /\ v[2] = q \o i /\ ParentsAt(cp, h) = {p} \cup ToSet(i)
        BY <3>1, <3>2 DEF p, i
      <4>2. ToSet(q \o i) = ToSet(q) \cup ToSet(i)
        BY <3>3, <4>1, ToSetConcat
      <4>3. Prior(q \o i, y) = IF y \in ToSet(q) THEN Prior(q, y) ELSE ToSet(q) \cup Prior(i, y)
        BY <3>3, <4>1, PriorConcat
      <4> QED
        BY <3>3, <4>1, <4>2, <4>3
    <3>5. /\ ToSet(v[1]) = ToSet(w[1]) \cup {h}
          /\ \A z : Prior(v[1], z) = IF z \in ToSet(w[1]) THEN Prior(w[1], z)
                                     ELSE IF h = z THEN ToSet(w[1]) ELSE ToSet(w[1]) \cup {h}
      <4>1. s \in Seq(N) /\ v[1] = Append(s, h)
        BY <2>3, <3>1 DEF s
      <4>2. /\ ToSet(Append(s, h)) = ToSet(s) \cup {h}
            /\ \A z : Prior(Append(s, h), z) = IF z \in ToSet(s) THEN Prior(s, z)
                                               ELSE IF h = z THEN ToSet(s) ELSE ToSet(s) \cup {h}
        BY <2>4, <4>1, ToSetAppend, PriorAppend
      <4> QED
        BY <4>1, <4>2 DEF s
    <3> USE DEF Kept, Level, Q
    <3>6. h \in A /\ Kept(v)
      <4>1. h \in A
        BY <1>2, <2>4, <2>8
      <4> QED
        BY <1>2, <2>4, <3>4, <3>5, <4>1
    <3>7. Level(v)
      <4>1. CASE y \in ToSet(w[1])
        <5>1. x \in ToSet(w[1]) /\ Prior(w[1], y) = S(w)
          BY <1>2, <4>1
        <5>2. S(v) = S(w)
          BY <3>5, <5>1
        <5> HIDE DEF S
        <5> QED
          BY <3>5, <4>1, <5>1, <5>2
      <4>2. CASE y \notin ToSet(w[1]) /\ h = y
        <5>1. x \in ToSet(w[1]) /\ S(w) = ToSet(w[1])
          BY <1>2, <2>4, <2>5, <4>2
        <5>2. S(v) = S(w)
          BY <3>5, <5>1
        <5>3. y \in ToSet(v[1]) /\ Prior(v[1], y) = ToSet(w[1])
          BY <3>5, <4>2
        <5> HIDE DEF S
        <5> QED
          BY <3>5, <5>1, <5>2, <5>3
      <4>3. CASE y \notin ToSet(w[1]) /\ h # y /\ x \in ToSet(w[1])
        <5>1. y \in ToSet(r) /\ S(w) = ToSet(w[1]) \cup (Prior(w[2], y) \cap D)
          BY <1>2, <2>4, <4>3
        <5>2. S(v) = S(w)
          BY <3>5, <4>3
        <5>3. Prior(v[2], y) = Prior(r, y)
          BY <3>3, <3>4, <5>1
        <5>4. y \notin ToSet(v[1]) /\ x \in ToSet(v[1]) /\ y \in ToSet(v[2])
          BY <3>4, <3>5, <4>3, <5>1
        <5>5. S(v) = ToSet(v[1]) \cup (Prior(v[2], y) \cap D)
          <6> HIDE DEF S
          <6> QED
            BY <2>5, <2>8, <3>5, <4>3, <5>1, <5>2, <5>3
        <5> QED
          BY <5>4, <5>5
      <4>4. CASE y \notin ToSet(w[1]) /\ h # y /\ h = x
        <5>1. x \notin ToSet(w[1]) /\ y \notin ToSet(w[2]) /\ y \notin ToSet(r)
          BY <1>2, <2>4, <2>8, <4>4
        <5>2. S(w) = ToSet(w[1]) \cup (ToSet(w[2]) \cap D)
          BY <1>2, <4>4, <5>1, PriorAll
        <5>3. Prior(v[1], x) = ToSet(w[1]) /\ Prior(w[1], x) = ToSet(w[1])
          BY <3>5, <4>4, <5>1, PriorAll
        <5>4. S(v) = S(w)
          BY <5>3
        <5>5. p = y
          BY <4>4 DEF OnlyChild, c, p
        <5>6. Prior(v[2], y) = ToSet(r)
          BY <3>3, <3>4, <5>1, <5>5
        <5>7. y \notin ToSet(v[1]) /\ x \in ToSet(v[1]) /\ y \in ToSet(v[2])
          BY <3>2, <3>4, <3>5, <4>4, <5>5 DEF p
        <5>8. S(v) = ToSet(v[1]) \cup (Prior(v[2], y) \cap D)
          <6> HIDE DEF S
          <6> QED
            BY <2>4, <2>8, <3>5, <5>2, <5>4, <5>6
        <5> QED
          BY <5>7, <5>8
      <4>5. CASE y \notin ToSet(w[1]) /\ h # y /\ h # x /\ x \notin ToSet(w[1])
        <5>1. y \notin ToSet(w[2]) /\ y \notin ToSet(r)
          BY <1>2, <2>4, <4>5
        <5>2. S(w) = ToSet(w[1]) \cup (ToSet(w[2]) \cap D)
          BY <1>2, <4>5, <5>1, PriorAll
        <5>3. Prior(v[1], x) = ToSet(w[1]) \cup {h} /\ Prior(w[1], x) = ToSet(w[1])
          BY <3>5, <4>5, PriorAll
        <5>4. S(v) = S(w) \cup (ParentsAt(cp, h) \cap D)
          BY <5>3 DEF Following
        <5>5. y \notin ParentsAt(cp, h)
          BY <3>6, <4>5 DEF OnlyChild
        <5>6. y \notin ToSet(v[2]) /\ Prior(v[2], y) = ToSet(r) \cup ParentsAt(cp, h)
          BY <3>4, <5>1, <5>5, PriorAll
        <5>7. y \notin ToSet(v[1]) /\ x \notin ToSet(v[1])
          BY <3>5, <4>5
        <5>8. S(v) = ToSet(v[1]) \cup (Prior(v[2], y) \cap D)
          <6> HIDE DEF S
          <6> QED
            BY <2>4, <2>8, <3>5, <5>2, <5>4, <5>6
        <5> QED
          BY <5>6, <5>7, <5>8
      <4> QED
        BY <4>1, <4>2, <4>3, <4>4, <4>5
    <3> QED
      BY <2>1, <2>2, <3>6, <3>7
  <2> QED
    BY <2>7, <2>8
<1> HIDE DEF Kept, Level, After
<1>3. Loops(N) \subseteq Q
  BY <1>1, <1>2, LoopEnds
<1> QED
  BY <1>3 DEF Kept, Level, After

\* A class is found when the types before the one it is the superclass of have
\* had their turn.
LEMMA FoundInTurn ==
  ASSUME NEW cp, IsClassPath(cp.classes), NEW n, NEW x, NEW y,
         OnlyChild(cp, n, Ancestors(cp.classes, n), x, y), x \in Ancestors(cp.classes, n)
  PROVE  Prior(supertypes(cp, n), y) = Following(cp, n, Prior(supertypes(cp, n), x))
<1> DEFINE D == DOMAIN cp.classes
           w == << << >>, <<n>> >>
           A == Ancestors(cp.classes, n)
<1>1. w = << << >>, <<n>> >>
  OBVIOUS
<1> HIDE DEF w
<1>2. PICK N, g : /\ Listed(cp, N) /\ Walk(cp, N, g) /\ w \in Loops(N)
                  /\ supertypes(cp, n) = g[w]
  BY <1>1, LoopStarts
<1>3. /\ ToSet(w[1]) = {} /\ ToSet(w[2]) = {n}
      /\ Prior(w[1], x) = {} /\ Prior(w[2], y) = IF n = y THEN {} ELSE {n}
  <2>1. w[1] = << >> /\ w[2] = <<n>> /\ ToSet(w[1]) = {} /\ ToSet(w[2]) = {n}
    BY <1>1, LoopStarts
  <2>2. Prior(<< >>, x) = {}
    BY DEF Prior
  <2>3. Prior(<<n>>, y) = IF n = y THEN {} ELSE {n}
    BY PriorOne
  <2> QED
    BY <2>1, <2>2, <2>3
<1>4. /\ IsHull(cp.classes, n, A) /\ Closed(cp.classes, A)
      /\ A = ToSet(g[w])
  BY <1>2, AncestorsIsHull, SameSupertypes DEF Supertypes, IsHull
<1> HIDE DEF A
<1>5. A \subseteq D /\ \A t \in A : ParentsAt(cp, t) \cap D \subseteq A
  <2>1. ASSUME NEW t \in A PROVE t \in D /\ ParentsAt(cp, t) \cap D \subseteq A
    <3>1. t \in D
      BY <1>4 DEF Closed
    <3>2. ParentsAt(cp, t) \cap D = DirectParents(cp.classes[t]) \cap D
      BY <3>1, ParentsInSight
    <3> QED
      BY <1>4, <3>1, <3>2 DEF Closed
  <2> QED
    BY <2>1
<1>6. OnlyChild(cp, n, A, x, y) /\ x \in A
  BY DEF A
<1>7. y # n
  BY <1>6 DEF OnlyChild
<1>8. Following(cp, n, {}) = {n} \cap D
  BY DEF Following
<1>9. ToSet(w[2]) \cap D \subseteq A
  BY <1>3, <1>4 DEF IsHull
<1>10. /\ ToSet(w[1]) \subseteq A /\ y \notin ToSet(w[1])
       /\ y \in ToSet(w[2]) <=> x \in ToSet(w[1])
       /\ Following(cp, n, Prior(w[1], x)) = ToSet(w[1]) \cup (Prior(w[2], y) \cap D)
  BY <1>3, <1>7, <1>8
<1>11. x \in ToSet(g[w]) => Prior(g[w], y) = Following(cp, n, Prior(g[w], x))
  BY <1>2, <1>5, <1>6, <1>9, <1>10, WalkInTurn
<1> QED
  BY <1>2, <1>4, <1>6, <1>11

\* The list begins with n.
LEMMA NothingPrior ==
  ASSUME NEW cp, IsClassPath(cp.classes), NEW n
  PROVE  Prior(supertypes(cp, n), n) = {}
<1> DEFINE s == supertypes(cp, n)
<1>1. (\E N : s \in Seq(N)) /\ Behind(cp, n, s)
  BY SupertypesIsHull
<1> HIDE DEF s
<1>2. DOMAIN s = 1..Len(s) /\ Len(s) \in Nat
  BY <1>1
<1>3. ASSUME NEW j \in DOMAIN s PROVE \E k \in DOMAIN s : k <= j /\ s[k] = n
  <2>1. 1 \in DOMAIN s /\ 1 <= j /\ \A i \in DOMAIN s : ~(i < 1)
    BY <1>2
  <2>2. s[1] = n
    BY <1>1, <2>1 DEF Behind
  <2> QED
    BY <2>1, <2>2
<1> QED
  BY <1>3 DEF Prior, s

\* Of two classes above n, one is above the other.
LEMMA ClassesInLine ==
  ASSUME NEW cp, IsClassPath(cp.classes), Compiles(cp.classes), NEW n,
         NEW t \in Ancestors(cp.classes, n), IsClass(cp.classes, t),
         NEW u \in Ancestors(cp.classes, n), IsClass(cp.classes, u)
  PROVE  t \in Ancestors(cp.classes, u) \/ u \in Ancestors(cp.classes, t)
<1> DEFINE C == cp.classes
           s == supertypes(cp, n)
           at == {i \in DOMAIN s : s[i] = t}
<1>1. Ancestors(C, n) = {s[i] : i \in DOMAIN s}
  BY SameSupertypes DEF Supertypes, ToSet
<1>2. PICK N : s \in Seq(N)
  BY SupertypesIsHull
<1>3. at \subseteq Nat /\ at # {}
  <2> HIDE DEF s
  <2> QED
    BY <1>1, <1>2
<1>4. PICK i \in at : \A k \in at : i <= k
  BY <1>3, LeastElement
<1>5. CASE u \in Ancestors(C, s[i])
  BY <1>4, <1>5
<1>6. ASSUME NEW j \in DOMAIN s, j <= i, s[j] = u PROVE t \in Ancestors(C, u) \/ t = u
  <2>1. (\E k \in DOMAIN s : k <= j /\ s[k] = t) \/ t \in Ancestors(C, s[j])
    BY <1>6, ClassesInOrder
  <2>2. ASSUME NEW k \in DOMAIN s, k <= j, s[k] = t PROVE t = u
    <3>1. k \in at /\ i <= k
      BY <1>4, <2>2
    <3>2. i \in Nat /\ j \in Nat /\ k \in Nat
      <4>1. i \in DOMAIN s
        BY <1>4
      <4> HIDE DEF s
      <4> QED
        BY <1>2, <1>6, <2>2, <4>1
    <3>3. k = j
      BY <1>6, <2>2, <3>1, <3>2
    <3> QED
      BY <1>6, <2>2, <3>3
  <2> QED
    BY <1>6, <2>1, <2>2
<1>7. i \in DOMAIN s /\ IsClass(C, s[i])
  BY <1>4
<1>8. (\E j \in DOMAIN s : j <= i /\ s[j] = u) \/ u \in Ancestors(C, s[i])
  BY <1>7, ClassesInOrder
<1>9. t \in Ancestors(C, t)
  <2>1. t \in DOMAIN C /\ IsHull(C, t, Ancestors(C, t))
    BY AncestorsIsHull DEF IsClass
  <2> QED
    BY <2>1 DEF IsHull
<1> QED
  BY <1>5, <1>6, <1>8, <1>9

\* A class above n is the superclass of one type above n only.
LEMMA OneSubclass ==
  ASSUME NEW cp, IsClassPath(cp.classes), Compiles(cp.classes), NEW n \in DOMAIN cp.classes,
         NEW x \in Ancestors(cp.classes, n),
         NEW y \in DirectParents(cp.classes[x]), IsClass(cp.classes, y)
  PROVE  OnlyChild(cp, n, Ancestors(cp.classes, n), x, y)
<1> DEFINE C == cp.classes
           A == Ancestors(C, n)
<1>1. \A t : IsHull(C, t, Ancestors(C, t))
  BY AncestorsIsHull
<1>2. A \subseteq DOMAIN C /\ \A t \in DOMAIN C : t \in Ancestors(C, t)
  BY <1>1 DEF IsHull, Closed
<1>3. IsClass(C, x) /\ y = C[x].super
  BY <1>2, OnlySuperclasses
<1>4. \A t \in DOMAIN C : \A p \in DirectParents(C[t]) : t \notin Ancestors(C, p)
  BY DEF Compiles, LegalParents
<1>5. x # y
  BY <1>2, <1>3, <1>4 DEF IsClass
<1>6. y # n
  <2>1. ASSUME y = n PROVE FALSE
    <3>1. x \in Ancestors(C, y)
      BY <2>1
    <3> QED
      BY <1>2, <1>4, <3>1
  <2> QED
    BY <2>1
<1>7. ASSUME NEW t \in A, y \in ParentsAt(cp, t) PROVE t = x
  <2>1. t \in DOMAIN C /\ y \in DirectParents(C[t])
    <3>1. t \in DOMAIN C /\ y \in DOMAIN C
      BY <1>2 DEF IsClass
    <3> QED
      BY <1>7, <3>1, ParentsInSight
  <2>2. IsClass(C, t) /\ y = C[t].super
    BY <2>1, OnlySuperclasses
  <2>3. t \in Ancestors(C, x) \/ x \in Ancestors(C, t)
    BY <1>3, <2>2, ClassesInLine
  <2>4. ASSUME t # x, t \in Ancestors(C, x) PROVE FALSE
    <3>1. t \in Ancestors(C, y)
      BY <1>3, <2>2, <2>4, ClassesAbove
    <3> QED
      BY <1>4, <2>1, <3>1
  <2>5. ASSUME t # x, x \in Ancestors(C, t) PROVE FALSE
    <3>1. x \in Ancestors(C, y)
      BY <1>3, <2>2, <2>5, ClassesAbove
    <3> QED
      BY <1>2, <1>4, <3>1
  <2> QED
    BY <2>3, <2>4, <2>5
<1> QED
  BY <1>3, <1>5, <1>6, <1>7 DEF OnlyChild, IsClass

\* Two class paths that look the same are searched in the same order, as far as
\* classes are concerned.
LEMMA SameOrder ==
  ASSUME NEW was, IsClassPath(was.classes), Compiles(was.classes), NEW is, IsClassPath(is.classes),
         NEW N, SameAbove(was.classes, is.classes, N), NEW n \in N,
         NEW d \in Ancestors(was.classes, n), IsClass(was.classes, d)
  PROVE  Prior(supertypes(is, n), d) = Prior(supertypes(was, n), d)
<1> DEFINE C == was.classes
           D == is.classes
           A == Ancestors(C, n)
           before(t) == Prior(supertypes(was, n), t)
           after(t) == Prior(supertypes(is, n), t)
           B == {t \in A : IsClass(C, t) => after(t) = before(t)}
<1>1. IsHull(C, n, A) /\ n \in DOMAIN C /\ n \in DOMAIN D
  BY AncestorsIsHull DEF SameAbove, Closed
<1>2. Ancestors(D, n) = A /\ A \subseteq N
  BY SameAncestors
<1>3. A = ToSet(supertypes(was, n))
  BY SameSupertypes DEF Supertypes
<1>4. ASSUME NEW t \in N
      PROVE  /\ t \in DOMAIN C /\ t \in DOMAIN D
             /\ D[t].super = C[t].super /\ DirectParents(D[t]) = DirectParents(C[t])
             /\ ParentsAt(is, t) \cap DOMAIN D = DirectParents(C[t]) \cap DOMAIN C
             /\ ParentsAt(was, t) \cap DOMAIN C = DirectParents(C[t]) \cap DOMAIN C
  <2>1. /\ t \in DOMAIN C /\ t \in DOMAIN D
        /\ D[t].super = C[t].super /\ DirectParents(D[t]) = DirectParents(C[t])
        /\ DirectParents(D[t]) \cap DOMAIN D = DirectParents(C[t]) \cap DOMAIN C
    BY DEF SameAbove, Closed
  <2> QED
    BY <2>1, ParentsInSight
<1>5. ASSUME NEW S \in SUBSET A PROVE Following(is, n, S) = Following(was, n, S)
  <2>1. \A t \in S : ParentsAt(is, t) \cap DOMAIN D = ParentsAt(was, t) \cap DOMAIN C
    BY <1>2, <1>4
  <2> HIDE DEF A
  <2> QED
    BY <1>1, <2>1 DEF Following
<1>6. \A t : before(t) \in SUBSET A
  BY <1>3 DEF Prior, ToSet
<1>7. {n} \cap DOMAIN C \subseteq B
  <2>1. after(n) = {} /\ before(n) = {}
    BY NothingPrior
  <2> HIDE DEF before, after
  <2> QED
    BY <1>1, <2>1 DEF IsHull
<1>8. ASSUME NEW x \in B, NEW y \in DirectParents(C[x]) \cap DOMAIN C PROVE y \in B
  <2>1. x \in A /\ y \in A /\ x \in DOMAIN C
    BY <1>1, <1>8 DEF IsHull, Closed
  <2>2. SUFFICES ASSUME IsClass(C, y) PROVE after(y) = before(y)
    BY <2>1
  <2>3. OnlyChild(was, n, A, x, y)
    BY <1>1, <2>1, <2>2, OneSubclass
  <2>4. OnlyChild(is, n, A, x, y)
    <3>1. x \in N /\ y \in N /\ y \in DOMAIN C /\ y \in DOMAIN D
      BY <1>2, <1>4, <2>1
    <3>2. x \in DOMAIN D /\ x # y /\ y # n /\ y = D[x].super
      BY <1>4, <2>3, <3>1 DEF OnlyChild
    <3>3. ASSUME NEW t \in A, y \in ParentsAt(is, t) PROVE t = x
      <4>1. y \in ParentsAt(was, t)
        BY <1>2, <1>4, <3>1, <3>3
      <4> QED
        BY <2>3, <4>1 DEF OnlyChild
    <3> QED
      BY <3>1, <3>2, <3>3 DEF OnlyChild
  <2>5. before(y) = Following(was, n, before(x))
    BY <2>1, <2>3, FoundInTurn
  <2>6. after(y) = Following(is, n, after(x))
    BY <1>2, <2>1, <2>4, FoundInTurn
  <2>7. after(x) = before(x)
    <3>1. IsClass(C, x)
      BY <2>1, <2>2, OnlySuperclasses
    <3> QED
      BY <1>8, <3>1
  <2> HIDE DEF before, after, A
  <2> QED
    BY <1>5, <1>6, <2>5, <2>6, <2>7
<1>9. Closed(C, B)
  BY <1>1, <1>8 DEF IsHull, Closed
<1>10. A \subseteq B
  <2> HIDE DEF B, A
  <2> QED
    BY <1>1, <1>7, <1>9 DEF IsHull
<1> QED
  BY <1>10

-----------------------------------------------------------------------------
(***************************************************************************)
(* Overrides.                                                              *)
(***************************************************************************)

\* Types at and above n that declare method m.
Above(C, n, m) == {t \in Ancestors(C, n) : m \in DOMAIN C[t].methods}

IsFirst(cp, n, m, d) ==
  /\ d \in Above(cp.classes, n, m) /\ d # NoClass
  /\ \E i \in DOMAIN supertypes(cp, n) :
       /\ supertypes(cp, n)[i] = d
       /\ \A j \in DOMAIN supertypes(cp, n) :
            m \in DOMAIN cp.classes[supertypes(cp, n)[j]].methods => i <= j

LEMMA ResolvesToFirst ==
  ASSUME NEW cp, IsClassPath(cp.classes), NEW n, NEW m, NEW d, d = resolve(cp, "method", n, m)
  PROVE  IF Above(cp.classes, n, m) = {} THEN d = NoClass ELSE IsFirst(cp, n, m, d)
<1> DEFINE types == supertypes(cp, n)
           decl == {i \in DOMAIN types : m \in DOMAIN members(cp.classes[types[i]], "method")}
           first == CHOOSE i \in decl : \A j \in decl : i <= j
<1>1. PICK N : types \in Seq(N)
  BY SupertypesIsHull
<1>2. Ancestors(cp.classes, n) = {types[i] : i \in DOMAIN types}
  BY SameSupertypes DEF Supertypes, ToSet
<1>3. Ancestors(cp.classes, n) \subseteq DOMAIN cp.classes
  BY AncestorsIsHull DEF IsHull, Closed
<1>4. d = IF decl = {} THEN NoClass ELSE types[first]
  BY DEF resolve, FirstOf
<1> HIDE DEF types
<1>5. decl \subseteq Nat
  BY <1>1
<1>6. decl # {} => first \in decl /\ \A j \in decl : first <= j
  <2>1. decl # {} => \E i \in decl : \A j \in decl : i <= j
    BY <1>5, LeastElement
  <2> QED
    BY <2>1
<1>7. decl = {i \in DOMAIN types : m \in DOMAIN cp.classes[types[i]].methods}
  BY DEF members
<1> HIDE DEF first, decl
<1>8. decl = {} <=> Above(cp.classes, n, m) = {}
  BY <1>2, <1>7 DEF Above
<1>9. ASSUME decl # {} PROVE IsFirst(cp, n, m, d)
  <2>1. /\ first \in DOMAIN types /\ types[first] = d
        /\ \A j \in DOMAIN types : m \in DOMAIN cp.classes[types[j]].methods => first <= j
    BY <1>4, <1>6, <1>7, <1>9
  <2>2. d \in Above(cp.classes, n, m)
    BY <1>2, <1>6, <1>7, <1>9, <2>1 DEF Above
  <2>3. d # NoClass
    BY <1>3, <2>2 DEF Above, IsClassPath
  <2> QED
    BY <2>1, <2>2, <2>3 DEF IsFirst, types
<1> QED
  BY <1>4, <1>8, <1>9

\* The first type to declare a method is before the others that do.
LEMMA FirstIsPrior ==
  ASSUME NEW cp, IsClassPath(cp.classes), NEW n, NEW m, NEW d, IsFirst(cp, n, m, d),
         NEW x \in Above(cp.classes, n, m), x # d
  PROVE  d \in Prior(supertypes(cp, n), x) /\ x \notin Prior(supertypes(cp, n), d)
<1> DEFINE s == supertypes(cp, n)
<1>1. PICK i \in DOMAIN s : s[i] = d /\ \A j \in DOMAIN s : m \in DOMAIN cp.classes[s[j]].methods => i <= j
  BY DEF IsFirst
<1>2. m \in DOMAIN cp.classes[d].methods /\ m \in DOMAIN cp.classes[x].methods
  BY DEF IsFirst, Above
<1>3. PICK N : s \in Seq(N)
  BY SupertypesIsHull
<1> HIDE DEF s
<1>4. DOMAIN s \subseteq Nat
  BY <1>3
<1>5. ASSUME NEW k \in DOMAIN s, k <= i PROVE s[k] # x
  <2>1. ASSUME s[k] = x PROVE FALSE
    <3>1. i <= k
      BY <1>1, <1>2, <2>1
    <3>2. i = k
      BY <1>4, <1>5, <3>1
    <3> QED
      BY <1>1, <2>1, <3>2
  <2> QED
    BY <2>1
<1>6. d \in Prior(s, x)
  BY <1>1, <1>5 DEF Prior
<1>7. ASSUME x \in Prior(s, d) PROVE FALSE
  <2>1. PICK j \in DOMAIN s : s[j] = x /\ \A k \in DOMAIN s : k <= j => s[k] # d
    BY <1>7 DEF Prior
  <2>2. i <= j
    BY <1>1, <1>2, <2>1
  <2> QED
    BY <1>1, <2>1, <2>2
<1> QED
  BY <1>6, <1>7 DEF s

\* An override of a class that is not barred is declared where it was.
LEMMA StaysFirst ==
  ASSUME NEW was, IsClassPath(was.classes), Compiles(was.classes), NEW is, IsClassPath(is.classes),
         NEW N, SameSight(was.classes, is.classes, N), NEW n \in N, NEW m,
         NEW b, b = resolve(was, "method", n, m), b # NoClass,
         IsClass(was.classes, b), IsApi(was.classes[b].methods[m]),
         NEW d, d = resolve(is, "method", n, m), d # NoClass, IsApi(is.classes[d].methods[m])
  PROVE  d = b
<1> DEFINE C == was.classes
           D == is.classes
<1>1. SameAbove(C, D, N)
  BY DEF SameSight
<1>2. Ancestors(D, n) = Ancestors(C, n) /\ Ancestors(C, n) \subseteq N
  BY <1>1, SameAncestors
<1>3. IsFirst(was, n, m, b) /\ IsFirst(is, n, m, d)
  BY ResolvesToFirst
<1>4. /\ b \in Ancestors(C, n) /\ m \in DOMAIN C[b].methods
      /\ d \in Ancestors(D, n) /\ m \in DOMAIN D[d].methods
  BY <1>3 DEF IsFirst, Above
<1>5. m \in DOMAIN C[d].methods /\ m \in DOMAIN D[b].methods
  <2>1. Alike(C[d].methods, D[d].methods) /\ Alike(C[b].methods, D[b].methods)
    BY <1>2, <1>4 DEF SameSight
  <2> QED
    BY <1>4, <2>1 DEF Alike, Visible
<1>6. Prior(supertypes(is, n), b) = Prior(supertypes(was, n), b)
  BY <1>1, <1>4, SameOrder
<1>7. ASSUME d # b PROVE FALSE
  <2>1. d \in Above(C, n, m) /\ b \in Above(D, n, m)
    BY <1>2, <1>4, <1>5 DEF Above
  <2>2. d \notin Prior(supertypes(was, n), b)
    BY <1>3, <1>7, <2>1, FirstIsPrior
  <2>3. d \in Prior(supertypes(is, n), b)
    BY <1>3, <1>7, <2>1, FirstIsPrior
  <2> QED
    BY <1>6, <2>2, <2>3
<1> QED
  BY <1>7

\* When the first type to declare a method is a class, the other classes that
\* do are above it.
LEMMA FirstClass ==
  ASSUME NEW cp, IsClassPath(cp.classes), Compiles(cp.classes), NEW n, NEW m, NEW d,
         IsFirst(cp, n, m, d), IsClass(cp.classes, d),
         NEW x \in Above(cp.classes, n, m), IsClass(cp.classes, x), x # d
  PROVE  x \in Ancestors(cp.classes, d)
<1> DEFINE types == supertypes(cp, n)
<1>1. PICK i \in DOMAIN types : /\ types[i] = d
                                /\ \A j \in DOMAIN types :
                                     m \in DOMAIN cp.classes[types[j]].methods => i <= j
  BY DEF IsFirst
<1>2. x \in Ancestors(cp.classes, n) /\ m \in DOMAIN cp.classes[x].methods
  BY DEF Above
<1>3. \/ \E j \in DOMAIN types : j <= i /\ types[j] = x
      \/ x \in Ancestors(cp.classes, types[i])
  BY <1>1, <1>2, ClassesInOrder
<1>4. PICK N : types \in Seq(N)
  BY SupertypesIsHull
<1> HIDE DEF types
<1>5. ASSUME NEW j \in DOMAIN types, j <= i, types[j] = x PROVE FALSE
  <2>1. i <= j /\ i \in Nat /\ j \in Nat
    BY <1>1, <1>2, <1>4, <1>5
  <2> QED
    BY <1>1, <1>5, <2>1
<1> QED
  BY <1>1, <1>3, <1>5

\* For a class that only extends: what a plain method may override.
LEMMA OverriddenIs ==
  ASSUME NEW cp, IsClassPath(cp.classes), NEW f, f.interfaces = << >>, NEW m \in Plain(cp, f)
  PROVE  /\ \A t \in Above(cp.classes, f.super, m) : IsApi(cp.classes[t].methods[m])
         /\ \A t, u \in Above(cp.classes, f.super, m) :
              "static" \in cp.classes[t].methods[m] => "static" \in cp.classes[u].methods[m]
         /\ (\E t \in Above(cp.classes, f.super, m) : ~IsInterface(cp.classes[t]))
              => /\ resolve(cp, "method", f.super, m) \in Above(cp.classes, f.super, m)
                 /\ ~IsInterface(cp.classes[resolve(cp, "method", f.super, m)])
         /\ Overridden(cp.classes, f, m)
              = {t \in Above(cp.classes, f.super, m) : "static" \notin cp.classes[t].methods[m]}
         /\ UNION {Ancestors(cp.classes, p) : p \in DirectParents(f)} = Ancestors(cp.classes, f.super)
         /\ m \in DOMAIN f.methods
<1> DEFINE C == cp.classes
           A == Above(C, f.super, m)
           classes == {t \in A : ~IsInterface(C[t])}
           d == resolve(cp, "method", f.super, m)
<1>1. /\ \A t \in A : IsApi(C[t].methods[m])
      /\ \A t, u \in A : "static" \in C[t].methods[m] => "static" \in C[u].methods[m]
      /\ classes # {} => d \in classes
      /\ m \in DOMAIN f.methods
  BY DEF Plain, Above
<1>2. UNION {Ancestors(C, p) : p \in DirectParents(f)} = Ancestors(C, f.super)
  <2>1. Range(f.interfaces) = {}
    BY DEF Range
  <2>2. CASE f.super = NoClass
    <3>1. IsHull(C, NoClass, Ancestors(C, NoClass)) /\ Closed(C, {}) /\ {NoClass} \cap DOMAIN C \subseteq {}
      BY AncestorsIsHull DEF Closed, IsClassPath
    <3>2. Ancestors(C, NoClass) \subseteq {}
      BY <3>1 DEF IsHull
    <3>3. DirectParents(f) = {}
      BY <2>1, <2>2 DEF DirectParents
    <3> QED
      BY <2>2, <3>2, <3>3
  <2>3. CASE f.super # NoClass
    <3>1. DirectParents(f) = {f.super}
      BY <2>1, <2>3 DEF DirectParents
    <3> QED
      BY <3>1
  <2> QED
    BY <2>2, <2>3
<1>3. Overridden(C, f, m) = {t \in A : "static" \notin C[t].methods[m]}
  <2>1. Overridden(C, f, m) = {t \in Ancestors(C, f.super) :
           m \in DOMAIN C[t].methods /\ IsApi(C[t].methods[m]) /\ "static" \notin C[t].methods[m]}
    BY <1>2 DEF Overridden
  <2>2. A = {t \in Ancestors(C, f.super) : m \in DOMAIN C[t].methods}
    BY DEF Above
  <2> HIDE DEF A
  <2> QED
    BY <1>1, <2>1, <2>2
<1> HIDE DEF A, d
<1>4. (\E t \in A : ~IsInterface(C[t])) => d \in A /\ ~IsInterface(C[d])
  BY <1>1
<1> QED
  BY <1>1, <1>2, <1>3, <1>4 DEF A, d

\* The first declaration tells what becomes of an override.
LEMMA JudgedAfter ==
  ASSUME NEW cp, IsClassPath(cp.classes), Compiles(cp.classes), NEW f, f.interfaces = << >>,
         NEW m \in Plain(cp, f), m # "<init>", NEW d, d = resolve(cp, "method", f.super, m)
  PROVE  (\/ d = NoClass
          \/ ~IsApi(cp.classes[d].methods[m])
          \/ cp.classes[d].methods[m] \cap {"static", "final"} # {})
           <=> Overridden(cp.classes, f, m) = {} \/ Clashes(cp.classes, f, m)
<1> DEFINE C == cp.classes
           n == f.super
           A == Above(C, n, m)
           flags(t) == C[t].methods[m]
<1>1. /\ \A t \in A : IsApi(flags(t))
      /\ \A t, u \in A : "static" \in flags(t) => "static" \in flags(u)
      /\ (\E t \in A : ~IsInterface(C[t])) => d \in A /\ ~IsInterface(C[d])
      /\ Overridden(C, f, m) = {t \in A : "static" \notin flags(t)}
  BY OverriddenIs
<1>2. IF A = {} THEN d = NoClass ELSE IsFirst(cp, n, m, d)
  BY ResolvesToFirst
<1>3. A # {} => d \in A /\ d # NoClass
  BY <1>2 DEF IsFirst
<1>4. \A t \in A : t \in Ancestors(C, n) /\ t \in DOMAIN C /\ m \in DOMAIN C[t].methods
  BY AncestorsIsHull DEF Above, IsHull, Closed
<1>5. \A t \in A : IsInterface(C[t]) => "final" \notin flags(t)
  BY <1>4 DEF Compiles, LegalMethods
<1>6. Clashes(C, f, m) <=> \E t \in Range(SuperChain(C, n)) : t \in A /\ flags(t) \cap {"static", "final"} # {}
  <2>1. \A t \in Range(SuperChain(C, n)) : t \in Ancestors(C, n)
    BY ChainIsAbove DEF Range
  <2> QED
    BY <1>1, <2>1 DEF Clashes, Above
<1>7. ASSUME NEW t \in A, ~IsInterface(C[t]) PROVE t \in Range(SuperChain(C, n)) /\ IsClass(C, n)
  <2>1. IsClass(C, n)
    BY <1>4, <1>7, InterfacesAbove
  <2> QED
    BY <1>4, <1>7, <2>1, ChainIsComplete DEF IsClass
<1> HIDE DEF A, flags
<1>8. ASSUME "static" \in flags(d), d \in A PROVE Overridden(C, f, m) = {}
  BY <1>1, <1>8
<1>9. ASSUME "final" \in flags(d), d \in A PROVE Clashes(C, f, m)
  BY <1>5, <1>6, <1>7, <1>9
<1>10. ASSUME Clashes(C, f, m) PROVE d \in A /\ flags(d) \cap {"static", "final"} # {}
  <2>1. PICK t \in Range(SuperChain(C, n)) : t \in A /\ flags(t) \cap {"static", "final"} # {}
    BY <1>6, <1>10
  <2>2. d \in A
    BY <1>3, <2>1
  <2>3. CASE "static" \in flags(t)
    BY <1>1, <2>1, <2>2, <2>3
  <2>4. CASE "static" \notin flags(t)
    <3>1. "final" \in flags(t) /\ ~IsInterface(C[t])
      BY <1>5, <2>1, <2>4
    <3>2. IsClass(C, t) /\ IsClass(C, d)
      BY <1>1, <1>4, <2>1, <2>2, <3>1 DEF IsClass
    <3>3. CASE t = d
      BY <2>2, <3>1, <3>3
    <3>4. CASE t # d
      <4>1. IsFirst(cp, n, m, d)
        BY <1>2, <2>1
      <4>2. t \in Ancestors(C, d)
        BY <2>1, <3>2, <3>4, <4>1, FirstClass DEF A
      <4>3. LegalMethods(C, d)
        BY <3>2 DEF Compiles, IsClass
      <4>4. m \in DOMAIN C[d].methods /\ m \in DOMAIN C[t].methods /\ IsApi(flags(t))
        BY <1>1, <1>4, <2>1, <2>2
      <4>5. "final" \notin flags(t)
        BY <3>4, <4>2, <4>3, <4>4 DEF LegalMethods, flags
      <4> QED
        BY <3>1, <4>5
    <3> QED
      BY <3>3, <3>4
  <2> QED
    BY <2>3, <2>4
<1>11. ASSUME Overridden(C, f, m) = {} PROVE d = NoClass \/ "static" \in flags(d)
  BY <1>1, <1>2, <1>3, <1>11
<1>12. A = {} => Overridden(C, f, m) = {}
  BY <1>1
<1>13. (d = NoClass \/ ~IsApi(flags(d)) \/ flags(d) \cap {"static", "final"} # {})
          <=> Overridden(C, f, m) = {} \/ Clashes(C, f, m)
  BY <1>1, <1>3, <1>8, <1>9, <1>10, <1>11, <1>12
<1> QED
  BY <1>13 DEF flags

LEMMA RowIs ==
  ASSUME NEW c, NEW m, NEW was, NEW is, NEW r, r = OverrideRow(c, m, was, is),
         NEW d, d = resolve(is, "method", c.super, m),
         NEW b, b = resolve(was, "method", c.super, m)
  PROVE  /\ r.ours = c.name /\ r.name = m /\ r.chain = Supertypes(was, c.super)
         /\ r.inClass <=> "interface" \notin get(was, b).access
         /\ r.callers = callers_in(is, Supertypes(is, c.super), m)
         /\ r.callers_old = callers_in(was, Supertypes(was, c.super), m)
         /\ r.state \in {"removed", "barred"}
              <=> \/ d = NoClass
                  \/ ~IsApi(is.classes[d].methods[m])
                  \/ is.classes[d].methods[m] \cap {"static", "final"} # {}
         /\ r.state \notin {"removed", "barred"} /\ d = b => r.state = "unchanged"
<1>1. /\ d = FirstOf(is, supertypes(is, c.super), "method", m)
      /\ b = FirstOf(was, supertypes(was, c.super), "method", m)
  BY DEF resolve
<1> DEFINE flags == is.classes[d].methods[m]
           state == IF d = NoClass THEN "removed"
                    ELSE IF ~IsApi(flags) \/ flags \cap {"static", "final"} # {} THEN "barred"
                    ELSE IF d # b THEN "moved" ELSE "unchanged"
           inClass == "interface" \notin get(was, b).access
           chain == Supertypes(was, c.super)
           after == callers_in(is, Supertypes(is, c.super), m)
           before == callers_in(was, Supertypes(was, c.super), m)
<1>2. r = [ours |-> c.name, name |-> m, decl |-> b, inClass |-> inClass, chain |-> chain,
           state |-> state, callers |-> after, callers_old |-> before]
  BY <1>1 DEF OverrideRow, Supertypes
<1>3. state \in {"removed", "barred"} <=> d = NoClass \/ ~IsApi(flags) \/ flags \cap {"static", "final"} # {}
  <2> HIDE DEF flags
  <2> QED
    OBVIOUS
<1>4. state \notin {"removed", "barred"} /\ d = b => state = "unchanged"
  <2> HIDE DEF flags
  <2> QED
    OBVIOUS
<1>5. inClass \in BOOLEAN
  OBVIOUS
<1> HIDE DEF state, inClass, after, before, chain
<1>6. /\ r.ours = c.name /\ r.name = m /\ r.inClass = inClass /\ r.state = state
      /\ r.chain = chain /\ r.callers = after /\ r.callers_old = before
  BY <1>2
<1> QED
  BY <1>3, <1>4, <1>6 DEF inClass, chain, after, before

LEMMA RowsAre ==
  ASSUME NEW o, NEW was, NEW is, NEW r
  PROVE  r \in Overrides(o, was, is)
           <=> \E c \in o : /\ "interface" \notin c.access /\ c.super # NoClass
                            /\ \E m \in overriding(c, was) : r = OverrideRow(c, m, was, is)
<1> DEFINE S(c) == {OverrideRow(c, m, was, is) : m \in overriding(c, was)}
<1>1. \A c : r \in S(c) <=> \E m \in overriding(c, was) : r = OverrideRow(c, m, was, is)
  OBVIOUS
<1>2. Overrides(o, was, is) = UNION {S(c) : c \in {x \in o : "interface" \notin x.access /\ x.super # NoClass}}
  BY DEF Overrides
<1> HIDE DEF S
<1> QED
  BY <1>1, <1>2

\* callers_in finds a caller if there is one above.
LEMMA CallersIs ==
  ASSUME NEW cp, IsClassPath(cp.classes), NEW n, NEW m
  PROVE  callers_in(cp, Supertypes(cp, n), m) # {}
           <=> \E t \in Ancestors(cp.classes, n) : \E caller \in DOMAIN cp.classes[t].code :
                 \E i \in cp.classes[t].code[caller] :
                   i.op = "invoke" /\ i.entry.name = m /\ i.entry.owner \in Ancestors(cp.classes, n)
<1> DEFINE A == Ancestors(cp.classes, n)
           calls(t) == get(cp, t).calls
<1>1. Supertypes(cp, n) = A /\ A \subseteq DOMAIN cp.classes
  BY SameSupertypes, AncestorsIsHull DEF IsHull, Closed
<1> HIDE DEF A
<1>2. ASSUME NEW t \in A
      PROVE  /\ DOMAIN calls(t) = DOMAIN cp.classes[t].code
             /\ \A k \in DOMAIN calls(t) : \A target :
                  <<target, m>> \in calls(t)[k]
                    <=> \E i \in cp.classes[t].code[k] :
                          i.op = "invoke" /\ i.entry.owner = target /\ i.entry.name = m
  <2> DEFINE code == cp.classes[t].code
             pairs(k) == {<<i.entry.owner, i.entry.name>> : i \in {j \in code[k] : j.op = "invoke"}}
  <2>1. calls(t) = [k \in DOMAIN code |-> pairs(k)]
    BY <1>1 DEF get, parse_class
  <2>2. \A k, target : <<target, m>> \in pairs(k)
                         <=> \E i \in code[k] : i.op = "invoke" /\ i.entry.owner = target /\ i.entry.name = m
    OBVIOUS
  <2> HIDE DEF pairs, calls
  <2>3. \A k \in DOMAIN code : calls(t)[k] = pairs(k)
    BY <2>1
  <2> QED
    BY <2>1, <2>2, <2>3
<1>3. callers_in(cp, A, m) # {} <=> \E t \in A : \E k \in DOMAIN calls(t) : \E target \in A : <<target, m>> \in calls(t)[k]
  <2> DEFINE pairs == UNION {{t} \X DOMAIN calls(t) : t \in A}
  <2>1. callers_in(cp, A, m) = {c \in pairs : \E target \in A : <<target, m>> \in calls(c[1])[c[2]]}
    BY DEF callers_in
  <2> HIDE DEF calls
  <2>2. ASSUME NEW t \in A, NEW k \in DOMAIN calls(t), NEW target \in A, <<target, m>> \in calls(t)[k]
        PROVE  <<t, k>> \in callers_in(cp, A, m)
    <3>1. <<t, k>> \in pairs
      OBVIOUS
    <3> QED
      BY <2>1, <2>2, <3>1
  <2>3. ASSUME NEW c \in callers_in(cp, A, m)
        PROVE  \E t \in A : \E k \in DOMAIN calls(t) : \E target \in A : <<target, m>> \in calls(t)[k]
    <3>1. c \in pairs /\ \E target \in A : <<target, m>> \in calls(c[1])[c[2]]
      BY <2>1
    <3>2. c[1] \in A /\ c[2] \in DOMAIN calls(c[1])
      BY <3>1
    <3> QED
      BY <3>1, <3>2
  <2> QED
    BY <2>2, <2>3
<1> HIDE DEF calls
<1>4. callers_in(cp, Supertypes(cp, n), m) # {}
        <=> \E t \in A : \E k \in DOMAIN calls(t) : \E target \in A : <<target, m>> \in calls(t)[k]
  BY <1>1, <1>3
<1>5. ASSUME NEW t \in A, NEW k \in DOMAIN cp.classes[t].code, NEW i \in cp.classes[t].code[k],
             i.op = "invoke", i.entry.name = m, i.entry.owner \in A
      PROVE  \E target \in A : k \in DOMAIN calls(t) /\ <<target, m>> \in calls(t)[k]
  BY <1>2, <1>5
<1>6. ASSUME NEW t \in A, NEW k \in DOMAIN calls(t), NEW target \in A, <<target, m>> \in calls(t)[k]
      PROVE  k \in DOMAIN cp.classes[t].code /\ \E i \in cp.classes[t].code[k] :
               i.op = "invoke" /\ i.entry.name = m /\ i.entry.owner \in A
  BY <1>2, <1>6
<1>7. (\E t \in A : \E k \in DOMAIN calls(t) : \E target \in A : <<target, m>> \in calls(t)[k])
        <=> \E t \in A : \E k \in DOMAIN cp.classes[t].code : \E i \in cp.classes[t].code[k] :
              i.op = "invoke" /\ i.entry.name = m /\ i.entry.owner \in A
  <2>1. ASSUME \E t \in A : \E k \in DOMAIN calls(t) : \E target \in A : <<target, m>> \in calls(t)[k]
        PROVE  \E t \in A : \E k \in DOMAIN cp.classes[t].code : \E i \in cp.classes[t].code[k] :
                 i.op = "invoke" /\ i.entry.name = m /\ i.entry.owner \in A
    <3>1. PICK t \in A : \E k \in DOMAIN calls(t) : \E target \in A : <<target, m>> \in calls(t)[k]
      BY <2>1
    <3>2. PICK k \in DOMAIN calls(t) : \E target \in A : <<target, m>> \in calls(t)[k]
      BY <3>1
    <3> QED
      BY <1>6, <3>2
  <2>2. ASSUME NEW t \in A, NEW k \in DOMAIN cp.classes[t].code, NEW i \in cp.classes[t].code[k],
               i.op = "invoke", i.entry.name = m, i.entry.owner \in A
        PROVE  \E u \in A : \E j \in DOMAIN calls(u) : \E target \in A : <<target, m>> \in calls(u)[j]
    <3>1. \E target \in A : k \in DOMAIN calls(t) /\ <<target, m>> \in calls(t)[k]
      BY <1>5, <2>2
    <3> QED
      BY <3>1
  <2> QED
    BY <2>1, <2>2
<1> QED
  BY <1>4, <1>7 DEF A

\* The same calls, if the code with calls is the same.
LEMMA SameCallers ==
  ASSUME NEW was, NEW is, NEW types, NEW m,
         types \subseteq DOMAIN was.classes \cap DOMAIN is.classes,
         \A t \in types : \/ is.classes[t].code = was.classes[t].code
                          \/ \A cp \in {was, is} : \A k \in DOMAIN get(cp, t).calls : get(cp, t).calls[k] = {}
  PROVE  callers_in(is, types, m) = callers_in(was, types, m)
<1> DEFINE pairs(code) == [k \in DOMAIN code |->
                            {<<i.entry.owner, i.entry.name>> : i \in {j \in code[k] : j.op = "invoke"}}]
           calls(cp, t) == get(cp, t).calls
           Calls(cp, c) == /\ c[1] \in types
                           /\ c[2] \in DOMAIN calls(cp, c[1])
                           /\ \E target \in types : <<target, m>> \in calls(cp, c[1])[c[2]]
<1>1. \A t \in types : /\ calls(was, t) = pairs(was.classes[t].code)
                       /\ calls(is, t) = pairs(is.classes[t].code)
  BY DEF get, parse_class
<1> HIDE DEF pairs
<1>2. ASSUME NEW t \in types, NEW k, NEW target \in types
      PROVE  /\ k \in DOMAIN calls(was, t) /\ <<target, m>> \in calls(was, t)[k]
                  => k \in DOMAIN calls(is, t) /\ <<target, m>> \in calls(is, t)[k]
             /\ k \in DOMAIN calls(is, t) /\ <<target, m>> \in calls(is, t)[k]
                  => k \in DOMAIN calls(was, t) /\ <<target, m>> \in calls(was, t)[k]
  BY <1>1
<1> HIDE DEF calls
<1>3. \A cp : callers_in(cp, types, m) =
        {c \in UNION {{t} \X DOMAIN calls(cp, t) : t \in types} :
           \E target \in types : <<target, m>> \in calls(cp, c[1])[c[2]]}
  BY DEF callers_in, calls
<1>4. ASSUME NEW c \in callers_in(was, types, m) PROVE c \in callers_in(is, types, m)
  <2>1. PICK t \in types : c \in {t} \X DOMAIN calls(was, t)
    BY <1>3
  <2>2. c[1] = t /\ c[2] \in DOMAIN calls(was, t) /\ c = <<t, c[2]>>
    BY <2>1
  <2>3. PICK target \in types : <<target, m>> \in calls(was, t)[c[2]]
    BY <1>3, <2>2
  <2>4. c[2] \in DOMAIN calls(is, t) /\ <<target, m>> \in calls(is, t)[c[2]]
    BY <1>2, <2>2, <2>3
  <2>5. c \in {t} \X DOMAIN calls(is, t)
    BY <2>2, <2>4
  <2> QED
    BY <1>3, <2>2, <2>4, <2>5
<1>5. ASSUME NEW c \in callers_in(is, types, m) PROVE c \in callers_in(was, types, m)
  <2>1. PICK t \in types : c \in {t} \X DOMAIN calls(is, t)
    BY <1>3
  <2>2. c[1] = t /\ c[2] \in DOMAIN calls(is, t) /\ c = <<t, c[2]>>
    BY <2>1
  <2>3. PICK target \in types : <<target, m>> \in calls(is, t)[c[2]]
    BY <1>3, <2>2
  <2>4. c[2] \in DOMAIN calls(was, t) /\ <<target, m>> \in calls(was, t)[c[2]]
    BY <1>2, <2>2, <2>3
  <2>5. c \in {t} \X DOMAIN calls(was, t)
    BY <2>2, <2>4
  <2> QED
    BY <1>3, <2>2, <2>4, <2>5
<1> QED
  BY <1>4, <1>5

\* What counts as an override in the old release.
LEMMA JudgedBefore ==
  ASSUME NEW cp, IsClassPath(cp.classes), "Object" \notin DOMAIN cp.classes,
         NEW f, f.interfaces = << >>, OneKind(f), IsInterface(f) => f.super = "Object",
         "<clinit>" \in DOMAIN f.methods => "static" \in f.methods["<clinit>"],
         NEW m \in Plain(cp, f), NEW c, c = parse_class(f)
  PROVE  ("interface" \notin c.access /\ c.super # NoClass /\ m \in overriding(c, cp))
           <=> m \in Overriding(f) /\ Overridden(cp.classes, f, m) # {}
<1> DEFINE C == cp.classes
           A == Above(C, f.super, m)
           d == resolve(cp, "method", f.super, m)
<1>1. c.super = f.super /\ c.methods = f.methods
      /\ c.access = IF f.name \in DOMAIN f.inner THEN f.inner[f.name] ELSE f.access
  BY DEF parse_class
<1>2. "interface" \in c.access <=> IsInterface(f)
  BY <1>1 DEF OneKind, IsInterface
<1>3. /\ \A t \in A : IsApi(C[t].methods[m])
      /\ \A t, u \in A : "static" \in C[t].methods[m] => "static" \in C[u].methods[m]
      /\ Overridden(C, f, m) = {t \in A : "static" \notin C[t].methods[m]}
      /\ m \in DOMAIN f.methods
  BY OverriddenIs
<1>4. IF A = {} THEN d = NoClass ELSE d \in A /\ d # NoClass
  <2>1. IF A = {} THEN d = NoClass ELSE IsFirst(cp, f.super, m, d)
    BY ResolvesToFirst
  <2>2. IsFirst(cp, f.super, m, d) => d \in A /\ d # NoClass
    BY DEF IsFirst
  <2> QED
    BY <2>1, <2>2
<1>5. f.super \notin DOMAIN C => A = {}
  <2>1. IsHull(C, f.super, Ancestors(C, f.super)) /\ Closed(C, {})
    BY AncestorsIsHull DEF Closed
  <2>2. f.super \notin DOMAIN C => Ancestors(C, f.super) \subseteq {}
    BY <2>1 DEF IsHull
  <2> QED
    BY <2>2 DEF Above
<1>6. m \in overriding(c, cp)
        <=> IsOverride(c, m) /\ d # NoClass /\ IsApi(C[d].methods[m]) /\ "static" \notin C[d].methods[m]
  <2>1. d = FirstOf(cp, supertypes(cp, c.super), "method", m)
    BY <1>1 DEF resolve
  <2> HIDE DEF d
  <2> QED
    BY <1>1, <1>3, <2>1 DEF overriding
<1>7. IsOverride(c, m) <=> m \in Overriding(f)
  BY <1>1, <1>3 DEF IsOverride, Overriding
<1> HIDE DEF A, d
<1>8. (d # NoClass /\ IsApi(C[d].methods[m]) /\ "static" \notin C[d].methods[m]) <=> Overridden(C, f, m) # {}
  BY <1>3, <1>4
<1>9. "interface" \in c.access \/ c.super = NoClass => Overridden(C, f, m) = {}
  BY <1>1, <1>2, <1>3, <1>5 DEF IsClassPath
<1> QED
  BY <1>6, <1>7, <1>8, <1>9

-----------------------------------------------------------------------------
(***************************************************************************)
(* What the report is made from, and the types.                            *)
(***************************************************************************)

Ours == {parse_class(f) : f \in own}

Known ==
  /\ own \in Programs /\ old \in Releases /\ IsClassPath(new.classes)
  /\ stage # "release" => Compiles(new.classes)
  /\ edits \in 0..MaxEdits
  /\ stage \in {"release", "issue", "done"}
  /\ status \in {"none", "PASS", "WARN", "FAIL"}
  /\ report = IF stage = "release" THEN Empty ELSE Analysis(Ours, old, new)

LEMMA KnownInit == Init => Known
<1>1. ASSUME Init PROVE Known
  <2>1. IsClassPath(new.classes)
    BY <1>1, InputAssumption DEF Init, InputAssumption
  <2>2. 0 \in 0..MaxEdits
    BY SizeAssumption DEF SizeAssumption
  <2> QED
    BY <1>1, <2>1, <2>2 DEF Init, Known
<1> QED
  BY <1>1

LEMMA KnownNext == Known /\ [Next]_vars => Known'
<1> SUFFICES ASSUME Known, [Next]_vars PROVE Known'
  OBVIOUS
<1>1. CASE Develop
  <2>1. /\ UNCHANGED <<own, old, stage, report, status>> /\ stage = "release"
        /\ IsClassPath(new'.classes) /\ edits < MaxEdits /\ edits' = edits + 1
    BY <1>1 DEF Develop
  <2>2. edits' \in 0..MaxEdits
    BY <2>1, SizeAssumption DEF Known, SizeAssumption
  <2> QED
    BY <2>1, <2>2 DEF Known
<1>2. CASE Compare
  <2>1. /\ UNCHANGED <<own, old, new, edits, status>> /\ stage' = "issue"
        /\ report' = Analysis(Ours, old, new) /\ Compiles(new.classes)
    BY <1>2 DEF Compare, Ours
  <2>2. Ours' = Ours
    BY <2>1 DEF Ours
  <2> HIDE DEF Ours
  <2>3. report' = Analysis(Ours', old', new')
    BY <2>1, <2>2
  <2> QED
    BY <2>1, <2>3 DEF Known
<1>3. CASE /\ UNCHANGED <<own, old, new, edits, report>>
           /\ stage # "release" /\ stage' \in {"issue", "done"}
           /\ status' \in {"none", "PASS", "WARN", "FAIL"}
  <2>1. Analysis(Ours, old, new)' = Analysis(Ours, old, new)
    BY <1>3 DEF Ours
  <2> QED
    BY <1>3, <2>1 DEF Known
<1>4. CASE UNCHANGED vars
  BY <1>4 DEF Known, vars, Ours
<1>5. CASE RenderClass \/ Shorten \/ AppendClass \/ SkipClass \/ Finish
  BY <1>3, <1>5 DEF Known, RenderClass, Shorten, AppendClass, SkipClass, Finish, Status
<1> QED
  BY <1>1, <1>2, <1>4, <1>5 DEF Next

LEMMA ParsedIs ==
  ASSUME NEW f
  PROVE  /\ parse_class(f).name = f.name
         /\ parse_class(f).super = f.super
         /\ parse_class(f).interfaces = f.interfaces
         /\ parse_class(f).refs = {e \in f.pool : e.tag = "member"}
BY DEF parse_class

-----------------------------------------------------------------------------
(***************************************************************************)
(* References.                                                             *)
(***************************************************************************)

\* A reference api_diff.py reports: found before, and not any more.
Lost1(was, is, x) ==
  /\ x.owner \in Watched
  /\ resolve(was, x.kind, x.owner, x.name) # NoClass
  /\ ~Has(is, x.owner) \/ resolve(is, x.kind, x.owner, x.name) = NoClass

LEMMA NothingAboveNothing ==
  ASSUME NEW cp, IsClassPath(cp.classes), NEW n, ~Has(cp, n)
  PROVE  Supertypes(cp, n) = {}
<1>1. IsHull(cp.classes, n, Supertypes(cp, n))
  BY SupertypesIsHull
<1>2. Closed(cp.classes, {}) /\ {n} \cap DOMAIN cp.classes \subseteq {}
  BY DEF Closed, Has
<1>3. Supertypes(cp, n) \subseteq {}
  BY <1>1, <1>2 DEF IsHull
<1> QED
  BY <1>3

LEMMA LostIsGone ==
  ASSUME NEW was, NEW is, IsClassPath(was.classes), IsClassPath(is.classes), NEW x, x.name # "<init>"
  PROVE  Lost1(was, is, x) <=> /\ x.owner \in Watched
                               /\ Found(was.classes, x.kind, x.owner, x.name) # {}
                               /\ Found(is.classes, x.kind, x.owner, x.name) = {}
<1>1. resolve(was, x.kind, x.owner, x.name) # NoClass <=> Found(was.classes, x.kind, x.owner, x.name) # {}
  BY ResolvesAsFound
<1>2. resolve(is, x.kind, x.owner, x.name) # NoClass <=> Found(is.classes, x.kind, x.owner, x.name) # {}
  BY ResolvesAsFound
<1>3. ASSUME ~Has(is, x.owner) PROVE resolve(is, x.kind, x.owner, x.name) = NoClass
  <2>1. Supertypes(is, x.owner) = {}
    BY <1>3, NothingAboveNothing
  <2>2. ~\E t \in Supertypes(is, x.owner) : Declares(is.classes, x.kind, t, x.name)
    BY <2>1
  <2> QED
    BY <2>2, ResolvedIff
<1> QED
  BY <1>1, <1>2, <1>3 DEF Lost1

LEMMA LinkageIs ==
  ASSUME NEW o, NEW was, NEW is, NEW q
  PROVE  q \in LinkageProblems(o, was, is)
           <=> \E c \in o : \E r \in c.refs : Lost1(was, is, r) /\ q = Problem("reference", c.name, r.name)
<1> DEFINE S(c) == {Problem("reference", c.name, r.name) : r \in {x \in c.refs : Lost1(was, is, x)}}
<1>1. LinkageProblems(o, was, is) = UNION {S(c) : c \in o}
  BY DEF LinkageProblems, Lost1
<1>2. \A c : q \in S(c) <=> \E r \in c.refs : Lost1(was, is, r) /\ q = Problem("reference", c.name, r.name)
  OBVIOUS
<1> HIDE DEF S
<1> QED
  BY <1>1, <1>2

LEMMA OtherProblems ==
  ASSUME NEW o, NEW was, NEW is, NEW q,
         q \in OverrideProblems(Overrides(o, was, is)) \cup NewAbstract(o, was, is)
                 \cup Removed(relevant(o, was), was, is)
  PROVE  q.what # "reference"
<1>1. CASE q \in OverrideProblems(Overrides(o, was, is))
  <2> DEFINE rows == Overrides(o, was, is)
  <2>1. q \in OverrideProblems(rows)
    BY <1>1
  <2> HIDE DEF rows
  <2>2. PICK r \in rows : q = Problem("override", r.ours, r.name)
    BY <2>1 DEF OverrideProblems
  <2>3. q.what = "override"
    BY <2>2 DEF Problem
  <2> QED
    BY <2>3
<1>2. CASE q \in NewAbstract(o, was, is)
  <2>1. \E c, a : q = Problem("abstract", c.name, a[2])
    BY <1>2 DEF NewAbstract
  <2>2. q.what = "abstract"
    BY <2>1 DEF Problem
  <2> QED
    BY <2>2
<1>3. CASE q \in Removed(relevant(o, was), was, is)
  <2>1. PICK t \in relevant(o, was) : q = Problem("class", t, NoClass)
    BY <1>3 DEF Removed
  <2>2. q.what = "class"
    BY <2>1 DEF Problem
  <2> QED
    BY <2>2
<1> QED
  BY <1>1, <1>2, <1>3

LEMMA ReferencesKnown == Known => ReferencesJudgedRight
<1> SUFFICES ASSUME Known, stage # "release", NEW f \in own
             PROVE  ProblemsOf(f, "reference") \ {"<init>"} = Gone(f) \ {"<init>"}
  BY DEF ReferencesJudgedRight
<1>1. IsClassPath(old.classes) /\ IsClassPath(new.classes)
  BY InputAssumption DEF Known, InputAssumption
<1>2. /\ \A h \in own : h.name = f.name => h = f
      /\ {e \in f.pool : e.tag = "member"} = {i.entry : i \in UNION Range(f.code)}
  BY InputAssumption DEF Known, InputAssumption
<1>3. report.problems = LinkageProblems(Ours, old, new) \cup OverrideProblems(Overrides(Ours, old, new))
                          \cup NewAbstract(Ours, old, new) \cup Removed(relevant(Ours, old), old, new)
  <2> DEFINE o == Ours
  <2>1. report = Analysis(o, old, new)
    BY DEF Known
  <2> HIDE DEF o
  <2>2. Analysis(o, old, new).problems
          = LinkageProblems(o, old, new) \cup OverrideProblems(Overrides(o, old, new))
              \cup NewAbstract(o, old, new) \cup Removed(relevant(o, old), old, new)
    BY DEF Analysis
  <2> QED
    BY <2>1, <2>2 DEF o
<1>4. \A q : q \in report.problems /\ q.what = "reference" <=> q \in LinkageProblems(Ours, old, new)
  <2>1. ASSUME NEW q, q \in LinkageProblems(Ours, old, new) PROVE q.what = "reference"
    BY <2>1, LinkageIs DEF Problem
  <2> QED
    BY <1>3, <2>1, OtherProblems
<1>5. ASSUME NEW n
      PROVE  n \in ProblemsOf(f, "reference")
               <=> \E e \in {y \in f.pool : y.tag = "member"} : Lost1(old, new, e) /\ e.name = n
  <2>1. n \in ProblemsOf(f, "reference")
          <=> \E q \in LinkageProblems(Ours, old, new) : q.class = f.name /\ q.name = n
    BY <1>4 DEF ProblemsOf
  <2>2. ASSUME NEW q \in LinkageProblems(Ours, old, new), q.class = f.name, q.name = n
        PROVE  \E e \in {y \in f.pool : y.tag = "member"} : Lost1(old, new, e) /\ e.name = n
    <3>1. PICK c \in Ours : \E r \in c.refs : Lost1(old, new, r) /\ q = Problem("reference", c.name, r.name)
      BY <2>2, LinkageIs
    <3>2. PICK r \in c.refs : Lost1(old, new, r) /\ q = Problem("reference", c.name, r.name)
      BY <3>1
    <3>3. PICK h \in own : c = parse_class(h)
      BY DEF Ours
    <3>4. q.class = c.name /\ q.name = r.name
      BY <3>2 DEF Problem
    <3>5. h = f /\ c.refs = {y \in f.pool : y.tag = "member"}
      BY <1>2, <2>2, <3>3, <3>4, ParsedIs
    <3> QED
      BY <2>2, <3>2, <3>4, <3>5
  <2>3. ASSUME NEW e \in {y \in f.pool : y.tag = "member"}, Lost1(old, new, e), e.name = n
        PROVE  \E q \in LinkageProblems(Ours, old, new) : q.class = f.name /\ q.name = n
    <3> DEFINE c == parse_class(f)
               q == Problem("reference", c.name, e.name)
    <3>1. c \in Ours /\ e \in c.refs /\ c.name = f.name
      BY <2>3, ParsedIs DEF Ours
    <3>2. q.class = c.name /\ q.name = e.name
      BY DEF Problem
    <3> HIDE DEF c
    <3>3. q \in LinkageProblems(Ours, old, new)
      BY <2>3, <3>1, LinkageIs
    <3> QED
      BY <2>3, <3>1, <3>2, <3>3
  <2> QED
    BY <2>1, <2>2, <2>3
<1>6. ASSUME NEW n, n # "<init>"
      PROVE  n \in Gone(f) <=> \E i \in UNION Range(f.code) : Lost1(old, new, i.entry) /\ i.entry.name = n
  <2>1. \A i : i.entry.name = n => (Lost1(old, new, i.entry) <=> /\ i.entry.owner \in Watched
                  /\ Found(old.classes, i.entry.kind, i.entry.owner, i.entry.name) # {}
                  /\ Found(new.classes, i.entry.kind, i.entry.owner, i.entry.name) = {})
    BY <1>1, <1>6, LostIsGone
  <2> QED
    BY <2>1 DEF Gone, Uses
<1>7. \A n : n # "<init>" => (n \in ProblemsOf(f, "reference") <=> n \in Gone(f))
  BY <1>2, <1>5, <1>6
<1> QED
  BY <1>7

\* The row of a method of f, if there is one.
LEMMA RowOf ==
  ASSUME NEW o, NEW was, NEW is, NEW c \in o, \A x \in o : x.name = c.name => x = c, NEW m,
         NEW r \in Overrides(o, was, is), r.ours = c.name, r.name = m
  PROVE  /\ "interface" \notin c.access /\ c.super # NoClass /\ m \in overriding(c, was)
         /\ r = OverrideRow(c, m, was, is)
<1>1. PICK x \in o : /\ "interface" \notin x.access /\ x.super # NoClass
                     /\ \E k \in overriding(x, was) : r = OverrideRow(x, k, was, is)
  BY RowsAre
<1>2. PICK k \in overriding(x, was) : r = OverrideRow(x, k, was, is)
  BY <1>1
<1>3. r.ours = x.name /\ r.name = k
  BY <1>2, RowIs
<1> QED
  BY <1>1, <1>2, <1>3

LEMMA RowThere ==
  ASSUME NEW o, NEW was, NEW is, NEW c \in o, NEW m \in overriding(c, was),
         "interface" \notin c.access, c.super # NoClass
  PROVE  /\ OverrideRow(c, m, was, is) \in Overrides(o, was, is)
         /\ OverrideRow(c, m, was, is).ours = c.name /\ OverrideRow(c, m, was, is).name = m
BY RowsAre, RowIs

LEMMA WhatIsReported ==
  ASSUME Known, stage # "release"
  PROVE  /\ report.attention = Unused(Overrides(Ours, old, new))
         /\ \A q : q \in report.problems /\ q.what = "override"
                     <=> q \in OverrideProblems(Overrides(Ours, old, new))
<1> DEFINE o == Ours
           rows == Overrides(o, old, new)
<1>1. report = Analysis(o, old, new)
  BY DEF Known
<1> HIDE DEF o
<1>2. /\ report.attention = Unused(rows)
      /\ report.problems = LinkageProblems(o, old, new) \cup OverrideProblems(rows)
                             \cup NewAbstract(o, old, new) \cup Removed(relevant(o, old), old, new)
  BY <1>1 DEF Analysis
<1> HIDE DEF rows
<1>3. ASSUME NEW q \in OverrideProblems(rows) PROVE q.what = "override"
  BY DEF OverrideProblems, Problem
<1>4. ASSUME NEW q \in LinkageProblems(o, old, new) PROVE q.what # "override"
  BY LinkageIs DEF Problem
<1>5. ASSUME NEW q \in NewAbstract(o, old, new) PROVE q.what # "override"
  <2>1. \E c, a : q = Problem("abstract", c.name, a[2])
    BY DEF NewAbstract
  <2> QED
    BY <2>1 DEF Problem
<1>6. ASSUME NEW q \in Removed(relevant(o, old), old, new) PROVE q.what # "override"
  <2>1. \E t : q = Problem("class", t, NoClass)
    BY DEF Removed
  <2> QED
    BY <2>1 DEF Problem
<1> QED
  BY <1>2, <1>3, <1>4, <1>5, <1>6 DEF rows, o

\* A plain method is judged right.
LEMMA JudgedMethod ==
  ASSUME Known, stage # "release",
         NEW f \in own, f.interfaces = << >>, NEW m \in Plain(old, f) \cap Plain(new, f)
  PROVE  /\ m \in ProblemsOf(f, "override") <=> m \in Lost(f) \cup Clashing(f)
         /\ m \in OfClass(old, f) \cap NotCalled(f)
              <=> m \in {r.name : r \in {q \in report.attention : q.ours = f.name}}
<1> DEFINE c == parse_class(f)
           rows == Overrides(Ours, old, new)
           row == OverrideRow(c, m, old, new)
           d == resolve(new, "method", f.super, m)
           b == resolve(old, "method", f.super, m)
           there == "interface" \notin c.access /\ c.super # NoClass /\ m \in overriding(c, old)
<1>1. /\ IsClassPath(old.classes) /\ IsClassPath(new.classes)
      /\ Compiles(old.classes) /\ Compiles(new.classes)
      /\ \A t \in DOMAIN old.classes : OneKind(old.classes[t])
      /\ "Object" \notin DOMAIN old.classes
  BY InputAssumption DEF Known, InputAssumption, Compiles
<1>2. /\ OneKind(f) /\ (IsInterface(f) => f.super = "Object")
      /\ "<clinit>" \in DOMAIN f.methods => "static" \in f.methods["<clinit>"]
      /\ \A h \in own : h.name = f.name => h = f
  BY InputAssumption DEF Known, InputAssumption
<1>3. c \in Ours /\ c.name = f.name /\ c.super = f.super /\ \A x \in Ours : x.name = c.name => x = c
  BY <1>2, ParsedIs DEF Ours
<1>4. there <=> m \in OverriddenBefore(f)
  BY <1>1, <1>2, JudgedBefore DEF OverriddenBefore
<1>5. m \in OverriddenBefore(f) => m # "<init>"
  BY DEF OverriddenBefore, Overriding
<1>6. /\ row.ours = c.name /\ row.name = m
      /\ row.inClass <=> "interface" \notin get(old, b).access
      /\ row.callers = callers_in(new, Supertypes(new, f.super), m)
      /\ row.callers_old = callers_in(old, Supertypes(old, f.super), m)
      /\ row.state \in {"removed", "barred"}
           <=> \/ d = NoClass
               \/ ~IsApi(new.classes[d].methods[m])
               \/ new.classes[d].methods[m] \cap {"static", "final"} # {}
  BY <1>3, RowIs
<1>7. there => row \in rows
  BY <1>3, RowThere
<1>8. ASSUME NEW r \in rows, r.ours = f.name, r.name = m PROVE there /\ r = row
  BY <1>3, <1>8, RowOf
<1> HIDE DEF there, row, rows, c
<1>9. m \in ProblemsOf(f, "override") <=> there /\ row.state \in {"removed", "barred"}
  <2>1. m \in ProblemsOf(f, "override")
          <=> \E q \in OverrideProblems(rows) : q.class = f.name /\ q.name = m
    BY WhatIsReported DEF ProblemsOf, rows
  <2>2. \A q : q \in OverrideProblems(rows)
                 <=> \E r \in rows : r.state \in {"removed", "barred"} /\ q = Problem("override", r.ours, r.name)
    BY DEF OverrideProblems
  <2>3. \A x, y : Problem("override", x, y).class = x /\ Problem("override", x, y).name = y
    BY DEF Problem
  <2>4. m \in ProblemsOf(f, "override")
          <=> \E r \in rows : r.state \in {"removed", "barred"} /\ r.ours = f.name /\ r.name = m
    BY <2>1, <2>2, <2>3
  <2> QED
    BY <1>3, <1>6, <1>7, <1>8, <2>4
<1>10. m \in OverriddenBefore(f) =>
         (row.state \in {"removed", "barred"}
            <=> Overridden(new.classes, f, m) = {} \/ Clashes(new.classes, f, m))
  BY <1>1, <1>5, <1>6, JudgedAfter
<1>11. m \in ProblemsOf(f, "override") <=> m \in Lost(f) \cup Clashing(f)
  BY <1>4, <1>9, <1>10 DEF Lost, Clashing
<1>12. m \in {r.name : r \in {q \in report.attention : q.ours = f.name}}
         <=> there /\ row.inClass /\ row.callers_old # {} /\ row.callers = {}
  <2>1. \A r : r \in report.attention <=> r \in rows /\ r.inClass /\ r.callers_old # {} /\ r.callers = {}
    BY WhatIsReported DEF Unused, rows
  <2> QED
    BY <1>3, <1>6, <1>7, <1>8, <2>1
<1>13. /\ row.callers_old # {} <=> CalledFromAbove(old.classes, f, m)
       /\ row.callers # {} <=> CalledFromAbove(new.classes, f, m)
  <2>1. /\ UNION {Ancestors(old.classes, p) : p \in DirectParents(f)} = Ancestors(old.classes, f.super)
        /\ UNION {Ancestors(new.classes, p) : p \in DirectParents(f)} = Ancestors(new.classes, f.super)
    BY <1>1, OverriddenIs
  <2>2. CalledFromAbove(old.classes, f, m) <=> callers_in(old, Supertypes(old, f.super), m) # {}
    BY <1>1, <2>1, CallersIs DEF CalledFromAbove
  <2>3. CalledFromAbove(new.classes, f, m) <=> callers_in(new, Supertypes(new, f.super), m) # {}
    BY <1>1, <2>1, CallersIs DEF CalledFromAbove
  <2> QED
    BY <1>6, <2>2, <2>3
<1>14. m \in OverriddenBefore(f) => (row.inClass <=> m \in OfClass(old, f))
  <2> DEFINE A == Above(old.classes, f.super, m)
  <2>1. /\ (\E t \in A : ~IsInterface(old.classes[t])) => b \in A /\ ~IsInterface(old.classes[b])
        /\ Overridden(old.classes, f, m) = {t \in A : "static" \notin old.classes[t].methods[m]}
        /\ m \in DOMAIN f.methods
    <3>1. m \in Plain(old, f) /\ IsClassPath(old.classes)
      BY <1>1
    <3> QED
      BY <3>1, OverriddenIs
  <2>2. m \in OfClass(old, f) <=> \E t \in A : ~IsInterface(old.classes[t])
    BY <2>1 DEF OfClass, Above
  <2>3. IF A = {} THEN b = NoClass ELSE IsFirst(old, f.super, m, b)
    BY <1>1, ResolvesToFirst
  <2>4. A # {} => b \in A
    BY <2>3 DEF IsFirst
  <2>5. A \subseteq DOMAIN old.classes
    BY <1>1, AncestorsIsHull DEF Above, IsHull, Closed
  <2>6. \A t \in DOMAIN old.classes : "interface" \in get(old, t).access <=> IsInterface(old.classes[t])
    BY <1>1 DEF get, parse_class, OneKind, IsInterface
  <2>7. m \in OverriddenBefore(f) => A # {}
    BY <2>1 DEF OverriddenBefore
  <2> HIDE DEF A, b
  <2> QED
    BY <1>6, <2>1, <2>2, <2>4, <2>5, <2>6, <2>7
<1>15. m \in OfClass(old, f) \cap NotCalled(f)
         <=> m \in OverriddenBefore(f) /\ row.inClass /\ row.callers_old # {} /\ row.callers = {}
  BY <1>13, <1>14 DEF NotCalled
<1> QED
  BY <1>4, <1>11, <1>12, <1>15

LEMMA OverridesKnown == Known => OverridesJudgedRight
<1> SUFFICES ASSUME Known, stage # "release", NEW f \in own, f.interfaces = << >>
             PROVE  LET plain == Plain(old, f) \cap Plain(new, f)
                        unused == {r.name : r \in {q \in report.attention : q.ours = f.name}}
                    IN  /\ plain \cap ProblemsOf(f, "override") = plain \cap (Lost(f) \cup Clashing(f))
                        /\ plain \cap OfClass(old, f) \cap NotCalled(f) = plain \cap unused
  BY DEF OverridesJudgedRight
<1> DEFINE plain == Plain(old, f) \cap Plain(new, f)
           unused == {r.name : r \in {q \in report.attention : q.ours = f.name}}
<1>1. \A m \in plain : /\ m \in ProblemsOf(f, "override") <=> m \in Lost(f) \cup Clashing(f)
                       /\ m \in OfClass(old, f) \cap NotCalled(f) <=> m \in unused
  BY JudgedMethod
<1> HIDE DEF plain, unused
<1>2. /\ plain \cap ProblemsOf(f, "override") = plain \cap (Lost(f) \cup Clashing(f))
      /\ plain \cap OfClass(old, f) \cap NotCalled(f) = plain \cap unused
  BY <1>1
<1> QED
  BY <1>2 DEF plain, unused

-----------------------------------------------------------------------------
(***************************************************************************)
(* The rows of the report.                                                 *)
(***************************************************************************)

LEMMA RelevantWatched ==
  ASSUME NEW o, NEW cp
  PROVE  relevant(o, cp) \subseteq Watched /\ inherited(o, cp) \subseteq Watched
BY DEF relevant, inherited

LEMMA ReportIs ==
  ASSUME Known, stage # "release"
  PROVE  /\ report.findings = Findings(relevant(Ours, old), old, new)
         /\ report.inherited = inherited(Ours, old)
<1> DEFINE o == Ours
<1>1. report = Analysis(o, old, new)
  BY DEF Known
<1> HIDE DEF o
<1>2. /\ Analysis(o, old, new).findings = Findings(relevant(o, old), old, new)
      /\ Analysis(o, old, new).inherited = inherited(o, old)
  BY DEF Analysis
<1> QED
  BY <1>1, <1>2 DEF o

LEMMA Transitive ==
  ASSUME NEW cp, IsClassPath(cp.classes), NEW n, NEW u \in Supertypes(cp, n)
  PROVE  Supertypes(cp, u) \subseteq Supertypes(cp, n)
<1> DEFINE S == Supertypes(cp, n)
           R == Supertypes(cp, u)
<1>1. IsHull(cp.classes, n, S) /\ IsHull(cp.classes, u, R)
  BY SupertypesIsHull
<1> HIDE DEF S, R
<1>2. Closed(cp.classes, S) /\ u \in S
  BY <1>1 DEF IsHull, S
<1>3. R \subseteq S
  BY <1>1, <1>2 DEF IsHull
<1> QED
  BY <1>3 DEF S, R

\* Class files to put before those of a class path they are not part of.
Joins(o, C) ==
  /\ IsFiniteSet(o) /\ IsClassPath(C)
  /\ \A c, d \in o : c.name = d.name => c = d
  /\ \A c \in o : /\ c.name # NoClass /\ c.name \notin DOMAIN C
                  /\ c.interfaces \in Seq(Range(c.interfaces))

Names(o) == {c.name : c \in o}

LEMMA WithRest ==
  ASSUME NEW o, NEW C, Joins(o, C), NEW n \in DOMAIN C
  PROVE  With(o, C)[n] = C[n]
<1>1. n \notin {c.name : c \in o}
  BY DEF Joins
<1> QED
  BY <1>1 DEF With

LEMMA WithIs ==
  ASSUME NEW o, NEW C, Joins(o, C)
  PROVE  /\ IsClassPath(With(o, C))
         /\ DOMAIN With(o, C) = Names(o) \cup DOMAIN C
         /\ \A c \in o : With(o, C)[c.name] = c
<1> DEFINE names == {c.name : c \in o}
           W == With(o, C)
<1>1. W = [n \in names \cup DOMAIN C |-> IF n \in names THEN CHOOSE c \in o : c.name = n ELSE C[n]]
  BY DEF With
<1>2. DOMAIN W = names \cup DOMAIN C
  BY <1>1
<1>3. ASSUME NEW c \in o PROVE W[c.name] = c
  BY <1>1 DEF Joins
<1>4. ASSUME NEW n \in DOMAIN C PROVE W[n] = C[n]
  BY WithRest
<1> HIDE DEF W
<1>5. IsFiniteSet(DOMAIN W)
  <2> DEFINE M == [c \in o |-> c.name]
  <2>1. M \in Surjection(o, names)
    BY DEF Surjection
  <2> HIDE DEF M, names
  <2>2. IsFiniteSet(names)
    BY <2>1, FS_Surjection DEF Joins
  <2>3. IsFiniteSet(DOMAIN C)
    BY DEF Joins, IsClassPath
  <2>4. IsFiniteSet(names \cup DOMAIN C)
    BY <2>2, <2>3, FS_Union
  <2> QED
    BY <1>2, <2>4
<1>6. NoClass \notin DOMAIN W
  BY <1>2 DEF Joins, IsClassPath
<1>7. ASSUME NEW n \in DOMAIN W PROVE W[n].interfaces \in Seq(Range(W[n].interfaces))
  <2>1. CASE n \in DOMAIN C
    BY <1>4, <2>1 DEF Joins, IsClassPath
  <2>2. CASE n \in names
    BY <1>3, <2>2 DEF Joins
  <2> QED
    BY <1>2, <2>1, <2>2
<1>8. IsClassPath(W)
  BY <1>5, <1>6, <1>7 DEF Joins, IsClassPath
<1> QED
  BY <1>2, <1>3, <1>8 DEF W, Names

\* Our classes and a release they are not part of make a class path.
LEMMA WithOurs ==
  ASSUME Known
  PROVE  /\ IsClassPath(With(Ours, old.classes))
         /\ DOMAIN old.classes \subseteq DOMAIN With(Ours, old.classes)
         /\ \A c \in Ours : c.name \in DOMAIN With(Ours, old.classes)
                            /\ With(Ours, old.classes)[c.name] = c
         /\ \A n \in DOMAIN old.classes : With(Ours, old.classes)[n] = old.classes[n]
<1> DEFINE C == old.classes
           o == Ours
           names == {c.name : c \in o}
<1>1. /\ IsClassPath(C) /\ IsFiniteSet(own)
      /\ \A f, g \in own : f.name = g.name => f = g
      /\ \A f \in own : /\ f.name # NoClass /\ f.name \notin DOMAIN C
                        /\ f.interfaces \in Seq(Range(f.interfaces))
  BY InputAssumption DEF Known, InputAssumption
<1>2. \A c \in o : \E f \in own : c = parse_class(f) /\ c.name = f.name /\ c.interfaces = f.interfaces
  BY ParsedIs DEF Ours
<1>3. IsFiniteSet(o)
  <2> DEFINE M == [f \in own |-> parse_class(f)]
  <2>1. M \in Surjection(own, o)
    BY DEF Surjection, Ours
  <2> HIDE DEF M, o
  <2> QED
    BY <1>1, <2>1, FS_Surjection
<1> HIDE DEF o
<1>4. \A c, d \in o : c.name = d.name => c = d
  BY <1>1, <1>2
<1>5. ASSUME NEW c \in o
      PROVE  c.name # NoClass /\ c.name \notin DOMAIN C /\ c.interfaces \in Seq(Range(c.interfaces))
  <2>1. PICK f \in own : c.name = f.name /\ c.interfaces = f.interfaces
    BY <1>2
  <2> QED
    BY <1>1, <2>1
<1> HIDE DEF C
<1>6. Joins(o, C)
  BY <1>1, <1>3, <1>4, <1>5 DEF Joins, C
<1>7. \A n \in DOMAIN C : With(o, C)[n] = C[n]
  BY <1>6, WithRest
<1>8. \A c \in o : c.name \in Names(o)
  BY DEF Names
<1>9. /\ IsClassPath(With(o, C)) /\ DOMAIN With(o, C) = Names(o) \cup DOMAIN C
      /\ \A c \in o : With(o, C)[c.name] = c
  BY <1>6, WithIs
<1> QED
  BY <1>7, <1>8, <1>9 DEF o, C

\* What is inherited is reached from a class of ours.
LEMMA PathsLeadThere ==
  ASSUME Known, NEW t \in inherited(Ours, old)
  PROVE  inheritance_paths(Ours, old, t) # {}
<1> DEFINE C == old.classes
           W == With(Ours, C)
           all == [classes |-> W]
<1>1. PICK x \in Ours : \E p \in Parents(x) : t \in Supertypes(old, p)
  BY DEF inherited
<1>2. PICK p \in Parents(x) : t \in Supertypes(old, p)
  BY <1>1
<1>3. /\ IsClassPath(W) /\ DOMAIN C \subseteq DOMAIN W
      /\ x.name \in DOMAIN W /\ W[x.name] = x
      /\ \A n \in DOMAIN C : W[n] = C[n]
  BY WithOurs
<1>4. IsClassPath(C)
  BY InputAssumption DEF Known, InputAssumption
<1> HIDE DEF W
<1>5. all.classes = W
  OBVIOUS
<1> DEFINE S == Supertypes(all, x.name)
           R == Supertypes(old, p)
           B == {b \in R \cap S : \E s \in S : b \in Parents(W[s])}
<1>6. IsHull(W, x.name, S) /\ IsHull(C, p, R)
  BY <1>3, <1>4, <1>5, SupertypesIsHull
<1>7. p \in DOMAIN C
  BY <1>2, <1>4, NothingAboveNothing DEF Has
<1>8. /\ inheritance_paths(Ours, old, t)
           = {c.name : c \in {y \in Ours : \E s \in Supertypes(all, y.name) : t \in Parents(all.classes[s])}}
  BY DEF inheritance_paths, W
<1> HIDE DEF S, R, all
<1>9. /\ x.name \in S /\ Closed(W, S) /\ p \in R /\ Closed(C, R)
  BY <1>3, <1>6, <1>7 DEF IsHull
<1>10. \A f : Parents(f) = DirectParents(f)
  BY DEF Parents, DirectParents
<1>11. p \in B
  <2>1. p \in Parents(W[x.name])
    BY <1>3
  <2>2. p \in S
    BY <1>3, <1>7, <1>9, <1>10, <2>1 DEF Closed
  <2> QED
    BY <1>9, <2>1, <2>2
<1>12. Closed(C, B)
  <2>1. B \subseteq DOMAIN C
    BY <1>9 DEF Closed
  <2>2. ASSUME NEW b \in B, NEW q \in DirectParents(C[b]) \cap DOMAIN C PROVE q \in B
    <3>1. b \in DOMAIN C /\ b \in DOMAIN W /\ W[b] = C[b]
      BY <1>3, <2>1
    <3>2. q \in R
      BY <1>9 DEF Closed
    <3>3. q \in DirectParents(W[b]) /\ q \in DOMAIN W /\ b \in S
      BY <1>3, <3>1
    <3>4. q \in S
      BY <1>9, <3>3 DEF Closed
    <3> QED
      BY <1>10, <3>2, <3>3, <3>4
  <2> QED
    BY <2>1, <2>2 DEF Closed
<1>13. R \subseteq B
  <2> HIDE DEF B
  <2> QED
    BY <1>6, <1>11, <1>12 DEF IsHull
<1>14. \E s \in S : t \in Parents(W[s])
  BY <1>2, <1>13 DEF R
<1>15. x.name \in inheritance_paths(Ours, old, t)
  BY <1>5, <1>8, <1>14 DEF S
<1> QED
  BY <1>15

LEMMA RowsKnown == Known => EveryRowNamesOurClass
<1> SUFFICES ASSUME Known, stage # "release", NEW t \in report.findings
             PROVE  our_classes_cell(Ours, old, t) # {}
  BY DEF EveryRowNamesOurClass, Ours
<1> DEFINE o == Ours
<1>1. t \in relevant(o, old)
  BY ReportIs DEF Findings
<1>2. IsClassPath(old.classes)
  BY InputAssumption DEF Known, InputAssumption
<1>3. CASE t \in inherited(o, old)
  BY <1>3, PathsLeadThere DEF our_classes_cell
<1>4. CASE t \notin inherited(o, old) /\ users(o, t) # {}
  BY <1>4 DEF our_classes_cell
<1>5. CASE t \notin inherited(o, old) /\ users(o, t) = {}
  <2> HIDE DEF o
  <2>1. \A u : (\E c \in o : u \in Mentioned(c)) <=> users(o, u) # {}
    BY DEF users
  <2>2. PICK u : /\ t \in Watched /\ t \in Supertypes(old, u)
                 /\ u \in inherited(o, old) \/ (u \in Watched /\ users(o, u) # {})
    BY <1>1, <1>5, <2>1 DEF relevant
  <2>3. ASSUME u \in inherited(o, old) PROVE FALSE
    <3>1. PICK c \in o : \E p \in Parents(c) : u \in Supertypes(old, p)
      BY <2>3 DEF inherited
    <3>2. PICK p \in Parents(c) : u \in Supertypes(old, p)
      BY <3>1
    <3>3. t \in Supertypes(old, p)
      BY <1>2, <2>2, <3>2, Transitive
    <3>4. t \in inherited(o, old)
      BY <2>2, <3>2, <3>3 DEF inherited
    <3> QED
      BY <1>5, <3>4
  <2>4. u \in via(o, old, t)
    BY <1>5, <2>2, <2>3 DEF via
  <2> QED
    BY <1>5, <2>4 DEF our_classes_cell, o
<1> QED
  BY <1>3, <1>4, <1>5

-----------------------------------------------------------------------------
(***************************************************************************)
(* The verdict PASS.                                                       *)
(***************************************************************************)

\* PASS is the verdict on the report of a release that is settled.
Settled ==
  /\ \A f \in own : f.name \notin DOMAIN new.classes
  /\ SourcesTell(old, new)
  /\ status = "PASS" => stage = "done" /\ Status(report) = "PASS"

LEMMA SettledInit == Init => Settled
<1> SUFFICES ASSUME Init PROVE Settled
  OBVIOUS
<1>1. own \in Programs /\ old \in Releases /\ new = old /\ status = "none"
  BY DEF Init
<1>2. \A f \in own : f.name \notin DOMAIN new.classes
  BY <1>1, InputAssumption DEF InputAssumption
<1>3. SourcesTell(old, new)
  BY <1>1 DEF SourcesTell
<1> QED
  BY <1>1, <1>2, <1>3 DEF Settled

LEMMA SettledNext == Settled /\ [Next]_vars => Settled'
<1> SUFFICES ASSUME Settled, [Next]_vars PROVE Settled'
  OBVIOUS
<1>1. CASE Develop
  <2>1. /\ UNCHANGED <<own, old, status>> /\ stage = "release"
        /\ SourcesTell(old, new') /\ \A f \in own : f.name \notin DOMAIN new'.classes
    BY <1>1 DEF Develop
  <2>2. SourcesTell(old', new')
    BY <2>1
  <2> HIDE DEF SourcesTell
  <2> QED
    BY <2>1, <2>2 DEF Settled
<1>2. CASE UNCHANGED <<own, old, new, status>> /\ (stage = "release" \/ UNCHANGED <<stage, report>>)
  <2>1. SourcesTell(old', new')
    BY <1>2 DEF Settled
  <2> QED
    BY <1>2, <2>1 DEF Settled
<1>3. CASE Finish
  <2>1. /\ UNCHANGED <<own, old, new, report>> /\ status' = Status(report) /\ stage' = "done"
    BY <1>3 DEF Finish
  <2>2. SourcesTell(old', new') /\ Status(report') = Status(report)
    BY <2>1 DEF Settled
  <2> QED
    BY <2>1, <2>2 DEF Settled
<1>4. CASE Compare \/ RenderClass \/ Shorten \/ AppendClass \/ SkipClass \/ UNCHANGED vars
  BY <1>2, <1>4 DEF Compare, RenderClass, Shorten, AppendClass, SkipClass, vars
<1> QED
  BY <1>1, <1>3, <1>4 DEF Next

\* The types of the old release that matter, those of libraries included.
Seen ==
  UNION {Ancestors(old.classes, t) : t \in relevant(Ours, old) \cup UNION {Parents(c) : c \in Ours}}

LEMMA OurParents ==
  ASSUME NEW f \in own
  PROVE  /\ parse_class(f) \in Ours
         /\ Parents(parse_class(f)) = DirectParents(f)
         /\ parse_class(f).name = f.name
         /\ parse_class(f).refs = {e \in f.pool : e.tag = "member"}
BY ParsedIs DEF Ours, Parents, DirectParents

\* With a type all types above it matter, and so do the types our code refers to
\* and inherits from; those of Keycloak are compared.
LEMMA AllSeen ==
  ASSUME Known
  PROVE  /\ Closed(old.classes, Seen)
         /\ \A f \in own : \A p \in DirectParents(f) : Ancestors(old.classes, p) \subseteq Seen
         /\ \A f \in own : \A i \in Uses(f) : i.entry.owner \in DOMAIN old.classes => i.entry.owner \in Seen
         /\ Seen \cap Watched \subseteq relevant(Ours, old)
<1> DEFINE C == old.classes
           o == Ours
           inh == inherited(o, old)
           types == relevant(o, old)
           direct == (Watched \cap UNION {Mentioned(c) : c \in o}) \cup inh
           parents == UNION {Parents(c) : c \in o}
<1>1. IsClassPath(C)
  BY InputAssumption DEF Known, InputAssumption
<1>2. \A n : IsHull(C, n, Ancestors(C, n)) /\ Supertypes(old, n) = Ancestors(C, n)
  BY <1>1, AncestorsIsHull, SameSupertypes
<1>3. \A n : Closed(C, Ancestors(C, n)) /\ (n \in DOMAIN C => n \in Ancestors(C, n))
  BY <1>2 DEF IsHull
<1> HIDE DEF o
<1>4. types = direct \cup (Watched \cap UNION {Ancestors(C, t) : t \in direct})
  BY <1>2 DEF relevant
<1>5. inh = Watched \cap UNION {UNION {Ancestors(C, p) : p \in Parents(c)} : c \in o}
  BY <1>2 DEF inherited
<1> HIDE DEF inh, types
<1>6. Seen = UNION {Ancestors(C, t) : t \in types \cup parents}
  BY DEF Seen, o, types
<1>7. Closed(C, Seen)
  <2>1. ASSUME NEW t \in Seen PROVE t \in DOMAIN C /\ DirectParents(C[t]) \cap DOMAIN C \subseteq Seen
    <3>1. PICK u \in types \cup parents : t \in Ancestors(C, u)
      BY <1>6, <2>1
    <3>2. t \in DOMAIN C /\ DirectParents(C[t]) \cap DOMAIN C \subseteq Ancestors(C, u)
      BY <1>3, <3>1 DEF Closed
    <3> QED
      BY <1>6, <3>1, <3>2
  <2> QED
    BY <2>1 DEF Closed
<1>8. ASSUME NEW f \in own, NEW p \in DirectParents(f) PROVE p \in parents
  BY <1>8, OurParents DEF o
<1>9. ASSUME NEW f \in own, NEW i \in Uses(f), i.entry.owner \in DOMAIN C PROVE i.entry.owner \in Seen
  <2>1. {e \in f.pool : e.tag = "member"} = {j.entry : j \in UNION Range(f.code)}
    BY InputAssumption DEF Known, InputAssumption
  <2>2. i.entry \in parse_class(f).refs /\ i.entry.owner \in Watched
    BY <2>1, OurParents DEF Uses
  <2>3. i.entry.owner \in Mentioned(parse_class(f)) /\ parse_class(f) \in o
    BY <2>2, OurParents DEF Mentioned, o
  <2>4. i.entry.owner \in direct
    BY <2>2, <2>3
  <2>5. i.entry.owner \in types
    BY <1>4, <2>4
  <2> QED
    BY <1>3, <1>6, <1>9, <2>5
<1>10. ASSUME NEW t \in Seen, t \in Watched PROVE t \in types
  <2>1. PICK u \in types \cup parents : t \in Ancestors(C, u)
    BY <1>6, <1>10
  <2>2. CASE u \in parents
    <3>1. t \in inh
      BY <1>5, <1>10, <2>1, <2>2
    <3> QED
      BY <1>4, <3>1
  <2>3. CASE u \in direct
    <3> HIDE DEF direct
    <3> QED
      BY <1>4, <1>10, <2>1, <2>3
  <2>4. CASE u \in types \ direct
    <3> HIDE DEF direct
    <3>1. PICK v \in direct : u \in Ancestors(C, v)
      BY <1>4, <2>4
    <3>2. Ancestors(C, u) \subseteq Ancestors(C, v)
      BY <1>2, <1>3, <3>1 DEF IsHull
    <3> QED
      BY <1>4, <1>10, <2>1, <3>1, <3>2
  <2> QED
    BY <2>1, <2>2, <2>3, <2>4
<1>11. \A f \in own : \A p \in DirectParents(f) : Ancestors(C, p) \subseteq Seen
  <2> HIDE DEF parents
  <2> QED
    BY <1>6, <1>8
<1> QED
  BY <1>7, <1>9, <1>10, <1>11 DEF types, o

\* PASS on the report, while nothing else changed.
Passed == status = "PASS" /\ LibrariesUnchanged

\* Nothing is said of types that matter when the verdict is PASS.
LEMMA PassIs ==
  ASSUME Known, Settled, Passed
  PROVE  /\ \A t \in Seen \cap Watched : t \in DOMAIN new.classes /\ ~Changed(old, new, t) /\ ~SourceDiff(old, new, t)
         /\ \A t \in Seen \ Watched : t \in DOMAIN new.classes /\ new.classes[t] = old.classes[t]
<1> DEFINE o == Ours
           types == relevant(o, old)
<1>1. report = Analysis(o, old, new) /\ Status(report) = "PASS"
  BY DEF Known, Settled, Passed
<1>2. report.problems = {} /\ report.findings = {}
  BY <1>1 DEF Status
<1> HIDE DEF o
<1>3. /\ Removed(types, old, new) \subseteq Analysis(o, old, new).problems
      /\ Findings(types, old, new) = Analysis(o, old, new).findings
  BY DEF Analysis
<1>4. Removed(types, old, new) = {} /\ Findings(types, old, new) = {}
  BY <1>1, <1>2, <1>3
<1>5. Seen \subseteq DOMAIN old.classes /\ Seen \cap Watched \subseteq types
  BY AllSeen DEF Closed, o
<1> HIDE DEF types
<1>6. ASSUME NEW t \in Seen \cap Watched
      PROVE  t \in DOMAIN new.classes /\ ~Changed(old, new, t) /\ ~SourceDiff(old, new, t)
  <2>1. t \in types /\ Has(old, t)
    BY <1>5 DEF Has
  <2>2. Has(new, t)
    BY <1>4, <2>1 DEF Removed
  <2> QED
    BY <1>4, <2>1, <2>2 DEF Findings, Has
<1>7. \A t \in Seen \ Watched : t \in DOMAIN new.classes /\ new.classes[t] = old.classes[t]
  BY <1>5 DEF Passed, LibrariesUnchanged, Has
<1> QED
  BY <1>6, <1>7

LEMMA NothingSeen ==
  ASSUME Known, Settled, Passed
  PROVE  SameSight(old.classes, new.classes, Seen)
<1> DEFINE C == old.classes
           D == new.classes
<1>1. IsClassPath(C) /\ Compiles(C) /\ "Object" \notin DOMAIN D
  BY InputAssumption DEF Known, Settled, Passed, InputAssumption, Compiles
<1>2. Closed(C, Seen)
  BY AllSeen
<1>3. ASSUME NEW t \in Seen
      PROVE  /\ t \in DOMAIN D
             /\ D[t].super = C[t].super /\ DirectParents(D[t]) = DirectParents(C[t])
             /\ DirectParents(C[t]) \cap DOMAIN D \subseteq DOMAIN C
             /\ Alike(C[t].methods, D[t].methods) /\ Alike(C[t].fields, D[t].fields)
  <2>1. t \in DOMAIN C /\ t \in DOMAIN D
    BY <1>2, PassIs DEF Closed
  <2>2. get(old, t) = parse_class(C[t]) /\ get(new, t) = parse_class(D[t])
    BY <2>1 DEF get
  <2>3. \A f : /\ parse_class(f).super = f.super /\ parse_class(f).interfaces = f.interfaces
               /\ parse_class(f).methods = f.methods /\ parse_class(f).fields = f.fields
    BY DEF parse_class
  <2>4. DirectParents(C[t]) \subseteq DOMAIN C \cup {"Object"}
    BY <1>1, <2>1 DEF Compiles, LegalParents
  <2>5. CASE t \in Watched
    <3>1. ~Changed(old, new, t)
      BY <2>5, PassIs
    <3>2. /\ C[t].super = D[t].super /\ ToSet(C[t].interfaces) = ToSet(D[t].interfaces)
          /\ MemberNotes(C[t].methods, D[t].methods) = {} /\ MemberNotes(C[t].fields, D[t].fields) = {}
      BY <2>2, <2>3, <3>1 DEF Changed
    <3>3. DirectParents(D[t]) = DirectParents(C[t])
      BY <3>2 DEF DirectParents, ToSet, Range
    <3> QED
      BY <1>1, <2>1, <2>4, <3>2, <3>3, NothingNoted
  <2>6. CASE t \notin Watched
    <3>1. D[t] = C[t]
      BY <2>6, PassIs
    <3> QED
      BY <1>1, <2>1, <2>4, <3>1 DEF Alike
  <2> QED
    BY <2>5, <2>6
<1> QED
  BY <1>2, <1>3 DEF SameSight, SameAbove

\* What has a source, too, is the same.
LEMMA SameBySource ==
  ASSUME Known, Settled, Passed, NEW t \in Seen, SourcesCompared({t})
  PROVE  LET c == old.classes[t]  d == new.classes[t] IN
         c.access = d.access /\ c.fields = d.fields /\ c.methods = d.methods /\ c.code = d.code
<1>1. t \in DOMAIN old.classes /\ t \in DOMAIN new.classes
  BY AllSeen, PassIs DEF Closed
<1>2. CASE t \in Watched
  <2>1. ~SourceDiff(old, new, t)
    BY <1>2, PassIs
  <2>2. t \notin DOMAIN Outer /\ source(old, t) # 0 /\ source(new, t) # 0
    BY DEF SourcesCompared
  <2>3. source(old, t) = source(new, t)
    BY <1>1, <2>1, <2>2 DEF SourceDiff
  <2> QED
    BY <1>1, <2>2, <2>3 DEF Settled, SourcesTell
<1>3. CASE t \notin Watched
  <2>1. new.classes[t] = old.classes[t]
    BY <1>3, PassIs
  <2> QED
    BY <2>1
<1> QED
  BY <1>2, <1>3

LEMMA WithOwnIs ==
  ASSUME Known, Settled, NEW cp \in {old, new}
  PROVE  /\ IsClassPath(WithOwn(cp))
         /\ DOMAIN WithOwn(cp) = Names(own) \cup DOMAIN cp.classes
         /\ \A f \in own : WithOwn(cp)[f.name] = f
         /\ \A n \in DOMAIN cp.classes : WithOwn(cp)[n] = cp.classes[n]
<1>1. /\ IsFiniteSet(own) /\ IsClassPath(cp.classes)
      /\ \A f, g \in own : f.name = g.name => f = g
      /\ \A f \in own : /\ f.name # NoClass /\ f.name \notin DOMAIN old.classes
                        /\ f.interfaces \in Seq(Range(f.interfaces))
  BY InputAssumption DEF Known, InputAssumption
<1> DEFINE C == cp.classes
<1>2. Joins(own, C)
  BY <1>1 DEF Settled, Joins
<1> HIDE DEF C
<1>3. /\ IsClassPath(With(own, C))
      /\ DOMAIN With(own, C) = Names(own) \cup DOMAIN C
      /\ \A f \in own : With(own, C)[f.name] = f
  BY <1>2, WithIs
<1>4. \A n \in DOMAIN C : With(own, C)[n] = C[n]
  BY <1>2, WithRest
<1> QED
  BY <1>3, <1>4 DEF WithOwn, C

LEMMA SameWithOwn ==
  ASSUME Known, Settled, Passed
  PROVE  /\ Compiles(WithOwn(old))
         /\ SameSight(WithOwn(old), WithOwn(new), Names(own) \cup Seen)
<1> DEFINE C == old.classes
           D == new.classes
           WC == WithOwn(old)
           WD == WithOwn(new)
           N == Names(own) \cup Seen
<1>1. /\ DOMAIN WC = Names(own) \cup DOMAIN C
      /\ \A f \in own : WC[f.name] = f
      /\ \A n \in DOMAIN C : WC[n] = C[n]
      /\ DOMAIN WD = Names(own) \cup DOMAIN D
      /\ \A f \in own : WD[f.name] = f
      /\ \A n \in DOMAIN D : WD[n] = D[n]
  BY WithOwnIs
<1>2. Compiles(WC)
  BY InputAssumption DEF Known, InputAssumption, WithOwn
<1> HIDE DEF WC, WD
<1>3. SameSight(C, D, Seen) /\ Seen \subseteq DOMAIN C /\ Seen \subseteq DOMAIN D
  BY NothingSeen DEF SameSight, SameAbove, Closed
<1>4. "Object" \notin DOMAIN WC /\ "Object" \notin DOMAIN WD
  BY <1>1, <1>2 DEF Known, Settled, Passed, Compiles
<1>5. \A t \in DOMAIN WC : DirectParents(WC[t]) \subseteq DOMAIN WC \cup {"Object"}
  BY <1>2 DEF Compiles, LegalParents
<1>6. \A t \in Names(own) : t \in DOMAIN WC /\ t \in DOMAIN WD /\ WD[t] = WC[t]
  BY <1>1 DEF Names
<1>7. \A t \in Seen : t \in DOMAIN WC /\ t \in DOMAIN WD /\ WC[t] = C[t] /\ WD[t] = D[t]
  BY <1>1, <1>3
<1>8. ASSUME NEW t \in N, NEW q \in DirectParents(WC[t]) \cap DOMAIN WC PROVE q \in N
  <2>1. CASE q \in Names(own)
    BY <2>1
  <2>2. CASE q \in DOMAIN C /\ t \in Names(own)
    <3>1. PICK f \in own : t = f.name /\ WC[t] = f
      BY <1>1, <2>2 DEF Names
    <3>2. Ancestors(C, q) \subseteq Seen
      BY <1>8, <3>1, AllSeen
    <3>3. IsClassPath(C)
      BY InputAssumption DEF Known, InputAssumption
    <3>4. IsHull(C, q, Ancestors(C, q))
      BY <3>3, AncestorsIsHull
    <3> QED
      BY <2>2, <3>2, <3>4 DEF IsHull
  <2>3. CASE q \in DOMAIN C /\ t \in Seen
    BY <1>3, <1>7, <1>8, <2>3 DEF SameSight, SameAbove, Closed
  <2> QED
    BY <1>1, <2>1, <2>2, <2>3
<1>9. ASSUME NEW t \in N
      PROVE  /\ t \in DOMAIN WD /\ WD[t].super = WC[t].super
             /\ DirectParents(WD[t]) = DirectParents(WC[t])
             /\ DirectParents(WC[t]) \cap DOMAIN WD \subseteq DOMAIN WC
             /\ Alike(WC[t].methods, WD[t].methods) /\ Alike(WC[t].fields, WD[t].fields)
  <2>1. t \in DOMAIN WC
    BY <1>6, <1>7
  <2>2. DirectParents(WC[t]) \cap DOMAIN WD \subseteq DOMAIN WC
    BY <1>4, <1>5, <2>1
  <2>3. CASE t \in Names(own)
    BY <1>6, <2>2, <2>3 DEF Alike
  <2>4. CASE t \in Seen
    BY <1>3, <1>7, <2>2, <2>4 DEF SameSight, SameAbove
  <2> QED
    BY <2>3, <2>4
<1>10. N \subseteq DOMAIN WC
  BY <1>6, <1>7
<1>11. SameSight(WC, WD, N)
  BY <1>8, <1>9, <1>10 DEF SameSight, SameAbove, Closed
<1> QED
  BY <1>2, <1>11 DEF WC, WD

\* The superclass of a class of ours, if the new release has it.
LEMMA SuperSeen ==
  ASSUME Known, Settled, Passed, NEW f \in own, f.super \in DOMAIN new.classes
  PROVE  f.super \in Seen /\ f.super \in DirectParents(f)
<1> DEFINE s == f.super
           C == old.classes
           W == WithOwn(old)
<1>1. /\ IsClassPath(C) /\ NoClass \notin DOMAIN new.classes /\ "Object" \notin DOMAIN new.classes
  BY InputAssumption DEF Known, Settled, Passed, InputAssumption, Compiles, IsClassPath
<1>2. s \in DirectParents(f)
  BY <1>1 DEF DirectParents
<1>3. DOMAIN W = Names(own) \cup DOMAIN C /\ W[f.name] = f /\ f.name \in DOMAIN W /\ Compiles(W)
  BY WithOwnIs, SameWithOwn DEF Names
<1>4. s \in Names(own) \cup DOMAIN C
  BY <1>1, <1>2, <1>3 DEF Compiles, LegalParents
<1>5. s \notin Names(own)
  BY DEF Settled, Names
<1>6. IsHull(C, s, Ancestors(C, s)) /\ Ancestors(C, s) \subseteq Seen
  BY <1>1, <1>2, AncestorsIsHull, AllSeen
<1> QED
  BY <1>2, <1>4, <1>5, <1>6 DEF IsHull

\* What is above a parent of a class of ours is above the class.
LEMMA OwnAbove ==
  ASSUME Known, Settled, NEW f \in own, NEW p \in DirectParents(f)
  PROVE  Ancestors(old.classes, p) \subseteq Ancestors(WithOwn(old), f.name)
<1> DEFINE C == old.classes
           W == WithOwn(old)
           A == Ancestors(C, p)
           U == Ancestors(W, f.name)
           B == A \cap U
<1>1. IsClassPath(C)
  BY InputAssumption DEF Known, InputAssumption
<1>2. /\ IsClassPath(W) /\ DOMAIN W = Names(own) \cup DOMAIN C
      /\ f.name \in DOMAIN W /\ W[f.name] = f
      /\ \A n \in DOMAIN C : W[n] = C[n]
  BY WithOwnIs DEF Names
<1>3. IsHull(C, p, A) /\ IsHull(W, f.name, U)
  BY <1>1, <1>2, AncestorsIsHull
<1> HIDE DEF A, U, W
<1>4. Closed(C, B)
  BY <1>2, <1>3 DEF IsHull, Closed
<1>5. {p} \cap DOMAIN C \subseteq B
  BY <1>2, <1>3 DEF IsHull, Closed
<1>6. A \subseteq B
  BY <1>3, <1>4, <1>5 DEF IsHull
<1> QED
  BY <1>6 DEF A, U, W

LEMMA ReferencesKept ==
  ASSUME Known, Settled, Passed, NEW f \in own
  PROVE  /\ Broken(f) \subseteq Hidden(f)
         /\ SourcesCompared(UNION {HiddenBy(i) : i \in Hidden(f)}) => Broken(f) = {}
<1> DEFINE C == old.classes
           D == new.classes
<1>1. IsClassPath(C) /\ Compiles(C) /\ IsClassPath(D)
  BY InputAssumption DEF Known, InputAssumption
<1>2. SameSight(C, D, Seen)
  BY NothingSeen
<1>3. ASSUME NEW i \in Broken(f)
      PROVE  /\ i \in Uses(f)
             /\ \E t \in Seen : t \in HiddenBy(i) /\ members(C[t], i.entry.kind) # members(D[t], i.entry.kind)
  <2>1. i \in Uses(f) /\ Links(C, i.entry, i.static) /\ ~Links(D, i.entry, i.static)
    BY DEF Broken
  <2>2. i.entry.owner \in DOMAIN C
    <3>1. Found(C, i.entry.kind, i.entry.owner, i.entry.name) # {}
      BY <2>1 DEF Links
    <3>2. Ancestors(C, i.entry.owner) # {}
      BY <1>1, <3>1, FoundIff
    <3>3. IsHull(C, i.entry.owner, Ancestors(C, i.entry.owner))
      BY <1>1, AncestorsIsHull
    <3>4. ASSUME i.entry.owner \notin DOMAIN C PROVE FALSE
      <4>1. Closed(C, {}) /\ {i.entry.owner} \cap DOMAIN C \subseteq {}
        BY <3>4 DEF Closed
      <4> QED
        BY <3>2, <3>3, <4>1 DEF IsHull
    <3> QED
      BY <3>4
  <2>3. i.entry.owner \in Seen
    BY <2>1, <2>2, AllSeen
  <2> QED
    BY <1>1, <1>2, <2>1, <2>3, HiddenIfBroken DEF HiddenBy
<1>4. Broken(f) \subseteq Hidden(f)
  BY <1>3 DEF Hidden
<1>5. ASSUME SourcesCompared(UNION {HiddenBy(i) : i \in Hidden(f)}), NEW i \in Broken(f) PROVE FALSE
  <2>1. PICK t \in Seen : t \in HiddenBy(i) /\ members(C[t], i.entry.kind) # members(D[t], i.entry.kind)
    BY <1>3
  <2>2. SourcesCompared({t})
    BY <1>4, <1>5, <2>1 DEF SourcesCompared
  <2>3. C[t].fields = D[t].fields /\ C[t].methods = D[t].methods
    BY <2>2, SameBySource
  <2> QED
    BY <2>1, <2>3 DEF members
<1> QED
  BY <1>4, <1>5

LEMMA OverridesKept ==
  ASSUME Known, Settled, Passed, NEW f \in own
  PROVE  Lost(f) = {} /\ Clashing(f) = {}
<1> DEFINE C == old.classes
           D == new.classes
<1>1. IsClassPath(C) /\ Compiles(C) /\ IsClassPath(D)
  BY InputAssumption DEF Known, InputAssumption
<1>2. SameSight(C, D, Seen)
  BY NothingSeen
<1>3. \A p \in DirectParents(f) : Ancestors(C, p) \subseteq Seen
  BY AllSeen
<1>4. ASSUME NEW m \in Lost(f) PROVE FALSE
  <2>1. Overridden(C, f, m) # {} /\ Overridden(D, f, m) = {}
    BY <1>4 DEF Lost, OverriddenBefore
  <2>2. PICK p \in DirectParents(f), t \in Seen :
          /\ t \in Ancestors(C, p)
          /\ m \in DOMAIN C[t].methods /\ IsApi(C[t].methods[m]) /\ "static" \notin C[t].methods[m]
    BY <1>3, <2>1 DEF Overridden
  <2>4. p \in Seen
    <3>1. IsHull(C, p, Ancestors(C, p))
      BY <1>1, AncestorsIsHull
    <3>2. p \notin DOMAIN C => Closed(C, {}) /\ {p} \cap DOMAIN C \subseteq {}
      BY DEF Closed
    <3>3. p \in DOMAIN C
      BY <2>2, <3>1, <3>2 DEF IsHull
    <3> QED
      BY <1>3, <3>1, <3>3 DEF IsHull
  <2>5. t \in Ancestors(D, p)
    BY <1>1, <1>2, <2>2, <2>4, SameAncestors DEF SameSight
  <2>6. Alike(C[t].methods, D[t].methods)
    BY <1>2, <2>2 DEF SameSight
  <2>7. m \in DOMAIN D[t].methods /\ IsApi(D[t].methods[m]) /\ "static" \notin D[t].methods[m]
    BY <2>2, <2>6 DEF Alike, Visible, Compared
  <2>8. t \in Overridden(D, f, m)
    BY <2>2, <2>5, <2>7 DEF Overridden
  <2> QED
    BY <2>1, <2>8
<1>5. ASSUME NEW m \in Clashing(f) PROVE FALSE
  <2> DEFINE W == WithOwn(old)
             s == f.super
  <2>1. m \in Overriding(f) /\ Clashes(D, f, m)
    BY <1>5 DEF Clashing, OverriddenBefore
  <2>2. m \in DOMAIN f.methods /\ m # "<init>" /\ "static" \notin f.methods[m]
    BY <2>1 DEF Overriding
  <2>3. PICK t \in Range(SuperChain(D, s)) :
          m \in DOMAIN D[t].methods /\ IsApi(D[t].methods[m]) /\ D[t].methods[m] \cap {"static", "final"} # {}
    BY <2>1 DEF Clashes
  <2>4. s \in DOMAIN D
    <3>1. ASSUME s \notin DOMAIN D PROVE FALSE
      <4>1. SuperChain(D, s) = << >>
        BY <3>1 DEF SuperChain
      <4> QED
        BY <2>3, <4>1 DEF Range
    <3> QED
      BY <3>1
  <2>5. s \in Seen /\ s \in DirectParents(f)
    BY <2>4, SuperSeen
  <2>6. t \in Ancestors(C, s)
    <3>1. SuperChain(D, s) = SuperChain(C, s)
      BY <1>1, <1>2, <2>5, SameChain DEF SameSight
    <3> QED
      BY <1>1, <2>3, <3>1, ChainIsAbove DEF Range
  <2>7. t \in Seen
    BY <1>3, <2>5, <2>6
  <2>8. Alike(C[t].methods, D[t].methods)
    BY <1>2, <2>7 DEF SameSight
  <2>9. m \in DOMAIN C[t].methods /\ IsApi(C[t].methods[m]) /\ C[t].methods[m] \cap {"static", "final"} # {}
    BY <2>3, <2>8 DEF Alike, Visible, Compared
  <2>10. /\ Compiles(W) /\ f.name \in DOMAIN W /\ W[f.name] = f
         /\ t \in DOMAIN C /\ W[t] = C[t] /\ t # f.name
    BY <2>7, SameWithOwn, WithOwnIs, InputAssumption, AllSeen DEF Names, Closed, Known, InputAssumption
  <2>11. t \in Ancestors(W, f.name)
    BY <1>1, <2>5, <2>6, OwnAbove
  <2>12. /\ "final" \notin C[t].methods[m]
         /\ "static" \in C[t].methods[m] <=> "static" \in f.methods[m]
    BY <2>2, <2>9, <2>10, <2>11 DEF Compiles, LegalMethods
  <2> QED
    BY <2>2, <2>9, <2>12
<1> QED
  BY <1>4, <1>5

LEMMA NothingMissing ==
  ASSUME Known, Settled, Passed, NEW f \in own
  PROVE  Missing(f) = {}
<1> DEFINE WC == WithOwn(old)
           WD == WithOwn(new)
           N == Names(own) \cup Seen
<1>1. IsClassPath(WC) /\ IsClassPath(WD) /\ Compiles(WC) /\ SameSight(WC, WD, N) /\ f.name \in N
  BY WithOwnIs, SameWithOwn DEF Names
<1> HIDE DEF WC, WD, N
<1>2. \A m : Unimplemented(WD, f.name, m) => Unimplemented(WC, f.name, m)
  BY <1>1, SameSelected
<1> QED
  BY <1>2 DEF Missing, WC, WD

LEMMA StillCalled ==
  ASSUME Known, Settled, Passed, NEW f \in own,
         SourcesCompared(Calling(UNION {Supertypes(old, p) : p \in Parents(f)}))
  PROVE  NotCalled(f) = {}
<1> DEFINE C == old.classes
           D == new.classes
           above == UNION {Ancestors(C, p) : p \in DirectParents(f)}
<1>1. IsClassPath(C) /\ IsClassPath(D) /\ SameSight(C, D, Seen)
  BY NothingSeen, InputAssumption DEF Known, InputAssumption
<1>2. \A p : Supertypes(old, p) = Ancestors(C, p)
  BY <1>1, SameSupertypes
<1>3. SourcesCompared(Calling(above))
  BY <1>2 DEF Parents, DirectParents
<1>4. above \subseteq Seen
  BY AllSeen
<1>5. ASSUME NEW p \in DirectParents(f), NEW t \in Ancestors(C, p) PROVE t \in Ancestors(D, p)
  <2>1. IsHull(C, p, Ancestors(C, p))
    BY <1>1, AncestorsIsHull
  <2>2. p \notin DOMAIN C => Closed(C, {}) /\ {p} \cap DOMAIN C \subseteq {}
    BY DEF Closed
  <2>3. p \in Ancestors(C, p)
    BY <1>5, <2>1, <2>2 DEF IsHull
  <2>4. p \in Seen
    BY <1>4, <2>3
  <2> QED
    BY <1>1, <1>5, <2>4, SameAncestors DEF SameSight
<1>6. above \subseteq UNION {Ancestors(D, p) : p \in DirectParents(f)}
  BY <1>5
<1>7. ASSUME NEW m, CalledFromAbove(C, f, m) PROVE CalledFromAbove(D, f, m)
  <2>1. PICK t \in above : \E caller \in DOMAIN C[t].code : \E i \in C[t].code[caller] :
          i.op = "invoke" /\ i.entry.name = m /\ i.entry.owner \in above
    BY <1>7 DEF CalledFromAbove
  <2>2. PICK caller \in DOMAIN C[t].code : \E i \in C[t].code[caller] :
          i.op = "invoke" /\ i.entry.name = m /\ i.entry.owner \in above
    BY <2>1
  <2>3. PICK i \in C[t].code[caller] : i.op = "invoke" /\ i.entry.name = m /\ i.entry.owner \in above
    BY <2>2
  <2>4. t \in Seen /\ Has(old, t)
    BY <1>4, AllSeen DEF Closed, Has
  <2>5. get(old, t).calls = [c \in DOMAIN C[t].code |->
          {<<j.entry.owner, j.entry.name>> : j \in {k \in C[t].code[c] : k.op = "invoke"}}]
    BY <2>4 DEF get, parse_class, Has
  <2>6. /\ caller \in DOMAIN get(old, t).calls
        /\ <<i.entry.owner, i.entry.name>> \in get(old, t).calls[caller]
    BY <2>2, <2>3, <2>5
  <2>7. t \in Calling(above)
    BY <2>4, <2>6 DEF Calling
  <2>8. SourcesCompared({t})
    BY <1>3, <2>7 DEF SourcesCompared
  <2>9. D[t].code = C[t].code
    BY <2>4, <2>8, SameBySource
  <2> HIDE DEF above
  <2> QED
    BY <1>6, <2>2, <2>3, <2>9 DEF CalledFromAbove
<1> QED
  BY <1>7 DEF NotCalled

LEMMA StillOpen ==
  ASSUME Known, Settled, Passed, NEW f \in own, SourcesCompared({f.super})
  PROVE  ~Sealed(f)
<1> SUFFICES ASSUME Sealed(f) PROVE FALSE
  OBVIOUS
<1> DEFINE W == WithOwn(old)
           s == f.super
<1>1. s \in DOMAIN new.classes /\ "final" \in new.classes[s].access
  BY DEF Sealed, Has
<1>2. s \in Seen
  BY <1>1, SuperSeen
<1>3. "final" \in old.classes[s].access
  BY <1>1, <1>2, SameBySource
<1>4. /\ s \in DOMAIN W /\ W[s] = old.classes[s]
      /\ f.name \in DOMAIN W /\ W[f.name] = f /\ Compiles(W)
  BY <1>2, AllSeen, WithOwnIs, SameWithOwn DEF Closed, Names
<1>5. "final" \notin W[s].access
  BY <1>4 DEF Compiles, LegalParents
<1> QED
  BY <1>3, <1>4, <1>5

LEMMA PassKnown == Known /\ Settled => PassMeansNothingBreaks
BY ReferencesKept, OverridesKept, NothingMissing, StillCalled, StillOpen DEF PassMeansNothingBreaks, Passed

\* All visible methods of the new release are there in the old one.
LEMMA NothingNew ==
  ASSUME Known, Settled, Passed
  PROVE  report.new_methods = {}
<1> DEFINE o == Ours
           inh == inherited(o, old)
           C == old.classes
           D == new.classes
           fresh(t) == {x \in DOMAIN D[t].methods \ DOMAIN C[t].methods :
                          IsApi(D[t].methods[x]) /\ x # "<init>" /\ "synthetic" \notin D[t].methods[x]}
<1>1. report = Analysis(o, old, new) /\ IsClassPath(C)
  BY InputAssumption DEF Known, Settled, Passed, InputAssumption
<1> HIDE DEF o
<1>2. report.new_methods = NewMethods(inh, old, new)
  BY <1>1 DEF Analysis
<1>3. inh \subseteq Seen
  <2>1. inh = Watched \cap UNION {UNION {Ancestors(C, p) : p \in Parents(c)} : c \in o}
    BY <1>1, SameSupertypes DEF inherited
  <2>2. \A c \in o : \A p \in Parents(c) : Ancestors(C, p) \subseteq Seen
    BY DEF Seen, o
  <2> HIDE DEF inh
  <2> QED
    BY <2>1, <2>2
<1>4. ASSUME NEW t \in Seen PROVE fresh(t) = {}
  <2>1. Alike(C[t].methods, D[t].methods)
    BY NothingSeen DEF SameSight
  <2> QED
    BY <2>1 DEF Alike, Visible
<1>5. NewMethods(inh, old, new)
        = UNION {{<<t, m>> : m \in fresh(t)} : t \in {x \in inh : Has(old, x) /\ Has(new, x)}}
  BY DEF NewMethods
<1> HIDE DEF fresh, inh
<1>6. NewMethods(inh, old, new) = {}
  BY <1>3, <1>4, <1>5
<1> QED
  BY <1>2, <1>6

\* An override is declared where it was, and called from where it was.
LEMMA RowsStay ==
  ASSUME Known, Settled, Passed, NEW r \in report.overrides
  PROVE  r.state = "unchanged" /\ (SourcesCompared(Calling(r.chain)) => r.callers = r.callers_old)
<1> DEFINE o == Ours
           C == old.classes
           D == new.classes
           rows == Overrides(o, old, new)
<1>1. /\ IsClassPath(C) /\ Compiles(C) /\ IsClassPath(D) /\ SameSight(C, D, Seen)
      /\ \A t \in DOMAIN C : OneKind(C[t])
  BY NothingSeen, InputAssumption DEF Known, InputAssumption
<1>2. stage # "release" /\ report = Analysis(o, old, new) /\ Status(report) = "PASS"
  BY DEF Known, Settled, Passed
<1> HIDE DEF o
<1>3. r \in rows /\ r.inClass
  <2>1. report.overrides = {q \in rows : q.inClass}
    BY <1>2 DEF Analysis
  <2> HIDE DEF rows
  <2> QED
    BY <2>1
<1>4. r.state \notin {"removed", "barred"}
  <2>1. report.problems = {}
    BY <1>2 DEF Status
  <2>2. OverrideProblems(rows) = {}
    <3>1. \A q : q \in OverrideProblems(rows) => q \in report.problems
      BY <1>2, WhatIsReported DEF o
    <3> HIDE DEF rows
    <3> QED
      BY <2>1, <3>1
  <2> HIDE DEF rows
  <2> QED
    BY <1>3, <2>2 DEF OverrideProblems
<1>5. PICK c \in o : /\ "interface" \notin c.access /\ c.super # NoClass
                     /\ \E m \in overriding(c, old) : r = OverrideRow(c, m, old, new)
  BY <1>3, RowsAre
<1>6. PICK m \in overriding(c, old) : r = OverrideRow(c, m, old, new)
  BY <1>5
<1> DEFINE n == c.super
           b == resolve(old, "method", n, m)
           d == resolve(new, "method", n, m)
           A == Ancestors(C, n)
<1>7. b # NoClass /\ IsApi(C[b].methods[m])
  BY <1>6 DEF overriding, resolve
<1>8. /\ r.inClass <=> "interface" \notin get(old, b).access
      /\ r.chain = Supertypes(old, n)
      /\ r.callers = callers_in(new, Supertypes(new, n), m)
      /\ r.callers_old = callers_in(old, Supertypes(old, n), m)
      /\ d # NoClass /\ IsApi(D[d].methods[m])
      /\ d = b => r.state = "unchanged"
  BY <1>4, <1>6, RowIs
<1>9. A \subseteq Seen /\ b \in A
  <2>1. A \subseteq Seen
    BY <1>5 DEF Seen, Parents, o
  <2>2. IsFirst(old, n, m, b)
    BY <1>1, <1>7, ResolvesToFirst
  <2> QED
    BY <2>1, <2>2 DEF IsFirst, Above
<1>10. n \in Seen
  <2>1. IsHull(C, n, A)
    BY <1>1, AncestorsIsHull
  <2>2. n \notin DOMAIN C => Closed(C, {}) /\ {n} \cap DOMAIN C \subseteq {}
    BY DEF Closed
  <2> HIDE DEF n, A
  <2> QED
    BY <1>9, <2>1, <2>2 DEF IsHull
<1>11. IsClass(C, b)
  <2>1. b \in DOMAIN C /\ OneKind(C[b])
    BY <1>1, <1>9, AllSeen DEF Closed
  <2>2. "interface" \notin parse_class(C[b]).access
    BY <1>3, <1>8, <2>1 DEF get
  <2> HIDE DEF b
  <2> QED
    BY <2>1, <2>2 DEF IsClass, parse_class, OneKind, IsInterface
<1>12. r.state = "unchanged"
  <2>1. d = b
    <3> HIDE DEF n, A
    <3>1. b = resolve(old, "method", n, m) /\ d = resolve(new, "method", n, m)
      OBVIOUS
    <3> HIDE DEF b, d
    <3> QED
      BY <1>1, <1>7, <1>8, <1>10, <1>11, <3>1, StaysFirst
  <2> QED
    BY <1>8, <2>1
<1>13. ASSUME SourcesCompared(Calling(r.chain)) PROVE r.callers = r.callers_old
  <2> HIDE DEF n
  <2>1. Supertypes(old, n) = A /\ Supertypes(new, n) = A
    BY <1>1, <1>10, SameSupertypes, SameAncestors DEF SameSight
  <2>2. A \subseteq DOMAIN C \cap DOMAIN D
    BY <1>1, <1>9, AllSeen DEF Closed, SameSight, SameAbove
  <2>3. ASSUME NEW t \in A
        PROVE  \/ D[t].code = C[t].code
               \/ \A cp \in {old, new} : \A k \in DOMAIN get(cp, t).calls : get(cp, t).calls[k] = {}
    <3>1. CASE t \in Calling(A)
      <4>1. SourcesCompared({t})
        BY <1>8, <1>13, <2>1, <3>1 DEF SourcesCompared
      <4> QED
        BY <1>9, <4>1, SameBySource
    <3>2. CASE t \notin Calling(A)
      BY <2>2, <3>2 DEF Calling, Has
    <3> QED
      BY <3>1, <3>2
  <2> HIDE DEF A
  <2>4. callers_in(new, A, m) = callers_in(old, A, m)
    BY <2>2, <2>3, SameCallers
  <2> QED
    BY <1>8, <2>1, <2>4
<1> QED
  BY <1>12, <1>13

LEMMA QuietKnown == Known /\ Settled => PassMeansNothingNew
BY NothingNew, RowsStay DEF PassMeansNothingNew, Passed

-----------------------------------------------------------------------------
(***************************************************************************)
(* The theorems about the report.                                          *)
(***************************************************************************)

ClassesNamed ==
  /\ issue.shown \subseteq Watched /\ issue.cut \subseteq Watched /\ issue.skipped \subseteq Watched
  /\ block # NoBlock => block.class \in Watched

LEMMA NamedInit == Init => ClassesNamed
BY DEF Init, ClassesNamed

LEMMA NamedNext == IInv /\ ClassesNamed /\ [Next]_vars => ClassesNamed'
<1> SUFFICES ASSUME IInv, ClassesNamed, [Next]_vars PROVE ClassesNamed'
  OBVIOUS
<1>1. CASE UNCHANGED <<issue, block>>
  BY <1>1 DEF ClassesNamed
<1>2. CASE Compare
  <2>1. /\ UNCHANGED block
        /\ issue'.shown = issue.shown /\ issue'.cut = issue.cut /\ issue'.skipped = issue.skipped
    BY <1>2 DEF Compare, IInv, IssueRecord
  <2> QED
    BY <2>1 DEF ClassesNamed
<1>3. CASE RenderClass
  <2>1. PICK i \in DOMAIN ByName : block'.class = ByName[i]
    BY <1>3 DEF RenderClass
  <2>2. issue'.shown = issue.shown /\ issue'.cut = issue.cut /\ issue'.skipped = issue.skipped
    BY <1>3 DEF RenderClass, IInv, IssueRecord
  <2>3. block'.class \in Watched
    BY <2>1 DEF Watched, Range
  <2> QED
    BY <2>2, <2>3 DEF ClassesNamed
<1>4. CASE Shorten
  <2>1. UNCHANGED issue /\ block # NoBlock /\ block'.class = block.class
    BY <1>4 DEF Shorten, IInv, BlockRecord
  <2> QED
    BY <2>1 DEF ClassesNamed
<1>5. CASE AppendClass
  <2> DEFINE cut == IF block.diff > block.limit /\ block.limit < MaxDiff
                    THEN issue.cut \cup {block.class} ELSE issue.cut
             shown == issue.shown \cup {block.class}
  <2>1. /\ block # NoBlock /\ block' = NoBlock
        /\ issue' = [issue EXCEPT !.shown = shown, !.size = Size, !.cut = cut]
    BY <1>5 DEF AppendClass
  <2>2. cut \subseteq Watched /\ shown \subseteq Watched
    BY <2>1 DEF ClassesNamed
  <2> HIDE DEF cut, shown
  <2>3. issue'.shown = shown /\ issue'.cut = cut /\ issue'.skipped = issue.skipped
    BY <2>1 DEF IInv, IssueRecord
  <2> QED
    BY <2>1, <2>2, <2>3 DEF ClassesNamed
<1>6. CASE SkipClass
  <2>1. /\ block # NoBlock /\ block' = NoBlock
        /\ issue'.shown = issue.shown /\ issue'.cut = issue.cut
        /\ issue'.skipped = issue.skipped \cup {block.class}
    BY <1>6 DEF SkipClass, IInv, IssueRecord
  <2> QED
    BY <2>1 DEF ClassesNamed
<1>7. CASE Finish
  <2>1. /\ UNCHANGED block
        /\ issue'.shown = issue.shown /\ issue'.cut = issue.cut /\ issue'.skipped = issue.skipped
    BY <1>7 DEF Finish, IInv, IssueRecord
  <2> QED
    BY <2>1 DEF ClassesNamed
<1>8. CASE Develop \/ UNCHANGED vars
  BY <1>1, <1>8 DEF Develop, vars
<1> QED
  BY <1>2, <1>3, <1>4, <1>5, <1>6, <1>7, <1>8 DEF Next

LEMMA TypesFollow == IInv /\ Known /\ ClassesNamed => TypeOK
<1> SUFFICES ASSUME IInv, Known, ClassesNamed PROVE TypeOK
  OBVIOUS
<1>1. report.findings \subseteq Watched /\ report.inherited \subseteq Watched
  <2>1. CASE stage = "release"
    BY <2>1 DEF Known, Empty
  <2>2. CASE stage # "release"
    <3>1. report.findings \subseteq relevant(Ours, old) /\ report.inherited = inherited(Ours, old)
      BY <2>2, ReportIs DEF Findings
    <3> QED
      BY <3>1, RelevantWatched
  <2> QED
    BY <2>1, <2>2
<1>2. block.limit \in 0..MaxDiff
  BY SizeAssumption DEF IInv, Sizes, SizeAssumption
<1>3. /\ issue.shown \cup issue.cut \cup issue.skipped \subseteq Watched
      /\ report.findings \cup report.inherited \subseteq Watched
  BY <1>1 DEF ClassesNamed
<1> QED
  BY <1>2, <1>3 DEF TypeOK, IInv, Sizes, Known

\* Report, issue and status are well-typed, for every pair of releases and
\* whatever changes between them (analyse, render_issue).
THEOREM ReportTypeCorrect == Spec => []TypeOK
<1>1. Init => IInv /\ Known /\ ClassesNamed
  BY InitHolds, KnownInit, NamedInit
<1>2. IInv /\ Known /\ ClassesNamed /\ [Next]_vars => (IInv /\ Known /\ ClassesNamed)'
  BY StepKeeps, KnownNext, NamedNext
<1> QED
  BY <1>1, <1>2, TypesFollow, PTL DEF Spec

\* analyse, linkage: for all class paths, however deep the hierarchies and
\* whatever is above what, exactly those references are reported as broken
\* that the runtime finds in the old release and not in the new one.
THEOREM ReferencesAreJudgedRight == Spec => []ReferencesJudgedRight
BY KnownInit, KnownNext, ReferencesKnown, PTL DEF Spec

\* analyse, overrides: for all releases that compile, and however deep the
\* hierarchies are, a plain method of a class of ours that only extends is
\* reported as incompatible exactly if the runtime no longer lets it override,
\* and as unused exactly if nothing above calls it any more.
THEOREM OverridesAreJudgedRight == Spec => []OverridesJudgedRight
BY KnownInit, KnownNext, OverridesKnown, PTL DEF Spec

\* analyse, users, via and inheritance_paths: every changed class of the report
\* names a class of ours it matters to.
THEOREM RowsNameOurClasses == Spec => []EveryRowNamesOurClass
BY KnownInit, KnownNext, RowsKnown, PTL DEF Spec

\* analyse, cmd_check: for all pairs of releases and all classes of ours, the
\* verdict PASS means that the new release breaks nothing of what our classes
\* refer to, override, implement and extend, and calls what it called, as far
\* as a source was there to compare.
THEOREM PassIsEarned == Spec => []PassMeansNothingBreaks
BY KnownInit, KnownNext, SettledInit, SettledNext, PassKnown, PTL DEF Spec

\* analyse, cmd_check: for the same, the verdict PASS means that no superclass of
\* ours has a new method, and that every override of a class method is declared
\* where it was and, as far as a source was there to compare, called from where
\* it was.
THEOREM PassIsQuiet == Spec => []PassMeansNothingNew
BY KnownInit, KnownNext, SettledInit, SettledNext, QuietKnown, PTL DEF Spec

===============================================================================

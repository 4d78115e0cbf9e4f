------------------------ MODULE PrefixStripping_proofs ------------------------
(***************************************************************************)
(* What becomes of a claim value, for all names, values and lists of       *)
(* prefixes.  Segments and Length are loops over a string; what is said of *)
(* them is said of each turn (UpTo, Steps).                                *)
(***************************************************************************)
EXTENDS PrefixStripping, SequenceTheorems, WellFoundedInduction, TLAPS

-----------------------------------------------------------------------------
(***************************************************************************)
(* Loops over a string.                                                    *)
(***************************************************************************)

Less == {p \in Nat \X Nat : p[1] < p[2]}

LEMMA LeastElement ==
  ASSUME NEW U, U \subseteq Nat, U # {}
  PROVE  \E x \in U : \A y \in U : x <= y
<1>1. IsWellFoundedOn(Less, Nat)
  BY NatLessThanWellFounded DEF OpToRel, Less
<1>2. PICK x \in U : \A y \in U : ~(<<y, x>> \in Less)
  BY <1>1, WFMin
<1>3. ASSUME NEW y \in U PROVE x <= y
  <2>1. x \in Nat /\ y \in Nat
    OBVIOUS
  <2>2. y < x => <<y, x>> \in Less
    BY <2>1 DEF Less
  <2>3. ~(y < x)
    BY <1>2, <2>2
  <2> QED
    BY <2>1, <2>3
<1> QED
  BY <1>3

LEMMA NatSteps ==
  ASSUME NEW T, 0 \in T, \A k \in Nat : k \in T => k + 1 \in T
  PROVE  Nat \subseteq T
<1> DEFINE U == Nat \ T
<1>1. ASSUME U # {} PROVE FALSE
  <2>1. PICK x \in U : \A y \in U : x <= y
    BY <1>1, LeastElement
  <2>2. x \in Nat /\ x # 0 /\ x - 1 \in Nat
    BY <2>1
  <2>3. x - 1 \in T
    BY <2>1, <2>2
  <2> QED
    BY <2>1, <2>2, <2>3
<1> QED
  BY <1>1

\* Repeating F from a value on.
LEMMA Iterates ==
  ASSUME NEW V, NEW v \in V, NEW F \in [V -> V]
  PROVE  \E g \in [Nat -> V] : g[0] = v /\ \A k \in Nat : g[k + 1] = F[g[k]]
<1> DEFINE Good(R) == <<0, v>> \in R /\ \A k \in Nat, x \in V : <<k, x>> \in R => <<k + 1, F[x]>> \in R
           R == {p \in Nat \X V : \A Q \in SUBSET (Nat \X V) : Good(Q) => p \in Q}
           One(k) == \E x \in V : <<k, x>> \in R /\ \A y \in V : <<k, y>> \in R => y = x
           T == {k \in Nat : One(k)}
<1>1. <<0, v>> \in R
  OBVIOUS
<1>2. ASSUME NEW k \in Nat, NEW x \in V, <<k, x>> \in R PROVE <<k + 1, F[x]>> \in R
  <2>1. F[x] \in V
    OBVIOUS
  <2> QED
    BY <1>2, <2>1
<1>3. Good(R)
  BY <1>1, <1>2
<1>4. ASSUME NEW k \in Nat, NEW x \in V, <<k, x>> \in R, <<k, x>> # <<0, v>>,
             \A j \in Nat, y \in V : <<j, y>> \in R => <<j + 1, F[y]>> # <<k, x>>
      PROVE  FALSE
  <2> DEFINE Q == R \ {<<k, x>>}
  <2>1. Q \in SUBSET (Nat \X V)
    OBVIOUS
  <2>2. Good(Q)
    BY <1>3, <1>4
  <2>3. <<k, x>> \in Q
    BY <1>4, <2>1, <2>2
  <2> QED
    BY <2>3
<1> HIDE DEF R
<1>5. One(0)
  <2>1. ASSUME NEW y \in V, <<0, y>> \in R PROVE y = v
    <3>1. SUFFICES ASSUME y # v PROVE FALSE
      OBVIOUS
    <3>2. \A j \in Nat, z \in V : <<j + 1, F[z]>> # <<0, y>>
      OBVIOUS
    <3>3. <<0, y>> # <<0, v>> /\ 0 \in Nat
      BY <3>1
    <3>4. \A j \in Nat, z \in V : <<j, z>> \in R => <<j + 1, F[z]>> # <<0, y>>
      BY <3>2
    <3> HIDE DEF One, Good
    <3> QED
      BY <1>4, <2>1, <3>3, <3>4
  <2> QED
    BY <1>1, <2>1
<1>6. ASSUME NEW k \in Nat, One(k) PROVE One(k + 1)
  <2>1. PICK x \in V : <<k, x>> \in R /\ \A y \in V : <<k, y>> \in R => y = x
    BY <1>6
  <2>2. ASSUME NEW y \in V, <<k + 1, y>> \in R PROVE y = F[x]
    <3>1. SUFFICES ASSUME y # F[x] PROVE FALSE
      OBVIOUS
    <3>2. ASSUME NEW j \in Nat, NEW z \in V, <<j, z>> \in R, <<j + 1, F[z]>> = <<k + 1, y>> PROVE FALSE
      <4>1. j = k /\ F[z] = y
        BY <3>2
      <4> QED
        BY <2>1, <3>1, <3>2, <4>1
    <3>3. k + 1 \in Nat /\ <<k + 1, y>> # <<0, v>>
      OBVIOUS
    <3> QED
      BY <1>4, <2>2, <3>2, <3>3
  <2>3. F[x] \in V /\ <<k + 1, F[x]>> \in R
    BY <1>2, <2>1
  <2> QED
    BY <2>2, <2>3
<1>7. \A k \in Nat : One(k)
  <2> HIDE DEF One
  <2>1. 0 \in T
    BY <1>5
  <2>2. \A k \in Nat : k \in T => k + 1 \in T
    BY <1>6
  <2>3. Nat \subseteq T
    BY <2>1, <2>2, NatSteps
  <2> QED
    BY <2>3
<1> DEFINE g == [k \in Nat |-> CHOOSE x \in V : <<k, x>> \in R]
<1>8. \A k \in Nat : g[k] \in V /\ <<k, g[k]>> \in R
  BY <1>7
<1>9. ASSUME NEW k \in Nat, NEW x \in V, <<k, x>> \in R PROVE g[k] = x
  BY <1>7, <1>8, <1>9
<1>10. g[0] = v
  BY <1>1, <1>9
<1> HIDE DEF g
<1>11. ASSUME NEW k \in Nat PROVE g[k + 1] = F[g[k]]
  <2>1. g[k] \in V /\ <<k, g[k]>> \in R
    BY <1>8
  <2>2. <<k + 1, F[g[k]]>> \in R /\ F[g[k]] \in V /\ k + 1 \in Nat
    BY <1>2, <2>1
  <2> QED
    BY <1>9, <2>2
<1>12. g \in [Nat -> V]
  BY <1>8 DEF g
<1> QED
  BY <1>10, <1>11, <1>12

-----------------------------------------------------------------------------
(***************************************************************************)
(* supertypes: the loop ends, with all supertypes and nothing else.        *)
(***************************************************************************)
\* A loop over 1..n whose turn k maps what it has so far with G.
Turns(X, G) == G \in [Nat \X X -> X]
IsLoopOf(h, X, v, n, G) ==
  h \in [0..n -> X] /\ h[0] = v /\ \A k \in 1..n : h[k] = G[<<k, h[k - 1]>>]

LEMMA Loops ==
  ASSUME NEW X, NEW v \in X, NEW n \in Nat, NEW G, Turns(X, G)
  PROVE  \E h : IsLoopOf(h, X, v, n, G)
<1> DEFINE V == Nat \X X
           F == [p \in V |-> <<p[1] + 1, G[<<p[1] + 1, p[2]>>]>>]
           w == <<0, v>>
<1> USE DEF Turns
<1>1. w \in V
  OBVIOUS
<1>2. ASSUME NEW p \in V PROVE F[p] \in V
  <2>1. p[1] + 1 \in Nat /\ p[2] \in X
    OBVIOUS
  <2>2. G[<<p[1] + 1, p[2]>>] \in X
    BY <2>1
  <2> QED
    BY <2>1, <2>2
<1>3. F \in [V -> V]
  BY <1>2
<1>4. \A p \in V : F[p] = <<p[1] + 1, G[<<p[1] + 1, p[2]>>]>>
  OBVIOUS
<1> HIDE DEF F, V, w
<1>5. PICK g \in [Nat -> V] : g[0] = w /\ \A k \in Nat : g[k + 1] = F[g[k]]
  BY <1>1, <1>3, Iterates, SMTT(60)
<1>6. \A k \in Nat : g[k][1] = k
  <2> DEFINE T == {k \in Nat : g[k][1] = k}
  <2>1. 0 \in T
    BY <1>5 DEF w
  <2>2. ASSUME NEW k \in Nat, k \in T PROVE k + 1 \in T
    <3>1. g[k] \in V /\ g[k + 1] = F[g[k]]
      BY <1>5
    <3>2. g[k + 1] = <<g[k][1] + 1, G[<<g[k][1] + 1, g[k][2]>>]>>
      BY <1>4, <3>1
    <3>3. g[k + 1][1] = g[k][1] + 1
      BY <3>2
    <3> QED
      BY <2>2, <3>3
  <2> HIDE DEF T
  <2>3. Nat \subseteq T
    BY <2>1, <2>2, NatSteps
  <2> QED
    BY <2>3 DEF T
<1> DEFINE h == [k \in 0..n |-> g[k][2]]
<1>7. h \in [0..n -> X]
  <2>1. \A k \in Nat : g[k] \in Nat \X X
    BY <1>5 DEF V
  <2> QED
    BY <2>1
<1>8. h[0] = v
  BY <1>5 DEF w
<1>9. ASSUME NEW k \in 1..n PROVE h[k] = G[<<k, h[k - 1]>>]
  <2> DEFINE j == k - 1
  <2>1. j \in Nat /\ j \in 0..n /\ k = j + 1 /\ k \in 0..n
    OBVIOUS
  <2> HIDE DEF j
  <2>2. g[j] \in V /\ g[j][1] = j /\ g[k] = F[g[j]]
    BY <1>5, <1>6, <2>1
  <2>3. g[k] = <<k, G[<<k, g[j][2]>>]>>
    BY <1>4, <2>1, <2>2
  <2>4. h[k] = g[k][2] /\ h[j] = g[j][2]
    BY <2>1
  <2> HIDE DEF h
  <2> QED
    BY <2>3, <2>4 DEF j
<1> QED
  BY <1>7, <1>8, <1>9 DEF IsLoopOf

\* A statement about every turn.
LEMMA EveryTurn ==
  ASSUME NEW n \in Nat, NEW T, 0 \in T, \A k \in 1..n : k - 1 \in T => k \in T
  PROVE  \A k \in 0..n : k \in T
<1> DEFINE U == T \cup {k \in Nat : k > n}
<1>1. ASSUME NEW k \in Nat, k \in U PROVE k + 1 \in U
  <2>1. CASE k + 1 > n
    BY <2>1
  <2>2. CASE ~(k + 1 > n)
    <3>1. k + 1 \in 1..n /\ (k + 1) - 1 = k /\ k \in T
      BY <1>1, <2>2
    <3> QED
      BY <3>1
  <2> QED
    BY <2>1, <2>2
<1>2. 0 \in U
  OBVIOUS
<1> HIDE DEF U
<1>3. Nat \subseteq U
  BY <1>1, <1>2, NatSteps
<1> QED
  BY <1>3 DEF U

-----------------------------------------------------------------------------
(***************************************************************************)
(* Segments and Length.                                                    *)
(***************************************************************************)

Raw == Seq(Names \cup {Slash})

\* What segments() has after each turn.
SegmentsUpTo(raw, s) ==
  /\ s[0] = << >> /\ Segments(raw) = s[Len(raw)]
  /\ \A k \in 1..Len(raw) : s[k] = IF raw[k] = Slash THEN s[k - 1] ELSE Append(s[k - 1], raw[k])

LEMMA SegmentsTurns ==
  ASSUME NEW raw \in Raw
  PROVE  \E s \in [0..Len(raw) -> Seq(Names)] : SegmentsUpTo(raw, s)
<1> DEFINE n == Len(raw)
           X == Seq(Names)
           Body(f, k) == IF k = 0 THEN << >> ELSE IF raw[k] = Slash THEN f[k - 1] ELSE Append(f[k - 1], raw[k])
           IsLoop(f) == f = [k \in 0..n |-> Body(f, k)]
           upto == CHOOSE f : IsLoop(f)
           G == [p \in Nat \X X |-> IF p[1] \in 1..n /\ raw[p[1]] # Slash THEN Append(p[2], raw[p[1]]) ELSE p[2]]
<1>1. n \in Nat /\ \A k \in 1..n : raw[k] \in Names \cup {Slash}
  BY ElementOfSeq DEF Raw
<1>2. Segments(raw) = upto[n]
  BY DEF Segments
<1> HIDE DEF n
<1>3. ASSUME NEW p \in Nat \X X PROVE G[p] \in X
  <2>1. p[2] \in X
    OBVIOUS
  <2>2. CASE p[1] \in 1..n /\ raw[p[1]] # Slash
    <3>1. raw[p[1]] \in Names
      BY <1>1, <2>2
    <3>2. Append(p[2], raw[p[1]]) \in X
      BY <2>1, <3>1, AppendProperties
    <3> QED
      BY <2>2, <3>2
  <2>3. CASE ~(p[1] \in 1..n /\ raw[p[1]] # Slash)
    BY <2>1, <2>3
  <2> QED
    BY <2>2, <2>3
<1>4. G \in [Nat \X X -> X] /\ << >> \in X
  BY <1>3
<1>5. \A k \in 1..n, x \in X : G[<<k, x>>] = IF raw[k] = Slash THEN x ELSE Append(x, raw[k])
  BY <1>1
<1> HIDE DEF G, X
<1>6. PICK h \in [0..n -> X] : h[0] = << >> /\ \A k \in 1..n : h[k] = G[<<k, h[k - 1]>>]
  <2> DEFINE v == << >>
  <2>1. v \in X
    BY <1>4
  <2> HIDE DEF v
  <2>2. Turns(X, G)
    BY <1>4 DEF Turns
  <2>3. \E h : IsLoopOf(h, X, v, n, G)
    BY <1>1, <2>1, <2>2, Loops
  <2> QED
    BY <2>3 DEF v, IsLoopOf
<1>7. \A k \in 1..n : h[k] = IF raw[k] = Slash THEN h[k - 1] ELSE Append(h[k - 1], raw[k])
  <2>1. \A k \in 1..n : k - 1 \in 0..n
    BY <1>1
  <2> QED
    BY <1>5, <1>6, <2>1
<1>8. IsLoop(h)
  <2>1. ASSUME NEW k \in 0..n PROVE h[k] = Body(h, k)
    <3>1. CASE k = 0
      BY <1>6, <3>1
    <3>2. CASE k # 0
      <4>1. k \in 1..n
        BY <1>1, <3>2
      <4> QED
        BY <1>7, <3>2, <4>1
    <3> QED
      BY <3>1, <3>2
  <2>2. h = [k \in 0..n |-> h[k]]
    BY <1>6
  <2> HIDE DEF Body
  <2> QED
    BY <2>1, <2>2
<1>9. IsLoop(upto)
  BY <1>8
<1> HIDE DEF upto
<1>10. upto[0] = << >>
  BY <1>1, <1>9
<1>11. ASSUME NEW k \in 1..n
       PROVE  upto[k] = IF raw[k] = Slash THEN upto[k - 1] ELSE Append(upto[k - 1], raw[k])
  <2>1. k \in 0..n /\ k # 0
    BY <1>1
  <2>2. upto[k] = Body(upto, k)
    <3> HIDE DEF Body
    <3> QED
      BY <1>9, <2>1
  <2> QED
    BY <2>1, <2>2
<1>12. upto \in [0..n -> X]
  <2> DEFINE T == {k \in 0..n : upto[k] \in X}
  <2>1. 0 \in T
    BY <1>1, <1>4, <1>10
  <2>2. ASSUME NEW k \in 1..n, k - 1 \in T PROVE k \in T
    <3>1. upto[k - 1] \in X /\ raw[k] \in Names \cup {Slash} /\ k \in 0..n
      BY <1>1, <2>2
    <3>2. raw[k] # Slash => Append(upto[k - 1], raw[k]) \in X
      BY <3>1, AppendProperties DEF X
    <3>3. upto[k] \in X
      BY <1>11, <3>1, <3>2
    <3> QED
      BY <3>1, <3>3
  <2> HIDE DEF T
  <2>3. \A k \in 0..n : k \in T
    BY <1>1, <2>1, <2>2, EveryTurn
  <2>4. \A k \in 0..n : upto[k] \in X
    BY <2>3 DEF T
  <2>5. upto = [k \in 0..n |-> Body(upto, k)]
    BY <1>9
  <2> HIDE DEF Body
  <2> QED
    BY <2>4, <2>5
<1>13. SegmentsUpTo(raw, upto)
  BY <1>2, <1>10, <1>11 DEF SegmentsUpTo, n
<1> QED
  BY <1>12, <1>13 DEF n, X

LEMMA SegmentsAreNames ==
  ASSUME NEW raw \in Raw
  PROVE  Segments(raw) \in Seq(Names)
<1>1. PICK s \in [0..Len(raw) -> Seq(Names)] : SegmentsUpTo(raw, s)
  BY SegmentsTurns
<1>2. Len(raw) \in 0..Len(raw)
  BY DEF Raw
<1> QED
  BY <1>1, <1>2 DEF SegmentsUpTo

\* What the sum of lengths is after each character of the list, a token each.
LengthUpTo(raw, s) ==
  /\ s[0] = 0 /\ Length(raw) = s[Len(raw)]
  /\ \A k \in 1..Len(raw) : s[k] = s[k - 1] + Characters(raw[k])

LEMMA TokensHaveCharacters ==
  ASSUME NEW t \in Names \cup {Slash}
  PROVE  Characters(t) \in Nat /\ Characters(t) > 0
BY PrefixAssumption DEF PrefixAssumption, Characters

LEMMA LengthTurns ==
  ASSUME NEW raw \in Raw
  PROVE  \E s \in [0..Len(raw) -> Nat] : LengthUpTo(raw, s)
<1> DEFINE n == Len(raw)
           Body(f, k) == IF k = 0 THEN 0 ELSE f[k - 1] + Characters(raw[k])
           IsLoop(f) == f = [k \in 0..n |-> Body(f, k)]
           upto == CHOOSE f : IsLoop(f)
           G == [p \in Nat \X Nat |-> IF p[1] \in 1..n THEN p[2] + Characters(raw[p[1]]) ELSE p[2]]
<1>1. n \in Nat /\ \A k \in 1..n : Characters(raw[k]) \in Nat
  BY ElementOfSeq, TokensHaveCharacters DEF Raw
<1>2. Length(raw) = upto[n]
  BY DEF Length
<1> HIDE DEF n
<1>3. G \in [Nat \X Nat -> Nat]
  BY <1>1
<1>4. \A k \in 1..n, x \in Nat : G[<<k, x>>] = x + Characters(raw[k])
  BY <1>1
<1> HIDE DEF G
<1>5. PICK h \in [0..n -> Nat] : h[0] = 0 /\ \A k \in 1..n : h[k] = G[<<k, h[k - 1]>>]
  <2> DEFINE v == 0
             X == Nat
  <2>1. v \in X /\ G \in [Nat \X X -> X]
    BY <1>3
  <2> HIDE DEF v, X
  <2>2. Turns(X, G)
    BY <2>1 DEF Turns
  <2>3. \E h : IsLoopOf(h, X, v, n, G)
    BY <1>1, <2>1, <2>2, Loops
  <2> QED
    BY <2>3 DEF v, X, IsLoopOf
<1>6. \A k \in 1..n : h[k] = h[k - 1] + Characters(raw[k])
  <2>1. \A k \in 1..n : k - 1 \in 0..n
    BY <1>1
  <2> QED
    BY <1>4, <1>5, <2>1
<1>7. IsLoop(h)
  <2>1. \A k \in 0..n : h[k] = Body(h, k)
    BY <1>1, <1>5, <1>6
  <2>2. h = [k \in 0..n |-> h[k]]
    BY <1>5
  <2> HIDE DEF Body
  <2> QED
    BY <2>1, <2>2
<1>8. IsLoop(upto)
  BY <1>7
<1> HIDE DEF upto
<1>9. upto[0] = 0
  BY <1>1, <1>8
<1>10. \A k \in 1..n : upto[k] = upto[k - 1] + Characters(raw[k])
  BY <1>1, <1>8
<1>11. upto \in [0..n -> Nat]
  <2> DEFINE T == {k \in 0..n : upto[k] \in Nat}
  <2>1. 0 \in T
    BY <1>1, <1>9
  <2>2. ASSUME NEW k \in 1..n, k - 1 \in T PROVE k \in T
    BY <1>1, <1>10, <2>2
  <2> HIDE DEF T
  <2>3. \A k \in 0..n : k \in T
    BY <1>1, <2>1, <2>2, EveryTurn
  <2>4. \A k \in 0..n : upto[k] \in Nat
    BY <2>3 DEF T
  <2>5. upto = [k \in 0..n |-> Body(upto, k)]
    BY <1>8
  <2> HIDE DEF Body
  <2> QED
    BY <2>4, <2>5
<1>12. LengthUpTo(raw, upto)
  BY <1>2, <1>9, <1>10 DEF LengthUpTo, n
<1> QED
  BY <1>11, <1>12 DEF n

LEMMA LengthIsNat ==
  ASSUME NEW raw \in Raw
  PROVE  Length(raw) \in Nat
<1>1. PICK s \in [0..Len(raw) -> Nat] : LengthUpTo(raw, s)
  BY LengthTurns
<1>2. Len(raw) \in 0..Len(raw)
  BY DEF Raw
<1> QED
  BY <1>1, <1>2 DEF LengthUpTo

-----------------------------------------------------------------------------
(***************************************************************************)
(* Prefixes written as documented.                                         *)
(***************************************************************************)

\* The segments are at the even positions.
LEMMA DocumentedSegments ==
  ASSUME NEW raw \in Raw, Documented(raw)
  PROVE  /\ 2 * Len(Segments(raw)) = Len(raw)
         /\ \A i \in 1..Len(Segments(raw)) : Segments(raw)[i] = raw[2 * i]
<1> DEFINE n == Len(raw)
<1>1. PICK s \in [0..n -> Seq(Names)] : SegmentsUpTo(raw, s)
  BY SegmentsTurns
<1>2. n \in Nat /\ n % 2 = 0 /\ \A k \in 1..n : raw[k] = Slash <=> k % 2 = 1
  BY DEF Documented, Raw
<1>3. \A k \in 1..n : raw[k] \in Names \cup {Slash}
  BY ElementOfSeq DEF Raw
<1>4. /\ s[0] = << >> /\ Segments(raw) = s[n]
      /\ \A k \in 1..n : s[k] = IF raw[k] = Slash THEN s[k - 1] ELSE Append(s[k - 1], raw[k])
  BY <1>1 DEF SegmentsUpTo
<1> HIDE DEF n
<1> DEFINE Even(k) == Len(s[k]) = k \div 2 /\ \A i \in 1..(k \div 2) : s[k][i] = raw[2 * i]
           T == {k \in 0..n : Even(k)}
<1>5. 0 \in T
  BY <1>2, <1>4
<1>6. ASSUME NEW k \in 1..n, k - 1 \in T PROVE k \in T
  <2> DEFINE j == k - 1
  <2>1. j \in 0..n /\ k \in 0..n /\ Even(j) /\ s[j] \in Seq(Names) /\ k = j + 1
    <3>1. j \in 0..n /\ k \in 0..n /\ k = j + 1
      BY <1>2
    <3>2. Even(j)
      <4> HIDE DEF Even
      <4> QED
        BY <1>6
    <3>3. s[j] \in Seq(Names)
      BY <1>1, <3>1
    <3> QED
      BY <3>1, <3>2, <3>3
  <2>2. s[k] = IF raw[k] = Slash THEN s[j] ELSE Append(s[j], raw[k])
    BY <1>4
  <2> HIDE DEF j
  <2>3. CASE k % 2 = 1
    <3>1. k \div 2 = j \div 2 /\ s[k] = s[j]
      BY <1>2, <2>1, <2>2, <2>3
    <3> QED
      BY <2>1, <3>1
  <2>4. CASE k % 2 = 0
    <3>1. k \div 2 = j \div 2 + 1 /\ k = 2 * (k \div 2) /\ j \div 2 \in Nat
      BY <1>2, <2>1, <2>4
    <3>2. raw[k] \in Names /\ s[k] = Append(s[j], raw[k])
      BY <1>2, <1>3, <2>2, <2>4
    <3>3. /\ Len(s[k]) = Len(s[j]) + 1
          /\ \A i \in 1..Len(s[j]) : s[k][i] = s[j][i]
          /\ s[k][Len(s[j]) + 1] = raw[k]
      BY <2>1, <3>2, AppendProperties
    <3>4. ASSUME NEW i \in 1..(k \div 2) PROVE s[k][i] = raw[2 * i]
      <4>1. i \in 1..(j \div 2) \/ i = k \div 2
        BY <3>1
      <4>2. CASE i \in 1..(j \div 2)
        <5>1. i \in 1..Len(s[j]) /\ s[j][i] = raw[2 * i]
          BY <2>1, <4>2
        <5> QED
          BY <3>3, <5>1
      <4>3. CASE i = k \div 2
        <5>1. i = Len(s[j]) + 1 /\ 2 * i = k
          BY <2>1, <3>1, <4>3
        <5> QED
          BY <3>3, <5>1
      <4> QED
        BY <4>1, <4>2, <4>3
    <3> QED
      BY <2>1, <3>1, <3>3, <3>4
  <2> QED
    BY <2>3, <2>4, <1>2
<1> HIDE DEF T
<1>7. \A k \in 0..n : k \in T
  BY <1>2, <1>5, <1>6, EveryTurn
<1>8. Even(n)
  <2>1. n \in T
    <3>1. n \in Nat => n \in 0..n
      OBVIOUS
    <3> QED
      BY <1>2, <1>7, <3>1
  <2> HIDE DEF Even
  <2> QED
    BY <2>1 DEF T
<1>9. 2 * (n \div 2) = n
  BY <1>2
<1> QED
  BY <1>4, <1>8, <1>9 DEF n

\* A string that goes on after another is longer.
LEMMA LongerIsLonger ==
  ASSUME NEW a \in Raw, NEW b \in Raw, Len(a) < Len(b), \A k \in 1..Len(a) : a[k] = b[k]
  PROVE  Length(a) < Length(b)
<1> DEFINE m == Len(a)
           n == Len(b)
<1>1. PICK f \in [0..m -> Nat] : LengthUpTo(a, f)
  BY LengthTurns
<1>2. PICK g \in [0..n -> Nat] : LengthUpTo(b, g)
  BY LengthTurns
<1>3. m \in Nat /\ n \in Nat /\ m < n
  BY DEF Raw
<1>4. \A k \in 1..n : Characters(b[k]) \in Nat /\ Characters(b[k]) > 0
  BY ElementOfSeq, TokensHaveCharacters DEF Raw
<1>5. /\ f[0] = 0 /\ Length(a) = f[m] /\ \A k \in 1..m : f[k] = f[k - 1] + Characters(a[k])
      /\ g[0] = 0 /\ Length(b) = g[n] /\ \A k \in 1..n : g[k] = g[k - 1] + Characters(b[k])
  BY <1>1, <1>2 DEF LengthUpTo
<1>6. \A k \in 1..m : a[k] = b[k]
  OBVIOUS
<1> HIDE DEF m, n
<1>7. f[m] = g[m]
  <2> DEFINE T == {k \in 0..m : f[k] = g[k]}
  <2>1. 0 \in T
    BY <1>3, <1>5
  <2>2. ASSUME NEW k \in 1..m, k - 1 \in T PROVE k \in T
    <3>1. k \in 1..n /\ k \in 0..m
      BY <1>3
    <3>2. f[k] = f[k - 1] + Characters(a[k]) /\ g[k] = g[k - 1] + Characters(b[k]) /\ a[k] = b[k]
      BY <1>5, <1>6, <3>1
    <3> QED
      BY <2>2, <3>1, <3>2
  <2> HIDE DEF T
  <2>3. \A k \in 0..m : k \in T
    BY <1>3, <2>1, <2>2, EveryTurn
  <2> QED
    BY <1>3, <2>3 DEF T
<1>8. g[m] < g[n]
  <2> DEFINE T == {k \in 0..n : m < k => g[m] < g[k]}
  <2>1. 0 \in T
    BY <1>3
  <2>2. ASSUME NEW k \in 1..n, k - 1 \in T PROVE k \in T
    <3> DEFINE j == k - 1
    <3>1. k \in 0..n /\ j \in 0..n /\ k = j + 1 /\ m \in 0..n /\ (m < j => g[m] < g[j])
      BY <1>3, <2>2
    <3>2. g[k] = g[j] + Characters(b[k]) /\ Characters(b[k]) \in Nat /\ Characters(b[k]) > 0
      BY <1>4, <1>5
    <3>3. g[m] \in Nat /\ g[j] \in Nat /\ g[k] \in Nat
      BY <1>2, <3>1
    <3> HIDE DEF j
    <3>4. g[j] < g[k]
      BY <3>2, <3>3
    <3>5. m < k => m < j \/ m = j
      BY <1>3, <3>1
    <3>6. m < k => g[m] < g[k]
      BY <3>1, <3>3, <3>4, <3>5
    <3> QED
      BY <3>1, <3>6
  <2> HIDE DEF T
  <2>3. \A k \in 0..n : k \in T
    BY <1>3, <2>1, <2>2, EveryTurn
  <2> QED
    BY <1>3, <2>3 DEF T
<1> QED
  BY <1>5, <1>7, <1>8

\* A prefix that covers a path is the beginning of it.
LEMMA CoversTheBeginning ==
  ASSUME NEW path \in Seq(Names), NEW q \in Seq(Names), Matches(path, q)
  PROVE  Len(q) <= Len(path) /\ \A i \in 1..Len(q) : q[i] = path[i]
<1>1. Len(q) \in Nat /\ Len(path) \in Nat /\ Len(q) <= Len(path)
  BY DEF Matches, IsPrefix
<1>2. SubSeq(q, 1, Len(q)) = SubSeq(path, 1, Len(q))
  BY DEF Matches, IsPrefix
<1>3. SubSeq(q, 1, Len(q)) = q
  BY SubSeqFull
<1>4. \A i \in 1..Len(q) : path[i] \in Names
  BY <1>1, ElementOfSeq
<1>5. \A i \in 1..(Len(q) - 1 + 1) : SubSeq(path, 1, Len(q))[i] = path[1 + i - 1]
  BY <1>1, <1>4, SubSeqProperties
<1> QED
  BY <1>1, <1>2, <1>3, <1>5

\* Of two prefixes of a path, the one with more segments has more characters.
LEMMA MoreSegmentsAreLonger ==
  ASSUME NEW path \in Seq(Names), NEW a \in Raw, NEW b \in Raw, Documented(a), Documented(b),
         Matches(path, Segments(a)), Matches(path, Segments(b)), Len(Segments(a)) < Len(Segments(b))
  PROVE  Length(a) < Length(b)
<1> DEFINE p == Segments(a)
           q == Segments(b)
<1>1. p \in Seq(Names) /\ q \in Seq(Names)
  BY SegmentsAreNames
<1>2. /\ 2 * Len(p) = Len(a) /\ \A i \in 1..Len(p) : p[i] = a[2 * i]
      /\ 2 * Len(q) = Len(b) /\ \A i \in 1..Len(q) : q[i] = b[2 * i]
  BY DocumentedSegments
<1>3. \A i \in 1..Len(p) : p[i] = path[i]
  BY <1>1, CoversTheBeginning
<1>4. \A i \in 1..Len(q) : q[i] = path[i]
  BY <1>1, CoversTheBeginning
<1>5. Len(p) \in Nat /\ Len(q) \in Nat /\ Len(p) < Len(q)
  BY <1>1
<1> HIDE DEF p, q
<1>6. Len(a) \in Nat /\ Len(b) \in Nat /\ Len(a) < Len(b)
  BY <1>2, <1>5
<1>7. ASSUME NEW k \in 1..Len(a) PROVE a[k] = b[k]
  <2>1. k \in 1..Len(b)
    BY <1>6
  <2>2. CASE k % 2 = 1
    BY <2>1, <2>2 DEF Documented
  <2>3. CASE k % 2 = 0
    <3> DEFINE i == k \div 2
    <3>1. i \in Nat /\ k = 2 * i /\ k \in Nat /\ k >= 1 /\ k <= Len(a)
      BY <1>6, <2>3
    <3> HIDE DEF i
    <3>2. i \in 1..Len(p) /\ i \in 1..Len(q)
      BY <1>2, <1>5, <3>1
    <3> QED
      BY <1>2, <1>3, <1>4, <3>1, <3>2
  <2> QED
    BY <1>6, <2>2, <2>3
<1> QED
  BY <1>6, <1>7, LongerIsLonger

-----------------------------------------------------------------------------
(***************************************************************************)
(* The theorems.                                                           *)
(***************************************************************************)

PrefixAt(i) == Segments(prefixes[i])

\* Until a prefix has matched, those that had their turn do not.
StripInv ==
  /\ TypeOK
  /\ ~done => \A i \in DOMAIN prefixes \ untried : ~Matches(Segments(value), PrefixAt(i))
  /\ LongestPrefixWins

LEMMA RawInputs ==
  ASSUME value \in Values, prefixes \in PrefixLists
  PROVE  /\ value \in Raw /\ Segments(value) \in Seq(Names)
         /\ \A i \in DOMAIN prefixes : prefixes[i] \in Raw /\ PrefixAt(i) \in Seq(Names)
<1>1. value \in Raw /\ \A i \in DOMAIN prefixes : prefixes[i] \in Raw
  BY PrefixAssumption DEF PrefixAssumption, Raw
<1> QED
  BY <1>1, SegmentsAreNames DEF PrefixAt

LEMMA StripInit == Init => StripInv
BY DEF Init, StripInv, TypeOK, LongestPrefixWins

\* What is left of a path, as a set of groups to claim.
LEMMA TakenIsPath ==
  ASSUME NEW p \in Seq(Names)
  PROVE  Taken(p) \subseteq Path
BY DEF Taken, Path

LEMMA StrippedIsPath ==
  ASSUME NEW p \in Seq(Names), NEW q \in Seq(Names), Matches(p, q)
  PROVE  Strip(p, q) \in Seq(Names)
<1>1. Len(q) \in Nat /\ Len(p) \in Nat
  OBVIOUS
<1>2. \A i \in Len(q) + 1..Len(p) : p[i] \in Names
  BY <1>1, ElementOfSeq
<1> QED
  BY <1>1, <1>2, SubSeqProperties DEF Strip

LEMMA TryKeeps ==
  ASSUME StripInv, NEW i \in untried, TryPrefix(i)
  PROVE  StripInv'
<1> DEFINE path == Segments(value)
           prefix == PrefixAt(i)
<1>1. /\ ~done /\ InTurn(i) /\ untried' = untried \ {i} /\ value' = value /\ prefixes' = prefixes
      /\ done' = Matches(path, prefix)
      /\ claimed' = IF done' THEN Taken(Strip(path, prefix)) ELSE {}
  BY DEF TryPrefix, PrefixAt
<1>2. TypeOK
  BY DEF StripInv
<1>3. /\ path \in Seq(Names)
      /\ \A j \in DOMAIN prefixes : prefixes[j] \in Raw /\ PrefixAt(j) \in Seq(Names)
  BY <1>2, RawInputs DEF TypeOK
<1>4. i \in DOMAIN prefixes /\ prefix \in Seq(Names)
  BY <1>2, <1>3 DEF TypeOK
<1>5. path' = path /\ \A j : PrefixAt(j)' = PrefixAt(j)
  BY <1>1 DEF PrefixAt
<1> HIDE DEF path, prefix
<1>6. done' \in BOOLEAN
  BY <1>1 DEF Matches, IsPrefix
<1>7. claimed' \subseteq Path
  <2>1. Matches(path, prefix) => Taken(Strip(path, prefix)) \subseteq Path
    BY <1>3, <1>4, StrippedIsPath, TakenIsPath
  <2> QED
    BY <1>1, <2>1
<1>8. TypeOK'
  BY <1>1, <1>2, <1>6, <1>7 DEF TypeOK
<1>9. ~done' => \A j \in DOMAIN prefixes' \ untried' : ~Matches(path', PrefixAt(j)')
  <2>1. \A j \in DOMAIN prefixes \ untried : ~Matches(path, PrefixAt(j))
    BY <1>1 DEF StripInv, path
  <2>2. ~done' => ~Matches(path, PrefixAt(i))
    BY <1>1 DEF prefix
  <2> QED
    BY <1>1, <1>5, <2>1, <2>2
<1>10. LongestPrefixWins'
  <2> SUFFICES ASSUME done', \A j \in DOMAIN prefixes : Documented(prefixes[j])
               PROVE  LET covering == {q \in {PrefixAt(j) : j \in DOMAIN prefixes} : Matches(path, q)}
                          longest == {q \in covering : \A r \in covering : Len(r) <= Len(q)}
                      IN  claimed' = (IF covering = {} THEN {path} ELSE {Strip(path, q) : q \in longest}) \ {<< >>}
    BY <1>1 DEF LongestPrefixWins, path, PrefixAt
  <2> DEFINE covering == {q \in {PrefixAt(j) : j \in DOMAIN prefixes} : Matches(path, q)}
             longest == {q \in covering : \A r \in covering : Len(r) <= Len(q)}
  <2>1. prefix \in covering
    BY <1>1, <1>4 DEF prefix
  <2>2. ASSUME NEW r \in covering PROVE Len(r) <= Len(prefix)
    <3>1. PICK j \in DOMAIN prefixes : r = PrefixAt(j) /\ Matches(path, r)
      OBVIOUS
    <3>2. j \in untried
      BY <1>1, <3>1 DEF StripInv, path
    <3>3. SUFFICES ASSUME Len(prefix) < Len(r) PROVE FALSE
      BY <1>3, <1>4, <3>1
    <3>4. Length(prefixes[i]) < Length(prefixes[j])
      BY <1>1, <1>3, <1>4, <3>1, <3>3, MoreSegmentsAreLonger DEF PrefixAt, prefix
    <3>5. j # i /\ Before(prefixes, i, j)
      BY <1>1, <3>1, <3>2, <3>3, <1>4 DEF InTurn, prefix
    <3>6. Length(prefixes[i]) \in Nat /\ Length(prefixes[j]) \in Nat
      BY <1>3, <1>4, LengthIsNat
    <3> QED
      BY <3>4, <3>5, <3>6 DEF Before
  <2>3. \A q \in longest : Len(q) = Len(prefix)
    <3>1. \A q \in longest : Len(q) \in Nat /\ Len(prefix) \in Nat
      BY <1>3, <1>4
    <3> QED
      BY <2>1, <2>2, <3>1
  <2>4. prefix \in longest
    BY <2>1, <2>2
  <2>5. {Strip(path, q) : q \in longest} = {Strip(path, prefix)}
    BY <2>3, <2>4 DEF Strip
  <2>6. claimed' = {Strip(path, prefix)} \ {<< >>}
    BY <1>1 DEF Taken
  <2> QED
    BY <2>1, <2>5, <2>6
<1> QED
  BY <1>8, <1>9, <1>10 DEF StripInv, path

LEMMA WholeKeeps ==
  ASSUME StripInv, KeepWhole
  PROVE  StripInv'
<1>1. /\ ~done /\ untried = {} /\ done' = TRUE /\ claimed' = Taken(Segments(value))
      /\ value' = value /\ prefixes' = prefixes /\ untried' = untried
  BY DEF KeepWhole
<1>2. TypeOK
  BY DEF StripInv
<1>3. Segments(value) \in Seq(Names)
  BY <1>2, RawInputs DEF TypeOK
<1>4. TypeOK'
  BY <1>1, <1>2, <1>3, TakenIsPath DEF TypeOK
<1>5. \A i \in DOMAIN prefixes : ~Matches(Segments(value), Segments(prefixes[i]))
  BY <1>1 DEF StripInv, PrefixAt
<1>6. LongestPrefixWins'
  BY <1>1, <1>5 DEF LongestPrefixWins, Taken
<1> QED
  BY <1>1, <1>4, <1>6 DEF StripInv

LEMMA StripNext == StripInv /\ [Next]_vars => StripInv'
<1> SUFFICES ASSUME StripInv, [Next]_vars PROVE StripInv'
  OBVIOUS
<1>1. CASE \E i \in untried : TryPrefix(i)
  BY <1>1, TryKeeps
<1>2. CASE KeepWhole
  BY <1>2, WholeKeeps
<1>3. CASE UNCHANGED vars
  BY <1>3 DEF vars, StripInv, TypeOK, LongestPrefixWins, PrefixAt
<1> QED
  BY <1>1, <1>2, <1>3 DEF Next

\* A claim value yields a path or nothing, for all values and prefixes.
THEOREM StripTypeCorrect == Spec => []TypeOK
<1>1. StripInv => TypeOK
  BY DEF StripInv
<1> QED
  BY <1>1, StripInit, StripNext, PTL DEF Spec

\* Sorting the prefixes by their characters (parsePrefixes) makes the one with
\* the most segments win (stripPrefix), for all names and however long they
\* are, if each is written with one slash before each name.
THEOREM LongestWins == Spec => []LongestPrefixWins
<1>1. StripInv => LongestPrefixWins
  BY DEF StripInv
<1> QED
  BY <1>1, StripInit, StripNext, PTL DEF Spec

=============================================================================

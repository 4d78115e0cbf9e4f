--------------------------- MODULE SmokeTest_proofs ---------------------------
(***************************************************************************)
(* The smoke test for every list of expected providers, all jars and all   *)
(* numbers of invocations and kills: what a verdict other than FAIL is     *)
(* worth, that a jar in order gets it, and that the server is stopped.     *)
(***************************************************************************)
EXTENDS SmokeTest, SequenceTheorems, WellFoundedInduction, TLAPS

-----------------------------------------------------------------------------
(***************************************************************************)
(* Sequences put together from sequences.                                  *)
(***************************************************************************)

Less == {p \in Nat \X Nat : p[1] < p[2]}

\* Induction: a set that has 1, and each successor within 1..N.
LEMMA UpTo ==
  ASSUME NEW N \in Nat, NEW T, N >= 1 => 1 \in T, \A n \in 1..N : n \in T /\ n + 1 <= N => n + 1 \in T
  PROVE  \A n \in 1..N : n \in T
<1> DEFINE U == {n \in 1..N : n \notin T}
<1>1. IsWellFoundedOn(Less, Nat)
  BY NatLessThanWellFounded DEF OpToRel, Less
<1>2. ASSUME U # {} PROVE FALSE
  <2>1. U \subseteq Nat
    OBVIOUS
  <2>2. PICK x \in U : \A y \in U : ~(<<y, x>> \in Less)
    BY <1>1, <1>2, <2>1, WFMin
  <2>3. x \in 1..N /\ x \notin T
    BY <2>2
  <2>4. x - 1 \in Nat /\ x # 1
    BY <2>3
  <2>5. <<x - 1, x>> \in Less
    BY <2>3, <2>4 DEF Less
  <2>6. x - 1 \in 1..N /\ x - 1 \in T
    BY <2>2, <2>3, <2>4, <2>5
  <2> QED
    BY <2>3, <2>6
<1> QED
  BY <1>2

LEMMA ConcatIndex ==
  ASSUME NEW S, NEW s \in Seq(S), NEW t \in Seq(S)
  PROVE  /\ s \o t \in Seq(S) /\ Len(s \o t) = Len(s) + Len(t)
         /\ \A k \in DOMAIN s : k \in DOMAIN (s \o t) /\ (s \o t)[k] = s[k]
         /\ \A k \in DOMAIN t : Len(s) + k \in DOMAIN (s \o t) /\ (s \o t)[Len(s) + k] = t[k]
         /\ \A k \in DOMAIN (s \o t) :
              \/ k \in DOMAIN s
              \/ \E j \in DOMAIN t : k = Len(s) + j
<1>1. /\ s \o t \in Seq(S) /\ Len(s \o t) = Len(s) + Len(t)
      /\ \A i \in 1..Len(s) + Len(t) : (s \o t)[i] = IF i <= Len(s) THEN s[i] ELSE t[i - Len(s)]
  BY ConcatProperties
<1>2. /\ Len(s) \in Nat /\ Len(t) \in Nat /\ DOMAIN s = 1..Len(s) /\ DOMAIN t = 1..Len(t)
      /\ DOMAIN (s \o t) = 1..Len(s) + Len(t)
  BY <1>1
<1>3. ASSUME NEW k \in DOMAIN s PROVE k \in DOMAIN (s \o t) /\ (s \o t)[k] = s[k]
  BY <1>1, <1>2
<1>4. ASSUME NEW k \in DOMAIN t
      PROVE  Len(s) + k \in DOMAIN (s \o t) /\ (s \o t)[Len(s) + k] = t[k]
  <2>1. Len(s) + k \in 1..Len(s) + Len(t) /\ ~(Len(s) + k <= Len(s)) /\ Len(s) + k - Len(s) = k
    BY <1>2
  <2> QED
    BY <1>1, <1>2, <2>1
<1>5. ASSUME NEW k \in DOMAIN (s \o t), k \notin DOMAIN s
      PROVE  \E j \in DOMAIN t : k = Len(s) + j
  <2>1. k - Len(s) \in 1..Len(t) /\ k = Len(s) + (k - Len(s))
    BY <1>2, <1>5
  <2> QED
    BY <1>2, <2>1
<1> QED
  BY <1>1, <1>3, <1>4, <1>5

\* The recursion FlattenSeq is defined by.
Flattens(f, ss) ==
  \A i \in DOMAIN ss : f[i] = IF i = 1 THEN ss[i] ELSE f[i - 1] \o ss[i]

LEMMA FlattenExists ==
  ASSUME NEW S, NEW ss \in Seq(Seq(S))
  PROVE  \E f \in [1..Len(ss) -> Seq(S)] : Flattens(f, ss)
<1> DEFINE N == Len(ss)
           Has(n) == \E f \in [1..n -> Seq(S)] :
                       \A i \in 1..n : f[i] = IF i = 1 THEN ss[i] ELSE f[i - 1] \o ss[i]
           T == {n \in 1..N : Has(n)}
<1>0. N \in Nat /\ DOMAIN ss = 1..N /\ \A i \in 1..N : ss[i] \in Seq(S)
  OBVIOUS
<1>1. N >= 1 => 1 \in T
  <2> SUFFICES ASSUME N >= 1 PROVE 1 \in T
    OBVIOUS
  <2> DEFINE f == [i \in 1..1 |-> ss[1]]
  <2>1. f \in [1..1 -> Seq(S)] /\ \A i \in 1..1 : i = 1 /\ f[i] = ss[i]
    BY <1>0
  <2> HIDE DEF f
  <2>2. Has(1)
    BY <2>1
  <2> QED
    BY <1>0, <2>2
<1>2. ASSUME NEW n \in 1..N, n \in T, n + 1 <= N
      PROVE  n + 1 \in T
  <2>1. PICK f \in [1..n -> Seq(S)] :
          \A i \in 1..n : f[i] = IF i = 1 THEN ss[i] ELSE f[i - 1] \o ss[i]
    BY <1>2
  <2> DEFINE g == [i \in 1..n + 1 |-> IF i = n + 1 THEN f[n] \o ss[n + 1] ELSE f[i]]
  <2>2. n + 1 \in 1..N /\ n \in 1..n /\ n + 1 # 1 /\ \A i \in 1..n + 1 : i = n + 1 \/ i \in 1..n
    BY <1>0, <1>2
  <2>3. f[n] \o ss[n + 1] \in Seq(S)
    BY <1>0, <2>2, ConcatIndex
  <2>4. g \in [1..n + 1 -> Seq(S)]
    BY <2>2, <2>3
  <2>5. ASSUME NEW i \in 1..n + 1
        PROVE  g[i] = IF i = 1 THEN ss[i] ELSE g[i - 1] \o ss[i]
    <3>1. CASE i = n + 1
      <4>1. g[i] = f[n] \o ss[n + 1] /\ g[i - 1] = f[n] /\ i # 1
        BY <1>0, <2>2, <3>1
      <4> QED
        BY <3>1, <4>1
    <3>2. CASE i # n + 1
      <4>1. i \in 1..n /\ g[i] = f[i] /\ (i # 1 => i - 1 \in 1..n /\ g[i - 1] = f[i - 1])
        BY <1>0, <2>2, <3>2
      <4> QED
        BY <2>1, <4>1
    <3> QED
      BY <3>1, <3>2
  <2> HIDE DEF g
  <2>6. Has(n + 1)
    BY <2>4, <2>5
  <2> QED
    BY <2>2, <2>6
<1>3. \A n \in 1..N : n \in T
  <2> HIDE DEF T
  <2> QED
    BY <1>0, <1>1, <1>2, UpTo
<1>4. CASE N = 0
  <2> DEFINE f == [i \in 1..0 |-> << >>]
  <2>1. f \in [1..N -> Seq(S)] /\ DOMAIN ss = {}
    BY <1>0, <1>4
  <2> HIDE DEF f
  <2> QED
    BY <2>1 DEF Flattens
<1>5. CASE N # 0
  <2>1. N \in 1..N
    BY <1>0, <1>5
  <2>2. Has(N)
    BY <1>3, <2>1
  <2> QED
    BY <1>0, <2>2 DEF Flattens
<1> QED
  BY <1>4, <1>5

\* FlattenSeq returns what is in the sequences, in a sequence.
LEMMA FlattenIs ==
  ASSUME NEW S, NEW ss \in Seq(Seq(S)), Len(ss) # 0
  PROVE  \E f \in [1..Len(ss) -> Seq(S)] : Flattens(f, ss) /\ FlattenSeq(ss) = f[Len(ss)]
<1> DEFINE N == Len(ss)
           Eq(f) == f = [i \in 1..N |-> IF i = 1 THEN ss[i] ELSE f[i - 1] \o ss[i]]
           flat == CHOOSE f : Eq(f)
<1>0. N \in Nat /\ N # 0 /\ DOMAIN ss = 1..N
  OBVIOUS
<1>1. PICK f \in [1..N -> Seq(S)] : Flattens(f, ss)
  BY FlattenExists
<1>2. Eq(f)
  BY <1>0, <1>1 DEF Flattens
<1>3. Eq(flat)
  BY <1>2
<1>4. Flattens(flat, ss) /\ DOMAIN flat = 1..N
  BY <1>0, <1>3 DEF Flattens
<1>5a. \A i \in 1..N : ss[i] \in Seq(S) /\ flat[i] = IF i = 1 THEN ss[i] ELSE flat[i - 1] \o ss[i]
  <2> HIDE DEF flat
  <2>1. \A i \in DOMAIN ss : ss[i] \in Seq(S)
    OBVIOUS
  <2> QED
    BY <1>0, <1>4, <2>1 DEF Flattens
<1>5. \A n \in 1..N : flat[n] \in Seq(S)
  <2> DEFINE T == {n \in 1..N : flat[n] \in Seq(S)}
  <2> HIDE DEF flat, N
  <2>1. N >= 1 => 1 \in T
    <3>1. N >= 1 => 1 \in 1..N /\ flat[1] = ss[1] /\ ss[1] \in Seq(S)
      BY <1>0, <1>5a
    <3> QED
      BY <3>1
  <2>2. ASSUME NEW n \in 1..N, n \in T, n + 1 <= N
        PROVE  n + 1 \in T
    <3>1. n + 1 \in 1..N /\ n + 1 # 1 /\ (n + 1) - 1 = n
      BY <1>0, <2>2
    <3>2. flat[n + 1] = flat[n] \o ss[n + 1] /\ flat[n] \in Seq(S) /\ ss[n + 1] \in Seq(S)
      BY <1>0, <1>5a, <2>2, <3>1
    <3>3. flat[n + 1] \in Seq(S)
      BY <3>2, ConcatIndex
    <3> QED
      BY <3>1, <3>3
  <2>3. \A n \in 1..N : n \in T
    <3> HIDE DEF T
    <3> QED
      BY <1>0, <2>1, <2>2, UpTo
  <2> QED
    BY <2>3
<1>6. flat \in [1..N -> Seq(S)]
  <2> HIDE DEF flat
  <2>1. flat = [i \in 1..N |-> IF i = 1 THEN ss[i] ELSE flat[i - 1] \o ss[i]]
    BY <1>3
  <2>2. flat = [i \in 1..N |-> flat[i]]
    <3> HIDE DEF N
    <3> QED
      BY <2>1
  <2> QED
    BY <1>5, <2>2
<1>7. FlattenSeq(ss) = flat[N]
  BY <1>0 DEF FlattenSeq
<1> HIDE DEF flat
<1> QED
  BY <1>4, <1>6, <1>7

Distinct(s) == \A j, k \in DOMAIN s : s[j] = s[k] => j = k

\* No element twice, neither in one of the sequences nor in two.
AllDistinct(ss) ==
  \A i, k \in DOMAIN ss : \A j \in DOMAIN ss[i], l \in DOMAIN ss[k] :
    ss[i][j] = ss[k][l] => i = k /\ j = l

\* s has the elements of the first n of the sequences.
Lists(s, ss, n) ==
  /\ \A k \in DOMAIN s : \E i \in 1..n : \E j \in DOMAIN ss[i] : s[k] = ss[i][j]
  /\ \A i \in 1..n : \A j \in DOMAIN ss[i] : \E k \in DOMAIN s : s[k] = ss[i][j]

LEMMA ConcatDistinct ==
  ASSUME NEW S, NEW s \in Seq(S), NEW t \in Seq(S), Distinct(s), Distinct(t),
         \A j \in DOMAIN s, k \in DOMAIN t : s[j] # t[k]
  PROVE  Distinct(s \o t)
<1> SUFFICES ASSUME NEW j \in DOMAIN (s \o t), NEW k \in DOMAIN (s \o t), (s \o t)[j] = (s \o t)[k]
             PROVE  j = k
  BY DEF Distinct
<1>1. CASE j \in DOMAIN s /\ k \in DOMAIN s
  <2>1. s[j] = s[k]
    BY <1>1, ConcatIndex
  <2> QED
    BY <1>1, <2>1 DEF Distinct
<1>2. CASE j \in DOMAIN s /\ k \notin DOMAIN s
  <2>1. PICK l \in DOMAIN t : k = Len(s) + l
    BY <1>2, ConcatIndex
  <2>2. (s \o t)[j] = s[j] /\ (s \o t)[k] = t[l]
    BY <1>2, <2>1, ConcatIndex
  <2> QED
    BY <1>2, <2>2
<1>3. CASE j \notin DOMAIN s /\ k \in DOMAIN s
  <2>1. PICK l \in DOMAIN t : j = Len(s) + l
    BY <1>3, ConcatIndex
  <2>2. (s \o t)[k] = s[k] /\ (s \o t)[j] = t[l]
    BY <1>3, <2>1, ConcatIndex
  <2> QED
    BY <1>3, <2>2
<1>4. CASE j \notin DOMAIN s /\ k \notin DOMAIN s
  <2>1. PICK l \in DOMAIN t : j = Len(s) + l
    BY <1>4, ConcatIndex
  <2>2. PICK m \in DOMAIN t : k = Len(s) + m
    BY <1>4, ConcatIndex
  <2>3. t[l] = t[m]
    BY <2>1, <2>2, ConcatIndex
  <2>4. l = m
    BY <2>3 DEF Distinct
  <2> QED
    BY <2>1, <2>2, <2>4
<1> QED
  BY <1>1, <1>2, <1>3, <1>4

\* Nothing is lost or doubled when sequences are put together.
LEMMA FlattenLists ==
  ASSUME NEW S, NEW ss \in Seq(Seq(S))
  PROVE  /\ FlattenSeq(ss) \in Seq(S)
         /\ Lists(FlattenSeq(ss), ss, Len(ss))
         /\ AllDistinct(ss) => Distinct(FlattenSeq(ss))
<1>0. Len(ss) \in Nat /\ DOMAIN ss = 1..Len(ss) /\ \A i \in 1..Len(ss) : ss[i] \in Seq(S)
  OBVIOUS
<1>1. CASE Len(ss) = 0
  <2>1. FlattenSeq(ss) = << >>
    BY <1>1 DEF FlattenSeq
  <2> QED
    BY <1>1, <2>1 DEF Lists, Distinct
<1>2. CASE Len(ss) # 0
  <2>1. PICK f \in [1..Len(ss) -> Seq(S)] : Flattens(f, ss) /\ FlattenSeq(ss) = f[Len(ss)]
    BY <1>2, FlattenIs
  <2> DEFINE Done(n) == Lists(f[n], ss, n) /\ (AllDistinct(ss) => Distinct(f[n]))
             T == {n \in 1..Len(ss) : Done(n)}
  <2>2. \A i \in 1..Len(ss) :
          f[i] \in Seq(S) /\ f[i] = IF i = 1 THEN ss[i] ELSE f[i - 1] \o ss[i]
    BY <1>0, <2>1 DEF Flattens
  <2>3. 1 \in 1..Len(ss)
    BY <1>0, <1>2
  <2>4. Done(1)
    <3>1. f[1] = ss[1]
      BY <2>2, <2>3
    <3>2. Lists(f[1], ss, 1)
      BY <3>1 DEF Lists
    <3>3. AllDistinct(ss) => Distinct(f[1])
      BY <1>0, <2>3, <3>1 DEF AllDistinct, Distinct
    <3> QED
      BY <3>2, <3>3
  <2>5. ASSUME NEW n \in 1..Len(ss), Done(n), n + 1 <= Len(ss)
        PROVE  n + 1 \in 1..Len(ss) /\ Done(n + 1)
    <3>1. n + 1 \in 1..Len(ss) /\ n + 1 # 1 /\ (n + 1) - 1 = n
      BY <1>0, <2>5
    <3>2. f[n + 1] = f[n] \o ss[n + 1] /\ f[n] \in Seq(S) /\ ss[n + 1] \in Seq(S)
      BY <1>0, <2>2, <2>5, <3>1
    <3>3. \A i \in 1..n + 1 : i = n + 1 \/ i \in 1..n
      BY <1>0, <2>5
    <3>3a. \A i \in 1..n : i \in 1..n + 1 /\ i \in 1..Len(ss) /\ i # n + 1
      BY <1>0, <2>5
    <3>3b. n + 1 \in 1..n + 1
      BY <1>0, <2>5
    <3> DEFINE s == f[n]  t == ss[n + 1]
    <3>4. s \in Seq(S) /\ t \in Seq(S) /\ Lists(s, ss, n) /\ f[n + 1] = s \o t
      BY <2>5, <3>2
    <3>4b. \A k \in DOMAIN t : Len(s) + k \in DOMAIN (s \o t) /\ (s \o t)[Len(s) + k] = t[k]
      <4>1. s \in Seq(S) /\ t \in Seq(S)
        BY <3>4
      <4> HIDE DEF s, t
      <4>2. ASSUME NEW k \in DOMAIN t
            PROVE  Len(s) + k \in DOMAIN (s \o t) /\ (s \o t)[Len(s) + k] = t[k]
        <5>1. k \in 1..Len(t) /\ Len(s) \in Nat /\ Len(t) \in Nat
          BY <4>1, <4>2
        <5> QED
          BY <4>1, <5>1
      <4> QED
        BY <4>2
    <3>5. ASSUME NEW k \in DOMAIN (s \o t)
          PROVE  \E i \in 1..n + 1 : \E j \in DOMAIN ss[i] : (s \o t)[k] = ss[i][j]
      <4>1. CASE k \in DOMAIN s
        <5>1. (s \o t)[k] = s[k]
          BY <3>4, <4>1, ConcatIndex
        <5>2. PICK i \in 1..n : \E j \in DOMAIN ss[i] : s[k] = ss[i][j]
          BY <3>4, <4>1 DEF Lists
        <5> QED
          BY <3>3a, <5>1, <5>2
      <4>2. CASE k \notin DOMAIN s
        <5>1. PICK j \in DOMAIN t : k = Len(s) + j
          BY <3>4, <4>2, ConcatIndex
        <5>2. (s \o t)[k] = t[j]
          <6> HIDE DEF s, t
          <6> QED
            BY <3>4b, <5>1
        <5> QED
          BY <3>3b, <5>2
      <4> QED
        BY <4>1, <4>2
    <3>6. ASSUME NEW i \in 1..n + 1, NEW j \in DOMAIN ss[i]
          PROVE  \E k \in DOMAIN (s \o t) : (s \o t)[k] = ss[i][j]
      <4>1. CASE i = n + 1
        <5>1. j \in DOMAIN t /\ ss[i][j] = t[j]
          BY <4>1
        <5>2. Len(s) + j \in DOMAIN (s \o t) /\ (s \o t)[Len(s) + j] = t[j]
          BY <3>4b, <5>1
        <5> QED
          BY <5>1, <5>2
      <4>2. CASE i # n + 1
        <5>1. i \in 1..n
          BY <3>3, <4>2
        <5>2. PICK k \in DOMAIN s : s[k] = ss[i][j]
          BY <3>4, <5>1 DEF Lists
        <5>3. k \in DOMAIN (s \o t) /\ (s \o t)[k] = s[k]
          BY <3>4, ConcatIndex
        <5> QED
          BY <5>2, <5>3
      <4> QED
        BY <4>1, <4>2
    <3>7. ASSUME AllDistinct(ss) PROVE Distinct(s \o t)
      <4>1. Distinct(s)
        BY <2>5, <3>7
      <4>2. Distinct(t)
        <5>1. n + 1 \in DOMAIN ss
          BY <1>0, <3>1
        <5>2. \A j, k \in DOMAIN ss[n + 1] : ss[n + 1][j] = ss[n + 1][k] => j = k
          BY <3>7, <5>1 DEF AllDistinct
        <5> QED
          BY <5>2 DEF Distinct
      <4>3. ASSUME NEW j \in DOMAIN s, NEW k \in DOMAIN t PROVE s[j] # t[k]
        <5>1. PICK i \in 1..n : \E l \in DOMAIN ss[i] : s[j] = ss[i][l]
          BY <3>4 DEF Lists
        <5>2. PICK l \in DOMAIN ss[i] : s[j] = ss[i][l]
          BY <5>1
        <5>3. i \in DOMAIN ss /\ n + 1 \in DOMAIN ss /\ i # n + 1
          BY <1>0, <3>1, <3>3a
        <5> QED
          BY <3>7, <5>2, <5>3 DEF AllDistinct
      <4> HIDE DEF s, t
      <4> QED
        BY <3>4, <4>1, <4>2, <4>3, ConcatDistinct
    <3> HIDE DEF s, t
    <3>8. Lists(s \o t, ss, n + 1)
      BY <3>5, <3>6 DEF Lists
    <3> QED
      BY <3>1, <3>4, <3>7, <3>8
  <2>6. \A n \in 1..Len(ss) : n \in T
    <3>1. Len(ss) >= 1 => 1 \in T
      BY <2>3, <2>4
    <3>2. ASSUME NEW n \in 1..Len(ss), n \in T, n + 1 <= Len(ss)
          PROVE  n + 1 \in T
      BY <2>5, <3>2
    <3> HIDE DEF T
    <3> QED
      BY <1>0, <3>1, <3>2, UpTo
  <2>7. Len(ss) \in 1..Len(ss)
    BY <1>0, <1>2
  <2> QED
    BY <2>1, <2>6, <2>7
<1> QED
  BY <1>1, <1>2

-----------------------------------------------------------------------------
(***************************************************************************)
(* The program's checks.                                                   *)
(***************************************************************************)

ProviderWhats ==
  {"registered", "describe", "add execution", "register", "create mapper", "issue token"}
OtherWhats == {"fresh realm", "copy flow", "create idp", "setup user"}

\* The kinds of checks a provider of the SPI goes through.
Kinds(spi) == {ChecksOf(spi)[l] : l \in DOMAIN ChecksOf(spi)}

Checks ==
  {c \in [what : ProviderWhats, id : Ids] :
     \/ c.what = "registered"
     \/ \E i \in DOMAIN Expected : c.id = Expected[i].id /\ c.what \in Kinds(Expected[i].spi)}
    \cup [what : OtherWhats, id : {"no provider"}]

\* But for the look at what is registered, no check is made twice.
Once(s) == \A j, k \in DOMAIN s : s[j] = s[k] /\ s[j].what # "registered" => j = k

\* Before each check w there is a check v.
Precedes(s, v, w) ==
  \A k \in DOMAIN s : s[k].what = w => \E j \in DOMAIN s : j < k /\ s[j].what = v

\* Each check is one of the kinds ws.
OfKinds(s, ws) == \A k \in DOMAIN s : s[k].what \in ws

LEMMA ExpectedFacts ==
  /\ Len(Expected) \in Nat /\ DOMAIN Expected = 1..Len(Expected)
  /\ \A i \in DOMAIN Expected :
       /\ Expected[i] = [spi |-> Expected[i].spi, id |-> Expected[i].id]
       /\ Expected[i].spi \in Spis /\ Expected[i].id \in STRING /\ Expected[i].id \in Ids
       /\ Expected[i].id \notin OtherNames
<1>1. Expected \in Seq([spi : Spis, id : STRING])
  BY ExpectedAssumption DEF ExpectedAssumption
<1>2. Len(Expected) \in Nat /\ DOMAIN Expected = 1..Len(Expected)
  BY <1>1
<1>3. ASSUME NEW i \in DOMAIN Expected
      PROVE  /\ Expected[i] = [spi |-> Expected[i].spi, id |-> Expected[i].id]
             /\ Expected[i].spi \in Spis /\ Expected[i].id \in STRING
  <2>1. Expected[i] \in [spi : Spis, id : STRING]
    BY <1>1, <1>2, <1>3, ElementOfSeq
  <2> QED
    BY <2>1
<1>4. \A i \in DOMAIN Expected : Expected[i].id \in Ids /\ Expected[i].id \notin OtherNames
  BY ExpectedAssumption DEF ExpectedAssumption, Ids
<1> QED
  BY <1>2, <1>3, <1>4

\* Each SPI has its own checks, at least one, each made once.
LEMMA ChecksOfFacts ==
  ASSUME NEW spi \in Spis
  PROVE  /\ ChecksOf(spi) \in Seq(ProviderWhats \ {"registered"}) /\ 1 \in DOMAIN ChecksOf(spi)
         /\ \A k, l \in DOMAIN ChecksOf(spi) : ChecksOf(spi)[k] = ChecksOf(spi)[l] => k = l
<1>1. CASE spi = "authenticator"
  <2>1. ChecksOf(spi) = <<"describe", "add execution">>
    BY <1>1 DEF ChecksOf
  <2> DEFINE two == <<"describe", "add execution">>
  <2>2. DOMAIN two = {1, 2} /\ two[1] # two[2] /\ two \in Seq({"describe", "add execution"})
    OBVIOUS
  <2>3. {"describe", "add execution"} \subseteq ProviderWhats \ {"registered"}
    BY DEF ProviderWhats
  <2> HIDE DEF two
  <2>4. two \in Seq(ProviderWhats \ {"registered"})
    BY <2>2, <2>3, SeqMonotonic
  <2>5. ChecksOf(spi) = two
    BY <2>1 DEF two
  <2> QED
    BY <2>2, <2>4, <2>5
<1>2. CASE spi = "required-action"
  <2>1. ChecksOf(spi) = <<"register">>
    BY <1>2 DEF ChecksOf
  <2> DEFINE one == <<"register">>
  <2>2. one \in Seq({"register"}) /\ DOMAIN one = {1}
    OBVIOUS
  <2>3. {"register"} \subseteq ProviderWhats \ {"registered"}
    BY DEF ProviderWhats
  <2> HIDE DEF one
  <2>4. one \in Seq(ProviderWhats \ {"registered"})
    BY <2>2, <2>3, SeqMonotonic
  <2>5. ChecksOf(spi) = one
    BY <2>1 DEF one
  <2> QED
    BY <2>2, <2>4, <2>5
<1>3. CASE spi = "identity-provider-mapper"
  <2>1. ChecksOf(spi) = <<"create mapper">>
    BY <1>3 DEF ChecksOf
  <2> DEFINE one == <<"create mapper">>
  <2>2. one \in Seq({"create mapper"}) /\ DOMAIN one = {1}
    OBVIOUS
  <2>3. {"create mapper"} \subseteq ProviderWhats \ {"registered"}
    BY DEF ProviderWhats
  <2> HIDE DEF one
  <2>4. one \in Seq(ProviderWhats \ {"registered"})
    BY <2>2, <2>3, SeqMonotonic
  <2>5. ChecksOf(spi) = one
    BY <2>1 DEF one
  <2> QED
    BY <2>2, <2>4, <2>5
<1>4. CASE spi = "protocol-mapper"
  <2>1. ChecksOf(spi) = <<"issue token">>
    BY <1>4 DEF ChecksOf
  <2> DEFINE one == <<"issue token">>
  <2>2. one \in Seq({"issue token"}) /\ DOMAIN one = {1}
    OBVIOUS
  <2>3. {"issue token"} \subseteq ProviderWhats \ {"registered"}
    BY DEF ProviderWhats
  <2> HIDE DEF one
  <2>4. one \in Seq(ProviderWhats \ {"registered"})
    BY <2>2, <2>3, SeqMonotonic
  <2>5. ChecksOf(spi) = one
    BY <2>1 DEF one
  <2> QED
    BY <2>2, <2>4, <2>5
<1> QED
  BY <1>1, <1>2, <1>3, <1>4 DEF Spis

\* Every provider of the SPI goes through the checks of the SPI, once.
LEMMA EachIs ==
  ASSUME NEW spi \in Spis
  PROVE  /\ Each(spi) \in Seq(Checks)
         /\ \A k \in DOMAIN Each(spi) : \E i \in DOMAIN Expected : \E l \in DOMAIN ChecksOf(spi) :
              Expected[i].spi = spi /\ Each(spi)[k] = Check(ChecksOf(spi)[l], Expected[i].id)
         /\ \A i \in DOMAIN Expected : \A l \in DOMAIN ChecksOf(spi) :
              Expected[i].spi = spi =>
                \E k \in DOMAIN Each(spi) : Each(spi)[k] = Check(ChecksOf(spi)[l], Expected[i].id)
         /\ Once(Each(spi))
<1> DEFINE ss == [i \in DOMAIN Expected |->
                    IF Expected[i].spi = spi THEN ProviderChecks(Expected[i]) ELSE << >>]
<1>0. ChecksOf(spi) \in Seq(ProviderWhats \ {"registered"})
  BY ChecksOfFacts
<1>1. ASSUME NEW i \in DOMAIN Expected, Expected[i].spi = spi
      PROVE  /\ ss[i] \in Seq(Checks) /\ DOMAIN ss[i] = DOMAIN ChecksOf(spi)
             /\ \A l \in DOMAIN ss[i] : ss[i][l] = Check(ChecksOf(spi)[l], Expected[i].id)
  <2>1. ss[i] = [l \in DOMAIN ChecksOf(spi) |-> Check(ChecksOf(spi)[l], Expected[i].id)]
    BY <1>1 DEF ProviderChecks
  <2>2. \A l \in DOMAIN ChecksOf(spi) : Check(ChecksOf(spi)[l], Expected[i].id) \in Checks
    <3> SUFFICES ASSUME NEW l \in DOMAIN ChecksOf(spi)
                 PROVE  Check(ChecksOf(spi)[l], Expected[i].id) \in Checks
      OBVIOUS
    <3>1. ChecksOf(spi)[l] \in ProviderWhats
      BY <1>0
    <3>2. Expected[i].id \in Ids /\ ChecksOf(spi)[l] \in Kinds(Expected[i].spi)
      BY <1>1, ExpectedFacts DEF Kinds
    <3> QED
      BY <3>1, <3>2 DEF Check, Checks
  <2>3. DOMAIN ChecksOf(spi) = 1..Len(ChecksOf(spi)) /\ Len(ChecksOf(spi)) \in Nat
    BY <1>0
  <2> HIDE DEF ss
  <2> QED
    BY <2>1, <2>2, <2>3
<1>2. ASSUME NEW i \in DOMAIN Expected, Expected[i].spi # spi
      PROVE  ss[i] \in Seq(Checks) /\ DOMAIN ss[i] = {}
  <2>1. ss[i] = << >>
    BY <1>2
  <2> HIDE DEF ss
  <2> QED
    BY <2>1
<1>3. ss \in Seq(Seq(Checks)) /\ Len(ss) = Len(Expected) /\ DOMAIN ss = DOMAIN Expected
  <2>1. \A i \in DOMAIN Expected : ss[i] \in Seq(Checks)
    BY <1>1, <1>2
  <2>2. ss = [i \in 1..Len(Expected) |-> ss[i]] /\ Len(Expected) \in Nat /\ DOMAIN Expected = 1..Len(Expected)
    BY ExpectedFacts
  <2> HIDE DEF ss
  <2> QED
    BY <2>1, <2>2
<1>4. Each(spi) = FlattenSeq(ss)
  BY DEF Each
<1>5. AllDistinct(ss)
  <2> SUFFICES ASSUME NEW i \in DOMAIN Expected, NEW k \in DOMAIN Expected,
                      NEW j \in DOMAIN ss[i], NEW l \in DOMAIN ss[k], ss[i][j] = ss[k][l]
               PROVE  i = k /\ j = l
    <3> HIDE DEF ss
    <3> QED
      BY <1>3 DEF AllDistinct
  <2> HIDE DEF ss
  <2>1. Expected[i].spi = spi /\ Expected[k].spi = spi
    BY <1>2
  <2>2. Check(ChecksOf(spi)[j], Expected[i].id) = Check(ChecksOf(spi)[l], Expected[k].id)
    BY <1>1, <2>1
  <2>3. ChecksOf(spi)[j] = ChecksOf(spi)[l] /\ Expected[i].id = Expected[k].id
    BY <2>2 DEF Check
  <2>4. j \in DOMAIN ChecksOf(spi) /\ l \in DOMAIN ChecksOf(spi)
    BY <1>1, <2>1
  <2>5. Expected[i] = Expected[k]
    BY <2>1, <2>3, ExpectedFacts
  <2> QED
    BY <2>3, <2>4, <2>5, ChecksOfFacts, ExpectedAssumption DEF ExpectedAssumption
<1> HIDE DEF ss
<1>6. /\ Each(spi) \in Seq(Checks) /\ Lists(Each(spi), ss, Len(ss)) /\ Distinct(Each(spi))
  BY <1>3, <1>4, <1>5, FlattenLists
<1>7. DOMAIN ss = 1..Len(ss)
  BY <1>3
<1>8. ASSUME NEW k \in DOMAIN Each(spi)
      PROVE  \E i \in DOMAIN Expected : \E l \in DOMAIN ChecksOf(spi) :
               Expected[i].spi = spi /\ Each(spi)[k] = Check(ChecksOf(spi)[l], Expected[i].id)
  <2>1. PICK i \in 1..Len(ss) : \E j \in DOMAIN ss[i] : Each(spi)[k] = ss[i][j]
    BY <1>6 DEF Lists
  <2>2. PICK j \in DOMAIN ss[i] : Each(spi)[k] = ss[i][j]
    BY <2>1
  <2>3. i \in DOMAIN Expected /\ Expected[i].spi = spi
    BY <1>2, <1>3, <1>7
  <2> QED
    BY <1>1, <2>2, <2>3
<1>9. ASSUME NEW i \in DOMAIN Expected, NEW l \in DOMAIN ChecksOf(spi), Expected[i].spi = spi
      PROVE  \E k \in DOMAIN Each(spi) : Each(spi)[k] = Check(ChecksOf(spi)[l], Expected[i].id)
  <2>1. i \in 1..Len(ss) /\ l \in DOMAIN ss[i] /\ ss[i][l] = Check(ChecksOf(spi)[l], Expected[i].id)
    BY <1>1, <1>3, <1>7, <1>9
  <2> QED
    BY <1>6, <2>1 DEF Lists
<1> QED
  BY <1>6, <1>8, <1>9 DEF Distinct, Once

Has(s, c) == \E k \in DOMAIN s : s[k] = c
HasKind(s, v) == \E k \in DOMAIN s : s[k].what = v

\* One part of the program after another, of other kinds of checks.
LEMMA Joined ==
  ASSUME NEW s \in Seq(Checks), NEW t \in Seq(Checks), NEW V, NEW W,
         Once(s), Once(t), OfKinds(s, V), OfKinds(t, W), V \cap W = {}
  PROVE  /\ s \o t \in Seq(Checks) /\ Once(s \o t) /\ OfKinds(s \o t, V \cup W)
         /\ \A c : Has(s, c) \/ Has(t, c) => Has(s \o t, c)
         /\ \A v : HasKind(s, v) \/ HasKind(t, v) => HasKind(s \o t, v)
         /\ \A v, w : (w \notin W /\ Precedes(s, v, w)) \/ (w \notin V /\ Precedes(t, v, w))
                         \/ (w \notin V /\ HasKind(s, v)) => Precedes(s \o t, v, w)
<1> DEFINE u == s \o t
<1>1. /\ u \in Seq(Checks)
      /\ \A k \in DOMAIN s : k \in DOMAIN u /\ u[k] = s[k]
      /\ \A k \in DOMAIN t : Len(s) + k \in DOMAIN u /\ u[Len(s) + k] = t[k]
      /\ \A k \in DOMAIN u : k \in DOMAIN s \/ \E j \in DOMAIN t : k = Len(s) + j
  BY ConcatIndex
<1>2. /\ Len(s) \in Nat /\ Len(t) \in Nat /\ DOMAIN s = 1..Len(s) /\ DOMAIN t = 1..Len(t)
  OBVIOUS
<1> HIDE DEF u
<1>3. OfKinds(u, V \cup W)
  BY <1>1 DEF OfKinds
<1>4. \A c : Has(s, c) \/ Has(t, c) => Has(u, c)
  BY <1>1 DEF Has
<1>5. \A v : HasKind(s, v) \/ HasKind(t, v) => HasKind(u, v)
  BY <1>1 DEF HasKind
<1>6. ASSUME NEW j \in DOMAIN u, NEW k \in DOMAIN u, u[j] = u[k], u[j].what # "registered"
      PROVE  j = k
  <2>1. CASE j \in DOMAIN s /\ k \in DOMAIN s
    BY <1>1, <1>6, <2>1 DEF Once
  <2>2. CASE j \in DOMAIN s /\ k \notin DOMAIN s
    <3>1. PICK l \in DOMAIN t : k = Len(s) + l
      BY <1>1, <2>2
    <3>2. u[j].what \in V /\ u[k].what \in W
      BY <1>1, <2>2, <3>1 DEF OfKinds
    <3> QED
      BY <1>6, <3>2
  <2>3. CASE j \notin DOMAIN s /\ k \in DOMAIN s
    <3>1. PICK l \in DOMAIN t : j = Len(s) + l
      BY <1>1, <2>3
    <3>2. u[k].what \in V /\ u[j].what \in W
      BY <1>1, <2>3, <3>1 DEF OfKinds
    <3> QED
      BY <1>6, <3>2
  <2>4. CASE j \notin DOMAIN s /\ k \notin DOMAIN s
    <3>1. PICK l \in DOMAIN t : j = Len(s) + l
      BY <1>1, <2>4
    <3>2. PICK m \in DOMAIN t : k = Len(s) + m
      BY <1>1, <2>4
    <3>3. t[l] = t[m] /\ t[l].what # "registered"
      BY <1>1, <1>6, <3>1, <3>2
    <3> QED
      BY <3>1, <3>2, <3>3 DEF Once
  <2> QED
    BY <2>1, <2>2, <2>3, <2>4
<1>7. ASSUME NEW v, NEW w,
             (w \notin W /\ Precedes(s, v, w)) \/ (w \notin V /\ Precedes(t, v, w))
                \/ (w \notin V /\ HasKind(s, v)),
             NEW k \in DOMAIN u, u[k].what = w
      PROVE  \E j \in DOMAIN u : j < k /\ u[j].what = v
  <2>1. CASE k \in DOMAIN s
    <3>1. s[k].what = w /\ w \in V /\ w \notin W
      BY <1>1, <1>7, <2>1 DEF OfKinds
    <3>2. PICK j \in DOMAIN s : j < k /\ s[j].what = v
      BY <1>7, <2>1, <3>1 DEF Precedes
    <3> QED
      BY <1>1, <3>2
  <2>2. CASE k \notin DOMAIN s
    <3>1. PICK l \in DOMAIN t : k = Len(s) + l
      BY <1>1, <2>2
    <3>2. t[l].what = w /\ w \in W /\ w \notin V
      BY <1>1, <1>7, <3>1 DEF OfKinds
    <3>3. CASE HasKind(s, v)
      <4>1. PICK j \in DOMAIN s : s[j].what = v
        BY <3>3 DEF HasKind
      <4>2. j < k
        BY <1>2, <3>1
      <4> QED
        BY <1>1, <4>1, <4>2
    <3>4. CASE Precedes(t, v, w)
      <4>1. PICK j \in DOMAIN t : j < l /\ t[j].what = v
        BY <3>2, <3>4 DEF Precedes
      <4>2. Len(s) + j < k
        BY <1>2, <3>1, <4>1
      <4> QED
        BY <1>1, <4>1, <4>2
    <3> QED
      BY <1>7, <3>2, <3>3, <3>4
  <2> QED
    BY <2>1, <2>2
<1>8. Once(u)
  BY <1>6 DEF Once
<1>9. \A v, w : (w \notin W /\ Precedes(s, v, w)) \/ (w \notin V /\ Precedes(t, v, w))
                   \/ (w \notin V /\ HasKind(s, v)) => Precedes(u, v, w)
  BY <1>7 DEF Precedes
<1> QED
  BY <1>1, <1>3, <1>4, <1>5, <1>8, <1>9 DEF u

LEMMA DoIs ==
  ASSUME NEW w \in OtherWhats
  PROVE  Do(w) \in Seq(Checks) /\ Once(Do(w)) /\ OfKinds(Do(w), {w}) /\ HasKind(Do(w), w)
<1>1. Check(w, "no provider") \in Checks /\ Check(w, "no provider").what = w
  BY DEF Check, Checks
<1> DEFINE c == Check(w, "no provider")
<1>2. Do(w) = <<c>>
  BY DEF Do
<1>3. c \in Checks /\ c.what = w
  BY <1>1
<1> HIDE DEF c
<1>4. <<c>> \in Seq(Checks) /\ DOMAIN <<c>> = {1} /\ <<c>>[1] = c
  BY <1>3
<1> QED
  BY <1>2, <1>3, <1>4 DEF Once, OfKinds, HasKind

LEMMA RegistrationIs ==
  Registration \in Seq(Checks) /\ Once(Registration) /\ OfKinds(Registration, {"registered"})
<1>1. \A i \in DOMAIN Expected :
        Check("registered", Expected[i].id) \in Checks /\ Check("registered", Expected[i].id).what = "registered"
  BY ExpectedFacts DEF Check, Checks, ProviderWhats
<1>2. DOMAIN Registration = 1..Len(Expected) /\ Len(Expected) \in Nat
  BY ExpectedFacts DEF Registration
<1>3. \A i \in DOMAIN Registration : Registration[i] \in Checks /\ Registration[i].what = "registered"
  BY <1>1, <1>2, ExpectedFacts DEF Registration
<1>4. Registration = [i \in 1..Len(Expected) |-> Registration[i]]
  BY <1>2 DEF Registration
<1>5. Registration \in Seq(Checks)
  BY <1>2, <1>3, <1>4
<1> QED
  BY <1>3, <1>5 DEF Once, OfKinds

LEMMA Elements ==
  /\ \A s, m : s = <<m>> => {s[l] : l \in DOMAIN s} = {m}
  /\ \A s, m, n : s = <<m, n>> => {s[l] : l \in DOMAIN s} = {m, n}
OBVIOUS

LEMMA KindsAre ==
  /\ Kinds("authenticator") = {"describe", "add execution"}
  /\ Kinds("required-action") = {"register"}
  /\ Kinds("identity-provider-mapper") = {"create mapper"}
  /\ Kinds("protocol-mapper") = {"issue token"}
<1>1. ChecksOf("authenticator") = <<"describe", "add execution">>
  BY DEF ChecksOf
<1>2. ChecksOf("required-action") = <<"register">>
  BY DEF ChecksOf
<1>3. ChecksOf("identity-provider-mapper") = <<"create mapper">>
  BY DEF ChecksOf
<1>4. ChecksOf("protocol-mapper") = <<"issue token">>
  BY DEF ChecksOf
<1>5. Kinds("authenticator") = {"describe", "add execution"}
  <2> DEFINE s == ChecksOf("authenticator")  m == "describe"  n == "add execution"
  <2>1. s = <<m, n>> /\ Kinds("authenticator") = {s[l] : l \in DOMAIN s}
    BY <1>1 DEF Kinds
  <2>2. {m, n} = {"describe", "add execution"}
    OBVIOUS
  <2> HIDE DEF s, m, n
  <2>3. {s[l] : l \in DOMAIN s} = {m, n}
    BY <2>1, Elements
  <2> QED
    BY <2>1, <2>2, <2>3
<1>6. Kinds("required-action") = {"register"}
  BY <1>2, Elements, Zenon DEF Kinds
<1>7. Kinds("identity-provider-mapper") = {"create mapper"}
  BY <1>3, Elements, Zenon DEF Kinds
<1>8. Kinds("protocol-mapper") = {"issue token"}
  BY <1>4, Elements, Zenon DEF Kinds
<1> QED
  BY <1>5, <1>6, <1>7, <1>8

LEMMA EachKinds ==
  ASSUME NEW spi \in Spis
  PROVE  /\ Each(spi) \in Seq(Checks) /\ Once(Each(spi)) /\ OfKinds(Each(spi), Kinds(spi))
         /\ \A i \in DOMAIN Expected : \A w \in Kinds(spi) :
              Expected[i].spi = spi => Has(Each(spi), Check(w, Expected[i].id))
<1>1. ASSUME NEW k \in DOMAIN Each(spi)
      PROVE  Each(spi)[k].what \in Kinds(spi)
  <2>1. PICK i \in DOMAIN Expected, l \in DOMAIN ChecksOf(spi) :
          Each(spi)[k] = Check(ChecksOf(spi)[l], Expected[i].id)
    BY EachIs
  <2> QED
    BY <2>1 DEF Kinds, Check
<1>2. ASSUME NEW i \in DOMAIN Expected, NEW w \in Kinds(spi), Expected[i].spi = spi
      PROVE  Has(Each(spi), Check(w, Expected[i].id))
  <2>1. PICK l \in DOMAIN ChecksOf(spi) : w = ChecksOf(spi)[l]
    BY <1>2 DEF Kinds
  <2>2. \E k \in DOMAIN Each(spi) : Each(spi)[k] = Check(ChecksOf(spi)[l], Expected[i].id)
    BY <1>2, EachIs
  <2> QED
    BY <2>1, <2>2 DEF Has
<1> QED
  BY <1>1, <1>2, EachIs DEF OfKinds

NeedRealm ==
  {"copy flow", "describe", "add execution", "register", "create idp", "create mapper",
   "setup user", "issue token"}

\* The program: every provider goes through its checks, and what a check needs
\* is created before, after the realm.
LEMMA MainIs ==
  /\ main \in Seq(Checks) /\ Once(main)
  /\ \A i \in DOMAIN Expected : \A w \in Kinds(Expected[i].spi) :
       Has(main, Check(w, Expected[i].id))
  /\ \A w \in NeedRealm : Precedes(main, "fresh realm", w)
  /\ Precedes(main, "copy flow", "add execution")
  /\ Precedes(main, "create idp", "create mapper")
  /\ Precedes(main, "setup user", "issue token")
<1> DEFINE
      r == Registration
      f == Do("fresh realm")
      a == Do("copy flow")       aa == Each("authenticator")
      q == Each("required-action")
      i == Do("create idp")      ii == Each("identity-provider-mapper")
      p == Do("setup user")      pp == Each("protocol-mapper")
      FA == a \o aa   FI == i \o ii   FP == p \o pp
      s1 == r \o f   s2 == s1 \o FA   s3 == s2 \o q   s4 == s3 \o FI   s5 == s4 \o FP
      Part(s, ws) == s \in Seq(Checks) /\ Once(s) /\ OfKinds(s, ws)
      KA == {"copy flow", "describe", "add execution"}
      KI == {"create idp", "create mapper"}
      KP == {"setup user", "issue token"}
      K1 == {"registered", "fresh realm"}
      K2 == K1 \cup KA   K3 == K2 \cup {"register"}   K4 == K3 \cup KI
<1>1. /\ Part(r, {"registered"}) /\ Part(f, {"fresh realm"}) /\ HasKind(f, "fresh realm")
      /\ Part(a, {"copy flow"}) /\ HasKind(a, "copy flow")
      /\ Part(i, {"create idp"}) /\ HasKind(i, "create idp")
      /\ Part(p, {"setup user"}) /\ HasKind(p, "setup user")
  BY DoIs, RegistrationIs DEF OtherWhats
<1>2. /\ Part(aa, {"describe", "add execution"}) /\ Part(q, {"register"})
      /\ Part(ii, {"create mapper"}) /\ Part(pp, {"issue token"})
  BY EachKinds, KindsAre DEF Spis
<1>3. main = s5
  BY DEF main, Authenticators, RequiredActions, IdpMappers, ProtocolMappers
<1> HIDE DEF r, f, a, aa, q, i, ii, p, pp
<1>4. /\ Part(FA, KA) /\ Precedes(FA, "copy flow", "add execution")
      /\ \A c : Has(aa, c) => Has(FA, c)
  <2>1. {"copy flow"} \cap {"describe", "add execution"} = {} /\ "add execution" \notin {"copy flow"}
        /\ KA = {"copy flow"} \cup {"describe", "add execution"}
    OBVIOUS
  <2> HIDE DEF KA
  <2> QED
    BY <1>1, <1>2, <2>1, Joined
<1>5. /\ Part(FI, KI) /\ Precedes(FI, "create idp", "create mapper")
      /\ \A c : Has(ii, c) => Has(FI, c)
  <2>1. {"create idp"} \cap {"create mapper"} = {} /\ "create mapper" \notin {"create idp"}
        /\ KI = {"create idp"} \cup {"create mapper"}
    OBVIOUS
  <2> HIDE DEF KI
  <2> QED
    BY <1>1, <1>2, <2>1, Joined
<1>6. /\ Part(FP, KP) /\ Precedes(FP, "setup user", "issue token")
      /\ \A c : Has(pp, c) => Has(FP, c)
  <2>1. {"setup user"} \cap {"issue token"} = {} /\ "issue token" \notin {"setup user"}
        /\ KP = {"setup user"} \cup {"issue token"}
    OBVIOUS
  <2> HIDE DEF KP
  <2> QED
    BY <1>1, <1>2, <2>1, Joined
<1>7. Part(s1, K1) /\ HasKind(s1, "fresh realm")
  <2>1. {"registered"} \cap {"fresh realm"} = {} /\ K1 = {"registered"} \cup {"fresh realm"}
    OBVIOUS
  <2> HIDE DEF K1
  <2> QED
    BY <1>1, <2>1, Joined
<1> HIDE DEF FA, FI, FP, s1
<1>8. /\ Part(s2, K2) /\ HasKind(s2, "fresh realm")
      /\ \A w \in KA : Precedes(s2, "fresh realm", w)
      /\ Precedes(s2, "copy flow", "add execution")
      /\ \A c : Has(aa, c) => Has(s2, c)
  <2>1. K1 \cap KA = {} /\ "add execution" \in KA
    OBVIOUS
  <2> HIDE DEF K1, KA
  <2> QED
    BY <1>4, <1>7, <2>1, Joined
<1> HIDE DEF s2
<1>9. /\ Part(s3, K3) /\ HasKind(s3, "fresh realm")
      /\ \A w \in KA \cup {"register"} : Precedes(s3, "fresh realm", w)
      /\ Precedes(s3, "copy flow", "add execution")
      /\ \A c : Has(aa, c) \/ Has(q, c) => Has(s3, c)
  <2>1. K2 \cap {"register"} = {} /\ "add execution" \notin {"register"} /\ KA \cap {"register"} = {}
    OBVIOUS
  <2> HIDE DEF K2, KA
  <2> QED
    BY <1>2, <1>8, <2>1, Joined
<1> HIDE DEF s3
<1>10. /\ Part(s4, K4) /\ HasKind(s4, "fresh realm")
       /\ \A w \in KA \cup {"register"} \cup KI : Precedes(s4, "fresh realm", w)
       /\ Precedes(s4, "copy flow", "add execution")
       /\ Precedes(s4, "create idp", "create mapper")
       /\ \A c : Has(aa, c) \/ Has(q, c) \/ Has(ii, c) => Has(s4, c)
  <2>1. /\ K3 \cap KI = {} /\ "add execution" \notin KI /\ (KA \cup {"register"}) \cap KI = {}
        /\ "create mapper" \in KI
    OBVIOUS
  <2> HIDE DEF K3, KA, KI
  <2> QED
    BY <1>5, <1>9, <2>1, Joined
<1> HIDE DEF s4
<1>11. /\ Part(s5, K4 \cup KP)
       /\ \A w \in KA \cup {"register"} \cup KI \cup KP : Precedes(s5, "fresh realm", w)
       /\ Precedes(s5, "copy flow", "add execution")
       /\ Precedes(s5, "create idp", "create mapper")
       /\ Precedes(s5, "setup user", "issue token")
       /\ \A c : Has(aa, c) \/ Has(q, c) \/ Has(ii, c) \/ Has(pp, c) => Has(s5, c)
  <2>1. /\ K4 \cap KP = {} /\ "add execution" \notin KP /\ "create mapper" \notin KP
        /\ (KA \cup {"register"} \cup KI) \cap KP = {} /\ "issue token" \in KP
    OBVIOUS
  <2> HIDE DEF K4, KA, KI, KP
  <2> QED
    BY <1>6, <1>10, <2>1, Joined
<1>12. NeedRealm = KA \cup {"register"} \cup KI \cup KP
  BY DEF NeedRealm
<1> HIDE DEF s5, K4, KA, KI, KP
<1>13. ASSUME NEW n \in DOMAIN Expected, NEW w \in Kinds(Expected[n].spi)
       PROVE  Has(main, Check(w, Expected[n].id))
  <2>1. Expected[n].spi \in Spis
    BY ExpectedFacts
  <2>2. Has(Each(Expected[n].spi), Check(w, Expected[n].id))
    BY <2>1, EachKinds
  <2> QED
    BY <1>3, <1>11, <2>1, <2>2 DEF Spis, aa, q, ii, pp
<1> QED
  BY <1>3, <1>11, <1>12, <1>13

-----------------------------------------------------------------------------
(***************************************************************************)
(* The invariant.                                                          *)
(***************************************************************************)

Steps == {"fetch", "unpack", "prepare", "start", "poll", "asking", "exercise", "evaluate"}
AllLoads == UNION {Loads(spi) : spi \in Spis}
Names == Ids \cup {"no realm", "flow", "idp", "user", "client"}
Server ==
  [state : {"down", "starting", "up"}, loads : [Ids -> AllLoads],
   noise : SUBSET {"ERROR", "OURS"}, realm : SUBSET Names]

SmokeTypes ==
  /\ servers \in [Slots -> Server]
  /\ at \in Nat /\ info \subseteq Ids /\ failures \in BOOLEAN /\ rc \in {"none", "0", "1"}
  /\ pc \in Steps \cup {"done", "killed"}
  /\ jar \in Jars /\ providers \subseteq Jars
  /\ log \subseteq {"ERROR", "OURS"}
  /\ runs \in Nat /\ shared \in BOOLEAN /\ disturbed \in BOOLEAN

\* The jar has been copied to the run directory; what a server finds there.
Copied == providers = {jar}
Found(p) == IF Copied THEN jar.loads[p] ELSE "absent"
Noise == IF Copied THEN jar.noise ELSE {}

\* What the server behind the script is, and that nothing has been exercised
\* before it is up.
OwnServer ==
  /\ pc \notin {"poll", "asking", "exercise"} => own.state = "down"
  /\ own.state # "down" => own.noise = Noise /\ \A p \in Ids : own.loads[p] = Found(p)
  /\ pc \in {"start", "poll", "asking", "exercise"} => Copied \/ (providers = {} /\ disturbed)
  /\ pc # "killed" /\ ~shared => servers["other"].state = "down"
  /\ pc \in {"fetch", "unpack", "prepare", "start", "poll", "asking"} => at = 0 /\ ~failures /\ rc = "none"
  /\ pc \in {"fetch", "unpack", "prepare", "start"} => log = {}
  /\ pc = "evaluate" => rc # "none"

\* A check that has been made, and has not been printed as FAIL, was passed by
\* the jar; a server that has come up has logged what the jar logs.
Exercised ==
  ~shared /\ pc \in Steps =>
    /\ log \subseteq jar.noise \cup {"ERROR"}
    /\ own.state = "up" \/ at > 0 => Noise \subseteq log
    /\ ~failures =>
         \A k \in DOMAIN main : k < at /\ main[k].id \in Ids /\ main[k].what # "registered" =>
           Found(main[k].id) \notin {"absent", main[k].what}
    /\ rc = "0" => at > Len(main) /\ ~failures

\* What the checks before n leave in the realm.
Made(n) == UNION {Creates(main[k]) : k \in {j \in DOMAIN main : j < n}}

\* A jar in order, while nothing else goes wrong: its server is there, and the
\* realm has what the checks have created in it, and nothing else.
InOrderSoFar ==
  Fine(jar) /\ jar.noise = {} /\ ~shared /\ ~disturbed /\ pc \in Steps =>
    /\ log = {} /\ ~failures /\ rc # "1"
    /\ pc = "poll" => own.state # "down"
    /\ pc \in {"asking", "exercise"} => own.state = "up"
    /\ at > 0 => info = Ids
    /\ pc = "exercise" /\ (\E k \in DOMAIN main : k < at /\ main[k].what = "fresh realm") =>
         own.realm = Made(at)

SmokeInv ==
  /\ SmokeTypes /\ OwnServer
  /\ Exercised /\ PassMeansExercised
  /\ InOrderSoFar /\ GoodJarPasses

-----------------------------------------------------------------------------
(***************************************************************************)
(* What happens to the servers.                                            *)
(***************************************************************************)

LEMMA DownIs == Down \in Server /\ Down.state = "down"
<1>1. [p \in Ids |-> "absent"] \in [Ids -> AllLoads]
  <2>1. "absent" \in Loads("authenticator") /\ "authenticator" \in Spis
    BY DEF Loads, Spis
  <2>2. "absent" \in AllLoads
    BY <2>1 DEF AllLoads
  <2> QED
    BY <2>2
<1> QED
  BY <1>1 DEF Down, Server, NoRealm, Names

\* Of a server one field is changed.
LEMMA NewState ==
  ASSUME servers \in [Slots -> Server], NEW s \in Slots, NEW x \in {"down", "starting", "up"},
         NEW f, f = [servers EXCEPT ![s].state = x]
  PROVE  /\ f \in [Slots -> Server]
         /\ f[s] = [state |-> x, loads |-> servers[s].loads, noise |-> servers[s].noise,
                    realm |-> servers[s].realm]
         /\ \A t \in Slots : t # s => f[t] = servers[t]
<1>1. servers[s] \in Server /\ DOMAIN servers = Slots
  OBVIOUS
<1>2. servers[s] = [state |-> servers[s].state, loads |-> servers[s].loads,
                    noise |-> servers[s].noise, realm |-> servers[s].realm]
  BY <1>1 DEF Server
<1> DEFINE r == [state |-> x, loads |-> servers[s].loads, noise |-> servers[s].noise,
                 realm |-> servers[s].realm]
<1>3. [servers[s] EXCEPT !.state = x] = r
  BY <1>2
<1>4. f = [servers EXCEPT ![s] = r]
  BY <1>3
<1>5. r \in Server
  BY <1>1 DEF Server
<1> HIDE DEF r
<1>6. f \in [Slots -> Server] /\ f[s] = r /\ \A t \in Slots : t # s => f[t] = servers[t]
  BY <1>1, <1>4, <1>5
<1> QED
  BY <1>6 DEF r

LEMMA NewRealm ==
  ASSUME servers \in [Slots -> Server], NEW s \in Slots, NEW x \in SUBSET Names,
         NEW f, f = [servers EXCEPT ![s].realm = x]
  PROVE  /\ f \in [Slots -> Server]
         /\ f[s] = [state |-> servers[s].state, loads |-> servers[s].loads,
                    noise |-> servers[s].noise, realm |-> x]
         /\ \A t \in Slots : t # s => f[t] = servers[t]
<1>1. servers[s] \in Server /\ DOMAIN servers = Slots
  OBVIOUS
<1>2. servers[s] = [state |-> servers[s].state, loads |-> servers[s].loads,
                    noise |-> servers[s].noise, realm |-> servers[s].realm]
  BY <1>1 DEF Server
<1> DEFINE r == [state |-> servers[s].state, loads |-> servers[s].loads,
                 noise |-> servers[s].noise, realm |-> x]
<1>3. [servers[s] EXCEPT !.realm = x] = r
  BY <1>2
<1>4. f = [servers EXCEPT ![s] = r]
  BY <1>3
<1>5. r \in Server
  BY <1>1 DEF Server
<1> HIDE DEF r
<1>6. f \in [Slots -> Server] /\ f[s] = r /\ \A t \in Slots : t # s => f[t] = servers[t]
  BY <1>1, <1>4, <1>5
<1> QED
  BY <1>6 DEF r

LEMMA NewServer ==
  ASSUME servers \in [Slots -> Server], NEW s \in Slots, NEW r \in Server,
         NEW f, f = [servers EXCEPT ![s] = r]
  PROVE  f \in [Slots -> Server] /\ f[s] = r /\ \A t \in Slots : t # s => f[t] = servers[t]
OBVIOUS

\* A run directory with nothing but the jar loads what the jar loads.
LEMMA LoadedNothing == Loaded({}) \in [Ids -> AllLoads] /\ \A p \in Ids : Loaded({})[p] = "absent"
<1>1. \A p \in Ids : Loaded({})[p] = "absent"
  BY DEF Loaded
<1>2. "absent" \in AllLoads
  BY DEF AllLoads, Loads, Spis
<1>3. DOMAIN Loaded({}) = Ids /\ Loaded({}) = [p \in Ids |-> Loaded({})[p]]
  BY DEF Loaded
<1> QED
  BY <1>1, <1>2, <1>3

LEMMA LoadedIs ==
  ASSUME NEW j \in Jars
  PROVE  Loaded({j}) \in [Ids -> AllLoads] /\ \A p \in Ids : Loaded({j})[p] = j.loads[p]
<1>1. j.loads \in [Ids -> AllLoads]
  BY SmokeAssumption DEF SmokeAssumption, AllLoads
<1>2. ASSUME NEW p \in Ids
      PROVE  Loaded({j})[p] = j.loads[p]
  <2> DEFINE found == {k.loads[p] : k \in {j}} \ {"absent"}
  <2>1. Loaded({j})[p] = IF found = {} THEN "absent"
                         ELSE IF "works" \in found THEN "works" ELSE CHOOSE f \in found : TRUE
    BY DEF Loaded
  <2>2. CASE j.loads[p] = "absent"
    <3>1. found = {}
      BY <2>2
    <3> QED
      BY <2>1, <2>2, <3>1
  <2>3. CASE j.loads[p] # "absent"
    <3>1. found = {j.loads[p]}
      BY <2>3
    <3>2. (CHOOSE f \in found : TRUE) = j.loads[p]
      BY <3>1
    <3> QED
      BY <2>1, <3>1, <3>2
  <2> QED
    BY <2>2, <2>3
<1>3. DOMAIN Loaded({j}) = Ids /\ Loaded({j}) = [p \in Ids |-> Loaded({j})[p]]
  BY DEF Loaded
<1> QED
  BY <1>1, <1>2, <1>3

\* Who answers, if no server of an earlier invocation can.
LEMMA OwnAnswers ==
  ASSUME servers["other"].state = "down", NEW s \in Answering
  PROVE  s = "own" /\ own.state = "up"
BY DEF Answering, Slots, own

-----------------------------------------------------------------------------
(***************************************************************************)
(* What the checks are worth.                                              *)
(***************************************************************************)

\* A jar that passes each check of each provider is in order.
LEMMA ChecksCoverAll ==
  ASSUME jar \in Jars,
         \A k \in DOMAIN main : main[k].id \in Ids /\ main[k].what # "registered" =>
           Found(main[k].id) \notin {"absent", main[k].what}
  PROVE  Copied /\ Fine(jar)
<1>6. Ids # {}
  <2>1. Expected # << >> /\ Expected \in Seq([spi : Spis, id : STRING])
    BY ExpectedAssumption DEF ExpectedAssumption
  <2>2. 1 \in DOMAIN Expected
    BY <2>1
  <2> QED
    BY <2>2 DEF Ids
<1> SUFFICES ASSUME NEW p \in Ids PROVE Copied /\ jar.loads[p] = "works"
  BY <1>6 DEF Fine
<1>1. PICK i \in DOMAIN Expected : p = Expected[i].id
  BY DEF Ids
<1> DEFINE spi == Expected[i].spi
<1>2. spi \in Spis
  BY ExpectedFacts
<1>3. ASSUME NEW w \in Kinds(spi)
      PROVE  Found(p) \notin {"absent", w}
  <2>1. PICK k \in DOMAIN main : main[k] = Check(w, p)
    BY <1>1, <1>3, MainIs DEF Has
  <2>2. w # "registered"
    BY <1>2, <1>3, ChecksOfFacts DEF Kinds
  <2>3. main[k].id = p /\ main[k].what = w
    BY <2>1 DEF Check
  <2> QED
    BY <2>2, <2>3
<1>4. ChecksOf(spi)[1] \in Kinds(spi)
  BY <1>2, ChecksOfFacts DEF Kinds
<1>5. jar.loads[p] \in {"works", "absent"} \cup Kinds(spi)
  BY <1>1, SmokeAssumption DEF SmokeAssumption, Loads, Range, Kinds
<1>7. Copied
  BY <1>3, <1>4 DEF Found
<1> QED
  BY <1>3, <1>4, <1>5, <1>7 DEF Found

\* What is created is created once.
LEMMA CreatedOnce ==
  ASSUME NEW j \in DOMAIN main, NEW k \in DOMAIN main, Creates(main[j]) \cap Creates(main[k]) # {}
  PROVE  j = k
<1>1. main \in Seq(Checks) /\ Once(main)
  BY MainIs
<1>2. main[j] \in Checks /\ main[k] \in Checks
  BY <1>1
<1>3. ASSUME NEW c \in Checks, NEW d \in Checks, NEW x, x \in Creates(c), x \in Creates(d)
      PROVE  c = d /\ c.what # "registered"
  <2>1. /\ c = [what |-> c.what, id |-> c.id]
        /\ \/ c.what \in ProviderWhats /\ c.id \in Ids
           \/ c.what \in OtherWhats /\ c.id = "no provider"
    BY DEF Checks
  <2>2. /\ d = [what |-> d.what, id |-> d.id]
        /\ \/ d.what \in ProviderWhats /\ d.id \in Ids
           \/ d.what \in OtherWhats /\ d.id = "no provider"
    BY DEF Checks
  <2>3. \A p \in Ids : p \notin {"flow", "idp", "user", "client"}
    BY ExpectedFacts DEF Ids, OtherNames
  <2>4. c.what = d.what /\ c.what \in {"copy flow", "create idp", "setup user", "issue token", "create mapper"}
    BY <1>3, <2>1, <2>2, <2>3 DEF Creates, ProviderWhats, OtherWhats
  <2>5. CASE c.what = "create mapper"
    <3>1. x = c.id /\ x = d.id
      BY <1>3, <2>4, <2>5 DEF Creates
    <3> QED
      BY <2>1, <2>2, <2>4, <2>5, <3>1
  <2>6. CASE c.what = "issue token"
    <3>1. c.what \notin OtherWhats /\ c.what # "registered"
      BY <2>6 DEF OtherWhats
    <3>2. \A e \in Checks : e.what = c.what =>
            \E i \in DOMAIN Expected : e.id = Expected[i].id /\ Expected[i].spi = "protocol-mapper"
      <4> SUFFICES ASSUME NEW e \in Checks, e.what = c.what
                   PROVE  \E i \in DOMAIN Expected : e.id = Expected[i].id /\ Expected[i].spi = "protocol-mapper"
        OBVIOUS
      <4>1. PICK i \in DOMAIN Expected : e.id = Expected[i].id /\ c.what \in Kinds(Expected[i].spi)
        BY <3>1 DEF Checks
      <4>2. Expected[i].spi \in Spis
        BY ExpectedFacts
      <4>3. Expected[i].spi = "protocol-mapper"
        BY <2>6, <4>1, <4>2, KindsAre DEF Spis
      <4> QED
        BY <4>1, <4>3
    <3>3. PICK i \in DOMAIN Expected : c.id = Expected[i].id /\ Expected[i].spi = "protocol-mapper"
      BY <3>2
    <3>4. PICK l \in DOMAIN Expected : d.id = Expected[l].id /\ Expected[l].spi = "protocol-mapper"
      BY <2>4, <3>2
    <3>5. i = l
      BY <3>3, <3>4, ExpectedAssumption DEF ExpectedAssumption
    <3> QED
      BY <2>1, <2>2, <2>4, <3>1, <3>3, <3>4, <3>5
  <2>7. CASE c.what \in {"copy flow", "create idp", "setup user"}
    <3>1. c.id = "no provider" /\ d.id = "no provider" /\ c.what # "registered"
      BY <2>1, <2>2, <2>4, <2>7 DEF ProviderWhats
    <3> QED
      BY <2>1, <2>2, <2>4, <3>1
  <2> QED
    BY <2>4, <2>5, <2>6, <2>7
<1>4. main[j] = main[k] /\ main[j].what # "registered"
  BY <1>2, <1>3
<1> QED
  BY <1>1, <1>4 DEF Once

LEMMA MainElements ==
  main \in Seq(Checks) /\ DOMAIN main = 1..Len(main) /\ Len(main) \in Nat
    /\ \A k \in DOMAIN main : k \in Nat /\ k > 0 /\ main[k] \in Checks
<1>1. main \in Seq(Checks)
  BY MainIs
<1>2. DOMAIN main = 1..Len(main) /\ Len(main) \in Nat
  BY <1>1
<1> QED
  BY <1>1, <1>2, ElementOfSeq

\* What a check creates has a name of its own, and only checks that come after
\* the fresh realm create something.
LEMMA CreatesFacts ==
  ASSUME NEW k \in DOMAIN main
  PROVE  /\ Creates(main[k]) \subseteq Names \ {"no realm"}
         /\ Creates(main[k]) # {} => main[k].what \in NeedRealm
         /\ main[k].what \in {"registered", "fresh realm"} \cup NeedRealm
<1>1. main[k] \in Checks
  BY MainElements
<1>2. \/ main[k].what \in ProviderWhats /\ main[k].id \in Ids
      \/ main[k].what \in OtherWhats /\ main[k].id = "no provider"
  BY <1>1 DEF Checks
<1>3. "no realm" \notin Ids
  BY ExpectedFacts DEF Ids, OtherNames
<1>4. main[k].what \in {"registered", "fresh realm"} \cup NeedRealm
  BY <1>2 DEF NeedRealm, ProviderWhats, OtherWhats
<1>5. Creates(main[k]) # {} => main[k].what \in NeedRealm
  BY DEF Creates, NeedRealm
<1>6. CASE main[k].what = "create mapper"
  <2>1. Creates(main[k]) = {main[k].id} /\ main[k].id \in Ids
    BY <1>2, <1>6 DEF Creates, OtherWhats
  <2> QED
    BY <1>3, <1>4, <1>5, <2>1 DEF Names
<1>7. CASE main[k].what # "create mapper"
  <2>1. Creates(main[k]) \subseteq {"flow", "idp", "user", "client"}
    BY <1>7 DEF Creates
  <2>2. {"flow", "idp", "user", "client"} \subseteq Names \ {"no realm"}
    BY DEF Names
  <2> QED
    BY <1>4, <1>5, <2>1, <2>2
<1> QED
  BY <1>6, <1>7

\* What a check needs was created by one before it.
LEMMA NeedsAreMade ==
  ASSUME NEW n \in DOMAIN main
  PROVE  Needs(main[n]) \subseteq Made(n)
<1>1. ASSUME NEW v, NEW w, NEW x, Precedes(main, v, w), main[n].what = w,
             \A c : c.what = v => x \in Creates(c)
      PROVE  x \in Made(n)
  <2>1. PICK j \in DOMAIN main : j < n /\ main[j].what = v
    BY <1>1 DEF Precedes
  <2> QED
    BY <1>1, <2>1 DEF Made
<1>2. CASE main[n].what = "add execution"
  <2>1. "flow" \in Made(n)
    <3>1. \A c : c.what = "copy flow" => "flow" \in Creates(c)
      BY DEF Creates
    <3> QED
      BY <1>1, <1>2, <3>1, MainIs
  <2> QED
    BY <1>2, <2>1 DEF Needs
<1>3. CASE main[n].what = "create mapper"
  <2>1. "idp" \in Made(n)
    <3>1. \A c : c.what = "create idp" => "idp" \in Creates(c)
      BY DEF Creates
    <3> QED
      BY <1>1, <1>3, <3>1, MainIs
  <2> QED
    BY <1>3, <2>1 DEF Needs
<1>4. CASE main[n].what = "issue token"
  <2>1. "user" \in Made(n)
    <3>1. \A c : c.what = "setup user" => "user" \in Creates(c)
      BY DEF Creates
    <3> QED
      BY <1>1, <1>4, <3>1, MainIs
  <2> QED
    BY <1>4, <2>1 DEF Needs
<1>5. CASE main[n].what \notin {"add execution", "create mapper", "issue token"}
  BY <1>5 DEF Needs
<1> QED
  BY <1>2, <1>3, <1>4, <1>5

LEMMA MadeFacts ==
  ASSUME NEW n \in DOMAIN main
  PROVE  /\ n \in Nat /\ n + 1 \in Nat
         /\ Made(n + 1) = Made(n) \cup Creates(main[n])
         /\ Made(n) \subseteq Names \ {"no realm"}
         /\ Creates(main[n]) \cap Made(n) = {}
         /\ main[n].what = "fresh realm" => Made(n) = {}
         /\ main[n].what \in NeedRealm => \E k \in DOMAIN main : k < n /\ main[k].what = "fresh realm"
<1>1. /\ \A k \in DOMAIN main : k \in Nat /\ main[k] \in Checks
      /\ Once(main)
  BY MainElements, MainIs
<1>2. {j \in DOMAIN main : j < n + 1} = {j \in DOMAIN main : j < n} \cup {n}
  BY <1>1
<1>3. Made(n + 1) = Made(n) \cup Creates(main[n])
  BY <1>2 DEF Made
<1>4. Made(n) \subseteq Names \ {"no realm"}
  BY CreatesFacts DEF Made
<1>5. ASSUME NEW x, x \in Creates(main[n]), x \in Made(n) PROVE FALSE
  <2>1. PICK j \in DOMAIN main : j < n /\ x \in Creates(main[j])
    BY <1>5 DEF Made
  <2>2. j = n
    BY <1>5, <2>1, CreatedOnce
  <2> QED
    BY <1>1, <2>1, <2>2
<1>6. ASSUME main[n].what = "fresh realm", Made(n) # {} PROVE FALSE
  <2>1. PICK j \in DOMAIN main : j < n /\ Creates(main[j]) # {}
    BY <1>6 DEF Made
  <2>2. Precedes(main, "fresh realm", main[j].what)
    BY <2>1, CreatesFacts, MainIs
  <2>3. PICK i \in DOMAIN main : i < j /\ main[i].what = "fresh realm"
    BY <2>2 DEF Precedes
  <2>4. \A c \in Checks : c.what = "fresh realm" => c = [what |-> "fresh realm", id |-> "no provider"]
    <3> SUFFICES ASSUME NEW c \in Checks, c.what = "fresh realm"
                 PROVE  c = [what |-> "fresh realm", id |-> "no provider"]
      OBVIOUS
    <3>1. /\ c = [what |-> c.what, id |-> c.id]
          /\ c.what \in ProviderWhats \/ c.id = "no provider"
      BY DEF Checks
    <3>2. c.what \notin ProviderWhats
      BY DEF ProviderWhats
    <3> QED
      BY <3>1, <3>2
  <2>5. main[i] = main[n] /\ main[i].what # "registered"
    <3>1. main[i] \in Checks /\ main[n] \in Checks
      BY <1>1
    <3> QED
      BY <1>6, <2>3, <2>4, <3>1
  <2>6. i = n
    BY <1>1, <2>5 DEF Once
  <2>7. i \in Nat /\ j \in Nat /\ n \in Nat /\ i < j /\ j < n
    BY <1>1, <2>1, <2>3
  <2> QED
    BY <2>6, <2>7
<1>7. main[n].what \in NeedRealm => \E k \in DOMAIN main : k < n /\ main[k].what = "fresh realm"
  <2>1. main[n].what \in NeedRealm => Precedes(main, "fresh realm", main[n].what)
    BY MainIs
  <2> QED
    BY <2>1 DEF Precedes
<1>8. n \in Nat /\ n + 1 \in Nat
  BY <1>1
<1>9. Creates(main[n]) \cap Made(n) = {}
  BY <1>5
<1>10. main[n].what = "fresh realm" => Made(n) = {}
  BY <1>6
<1> QED
  BY <1>3, <1>4, <1>7, <1>8, <1>9, <1>10

-----------------------------------------------------------------------------
(***************************************************************************)
(* Each action keeps the invariant.                                        *)
(***************************************************************************)

LEMMA InitHolds == Init => SmokeInv
<1> SUFFICES ASSUME Init PROVE SmokeInv
  OBVIOUS
<1>1. servers \in [Slots -> Server] /\ servers["own"] = Down /\ servers["other"] = Down
  BY DownIs DEF Init, Slots
<1>2. SmokeTypes
  BY <1>1 DEF Init, SmokeTypes, ProgramStart
<1>3. OwnServer
  BY <1>1, DownIs DEF Init, OwnServer, own
<1>4. Exercised /\ PassMeansExercised /\ InOrderSoFar /\ GoodJarPasses
  BY DEF Init, Exercised, PassMeansExercised, InOrderSoFar, GoodJarPasses, Steps
<1> QED
  BY <1>2, <1>3, <1>4 DEF SmokeInv

LEMMA InvokeKeeps == ASSUME SmokeInv, Invoke PROVE SmokeInv'
<1>1. /\ pc \in {"done", "killed"} /\ pc' = "fetch" /\ jar' \in Jars /\ runs' = runs + 1
      /\ log' = {} /\ at' = 0 /\ info' = {} /\ failures' = FALSE /\ rc' = "none"
      /\ shared' = (servers["other"].state # "down") /\ disturbed' = FALSE
      /\ servers' = servers /\ providers' = providers
  BY DEF Invoke, Idle
<1>2. own.state = "down"
  BY <1>1 DEF SmokeInv, OwnServer
<1>3. SmokeTypes'
  <2>1. shared' \in BOOLEAN
    BY <1>1
  <2>2. runs' \in Nat
    BY <1>1 DEF SmokeInv, SmokeTypes
  <2>3. pc' \in Steps \cup {"done", "killed"} /\ log' \subseteq {"ERROR", "OURS"} /\ info' \subseteq Ids
    BY <1>1 DEF Steps
  <2> QED
    BY <1>1, <2>1, <2>2, <2>3 DEF SmokeInv, SmokeTypes
<1>4. OwnServer'
  BY <1>1, <1>2 DEF OwnServer, own
<1>5. Exercised'
  <2>1. ~(\E k \in DOMAIN main : k < 0)
    BY MainElements
  <2> QED
    BY <1>1, <1>2, <2>1 DEF Exercised, own
<1>6. InOrderSoFar'
  BY <1>1 DEF InOrderSoFar
<1>7. PassMeansExercised' /\ GoodJarPasses'
  BY <1>1 DEF PassMeansExercised, GoodJarPasses
<1> QED
  BY <1>3, <1>4, <1>5, <1>6, <1>7 DEF SmokeInv

LEMMA FetchKeeps == ASSUME SmokeInv, Fetch PROVE SmokeInv'
<1>1. /\ pc = "fetch" /\ UNCHANGED <<servers, program, jar, providers, log, runs, shared>>
      /\ \/ pc' \in {"prepare", "unpack"} /\ disturbed' = disturbed
         \/ pc' = "done" /\ status' = "FAIL" /\ disturbed' = TRUE
  BY DEF Fetch
<1>2. SmokeTypes'
  BY <1>1 DEF SmokeInv, SmokeTypes, Steps, program
<1>3. OwnServer'
  BY <1>1 DEF SmokeInv, OwnServer, own, program
<1>4. Exercised'
  BY <1>1 DEF SmokeInv, Exercised, own, program, Steps, Copied, Found, Noise
<1>5. InOrderSoFar'
  BY <1>1 DEF SmokeInv, InOrderSoFar, own, program, Steps
<1>6. PassMeansExercised' /\ GoodJarPasses'
  BY <1>1 DEF PassMeansExercised, GoodJarPasses
<1> QED
  BY <1>2, <1>3, <1>4, <1>5, <1>6 DEF SmokeInv

LEMMA UnpackKeeps == ASSUME SmokeInv, Unpack PROVE SmokeInv'
<1>1. /\ pc = "unpack" /\ pc' = "prepare"
      /\ UNCHANGED <<servers, program, jar, providers, log, runs, shared, disturbed>>
  BY DEF Unpack
<1>2. SmokeTypes'
  BY <1>1 DEF SmokeInv, SmokeTypes, Steps, program
<1>3. OwnServer'
  BY <1>1 DEF SmokeInv, OwnServer, own, program
<1>4. Exercised' /\ InOrderSoFar'
  BY <1>1 DEF SmokeInv, Exercised, InOrderSoFar, own, program, Steps, Copied, Found, Noise
<1>5. PassMeansExercised' /\ GoodJarPasses'
  BY <1>1 DEF PassMeansExercised, GoodJarPasses
<1> QED
  BY <1>2, <1>3, <1>4, <1>5 DEF SmokeInv

LEMMA PrepareKeeps == ASSUME SmokeInv, Prepare PROVE SmokeInv'
<1>1. /\ pc = "prepare" /\ pc' = "start"
      /\ providers' = {jar} \/ (providers' = {} /\ disturbed')
      /\ disturbed' \in BOOLEAN /\ (disturbed => disturbed')
      /\ UNCHANGED <<servers, program, jar, log, runs, shared>>
  BY DEF Prepare, FreshRunDir, SmokeInv, SmokeTypes
<1>2. SmokeTypes'
  BY <1>1 DEF SmokeInv, SmokeTypes, Steps, program
<1>3. OwnServer'
  BY <1>1 DEF SmokeInv, OwnServer, Copied, own, program
<1>4. Exercised'
  <2>1. at = 0 /\ own.state = "down" /\ log = {} /\ rc = "none"
    BY <1>1 DEF SmokeInv, OwnServer
  <2>2. ~(\E k \in DOMAIN main : k < 0)
    BY MainElements
  <2> QED
    BY <1>1, <2>1, <2>2 DEF Exercised, own, program
<1>6. InOrderSoFar'
  BY <1>1 DEF SmokeInv, InOrderSoFar, own, program, Steps
<1>5. PassMeansExercised' /\ GoodJarPasses'
  BY <1>1 DEF PassMeansExercised, GoodJarPasses
<1> QED
  BY <1>2, <1>3, <1>4, <1>5, <1>6 DEF SmokeInv

\* The server is started with nothing but the jar.
LEMMA StartKeeps == ASSUME SmokeInv, Start PROVE SmokeInv'
<1> DEFINE r == [state |-> "starting", loads |-> Loaded(providers),
                 noise |-> UNION {j.noise : j \in providers}, realm |-> NoRealm]
<1>1. /\ pc = "start" /\ pc' = "poll" /\ servers' = [servers EXCEPT !["own"] = r]
      /\ UNCHANGED <<program, jar, providers, log, runs, shared, disturbed>>
  BY DEF Start
<1>2. /\ Copied \/ (providers = {} /\ disturbed)
      /\ jar \in Jars /\ own.state = "down"
  BY <1>1 DEF SmokeInv, OwnServer, SmokeTypes
<1>3. /\ r.state = "starting" /\ r.noise = Noise /\ \A p \in Ids : r.loads[p] = Found(p)
      /\ r \in Server
  <2>1. Loaded(providers) \in [Ids -> AllLoads] /\ \A p \in Ids : Loaded(providers)[p] = Found(p)
    BY <1>2, LoadedIs, LoadedNothing DEF Copied, Found
  <2>2. UNION {j.noise : j \in providers} = Noise /\ Noise \subseteq {"ERROR", "OURS"}
    BY <1>2, SmokeAssumption DEF SmokeAssumption, Copied, Noise
  <2>3. NoRealm \subseteq Names
    BY DEF NoRealm, Names
  <2> QED
    BY <2>1, <2>2, <2>3 DEF Server
<1> HIDE DEF r
<1>4. servers' \in [Slots -> Server] /\ own' = r /\ servers'["other"] = servers["other"]
  <2>1. "own" \in Slots /\ "other" \in Slots
    BY DEF Slots
  <2> QED
    BY <1>1, <1>3, <2>1, NewServer DEF own, SmokeInv, SmokeTypes
<1>5. SmokeTypes'
  BY <1>1, <1>4 DEF SmokeInv, SmokeTypes, Steps, program
<1>6. OwnServer'
  BY <1>1, <1>3, <1>4 DEF SmokeInv, OwnServer, Copied, Found, Noise, program
<1>7. Exercised'
  BY <1>1, <1>3, <1>4 DEF SmokeInv, OwnServer, Exercised, Found, Noise, Copied, Steps, program
<1>8. InOrderSoFar'
  BY <1>1, <1>3, <1>4 DEF SmokeInv, OwnServer, InOrderSoFar, Steps, program
<1>9. PassMeansExercised' /\ GoodJarPasses'
  BY <1>1 DEF PassMeansExercised, GoodJarPasses
<1> QED
  BY <1>5, <1>6, <1>7, <1>8, <1>9 DEF SmokeInv

LEMMA PollKeeps == ASSUME SmokeInv, Poll PROVE SmokeInv'
<1>1. /\ pc = "poll" /\ pc' = IF Answering # {} THEN "asking" ELSE "poll"
      /\ UNCHANGED <<servers, program, jar, providers, log, runs, shared, disturbed>>
  BY DEF Poll
<1>2. pc' = "asking" /\ ~shared => own.state = "up"
  BY <1>1, OwnAnswers DEF SmokeInv, OwnServer
<1>3. SmokeTypes'
  BY <1>1 DEF SmokeInv, SmokeTypes, Steps, program
<1>4. OwnServer'
  BY <1>1 DEF SmokeInv, OwnServer, Copied, Found, Noise, own, program
<1>5. Exercised'
  BY <1>1 DEF SmokeInv, Exercised, Copied, Found, Noise, own, Steps, program
<1>6. InOrderSoFar'
  BY <1>1, <1>2 DEF SmokeInv, InOrderSoFar, own, Steps, program
<1>7. PassMeansExercised' /\ GoodJarPasses'
  BY <1>1 DEF PassMeansExercised, GoodJarPasses
<1> QED
  BY <1>3, <1>4, <1>5, <1>6, <1>7 DEF SmokeInv

LEMMA AnswerKeeps == ASSUME SmokeInv, Answer PROVE SmokeInv'
<1>1. /\ pc = "asking" /\ pc' \in {"exercise", "poll"} /\ Answering # {}
      /\ UNCHANGED <<servers, program, jar, providers, log, runs, shared, disturbed>>
  BY DEF Answer
<1>2. ~shared => own.state = "up"
  BY <1>1, OwnAnswers DEF SmokeInv, OwnServer
<1>3. SmokeTypes'
  BY <1>1 DEF SmokeInv, SmokeTypes, Steps, program
<1>4. OwnServer'
  BY <1>1 DEF SmokeInv, OwnServer, Copied, Found, Noise, own, program
<1>5. Exercised'
  BY <1>1 DEF SmokeInv, Exercised, Copied, Found, Noise, own, Steps, program
<1>6. InOrderSoFar'
  <2>1. ~(\E k \in DOMAIN main : k < 0)
    BY MainElements
  <2>2. at = 0
    BY <1>1 DEF SmokeInv, OwnServer
  <2> QED
    BY <1>1, <1>2, <2>1, <2>2 DEF SmokeInv, InOrderSoFar, own, Steps, program
<1>7. PassMeansExercised' /\ GoodJarPasses'
  BY <1>1 DEF PassMeansExercised, GoodJarPasses
<1> QED
  BY <1>3, <1>4, <1>5, <1>6, <1>7 DEF SmokeInv

LEMMA StoppedIs ==
  ASSUME servers \in [Slots -> Server], servers' = Stopped
  PROVE  servers' \in [Slots -> Server] /\ own' = Down /\ servers'["other"] = servers["other"]
<1>1. "own" \in Slots /\ "other" \in Slots
  BY DEF Slots
<1> QED
  BY <1>1, DownIs, NewServer DEF Stopped, own

LEMMA NotReadyKeeps == ASSUME SmokeInv, NotReady PROVE SmokeInv'
<1>1. /\ pc = "poll" /\ pc' = "done" /\ status' = "FAIL" /\ servers' = Stopped
      /\ disturbed' = (disturbed \/ own.state # "down")
      /\ UNCHANGED <<program, jar, providers, log, runs, shared>>
  BY DEF NotReady
<1>2. servers' \in [Slots -> Server] /\ own' = Down /\ servers'["other"] = servers["other"]
  BY <1>1, StoppedIs DEF SmokeInv, SmokeTypes
<1>3. SmokeTypes'
  BY <1>1, <1>2 DEF SmokeInv, SmokeTypes, Steps, program
<1>4. OwnServer'
  BY <1>1, <1>2, DownIs DEF SmokeInv, OwnServer
<1>5. Exercised' /\ InOrderSoFar' /\ PassMeansExercised'
  BY <1>1 DEF Exercised, InOrderSoFar, PassMeansExercised, Steps
<1>6. GoodJarPasses'
  <2>1. Fine(jar) /\ jar.noise = {} /\ ~shared => disturbed'
    BY <1>1 DEF SmokeInv, InOrderSoFar, Steps
  <2> QED
    BY <1>1, <2>1 DEF GoodJarPasses, Fine
<1> QED
  BY <1>3, <1>4, <1>5, <1>6 DEF SmokeInv

LEMMA StopKeeps == ASSUME SmokeInv, Stop PROVE SmokeInv'
<1>1. /\ pc = "exercise" /\ rc # "none" /\ pc' = "evaluate" /\ servers' = Stopped
      /\ UNCHANGED <<program, jar, providers, log, runs, shared, disturbed>>
  BY DEF Stop
<1>2. servers' \in [Slots -> Server] /\ own' = Down /\ servers'["other"] = servers["other"]
  BY <1>1, StoppedIs DEF SmokeInv, SmokeTypes
<1>3. SmokeTypes'
  BY <1>1, <1>2 DEF SmokeInv, SmokeTypes, Steps, program
<1>4. OwnServer'
  BY <1>1, <1>2, DownIs DEF SmokeInv, OwnServer, program
<1>5. Exercised'
  BY <1>1, <1>2, DownIs DEF SmokeInv, Exercised, Steps, program, Copied, Found, Noise
<1>6. InOrderSoFar'
  BY <1>1, <1>2, DownIs DEF SmokeInv, InOrderSoFar, Steps, program
<1>7. PassMeansExercised' /\ GoodJarPasses'
  BY <1>1 DEF PassMeansExercised, GoodJarPasses
<1> QED
  BY <1>3, <1>4, <1>5, <1>6, <1>7 DEF SmokeInv

\* The verdict: here it is decided what it is worth.
LEMMA EvaluateKeeps == ASSUME SmokeInv, Evaluate PROVE SmokeInv'
<1>1. /\ pc = "evaluate" /\ pc' = "done" /\ status' = Verdict
      /\ UNCHANGED <<servers, program, jar, providers, log, runs, shared, disturbed>>
  BY DEF Evaluate
<1>2. SmokeTypes'
  BY <1>1 DEF SmokeInv, SmokeTypes, Steps, program
<1>3. OwnServer'
  BY <1>1 DEF SmokeInv, OwnServer, own, program
<1>4. Exercised' /\ InOrderSoFar'
  BY <1>1 DEF Exercised, InOrderSoFar, Steps
<1>5. PassMeansExercised'
  <2> SUFFICES ASSUME status' \in {"PASS", "WARN"}, ~shared
               PROVE  Fine(jar) /\ status' = IF jar.noise = {} THEN "PASS" ELSE "WARN"
    BY <1>1 DEF PassMeansExercised, Fine
  <2>1. /\ rc = "0" /\ "ERROR" \notin log
        /\ status' = IF "OURS" \in log THEN "WARN" ELSE "PASS"
    BY <1>1 DEF Verdict
  <2>2. /\ log \subseteq jar.noise \cup {"ERROR"} /\ at > Len(main) /\ ~failures
        /\ at > 0 => Noise \subseteq log
        /\ \A k \in DOMAIN main : k < at /\ main[k].id \in Ids /\ main[k].what # "registered" =>
             Found(main[k].id) \notin {"absent", main[k].what}
    BY <1>1, <2>1 DEF SmokeInv, Exercised, Steps
  <2>3. at \in Nat /\ jar \in Jars
    BY DEF SmokeInv, SmokeTypes
  <2>4. at > 0 /\ \A k \in DOMAIN main : k < at
    BY <2>2, <2>3, MainElements
  <2>5. Copied /\ Fine(jar)
    BY <2>2, <2>3, <2>4, ChecksCoverAll
  <2>6. log = jar.noise
    BY <2>1, <2>2, <2>4, <2>5 DEF Noise
  <2>7. jar.noise \subseteq {"ERROR", "OURS"}
    BY <2>3, SmokeAssumption DEF SmokeAssumption
  <2> QED
    BY <2>1, <2>5, <2>6, <2>7
<1>6. GoodJarPasses'
  <2> SUFFICES ASSUME Fine(jar), jar.noise = {}, ~shared, ~disturbed
               PROVE  status' = "PASS"
    BY <1>1 DEF GoodJarPasses, Fine
  <2>1. log = {} /\ rc # "1" /\ rc # "none" /\ rc \in {"none", "0", "1"}
    BY <1>1 DEF SmokeInv, InOrderSoFar, OwnServer, SmokeTypes, Steps
  <2> QED
    BY <1>1, <2>1 DEF Verdict
<1> QED
  BY <1>2, <1>3, <1>4, <1>5, <1>6 DEF SmokeInv

\* A server left running may be taken for another one: from then on it is.
LEMMA KillKeeps == ASSUME SmokeInv, Kill PROVE SmokeInv'
<1>1. /\ pc' = "killed"
      /\ servers' = IF own.state = "down" THEN servers ELSE [own |-> Down, other |-> own]
      /\ UNCHANGED <<program, jar, providers, log, runs, shared, disturbed>>
  BY DEF Kill
<1>2. servers \in [Slots -> Server] /\ own \in Server
  BY DEF SmokeInv, SmokeTypes, own, Slots
<1>3. servers' \in [Slots -> Server] /\ own'.state = "down"
  <2>1. CASE own.state = "down"
    BY <1>1, <1>2, <2>1 DEF own
  <2>2. CASE own.state # "down"
    <3>1. servers' = [own |-> Down, other |-> own]
      BY <1>1, <2>2
    <3>2. servers'["own"] = Down /\ servers'["other"] = own /\ DOMAIN servers' = Slots
      BY <3>1 DEF Slots
    <3>3. servers' = [s \in Slots |-> servers'[s]]
      BY <3>1 DEF Slots
    <3> QED
      BY <1>2, <3>2, <3>3, DownIs DEF own, Slots
  <2> QED
    BY <2>1, <2>2
<1>4. SmokeTypes'
  BY <1>1, <1>3 DEF SmokeInv, SmokeTypes, program
<1>5. OwnServer'
  BY <1>1, <1>3 DEF OwnServer
<1>6. Exercised' /\ InOrderSoFar' /\ PassMeansExercised' /\ GoodJarPasses'
  BY <1>1 DEF Exercised, InOrderSoFar, PassMeansExercised, GoodJarPasses, Steps
<1> QED
  BY <1>4, <1>5, <1>6 DEF SmokeInv

\* The servers come and go.
LEMMA BindKeeps == ASSUME SmokeInv, NEW s \in Slots, Bind(s) PROVE SmokeInv'
<1>1. /\ servers[s].state = "starting"
      /\ UNCHANGED <<program, pc, jar, providers, status, runs, shared, disturbed>>
      /\ \/ /\ Answering = {}
            /\ servers' = [servers EXCEPT ![s].state = "up"]
            /\ log' = IF s = "own" THEN log \cup own.noise ELSE log
         \/ /\ Answering # {}
            /\ servers' = [servers EXCEPT ![s] = Down]
            /\ log' = IF s = "own" THEN log \cup {"ERROR"} ELSE log
  BY DEF Bind
<1>2. servers \in [Slots -> Server] /\ "own" \in Slots /\ "other" \in Slots /\ own \in Server
  BY DEF SmokeInv, SmokeTypes, Slots, own
<1>3. /\ servers' \in [Slots -> Server] /\ \A t \in Slots : t # s => servers'[t] = servers[t]
      /\ Answering = {} => servers'[s].state = "up" /\ servers'[s].loads = servers[s].loads
                             /\ servers'[s].noise = servers[s].noise
      /\ Answering # {} => servers'[s] = Down
  <2>1. CASE Answering = {}
    <3>1. servers' = [servers EXCEPT ![s].state = "up"]
      BY <1>1, <2>1
    <3>2. "up" \in {"down", "starting", "up"} /\ servers \in [Slots -> Server]
      BY <1>2
    <3>3. PICK f : f = servers' /\ f = [servers EXCEPT ![s].state = "up"]
      BY <3>1
    <3>4. /\ f \in [Slots -> Server]
          /\ f[s] = [state |-> "up", loads |-> servers[s].loads, noise |-> servers[s].noise,
                     realm |-> servers[s].realm]
          /\ \A t \in Slots : t # s => f[t] = servers[t]
      BY <3>2, <3>3, NewState
    <3> QED
      BY <2>1, <3>3, <3>4
  <2>2. CASE Answering # {}
    BY <1>1, <1>2, <2>2, DownIs, NewServer
  <2> QED
    BY <2>1, <2>2
<1>4. CASE s = "own"
  <2>1. own.state = "starting" /\ pc \in {"poll", "asking", "exercise"} /\ own.noise = Noise
    BY <1>1, <1>4 DEF SmokeInv, OwnServer, own
  <2>2. servers'["other"] = servers["other"] /\ own' = servers'["own"]
    BY <1>2, <1>3, <1>4 DEF own
  <2>3. log \subseteq {"ERROR", "OURS"} /\ own.noise \subseteq {"ERROR", "OURS"}
    BY <1>2 DEF SmokeInv, SmokeTypes, Server
  <2>4. ~shared => Answering = {}
    BY <1>4, <2>1, OwnAnswers DEF SmokeInv, OwnServer
  <2>5. SmokeTypes'
    <3>1. log' \subseteq {"ERROR", "OURS"}
      BY <1>1, <1>4, <2>3
    <3> QED
      BY <1>1, <1>3, <3>1 DEF SmokeInv, SmokeTypes, program
  <2>6. OwnServer'
    BY <1>1, <1>3, <1>4, <2>1, <2>2, DownIs DEF SmokeInv, OwnServer, own, program, Copied, Found, Noise
  <2>7. Exercised'
    <3> SUFFICES ASSUME ~shared PROVE Exercised'
      BY <1>1 DEF Exercised
    <3>1. log' = log \cup Noise
      BY <1>1, <1>4, <2>1, <2>4
    <3> QED
      BY <1>1, <2>1, <3>1 DEF SmokeInv, Exercised, program, Steps, Copied, Found, Noise
  <2>8. InOrderSoFar'
    <3> SUFFICES ASSUME Fine(jar), jar.noise = {}, ~shared, ~disturbed PROVE InOrderSoFar'
      BY <1>1 DEF InOrderSoFar, Fine
    <3>1. log' = log /\ own'.state = "up" /\ pc \notin {"asking", "exercise"}
      BY <1>1, <1>3, <1>4, <2>1, <2>2, <2>4 DEF SmokeInv, InOrderSoFar, Noise, Steps
    <3> QED
      BY <1>1, <2>1, <3>1 DEF SmokeInv, InOrderSoFar, program, Steps
  <2>9. PassMeansExercised' /\ GoodJarPasses'
    BY <1>1, <2>1 DEF PassMeansExercised, GoodJarPasses
  <2> QED
    BY <2>5, <2>6, <2>7, <2>8, <2>9 DEF SmokeInv
<1>5. CASE s # "own"
  <2>1. s = "other" /\ log' = log /\ own' = own
    BY <1>1, <1>2, <1>3, <1>5 DEF Slots, own
  <2>2. SmokeTypes'
    BY <1>1, <1>3, <2>1 DEF SmokeInv, SmokeTypes, program
  <2>3. OwnServer'
    BY <1>1, <2>1 DEF SmokeInv, OwnServer, program, Copied, Found, Noise
  <2>4. Exercised' /\ InOrderSoFar'
    BY <1>1, <2>1 DEF SmokeInv, Exercised, InOrderSoFar, program, Copied, Found, Noise
  <2>5. PassMeansExercised' /\ GoodJarPasses'
    BY <1>1 DEF SmokeInv, PassMeansExercised, GoodJarPasses
  <2> QED
    BY <2>2, <2>3, <2>4, <2>5 DEF SmokeInv
<1> QED
  BY <1>4, <1>5

LEMMA DieKeeps == ASSUME SmokeInv, NEW s \in Slots, Die(s) PROVE SmokeInv'
<1>1. /\ servers' = [servers EXCEPT ![s] = Down]
      /\ servers[s].state # "down"
      /\ disturbed' = (disturbed \/ s = "own")
      /\ pc' = pc \/ (pc = "asking" /\ pc' = "poll" /\ s \in Answering)
      /\ UNCHANGED <<program, jar, providers, log, status, runs, shared>>
  BY DEF Die
<1>2. servers \in [Slots -> Server] /\ "own" \in Slots /\ "other" \in Slots
  BY DEF SmokeInv, SmokeTypes, Slots
<1>3. /\ servers' \in [Slots -> Server] /\ \A t \in Slots : t # s => servers'[t] = servers[t]
      /\ servers'[s] = Down
  BY <1>1, <1>2, DownIs, NewServer
<1>4. disturbed' \in BOOLEAN /\ (disturbed => disturbed') /\ (s = "own" => disturbed')
  BY <1>1 DEF SmokeInv, SmokeTypes
<1>5. SmokeTypes'
  BY <1>1, <1>3, <1>4 DEF SmokeInv, SmokeTypes, Steps, program
<1>6. own' = IF s = "own" THEN Down ELSE own
  BY <1>2, <1>3 DEF own
<1>7. OwnServer'
  <2>1. servers'["other"].state = "down" \/ servers'["other"] = servers["other"]
    BY <1>2, <1>3, DownIs
  <2> QED
    BY <1>1, <1>6, <2>1, DownIs DEF SmokeInv, OwnServer, program, Copied, Found, Noise
<1>8. Exercised'
  BY <1>1, <1>6, DownIs DEF SmokeInv, Exercised, Steps, program, Copied, Found, Noise
<1>9. InOrderSoFar'
  <2> SUFFICES ASSUME Fine(jar), jar.noise = {}, ~shared, ~disturbed' PROVE InOrderSoFar'
    BY <1>1 DEF InOrderSoFar, Fine
  <2>1. pc' = pc /\ own' = own /\ ~disturbed
    <3>1. s # "own" /\ ~disturbed
      BY <1>1
    <3>2. pc = "asking" => s \notin Answering
      BY <3>1, OwnAnswers DEF SmokeInv, OwnServer
    <3> QED
      BY <1>1, <1>6, <3>1, <3>2
  <2> QED
    BY <1>1, <2>1 DEF SmokeInv, InOrderSoFar, program
<1>10. PassMeansExercised'
  BY <1>1 DEF SmokeInv, PassMeansExercised
<1>11. GoodJarPasses'
  BY <1>1, <1>4 DEF SmokeInv, GoodJarPasses
<1> QED
  BY <1>5, <1>7, <1>8, <1>9, <1>10, <1>11 DEF SmokeInv

-----------------------------------------------------------------------------
(***************************************************************************)
(* The exercise.                                                           *)
(***************************************************************************)

\* The program goes one check further, and the script has not noticed yet.
Advances == pc = "exercise" /\ at' = at + 1 /\ rc = "none" /\ rc' = rc /\ UNCHANGED script

LEMMA AdvancesKeeps ==
  ASSUME SmokeInv, Advances,
         servers' \in [Slots -> Server],
         \A s \in Slots : /\ servers'[s].state = servers[s].state
                          /\ servers'[s].loads = servers[s].loads
                          /\ servers'[s].noise = servers[s].noise,
         info' \subseteq Ids, failures' \in BOOLEAN, failures => failures',
         ~shared => own.state = "up" \/ at > 0,
         ~shared /\ ~failures' /\ at \in DOMAIN main =>
           (main[at].id \in Ids /\ main[at].what # "registered" =>
              Found(main[at].id) \notin {"absent", main[at].what})
  PROVE  SmokeTypes' /\ OwnServer' /\ Exercised' /\ PassMeansExercised' /\ GoodJarPasses'
<1>1. /\ pc' = pc /\ jar' = jar /\ providers' = providers /\ log' = log /\ status' = status
      /\ runs' = runs /\ shared' = shared /\ disturbed' = disturbed
      /\ pc = "exercise" /\ at' = at + 1 /\ rc = "none" /\ rc' = "none"
  BY DEF script, Advances
<1>2. at \in Nat /\ at + 1 \in Nat /\ "own" \in Slots /\ "other" \in Slots
  BY DEF SmokeInv, SmokeTypes, Slots
<1>3. SmokeTypes'
  BY <1>1, <1>2 DEF SmokeInv, SmokeTypes
<1>4. OwnServer'
  BY <1>1, <1>2 DEF SmokeInv, OwnServer, own, Copied, Found, Noise
<1>5. Exercised'
  <2> SUFFICES ASSUME ~shared PROVE Exercised'
    BY <1>1 DEF Exercised
  <2>1. log \subseteq jar.noise \cup {"ERROR"} /\ Noise \subseteq log
    BY <1>1 DEF SmokeInv, Exercised, Steps
  <2>2. ASSUME ~failures', NEW k \in DOMAIN main, k < at + 1,
               main[k].id \in Ids, main[k].what # "registered"
        PROVE  Found(main[k].id) \notin {"absent", main[k].what}
    <3>1. CASE k = at
      BY <2>2, <3>1
    <3>2. CASE k # at
      <4>1. k < at /\ ~failures
        BY <1>2, <2>2, <3>2, MainElements
      <4> QED
        BY <1>1, <2>2, <4>1 DEF SmokeInv, Exercised, Steps
    <3> QED
      BY <3>1, <3>2
  <2> QED
    BY <1>1, <2>1, <2>2 DEF Exercised, Copied, Found, Noise
<1>6. PassMeansExercised' /\ GoodJarPasses'
  BY <1>1 DEF PassMeansExercised, GoodJarPasses
<1> QED
  BY <1>3, <1>4, <1>5, <1>6

\* What follows from a server of our own being the only one.
LEMMA OnlyOwn ==
  ASSUME SmokeInv, pc = "exercise", ~shared
  PROVE  /\ servers["other"].state = "down"
         /\ \A s \in Answering : s = "own" /\ own.state = "up" /\ \A p \in Ids : own.loads[p] = Found(p)
         /\ own.state = "up" => "own" \in Answering
<1>1. servers["other"].state = "down"
  BY DEF SmokeInv, OwnServer
<1>2. \A s \in Answering : s = "own" /\ own.state = "up"
  BY <1>1, OwnAnswers
<1>3. own.state = "up" => \A p \in Ids : own.loads[p] = Found(p)
  BY DEF SmokeInv, OwnServer
<1>4. own.state = "up" => "own" \in Answering
  BY DEF Answering, Slots, own
<1> QED
  BY <1>1, <1>2, <1>3, <1>4

\* The program ends without having touched anything.
LEMMA AbortsKeeps ==
  ASSUME SmokeInv, pc = "exercise", UNCHANGED <<servers, at, info>>, rc' \in {"0", "1"},
         failures' \in BOOLEAN, failures => failures',
         rc' = "0" => at > Len(main) /\ ~failures' /\ failures' = failures,
         UNCHANGED <<pc, jar, dist, providers, polls, log, status, runs, kills, shared>>,
         disturbed' \in BOOLEAN, disturbed => disturbed',
         Fine(jar) /\ jar.noise = {} /\ ~shared /\ ~disturbed' => rc' = "0"
  PROVE  SmokeInv'
<1>1. SmokeTypes'
  BY DEF SmokeInv, SmokeTypes
<1>2. OwnServer'
  BY DEF SmokeInv, OwnServer, own, Copied, Found, Noise
<1>3. Exercised'
  BY DEF SmokeInv, Exercised, own, Steps, Copied, Found, Noise
<1>4. InOrderSoFar'
  <2> SUFFICES ASSUME Fine(jar), jar.noise = {}, ~shared, ~disturbed' PROVE InOrderSoFar'
    BY DEF InOrderSoFar, Fine
  <2>1. rc' = "0" /\ ~failures' /\ ~disturbed
    OBVIOUS
  <2> QED
    BY <2>1 DEF SmokeInv, InOrderSoFar, own, Steps
<1>5. PassMeansExercised' /\ GoodJarPasses'
  BY DEF PassMeansExercised, GoodJarPasses
<1> QED
  BY <1>1, <1>2, <1>3, <1>4, <1>5 DEF SmokeInv

\* A jar in order, in whose run nothing has gone wrong.
Quiet == Fine(jar) /\ jar.noise = {} /\ ~shared /\ ~disturbed

LEMMA QuietFacts ==
  ASSUME SmokeInv, pc = "exercise", Quiet
  PROVE  /\ log = {} /\ ~failures /\ rc # "1" /\ own.state = "up"
         /\ at > 0 => info = Ids
         /\ (\E k \in DOMAIN main : k < at /\ main[k].what = "fresh realm") => own.realm = Made(at)
         /\ Answering = {"own"}
         /\ \A p \in Ids : own.loads[p] = "works"
<1>1. /\ log = {} /\ ~failures /\ rc # "1" /\ own.state = "up"
      /\ at > 0 => info = Ids
      /\ (\E k \in DOMAIN main : k < at /\ main[k].what = "fresh realm") => own.realm = Made(at)
  BY DEF SmokeInv, InOrderSoFar, Quiet, Steps
<1>2. Answering = {"own"}
  BY <1>1, OnlyOwn DEF Quiet
<1>3. \A p \in Ids : own.loads[p] = "works"
  <2>1. Copied
    BY DEF SmokeInv, OwnServer, Quiet
  <2> QED
    BY <1>1, <1>2, <2>1, OnlyOwn DEF Quiet, Fine, Found
<1> QED
  BY <1>1, <1>2, <1>3

\* What is left to show when the program goes one check further.
LEMMA AdvancesInOrder ==
  ASSUME SmokeInv, Advances,
         Quiet => /\ ~failures' /\ own'.state = "up" /\ info' = Ids
                  /\ (\E k \in DOMAIN main : k < at + 1 /\ main[k].what = "fresh realm") =>
                       own'.realm = Made(at + 1)
  PROVE  InOrderSoFar'
<1>1. /\ pc = "exercise" /\ pc' = pc /\ jar' = jar /\ log' = log /\ shared' = shared
      /\ disturbed' = disturbed /\ at' = at + 1 /\ rc' = "none"
  BY DEF script, Advances
<1> SUFFICES ASSUME Quiet PROVE InOrderSoFar'
  BY <1>1 DEF InOrderSoFar, Quiet, Fine
<1>2. log = {}
  BY <1>1, QuietFacts
<1> QED
  BY <1>1, <1>2 DEF InOrderSoFar, Made

LEMMA ServerInfoKeeps == ASSUME SmokeInv, pc = "exercise", ServerInfo, UNCHANGED script PROVE SmokeInv'
<1>1. rc = "none" /\ at = 0
  BY DEF ServerInfo
<1>2. CASE Answering = {} /\ Aborts
  <2>1. /\ UNCHANGED <<servers, at, info, failures>> /\ rc' = "1"
        /\ UNCHANGED <<pc, jar, dist, providers, polls, log, status, runs, kills, shared, disturbed>>
    BY <1>2 DEF Aborts, script
  <2>2. failures' \in BOOLEAN /\ disturbed' \in BOOLEAN
    BY <2>1 DEF SmokeInv, SmokeTypes
  <2>3. Fine(jar) /\ jar.noise = {} /\ ~shared /\ ~disturbed' => rc' = "0"
    BY <1>2, <2>1, QuietFacts DEF Quiet
  <2> QED
    BY <2>1, <2>2, <2>3, AbortsKeeps
<1>3. CASE \E s \in Answering :
             info' = {p \in Ids : servers[s].loads[p] # "absent"} /\ at' = 1 /\ UNCHANGED <<servers, failures, rc>>
  <2>1. PICK s \in Answering :
          info' = {p \in Ids : servers[s].loads[p] # "absent"} /\ at' = 1 /\ UNCHANGED <<servers, failures, rc>>
    BY <1>3
  <2>2. Advances
    BY <1>1, <2>1 DEF Advances
  <2>3. at \notin DOMAIN main
    BY <1>1, MainElements
  <2>4. SmokeTypes' /\ OwnServer' /\ Exercised' /\ PassMeansExercised' /\ GoodJarPasses'
    <3>1. servers' \in [Slots -> Server] /\ failures' \in BOOLEAN
      BY <2>1 DEF SmokeInv, SmokeTypes
    <3>2. ~shared => own.state = "up"
      BY OnlyOwn
    <3>3. info' \subseteq Ids
      BY <2>1
    <3> QED
      BY <2>1, <2>2, <2>3, <3>1, <3>2, <3>3, AdvancesKeeps
  <2>5. InOrderSoFar'
    <3>1. ASSUME Quiet
          PROVE  /\ ~failures' /\ own'.state = "up" /\ info' = Ids
                 /\ (\E k \in DOMAIN main : k < at + 1 /\ main[k].what = "fresh realm") =>
                      own'.realm = Made(at + 1)
      <4>1. s = "own" /\ own' = own /\ servers["own"] = own
        BY <2>1, <3>1, QuietFacts DEF own
      <4>2. info' = Ids
        BY <2>1, <3>1, <4>1, QuietFacts
      <4>3. ~(\E k \in DOMAIN main : k < at + 1)
        BY <1>1, MainElements
      <4> QED
        BY <2>1, <3>1, <4>1, <4>2, <4>3, QuietFacts
    <3> QED
      BY <2>2, <3>1, AdvancesInOrder
  <2> QED
    BY <2>4, <2>5 DEF SmokeInv
<1> QED
  BY <1>2, <1>3 DEF ServerInfo

LEMMA RegisteredKeeps == ASSUME SmokeInv, pc = "exercise", Registered, UNCHANGED script PROVE SmokeInv'
<1>1. /\ rc = "none" /\ at \in DOMAIN main /\ main[at].what = "registered" /\ at' = at + 1
      /\ failures' = (failures \/ ~(main[at].id \in info))
      /\ UNCHANGED <<servers, info, rc>>
  BY DEF Registered, Begun, Printed
<1>2. Advances
  BY <1>1 DEF Advances
<1>3. at > 0 /\ main[at].id \in Ids /\ Creates(main[at]) = {}
  <2>1. main[at] \in Checks /\ at \in 1..Len(main) /\ Len(main) \in Nat
    BY <1>1, MainElements
  <2>2. main[at].what \notin OtherWhats
    BY <1>1 DEF OtherWhats
  <2>3. main[at].id \in Ids
    BY <2>1, <2>2 DEF Checks
  <2>4. Creates(main[at]) = {}
    BY <1>1 DEF Creates
  <2> QED
    BY <2>1, <2>3, <2>4
<1>4. SmokeTypes' /\ OwnServer' /\ Exercised' /\ PassMeansExercised' /\ GoodJarPasses'
  <2>1. servers' \in [Slots -> Server] /\ failures' \in BOOLEAN /\ info' \subseteq Ids
    BY <1>1 DEF SmokeInv, SmokeTypes
  <2> QED
    BY <1>1, <1>2, <1>3, <2>1, AdvancesKeeps
<1>5. InOrderSoFar'
  <2>1. ASSUME Quiet
        PROVE  /\ ~failures' /\ own'.state = "up" /\ info' = Ids
               /\ (\E k \in DOMAIN main : k < at + 1 /\ main[k].what = "fresh realm") =>
                    own'.realm = Made(at + 1)
    <3>1. own' = own
      BY <1>1 DEF own
    <3>2. ~failures' /\ own'.state = "up" /\ info' = Ids
      BY <1>1, <1>3, <2>1, <3>1, QuietFacts
    <3>3. Made(at + 1) = Made(at)
      BY <1>1, <1>3, MadeFacts
    <3>4. ASSUME NEW k \in DOMAIN main, k < at + 1, main[k].what = "fresh realm"
          PROVE  k < at
      <4>1. k # at
        BY <1>1, <3>4
      <4>2. k \in Nat /\ at \in Nat
        BY <1>1, MainElements
      <4>3. k < at + 1
        BY <3>4
      <4> QED
        BY <4>1, <4>2, <4>3
    <3> QED
      BY <2>1, <3>1, <3>2, <3>3, <3>4, QuietFacts
  <2> QED
    BY <1>2, <2>1, AdvancesInOrder
<1> QED
  BY <1>4, <1>5 DEF SmokeInv

LEMMA FreshRealmKeeps == ASSUME SmokeInv, pc = "exercise", FreshRealm, UNCHANGED script PROVE SmokeInv'
<1>1. rc = "none" /\ at \in DOMAIN main /\ main[at].what = "fresh realm"
  BY DEF FreshRealm, Begun
<1>2. CASE Answering = {} /\ Aborts
  <2>1. /\ UNCHANGED <<servers, at, info, failures>> /\ rc' = "1"
        /\ UNCHANGED <<pc, jar, dist, providers, polls, log, status, runs, kills, shared, disturbed>>
    BY <1>2 DEF Aborts, script
  <2>2. failures' \in BOOLEAN /\ disturbed' \in BOOLEAN
    BY <2>1 DEF SmokeInv, SmokeTypes
  <2>3. Fine(jar) /\ jar.noise = {} /\ ~shared /\ ~disturbed' => rc' = "0"
    BY <1>2, <2>1, QuietFacts DEF Quiet
  <2> QED
    BY <2>1, <2>2, <2>3, AbortsKeeps
<1>3. CASE \E s \in Answering :
             /\ servers' = [servers EXCEPT ![s].realm = {}] /\ at' = at + 1
             /\ UNCHANGED <<info, failures, rc>>
  <2>1. PICK s \in Answering :
          /\ servers' = [servers EXCEPT ![s].realm = {}] /\ at' = at + 1
          /\ UNCHANGED <<info, failures, rc>>
    BY <1>3
  <2>2. Advances
    BY <1>1, <2>1 DEF Advances
  <2>3. /\ s \in Slots /\ servers \in [Slots -> Server] /\ {} \in SUBSET Names
        /\ failures' \in BOOLEAN /\ info' \subseteq Ids
    BY <2>1 DEF Answering, SmokeInv, SmokeTypes
  <2>4. /\ servers' \in [Slots -> Server]
        /\ servers'[s] = [state |-> servers[s].state, loads |-> servers[s].loads,
                          noise |-> servers[s].noise, realm |-> {}]
        /\ \A t \in Slots : t # s => servers'[t] = servers[t]
    BY <2>1, <2>3, NewRealm
  <2>5. SmokeTypes' /\ OwnServer' /\ Exercised' /\ PassMeansExercised' /\ GoodJarPasses'
    <3>1. \A t \in Slots : /\ servers'[t].state = servers[t].state
                           /\ servers'[t].loads = servers[t].loads
                           /\ servers'[t].noise = servers[t].noise
      BY <2>4
    <3>2. at > 0
      BY <1>1, MainElements
    <3>3. main[at].id \notin Ids
      <4>1. main[at] \in Checks /\ main[at].what \notin ProviderWhats
        BY <1>1, MainElements DEF ProviderWhats
      <4>2. main[at].id = "no provider"
        BY <4>1 DEF Checks
      <4> QED
        BY <4>2, ExpectedFacts DEF Ids, OtherNames
    <3> QED
      BY <2>1, <2>2, <2>3, <2>4, <3>1, <3>2, <3>3, AdvancesKeeps
  <2>6. InOrderSoFar'
    <3>1. ASSUME Quiet
          PROVE  /\ ~failures' /\ own'.state = "up" /\ info' = Ids
                 /\ (\E k \in DOMAIN main : k < at + 1 /\ main[k].what = "fresh realm") =>
                      own'.realm = Made(at + 1)
      <4>1. s = "own" /\ own' = servers'["own"] /\ servers["own"] = own
        BY <2>1, <3>1, QuietFacts DEF own
      <4>2. own'.state = "up" /\ own'.realm = {}
        <5>1. servers'[s].state = servers[s].state /\ servers'[s].realm = {}
          BY <2>4
        <5> QED
          BY <3>1, <4>1, <5>1, QuietFacts
      <4>3. Made(at + 1) = {}
        <5>1. Creates(main[at]) = {}
          BY <1>1 DEF Creates
        <5>2. Made(at) = {} /\ Made(at + 1) = Made(at) \cup Creates(main[at])
          BY <1>1, MadeFacts
        <5> QED
          BY <5>1, <5>2
      <4>4. at > 0
        BY <1>1, MainElements
      <4> QED
        BY <2>1, <3>1, <4>2, <4>3, <4>4, QuietFacts
    <3> QED
      BY <2>2, <3>1, AdvancesInOrder
  <2> QED
    BY <2>5, <2>6 DEF SmokeInv
<1> QED
  BY <1>2, <1>3 DEF FreshRealm

\* A check of a provider: printed as OK only if the server that answers loads
\* it and it works; and in order it is answered, as the realm has what it needs
\* and nothing of what it creates.
LEMMA CheckProviderKeeps ==
  ASSUME SmokeInv, pc = "exercise", CheckProvider, UNCHANGED script
  PROVE  SmokeInv'
<1> DEFINE c == main[at]
           Step(s) == /\ failures' = (failures \/ ~(Answered(servers[s], c) /\ Works(servers[s], c)))
                      /\ servers' = IF Answered(servers[s], c)
                                    THEN [servers EXCEPT ![s].realm = @ \cup Creates(c)] ELSE servers
<1>1. /\ rc = "none" /\ at \in DOMAIN main /\ c.what \notin {"registered", "fresh realm"}
      /\ at' = at + 1 /\ UNCHANGED <<info, rc>>
      /\ \/ Answering = {} /\ failures' = (failures \/ ~FALSE) /\ UNCHANGED servers
         \/ \E s \in Answering : Step(s)
  BY DEF CheckProvider, Begun, Printed
<1>2. Advances
  BY <1>1 DEF Advances
<1>3. /\ servers \in [Slots -> Server] /\ failures \in BOOLEAN /\ info' \subseteq Ids
      /\ c.what \in NeedRealm /\ Creates(c) \subseteq Names /\ at > 0
  <2>1. c.what \in NeedRealm /\ Creates(c) \subseteq Names
    BY <1>1, CreatesFacts
  <2>2. at > 0
    BY <1>1, MainElements
  <2> QED
    BY <1>1, <2>1, <2>2 DEF SmokeInv, SmokeTypes
<1>4. CASE Answering = {} /\ failures' = (failures \/ ~FALSE) /\ UNCHANGED servers
  <2>1. failures' = TRUE
    BY <1>4
  <2>2. SmokeTypes' /\ OwnServer' /\ Exercised' /\ PassMeansExercised' /\ GoodJarPasses'
    BY <1>2, <1>3, <1>4, <2>1, AdvancesKeeps
  <2>3. ~Quiet
    BY <1>4, QuietFacts
  <2>4. InOrderSoFar'
    BY <1>2, <2>3, AdvancesInOrder
  <2> QED
    BY <2>2, <2>4 DEF SmokeInv
<1>5. CASE \E s \in Answering : Step(s)
  <2>1. PICK s \in Answering : Step(s)
    BY <1>5
  <2>2. s \in Slots
    BY DEF Answering
  <2> DEFINE realm == IF Answered(servers[s], c) THEN servers[s].realm \cup Creates(c)
                      ELSE servers[s].realm
  <2>3. /\ servers' \in [Slots -> Server]
        /\ servers'[s].realm = realm
        /\ \A t \in Slots : /\ servers'[t].state = servers[t].state
                            /\ servers'[t].loads = servers[t].loads
                            /\ servers'[t].noise = servers[t].noise
    <3>1. CASE Answered(servers[s], c)
      <4>1. servers[s].realm \in SUBSET Names
        BY <1>3, <2>2 DEF Server
      <4>2. servers[s].realm \cup Creates(c) \in SUBSET Names
        BY <1>3, <4>1
      <4>3. servers' = [servers EXCEPT ![s].realm = servers[s].realm \cup Creates(c)]
        BY <2>1, <3>1
      <4>4. /\ servers' \in [Slots -> Server]
            /\ servers'[s] = [state |-> servers[s].state, loads |-> servers[s].loads,
                              noise |-> servers[s].noise, realm |-> servers[s].realm \cup Creates(c)]
            /\ \A t \in Slots : t # s => servers'[t] = servers[t]
        <5> DEFINE x == servers[s].realm \cup Creates(c)
        <5>1. x \in SUBSET Names /\ servers' = [servers EXCEPT ![s].realm = x]
          BY <4>2, <4>3
        <5> HIDE DEF x
        <5>2. /\ servers' \in [Slots -> Server]
              /\ servers'[s] = [state |-> servers[s].state, loads |-> servers[s].loads,
                                noise |-> servers[s].noise, realm |-> x]
              /\ \A t \in Slots : t # s => servers'[t] = servers[t]
          BY <1>3, <2>2, <5>1, NewRealm
        <5> QED
          BY <5>2 DEF x
      <4> QED
        BY <3>1, <4>4
    <3>2. CASE ~Answered(servers[s], c)
      BY <1>3, <2>1, <3>2
    <3> QED
      BY <3>1, <3>2
  <2>4. /\ failures' \in BOOLEAN /\ (failures => failures')
        /\ ~failures' => Works(servers[s], c)
    BY <1>3, <2>1
  <2>5. SmokeTypes' /\ OwnServer' /\ Exercised' /\ PassMeansExercised' /\ GoodJarPasses'
    <3>1. ASSUME ~shared, ~failures', c.id \in Ids
          PROVE  Found(c.id) \notin {"absent", c.what}
      <4>1. s = "own" /\ \A p \in Ids : servers[s].loads[p] = Found(p)
        BY <2>1, <3>1, OnlyOwn DEF own
      <4>2. servers[s].loads[c.id] \notin {"absent", c.what}
        BY <2>4, <3>1 DEF Works
      <4> QED
        BY <3>1, <4>1, <4>2
    <3> QED
      BY <1>1, <1>2, <1>3, <2>3, <2>4, <3>1, AdvancesKeeps
  <2>6. InOrderSoFar'
    <3>1. ASSUME Quiet
          PROVE  /\ ~failures' /\ own'.state = "up" /\ info' = Ids
                 /\ (\E k \in DOMAIN main : k < at + 1 /\ main[k].what = "fresh realm") =>
                      own'.realm = Made(at + 1)
      <4>1. s = "own" /\ own' = servers'["own"] /\ servers["own"] = own
        BY <2>1, <3>1, QuietFacts DEF own
      <4>2. own.realm = Made(at)
        BY <1>1, <1>3, <3>1, MadeFacts, QuietFacts
      <4>3. /\ Made(at) \subseteq Names \ {"no realm"} /\ Creates(c) \cap Made(at) = {}
            /\ Made(at + 1) = Made(at) \cup Creates(c) /\ Needs(c) \subseteq Made(at)
        BY <1>1, MadeFacts, NeedsAreMade
      <4>4. Answered(servers[s], c)
        BY <4>1, <4>2, <4>3 DEF Answered, NoRealm
      <4>5. Works(servers[s], c)
        <5>1. c.what # "works"
          BY <1>3 DEF NeedRealm
        <5> QED
          BY <3>1, <4>1, <5>1, QuietFacts DEF Works
      <4>6. ~failures' /\ info' = Ids
        BY <1>1, <1>3, <2>1, <3>1, <4>4, <4>5, QuietFacts
      <4>7. own'.state = "up"
        BY <2>2, <2>3, <3>1, <4>1, QuietFacts
      <4>8. own'.realm = Made(at + 1)
        BY <2>3, <4>1, <4>2, <4>3, <4>4
      <4> QED
        BY <4>6, <4>7, <4>8
    <3> QED
      BY <1>2, <3>1, AdvancesInOrder
  <2> QED
    BY <2>5, <2>6 DEF SmokeInv
<1> QED
  BY <1>1, <1>4, <1>5

LEMMA ExitCodeKeeps == ASSUME SmokeInv, pc = "exercise", ExitCode, UNCHANGED script PROVE SmokeInv'
<1>1. /\ rc = "none" /\ at > Len(main) /\ rc' = IF failures THEN "1" ELSE "0"
      /\ UNCHANGED <<servers, at, info, failures>>
      /\ UNCHANGED <<pc, jar, dist, providers, polls, log, status, runs, kills, shared, disturbed>>
  BY DEF ExitCode, script
<1>2. failures' \in BOOLEAN /\ disturbed' \in BOOLEAN
  BY <1>1 DEF SmokeInv, SmokeTypes
<1>3. Fine(jar) /\ jar.noise = {} /\ ~shared /\ ~disturbed' => rc' = "0"
  BY <1>1, QuietFacts DEF Quiet
<1> QED
  BY <1>1, <1>2, <1>3, AbortsKeeps

\* What goes wrong is noted as such, and never turns a FAIL into an OK.
LEMMA DisturbKeeps == ASSUME SmokeInv, Disturb PROVE SmokeInv'
<1>1. /\ pc = "exercise" /\ rc = "none" /\ at \in DOMAIN main /\ disturbed' = TRUE
      /\ UNCHANGED <<pc, jar, dist, providers, polls, log, status, runs, kills, shared>>
  BY DEF Disturb, Begun
<1>2. CASE main[at].what = "fresh realm"
  <2>1. UNCHANGED <<servers, at, info, failures>> /\ rc' = "1"
    BY <1>2 DEF Disturb, Aborts
  <2>2. failures' \in BOOLEAN
    BY <2>1 DEF SmokeInv, SmokeTypes
  <2> QED
    BY <1>1, <2>1, <2>2, AbortsKeeps
<1>3. CASE main[at].what # "fresh realm"
  <2>1. failures' = TRUE /\ at' = at + 1 /\ UNCHANGED <<servers, info, rc>>
    BY <1>3 DEF Disturb, Printed
  <2>2. at > 0 /\ at \in Nat
    BY <1>1, MainElements
  <2>3. SmokeTypes'
    BY <1>1, <2>1, <2>2 DEF SmokeInv, SmokeTypes
  <2>4. OwnServer'
    BY <1>1, <2>1 DEF SmokeInv, OwnServer, own, Copied, Found, Noise
  <2>5. Exercised'
    BY <1>1, <2>1, <2>2 DEF SmokeInv, Exercised, own, Steps, Copied, Found, Noise
  <2>6. InOrderSoFar' /\ PassMeansExercised' /\ GoodJarPasses'
    BY <1>1 DEF InOrderSoFar, PassMeansExercised, GoodJarPasses
  <2> QED
    BY <2>3, <2>4, <2>5, <2>6 DEF SmokeInv
<1> QED
  BY <1>2, <1>3

LEMMA UnchangedKeeps == ASSUME SmokeInv, UNCHANGED vars PROVE SmokeInv'
<1>1. /\ UNCHANGED <<servers, at, info, failures, rc>>
      /\ UNCHANGED <<pc, jar, dist, providers, polls, log, status, runs, kills, shared, disturbed>>
  BY DEF vars, program, script
<1>2. SmokeTypes' /\ OwnServer'
  BY <1>1 DEF SmokeInv, SmokeTypes, OwnServer, own, Copied, Found, Noise
<1>3. Exercised' /\ InOrderSoFar'
  BY <1>1 DEF SmokeInv, Exercised, InOrderSoFar, own, Copied, Found, Noise
<1>4. PassMeansExercised' /\ GoodJarPasses'
  BY <1>1 DEF SmokeInv, PassMeansExercised, GoodJarPasses
<1> QED
  BY <1>2, <1>3, <1>4 DEF SmokeInv

LEMMA NextKeeps == ASSUME SmokeInv, [Next]_vars PROVE SmokeInv'
<1>1. CASE Invoke
  BY <1>1, InvokeKeeps
<1>2. CASE Script
  <2>1. CASE Exercise
    BY <2>1, ServerInfoKeeps, RegisteredKeeps, FreshRealmKeeps, CheckProviderKeeps, ExitCodeKeeps
       DEF Exercise, ExerciseStep
  <2> QED
    BY <1>2, <2>1, FetchKeeps, UnpackKeeps, PrepareKeeps, StartKeeps, PollKeeps, NotReadyKeeps,
       StopKeeps, EvaluateKeeps DEF Script
<1>3. CASE Answer \/ Disturb
  BY <1>3, AnswerKeeps, DisturbKeeps
<1>4. CASE Kill
  BY <1>4, KillKeeps
<1>5. CASE \E s \in Slots : Bind(s) \/ Die(s)
  BY <1>5, BindKeeps, DieKeeps
<1>6. CASE UNCHANGED vars
  BY <1>6, UnchangedKeeps
<1> QED
  BY <1>1, <1>2, <1>3, <1>4, <1>5, <1>6 DEF Next

-----------------------------------------------------------------------------
(***************************************************************************)
(* The theorems.                                                           *)
(***************************************************************************)

\* The invariant, of every invocation and whatever servers do meanwhile.
THEOREM SmokeHolds == Spec => []SmokeInv
<1>1. Init => SmokeInv
  BY InitHolds
<1>2. SmokeInv /\ [Next]_vars => SmokeInv'
  BY NextKeeps
<1> QED
  BY <1>1, <1>2, PTL DEF Spec

\* PASS and WARN are about this jar: smoke_exercise.py has found each expected
\* provider of it to work, and smoke-test.sh has looked at its log.
THEOREM VerdictIsEarned == Spec => []PassMeansExercised
<1>1. SmokeInv => PassMeansExercised
  BY DEF SmokeInv
<1> QED
  BY <1>1, SmokeHolds, PTL

\* A jar in order passes if nothing else goes wrong: no check of
\* smoke_exercise.py stands in the way of a later one.
THEOREM OrderIsRewarded == Spec => []GoodJarPasses
<1>1. SmokeInv => GoodJarPasses
  BY DEF SmokeInv
<1> QED
  BY <1>1, SmokeHolds, PTL

\* stop_kc has run however smoke-test.sh ends by itself.
THEOREM ServerIsStopped == Spec => []NothingLeftRunning
<1>1. SmokeInv => NothingLeftRunning
  BY DEF SmokeInv, OwnServer, NothingLeftRunning
<1> QED
  BY <1>1, SmokeHolds, PTL

=============================================================================

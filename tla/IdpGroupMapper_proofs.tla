------------------------ MODULE IdpGroupMapper_proofs ------------------------
(***************************************************************************)
(* Theorems about the group mapper for every set of users, logins, names,  *)
(* mapper configurations and claims.                                       *)
(***************************************************************************)
EXTENDS IdpGroupMapper, SequenceTheorems, TLAPS

-----------------------------------------------------------------------------
(***************************************************************************)
(* Group paths, for every set of names.                                    *)
(***************************************************************************)

\* Putting a path below a prefix gives a path (the target prefix).
LEMMA PrefixedIsPath ==
  ASSUME NEW t \in Seq(Names), NEW p \in Path
  PROVE  t \o p \in Path
<1>1. t \o p \in Seq(Names)
  BY ConcatProperties DEF Path
<1>2. t \o p # << >>
  BY ConcatEqualIffEmpty DEF Path
<1> QED
  BY <1>1, <1>2 DEF Path

\* The tail of a path walked below an anchor gives a path.
LEMMA WalkedIsPath ==
  ASSUME NEW a \in Path, NEW p \in Path
  PROVE  a \o Tail(p) \in Path
<1>1. Tail(p) \in Seq(Names)
  BY HeadTailProperties DEF Path
<1>2. a \o Tail(p) \in Seq(Names)
  BY <1>1, ConcatProperties DEF Path
<1>3. a \o Tail(p) # << >>
  BY <1>1, ConcatEqualIffEmpty DEF Path
<1> QED
  BY <1>2, <1>3 DEF Path

\* Walking a path from the root group of its first segment reaches that path.
LEMMA RootWalk ==
  ASSUME NEW p \in Path
  PROVE  /\ <<Head(p)>> \in Path
         /\ <<Head(p)>> \o Tail(p) = p
<1>1. /\ Head(p) \in Names
      /\ Tail(p) \in Seq(Names)
      /\ Len(Tail(p)) = Len(p) - 1
      /\ \A i \in 1..Len(Tail(p)) : Tail(p)[i] = p[i + 1]
      /\ Len(p) \in Nat \ {0}
      /\ Head(p) = p[1]
  BY HeadTailProperties, EmptySeq DEF Path
<1>2. /\ <<Head(p)>> \in Seq(Names)
      /\ Len(<<Head(p)>>) = 1
      /\ <<Head(p)>> # << >>
      /\ <<Head(p)>>[1] = Head(p)
  BY <1>1
<1> DEFINE w == <<Head(p)>> \o Tail(p)
<1>3. /\ w \in Seq(Names)
      /\ Len(w) = Len(p)
      /\ \A i \in 1..Len(p) : w[i] = IF i <= 1 THEN Head(p) ELSE Tail(p)[i - 1]
  BY <1>1, <1>2, ConcatProperties
<1>4. \A i \in 1..Len(p) : w[i] = p[i]
  <2> SUFFICES ASSUME NEW i \in 1..Len(p) PROVE w[i] = p[i]
    OBVIOUS
  <2>1. CASE i = 1
    BY <2>1, <1>1, <1>3
  <2>2. CASE i # 1
    <3>1. i - 1 \in 1..Len(Tail(p)) /\ (i - 1) + 1 = i
      BY <2>2, <1>1
    <3>2. w[i] = Tail(p)[i - 1]
      BY <2>2, <1>1, <1>3
    <3> QED
      BY <1>1, <3>1, <3>2
  <2> QED
    BY <2>1, <2>2
<1>5. w = p
  BY <1>3, <1>4, SeqEqual DEF Path
<1> QED
  BY <1>2, <1>5 DEF Path

\* The groups above a path are exactly its non-empty initial parts.
LEMMA Ancestors ==
  ASSUME NEW p \in Path
  PROVE  /\ SelfAndAncestors(p) = {SubSeq(p, 1, n) : n \in 1..Len(p)}
         /\ SelfAndAncestors(p) \subseteq Path
         /\ p \in SelfAndAncestors(p)
<1>1. Len(p) \in Nat /\ Len(p) >= 1 /\ p \in Seq(Names)
  BY EmptySeq DEF Path
<1>2. ASSUME NEW n \in 0..Len(p)
      PROVE  /\ SubSeq(p, 1, n) \in Seq(Names)
             /\ Len(SubSeq(p, 1, n)) = n
  <2>1. \A i \in 1..n : p[i] \in Names
    BY <1>1, ElementOfSeq
  <2> QED
    BY <1>1, <2>1, SubSeqProperties
<1>3. \A n \in 0..Len(p) : SubSeq(p, 1, n) = << >> <=> n = 0
  BY <1>2, EmptySeq
<1>4. SelfAndAncestors(p) = {SubSeq(p, 1, n) : n \in 1..Len(p)}
  BY <1>1, <1>3 DEF SelfAndAncestors, Prefixes
<1>5. SelfAndAncestors(p) \subseteq Path
  BY <1>1, <1>2, <1>3, <1>4 DEF Path
<1>6. p \in SelfAndAncestors(p)
  BY <1>1, <1>4, SubSeqFull
<1> QED
  BY <1>4, <1>5, <1>6

\* The top-level group of a path is above it.
LEMMA RootIsAncestor ==
  ASSUME NEW p \in Path
  PROVE  <<Head(p)>> \in SelfAndAncestors(p)
<1>1. /\ p \in Seq(Names) /\ Len(p) \in Nat /\ Len(p) >= 1
      /\ Head(p) = p[1] /\ p[1] \in Names
  BY EmptySeq, HeadTailProperties DEF Path
<1>2. /\ SubSeq(p, 1, 1) \in Seq(Names)
      /\ Len(SubSeq(p, 1, 1)) = 1
      /\ SubSeq(p, 1, 1)[1] = p[1]
  <2>1. \A i \in 1..1 : p[i] \in Names
    BY <1>1
  <2>2. /\ SubSeq(p, 1, 1) \in Seq(Names)
        /\ Len(SubSeq(p, 1, 1)) = (IF 1 <= 1 THEN 1 - 1 + 1 ELSE 0)
        /\ \A i \in 1..(1 - 1 + 1) : SubSeq(p, 1, 1)[i] = p[1 + i - 1]
    BY <1>1, <2>1, SubSeqProperties
  <2> QED
    BY <2>2
<1>3. SubSeq(p, 1, 1) = <<Head(p)>>
  <2>1. <<p[1]>> \in Seq(Names) /\ Len(<<p[1]>>) = 1 /\ <<p[1]>>[1] = p[1]
    BY <1>1
  <2>2. \A i \in 1..Len(SubSeq(p, 1, 1)) : SubSeq(p, 1, 1)[i] = <<p[1]>>[i]
    BY <1>2, <2>1
  <2>3. SubSeq(p, 1, 1) = <<p[1]>>
    BY <1>2, <2>1, <2>2, SeqEqual
  <2> QED
    BY <1>1, <2>3
<1>4. 1 \in 1..Len(p)
  BY <1>1
<1>5. SelfAndAncestors(p) = {SubSeq(p, 1, n) : n \in 1..Len(p)}
  BY Ancestors
<1> QED
  BY <1>3, <1>4, <1>5

\* What is above an ancestor of a path is above the path.
LEMMA AncestorsOfAncestor ==
  ASSUME NEW p \in Path, NEW q \in SelfAndAncestors(p)
  PROVE  SelfAndAncestors(q) \subseteq SelfAndAncestors(p)
<1>1. PICK n \in 1..Len(p) : q = SubSeq(p, 1, n)
  BY Ancestors
<1>2. q \in Path
  BY Ancestors
<1>3. Len(p) \in Nat /\ p \in Seq(Names)
  BY EmptySeq DEF Path
<1>4. Len(q) = n
  <2>1. \A i \in 1..n : p[i] \in Names
    BY <1>3, ElementOfSeq
  <2> QED
    BY <1>1, <1>3, <2>1, SubSeqProperties
<1>5. ASSUME NEW k \in 1..n
      PROVE  SubSeq(q, 1, k) = SubSeq(p, 1, k)
  <2>1. /\ 1 \in 1..Len(p) /\ n \in 1..Len(p)
        /\ 1 \in 1..(n - 1 + 1) /\ k \in 1..(n - 1 + 1)
    BY <1>3
  <2>2. SubSeq(SubSeq(p, 1, n), 1, k) = SubSeq(p, 1 + 1 - 1, 1 + k - 1)
    BY <1>3, <2>1, SubSeqOfSubSeq
  <2> QED
    BY <1>1, <2>2
<1>6. SelfAndAncestors(q) = {SubSeq(q, 1, k) : k \in 1..n}
  BY <1>2, <1>4, Ancestors
<1> QED
  BY <1>3, <1>5, <1>6, Ancestors

\* A prefix covers whatever is put below it: the target prefix scopes removal.
LEMMA PrefixMatches ==
  ASSUME NEW t \in Seq(Names), NEW p \in Seq(Names)
  PROVE  Matches(t \o p, t)
<1>1. /\ t \o p \in Seq(Names)
      /\ Len(t \o p) = Len(t) + Len(p)
      /\ Len(t) \in Nat /\ Len(p) \in Nat
      /\ \A i \in 1..Len(t) + Len(p) : (t \o p)[i] = IF i <= Len(t) THEN t[i] ELSE p[i - Len(t)]
  BY ConcatProperties
<1>2. SubSeq(t, 1, Len(t)) = t
  BY SubSeqFull
<1> DEFINE s == SubSeq(t \o p, 1, Len(t))
<1>3. /\ s \in Seq(Names)
      /\ Len(s) = Len(t)
      /\ \A i \in 1..Len(t) : s[i] = t[i]
  <2>1. \A i \in 1..Len(t) : (t \o p)[i] \in Names
    BY <1>1, ElementOfSeq
  <2>2. /\ s \in Seq(Names)
        /\ Len(s) = (IF 1 <= Len(t) THEN Len(t) - 1 + 1 ELSE 0)
        /\ \A i \in 1..(Len(t) - 1 + 1) : s[i] = (t \o p)[1 + i - 1]
    BY <1>1, <2>1, SubSeqProperties
  <2> QED
    BY <1>1, <2>2
<1>4. s = t
  BY <1>3, SeqEqual
<1> QED
  BY <1>1, <1>2, <1>4 DEF Matches, IsPrefix

\* A path covers itself.
LEMMA MatchesItself ==
  ASSUME NEW p \in Seq(Names)
  PROVE  Matches(p, p)
<1>1. << >> \in Seq(Names) /\ p \o << >> = p
  BY ConcatEmptySeq
<1> QED
  BY <1>1, PrefixMatches

-----------------------------------------------------------------------------
(***************************************************************************)
(* Type correctness.                                                       *)
(***************************************************************************)

\* A sync in flight is a Sync record.
LEMMA ActiveIsSync ==
  ASSUME TypeOK, NEW l \in Logins, Active(l)
  PROVE  tx[l] \in Sync
BY DEF TypeOK, Active, Ended

\* The paths of a claim below the target prefix are paths.
LEMMA ClaimedArePaths ==
  ASSUME NEW m \in Mappers, NEW claim \in Claims
  PROVE  ClaimedFull(m, claim) \in SUBSET Path
<1>1. m.targetPrefix \in Seq(Names)
  BY ConfigAssumption DEF MapperConfig
<1>2. \A p \in claim : p \in Path
  BY ConfigAssumption
<1>3. \A p \in claim : m.targetPrefix \o p \in Path
  BY <1>1, <1>2, PrefixedIsPath
<1> QED
  BY <1>3 DEF ClaimedFull

\* Resolving a claimed path yields paths only.
LEMMA ResolvedArePaths ==
  ASSUME TypeOK, NEW l \in Logins, tx[l] \in Sync, NEW p \in Path,
         NEW anchor \in Anchors(l, p)
  PROVE  /\ anchor \in Path
         /\ Walk(anchor, p) \in Path
         /\ MissingOnWalk(l, Walk(anchor, p)) \in SUBSET Path
<1>1. VisibleGroups(l) \subseteq Path
  BY DEF TypeOK, Sync, VisibleGroups
<1>2. TopLevelCandidates(l, Head(p)) \subseteq Path
  BY <1>1 DEF TopLevelCandidates, Sync
<1>3. anchor \in Path
  BY <1>2, RootWalk DEF Anchors
<1>4. Walk(anchor, p) \in Path
  BY <1>3, WalkedIsPath DEF Walk
<1> QED
  BY <1>3, <1>4, Ancestors DEF MissingOnWalk

\* Only the sync of login l changes, and it stays a Sync.
LEMMA SyncUpdate ==
  ASSUME TypeOK, NEW l \in Logins, NEW s \in Sync \cup Ended,
         tx' = [tx EXCEPT ![l] = s],
         UNCHANGED <<groups, adminGroups, members, disturbed, settled>>
  PROVE  TypeOK'
BY DEF TypeOK

LEMMA TypeBegin ==
  ASSUME TypeOK, NEW l \in Logins, NEW u \in Users, NEW m \in Mappers,
         NEW claim \in Claims, Begin(l, u, m, claim)
  PROVE  TypeOK'
<1> DEFINE full == ClaimedFull(m, claim)
<1> DEFINE s == [pc |-> "add", user |-> u, mapper |-> m,
                 claimed |-> full, todo |-> full, anchors |-> {},
                 created |-> {}, allowed |-> {}, joined |-> {}, left |-> {},
                 skipped |-> {}, notFound |-> {}]
<1>1. full \in SUBSET Path
  BY ClaimedArePaths
<1>2. s \in Sync
  BY <1>1 DEF Sync
<1>3. tx' = [tx EXCEPT ![l] = s]
  BY DEF Begin
<1> QED
  BY <1>2, <1>3, SyncUpdate DEF Begin

\* What a step of the adding loop does to its own sync: path p is handled, the
\* groups C are created, J allowed to be joined, K skipped, N not found.
Advance(l, p, A, C, J, K, N) ==
  /\ tx'[l] \in Sync
  /\ tx'[l].pc = IF J = {} THEN "add" ELSE "join"
  /\ tx'[l].user = tx[l].user
  /\ tx'[l].mapper = tx[l].mapper
  /\ tx'[l].claimed = tx[l].claimed
  /\ tx'[l].todo = tx[l].todo \ {p}
  /\ tx'[l].anchors = tx[l].anchors \cup A
  /\ tx'[l].created = tx[l].created \cup C
  /\ tx'[l].allowed = IF J = {} THEN tx[l].allowed ELSE J
  /\ tx'[l].joined = tx[l].joined
  /\ tx'[l].left = tx[l].left
  /\ tx'[l].skipped = tx[l].skipped \cup K
  /\ tx'[l].notFound = tx[l].notFound \cup N

\* How the path ended up: reported, or resolved to a group that is held,
\* skipped or may be joined.
Reported(l, p, A, C, J, K, N) ==
  /\ ~tx[l].mapper.createMissing
  /\ A \subseteq Anchors(l, p)
  /\ C = {} /\ J = {} /\ K = {} /\ N = {p}
  /\ \/ Anchors(l, p) = {}
     \/ \E anchor \in Anchors(l, p) : MissingOnWalk(l, Walk(anchor, p)) # {}

Reached(l, p, A, C, J, K, N) ==
  \E anchor \in Anchors(l, p) :
    /\ A = {anchor}
    /\ C = MissingOnWalk(l, Walk(anchor, p))
    /\ C # {} => tx[l].mapper.createMissing
    /\ N = {}
    /\ \/ IsMemberOf(l, Walk(anchor, p)) /\ J = {} /\ K = {}
       \/ /\ ~IsAdminGroupJoinAllowed(l, Walk(anchor, p))
          /\ J = {} /\ K = {p}
       \/ /\ ~IsMemberOf(l, Walk(anchor, p))
          /\ IsAdminGroupJoinAllowed(l, Walk(anchor, p))
          /\ J = {Walk(anchor, p)} /\ K = {}

\* One sync moves on, the others stay as they are.
LEMMA OneSyncMoves ==
  ASSUME TypeOK, NEW l \in Logins, NEW s, tx' = [tx EXCEPT ![l] = s], tx'[l] \in Sync
  PROVE  /\ tx' \in [Logins -> Sync \cup Ended]
         /\ \A k \in Logins \ {l} : tx'[k] = tx[k]
BY DEF TypeOK

\* Every step of the adding loop is such an advance of one claimed path.
LEMMA AddAdvances ==
  ASSUME TypeOK, NEW l \in Logins, tx[l].pc = "add", Add(l)
  PROVE  /\ tx[l] \in Sync
         /\ \A k \in Logins \ {l} : tx'[k] = tx[k]
         /\ tx' \in [Logins -> Sync \cup Ended]
         /\ UNCHANGED <<groups, adminGroups, members, disturbed, settled>>
         /\ \E p \in tx[l].todo : \E A, C, J, K, N \in SUBSET Path :
              /\ Advance(l, p, A, C, J, K, N)
              /\ Reported(l, p, A, C, J, K, N) \/ Reached(l, p, A, C, J, K, N)
<1>1. tx[l] \in Sync /\ tx \in [Logins -> Sync \cup Ended]
  BY ActiveIsSync DEF Active, TypeOK
<1>2. PICK p \in tx[l].todo :
        AddNotFound(l, p) \/ AddHeld(l, p) \/ AddSkipped(l, p) \/ AddAllowed(l, p)
  BY DEF Add
<1>3. p \in Path
  BY <1>1 DEF Sync
<1>4. CASE AddNotFound(l, p)
  <2> DEFINE s == [tx[l] EXCEPT !.todo = @ \ {p}, !.notFound = @ \cup {p}]
  <2>1. CASE Anchors(l, p) = {} /\ tx' = [tx EXCEPT ![l] = s]
    <3>1. Advance(l, p, {}, {}, {}, {}, {p})
      BY <1>1, <1>3, <2>1 DEF Advance, Sync
    <3>2. Reported(l, p, {}, {}, {}, {}, {p})
      BY <2>1 DEF Reported, Anchors
    <3>3. tx' \in [Logins -> Sync \cup Ended] /\ \A k \in Logins \ {l} : tx'[k] = tx[k]
      BY <2>1, <3>1, OneSyncMoves DEF Advance
    <3> QED
      BY <1>1, <1>2, <1>3, <1>4, <3>1, <3>2, <3>3 DEF AddNotFound
  <2>2. CASE \E anchor \in Anchors(l, p) :
               /\ ~Resolves(l, Walk(anchor, p))
               /\ tx' = [tx EXCEPT ![l] = [s EXCEPT !.anchors = @ \cup {anchor}]]
    <3>1. PICK anchor \in Anchors(l, p) :
            /\ ~Resolves(l, Walk(anchor, p))
            /\ tx' = [tx EXCEPT ![l] = [s EXCEPT !.anchors = @ \cup {anchor}]]
      BY <2>2
    <3>2. anchor \in Path
      BY <1>1, <1>3, ResolvedArePaths
    <3>3. Advance(l, p, {anchor}, {}, {}, {}, {p})
      BY <1>1, <1>3, <3>1, <3>2 DEF Advance, Sync
    <3>4. Reported(l, p, {anchor}, {}, {}, {}, {p})
      BY <3>1 DEF Reported, Resolves
    <3>5. tx' \in [Logins -> Sync \cup Ended] /\ \A k \in Logins \ {l} : tx'[k] = tx[k]
      BY <3>1, <3>3, OneSyncMoves DEF Advance
    <3> QED
      BY <1>1, <1>2, <1>3, <1>4, <3>2, <3>3, <3>4, <3>5 DEF AddNotFound
  <2> QED
    BY <1>4, <2>1, <2>2 DEF AddNotFound
<1>5. CASE AddHeld(l, p)
  <2>1. PICK anchor \in Anchors(l, p) :
          /\ Resolves(l, Walk(anchor, p))
          /\ IsMemberOf(l, Walk(anchor, p))
          /\ tx' = [tx EXCEPT ![l] = Resolved(l, p, anchor, Walk(anchor, p))]
    BY <1>5 DEF AddHeld
  <2> DEFINE C == MissingOnWalk(l, Walk(anchor, p))
  <2>2. anchor \in Path /\ C \in SUBSET Path
    BY <1>1, <1>3, ResolvedArePaths
  <2>3. Advance(l, p, {anchor}, C, {}, {}, {})
    BY <1>1, <1>3, <2>1, <2>2 DEF Advance, Sync, Resolved
  <2>4. Reached(l, p, {anchor}, C, {}, {}, {})
    BY <2>1 DEF Reached, Resolves
  <2>5. tx' \in [Logins -> Sync \cup Ended] /\ \A k \in Logins \ {l} : tx'[k] = tx[k]
    BY <2>1, <2>3, OneSyncMoves DEF Advance
  <2> QED
    BY <1>1, <1>2, <1>3, <1>5, <2>2, <2>3, <2>4, <2>5 DEF AddHeld
<1>6. CASE AddSkipped(l, p)
  <2>1. PICK anchor \in Anchors(l, p) :
          /\ Resolves(l, Walk(anchor, p))
          /\ ~IsAdminGroupJoinAllowed(l, Walk(anchor, p))
          /\ tx' = [tx EXCEPT ![l] =
               [Resolved(l, p, anchor, Walk(anchor, p)) EXCEPT !.skipped = @ \cup {p}]]
    BY <1>6 DEF AddSkipped
  <2> DEFINE C == MissingOnWalk(l, Walk(anchor, p))
  <2>2. anchor \in Path /\ C \in SUBSET Path
    BY <1>1, <1>3, ResolvedArePaths
  <2>3. Advance(l, p, {anchor}, C, {}, {p}, {})
    BY <1>1, <1>3, <2>1, <2>2 DEF Advance, Sync, Resolved
  <2>4. Reached(l, p, {anchor}, C, {}, {p}, {})
    BY <2>1 DEF Reached, Resolves
  <2>5. tx' \in [Logins -> Sync \cup Ended] /\ \A k \in Logins \ {l} : tx'[k] = tx[k]
    BY <2>1, <2>3, OneSyncMoves DEF Advance
  <2> QED
    BY <1>1, <1>2, <1>3, <1>6, <2>2, <2>3, <2>4, <2>5 DEF AddSkipped
<1>7. CASE AddAllowed(l, p)
  <2>1. PICK anchor \in Anchors(l, p) :
          /\ Resolves(l, Walk(anchor, p))
          /\ ~IsMemberOf(l, Walk(anchor, p))
          /\ IsAdminGroupJoinAllowed(l, Walk(anchor, p))
          /\ tx' = [tx EXCEPT ![l] =
               [Resolved(l, p, anchor, Walk(anchor, p)) EXCEPT
                  !.pc = "join", !.allowed = {Walk(anchor, p)}]]
    BY <1>7 DEF AddAllowed, MayJoin
  <2> DEFINE g == Walk(anchor, p)
             C == MissingOnWalk(l, g)
  <2>2. anchor \in Path /\ g \in Path /\ C \in SUBSET Path
    BY <1>1, <1>3, ResolvedArePaths
  <2>3. Advance(l, p, {anchor}, C, {g}, {}, {})
    BY <1>1, <1>3, <2>1, <2>2 DEF Advance, Sync, Resolved
  <2>4. Reached(l, p, {anchor}, C, {g}, {}, {})
    BY <2>1 DEF Reached, Resolves
  <2>5. tx' \in [Logins -> Sync \cup Ended] /\ \A k \in Logins \ {l} : tx'[k] = tx[k]
    BY <2>1, <2>3, OneSyncMoves DEF Advance
  <2> QED
    BY <1>1, <1>2, <1>3, <1>7, <2>2, <2>3, <2>4, <2>5 DEF AddAllowed
<1> QED
  BY <1>2, <1>4, <1>5, <1>6, <1>7

\* Joining only moves the group that has been allowed to those joined.
LEMMA JoinAdvances ==
  ASSUME TypeOK, NEW l \in Logins, JoinAllowed(l)
  PROVE  /\ tx[l] \in Sync /\ tx[l].pc = "join"
         /\ \E s \in Sync : tx' = [tx EXCEPT ![l] = s]
         /\ tx'[l] \in Sync
         /\ tx'[l].pc = "add" /\ tx'[l].allowed = {}
         /\ tx'[l].joined = tx[l].joined \cup tx[l].allowed
         /\ tx'[l].user = tx[l].user /\ tx'[l].mapper = tx[l].mapper
         /\ tx'[l].claimed = tx[l].claimed /\ tx'[l].todo = tx[l].todo
         /\ tx'[l].anchors = tx[l].anchors /\ tx'[l].created = tx[l].created
         /\ tx'[l].left = tx[l].left /\ tx'[l].skipped = tx[l].skipped
         /\ tx'[l].notFound = tx[l].notFound
         /\ \A k \in Logins \ {l} : tx'[k] = tx[k]
         /\ UNCHANGED <<groups, adminGroups, members, disturbed, settled>>
<1> DEFINE s == [tx[l] EXCEPT !.pc = "add", !.joined = tx[l].joined \cup tx[l].allowed, !.allowed = {}]
<1>1. tx[l] \in Sync
  BY ActiveIsSync DEF Active, JoinAllowed
<1>2. /\ s \in Sync
      /\ s.pc = "add" /\ s.allowed = {} /\ s.joined = tx[l].joined \cup tx[l].allowed
      /\ s.user = tx[l].user /\ s.mapper = tx[l].mapper
      /\ s.claimed = tx[l].claimed /\ s.todo = tx[l].todo
      /\ s.anchors = tx[l].anchors /\ s.created = tx[l].created
      /\ s.left = tx[l].left /\ s.skipped = tx[l].skipped /\ s.notFound = tx[l].notFound
  BY <1>1 DEF Sync
<1>3. tx' = [tx EXCEPT ![l] = s]
  BY DEF JoinAllowed
<1>4. tx[l].pc = "join" /\ UNCHANGED <<groups, adminGroups, members, disturbed, settled>>
  BY DEF JoinAllowed
<1> HIDE DEF s
<1>5. tx'[l] = s /\ \A k \in Logins \ {l} : tx'[k] = tx[k]
  BY <1>3 DEF TypeOK
<1> QED
  BY <1>1, <1>2, <1>3, <1>4, <1>5

\* Leaving the adding loop only fills the list of memberships to end.
LEMMA LeaveAdvances ==
  ASSUME TypeOK, NEW l \in Logins, LeaveNotListed(l)
  PROVE  /\ tx[l] \in Sync
         /\ tx[l].pc = "add" /\ tx[l].todo = {}
         /\ tx' = [tx EXCEPT ![l] = [tx[l] EXCEPT !.pc = "commit", !.left = NotListed(l)]]
         /\ tx'[l] \in Sync
         /\ UNCHANGED <<groups, adminGroups, members, disturbed, settled>>
<1>1. tx[l] \in Sync
  BY ActiveIsSync DEF Active, LeaveNotListed
<1>2. Memberships(l) \subseteq Path
  BY <1>1 DEF Memberships, TypeOK, Sync
<1>3. NotListed(l) \in SUBSET Path
  BY <1>2 DEF NotListed
<1> QED
  BY <1>1, <1>3 DEF LeaveNotListed, TypeOK, Sync

LEMMA TypeCommit ==
  ASSUME TypeOK, NEW l \in Logins, Commit(l)
  PROVE  TypeOK'
<1>1. tx[l] \in Sync
  BY ActiveIsSync DEF Active, Commit
<1>2. groups' \subseteq Path
  BY <1>1 DEF Commit, TypeOK, Sync
<1>3. members' \in [Users -> SUBSET Path]
  <2>1. Memberships(l) \in SUBSET Path
    BY <1>1 DEF Memberships, TypeOK, Sync
  <2> QED
    BY <1>1, <2>1 DEF Commit, TypeOK
<1>4. tx' \in [Logins -> Sync \cup Ended]
  BY DEF Commit, TypeOK, Ended
<1>5. disturbed' \subseteq Logins
  BY DEF Commit, TypeOK, OverlappingSyncs
<1>6. settled' \in [Users -> SUBSET (Mappers \X SUBSET Path)]
  <2>1. <<tx[l].mapper, tx[l].claimed>> \in Mappers \X SUBSET Path
    BY <1>1 DEF Sync
  <2> DEFINE new == IF l \notin disturbed /\ Accomplished(l)
                    THEN {<<tx[l].mapper, tx[l].claimed>>} ELSE {}
  <2>2. new \in SUBSET (Mappers \X SUBSET Path)
    BY <2>1
  <2>3. settled' = [settled EXCEPT ![tx[l].user] = new]
    BY DEF Commit
  <2> QED
    BY <2>2, <2>3 DEF TypeOK
<1> QED
  BY <1>2, <1>3, <1>4, <1>5, <1>6 DEF Commit, TypeOK

LEMMA TypeAdmin ==
  ASSUME TypeOK, Admin
  PROVE  TypeOK'
<1>1. PICK g \in AdminPaths :
        \/ AdminCreateGroup(g)
        \/ AdminToggleRole(g)
        \/ \E u \in Users : AdminToggleMembership(u, g)
  BY DEF Admin
<1>2. g \in Path
  BY ConfigAssumption
<1>3. CASE AdminCreateGroup(g)
  BY <1>2, <1>3 DEF AdminCreateGroup, TypeOK
<1>4. CASE AdminToggleRole(g)
  BY <1>2, <1>4 DEF AdminToggleRole, TypeOK, AllSyncs, Unsettled
<1>5. CASE \E u \in Users : AdminToggleMembership(u, g)
  <2>1. PICK u \in Users : AdminToggleMembership(u, g)
    BY <1>5
  <2>2. members' \in [Users -> SUBSET Path]
    BY <1>2, <2>1 DEF AdminToggleMembership, TypeOK
  <2> QED
    BY <2>1, <2>2 DEF AdminToggleMembership, TypeOK, SyncsOf
<1> QED
  BY <1>1, <1>3, <1>4, <1>5

\* The variables keep their types in every behaviour (see IdpGroupMapper!TypeOK).
THEOREM TypeCorrect == Spec => []TypeOK
<1>1. Init => TypeOK
  BY ConfigAssumption DEF Init, TypeOK, Ended
<1>2. TypeOK /\ [Next]_vars => TypeOK'
  <2> SUFFICES ASSUME TypeOK, [Next]_vars PROVE TypeOK'
    OBVIOUS
  <2>1. CASE Admin
    BY <2>1, TypeAdmin
  <2>2. CASE UNCHANGED vars
    BY <2>2 DEF vars, TypeOK
  <2>3. CASE Login
    <3>1. PICK l \in Logins :
            \/ \E u \in Users, m \in Mappers, claim \in Claims : Begin(l, u, m, claim)
            \/ Proceed(l)
      BY <2>3 DEF Login
    <3>2. CASE \E u \in Users, m \in Mappers, claim \in Claims : Begin(l, u, m, claim)
      BY <3>2, TypeBegin
    <3>3. CASE tx[l].pc = "add" /\ Add(l)
      BY <3>3, AddAdvances DEF TypeOK, Advance
    <3>7. CASE JoinAllowed(l)
      BY <3>7, JoinAdvances, SyncUpdate
    <3>4. CASE LeaveNotListed(l)
      <4> DEFINE s == [tx[l] EXCEPT !.pc = "commit", !.left = NotListed(l)]
      <4>1. tx' = [tx EXCEPT ![l] = s] /\ tx'[l] \in Sync
        BY <3>4, LeaveAdvances
      <4>2. UNCHANGED <<groups, adminGroups, members, disturbed, settled>>
        BY <3>4, LeaveAdvances
      <4> HIDE DEF s
      <4>3. s \in Sync
        BY <4>1 DEF TypeOK
      <4> QED
        BY <4>1, <4>2, <4>3, SyncUpdate
    <3>5. CASE Commit(l)
      BY <3>5, TypeCommit
    <3>6. CASE Fail(l)
      BY <3>6 DEF Fail, TypeOK, Ended
    <3> QED
      BY <3>1, <3>2, <3>3, <3>4, <3>5, <3>6, <3>7 DEF Proceed
  <2> QED
    BY <2>1, <2>2, <2>3 DEF Next
<1> QED
  BY <1>1, <1>2, PTL DEF Spec

-----------------------------------------------------------------------------
(***************************************************************************)
(* The inductive invariant ScopeInv.                                       *)
(***************************************************************************)

\* Looked up from the realm root, a claimed path resolves to itself.
LEMMA RootAnchor ==
  ASSUME TypeOK, NEW l \in Logins, tx[l] \in Sync, RootOnly(tx[l].mapper),
         \A a \in tx[l].anchors : a = <<Last(a)>>,
         NEW p \in Path, NEW anchor \in Anchors(l, p)
  PROVE  /\ anchor = <<Head(p)>>
         /\ anchor = <<Last(anchor)>>
         /\ Walk(anchor, p) = p
<1>1. anchor = <<Head(p)>>
  BY DEF Anchors, TopLevelCandidates
<1>2. Last(anchor) = Head(p)
  BY <1>1 DEF Last
<1> QED
  BY <1>1, <1>2, RootWalk DEF Walk

\* A sync that does not move keeps its invariant while groups are added.
LEMMA ScopeStable ==
  ASSUME NEW l \in Logins, SyncInScope(l), tx'[l] = tx[l], groups \subseteq groups'
  PROVE  SyncInScope(l)'
BY DEF SyncInScope, VisibleGroups, IsManaged

LEMMA ScopeBegin ==
  ASSUME TypeOK, NEW l \in Logins, NEW u \in Users, NEW m \in Mappers,
         NEW claim \in Claims, Begin(l, u, m, claim)
  PROVE  SyncInScope(l)'
BY DEF Begin, TypeOK, SyncInScope

LEMMA ScopeAdd ==
  ASSUME TypeOK, NEW l \in Logins, tx[l].pc = "add", Add(l), SyncInScope(l)
  PROVE  SyncInScope(l)'
<1>1. /\ tx[l] \in Sync
      /\ UNCHANGED groups
  BY AddAdvances
<1>2. PICK p \in tx[l].todo : \E A, C, J, K, N \in SUBSET Path :
         /\ Advance(l, p, A, C, J, K, N)
         /\ Reported(l, p, A, C, J, K, N) \/ Reached(l, p, A, C, J, K, N)
  BY AddAdvances
<1>3. PICK A, C, J, K, N \in SUBSET Path :
         /\ Advance(l, p, A, C, J, K, N)
         /\ Reported(l, p, A, C, J, K, N) \/ Reached(l, p, A, C, J, K, N)
  BY <1>2
<1>4. p \in Path /\ p \in tx[l].claimed
  BY <1>1 DEF Sync, SyncInScope
<1> DEFINE m == tx[l].mapper
           claimed == tx[l].claimed
<1>5. /\ tx'[l].mapper = m /\ tx'[l].claimed = claimed
      /\ tx'[l].todo \subseteq tx[l].todo
      /\ tx'[l].left = tx[l].left
      /\ tx'[l].anchors = tx[l].anchors \cup A
      /\ tx'[l].created = tx[l].created \cup C
      /\ tx'[l].joined = tx[l].joined
      /\ tx'[l].allowed \subseteq tx[l].allowed \cup J
      /\ VisibleGroups(l)' = VisibleGroups(l) \cup C
  BY <1>1, <1>3 DEF Advance, VisibleGroups
<1>6. /\ A \subseteq Anchors(l, p)
      /\ C # {} => m.createMissing
      /\ \A g \in J \cup C : \E anchor \in Anchors(l, p) :
           /\ g \in SelfAndAncestors(Walk(anchor, p))
           /\ SelfAndAncestors(Walk(anchor, p)) \subseteq VisibleGroups(l) \cup C
           /\ g \in J => g = Walk(anchor, p)
  <2>1. CASE Reported(l, p, A, C, J, K, N)
    BY <2>1 DEF Reported
  <2>2. CASE Reached(l, p, A, C, J, K, N)
    <3>1. PICK anchor \in Anchors(l, p) :
            /\ A = {anchor}
            /\ C = MissingOnWalk(l, Walk(anchor, p))
            /\ C # {} => m.createMissing
            /\ J \subseteq {Walk(anchor, p)}
      BY <2>2 DEF Reached
    <3>2. Walk(anchor, p) \in SelfAndAncestors(Walk(anchor, p))
      BY <1>1, <1>4, ResolvedArePaths, Ancestors
    <3> QED
      BY <3>1, <3>2 DEF MissingOnWalk
  <2> QED
    BY <1>3, <2>1, <2>2
<1>7. ASSUME NEW g \in J \cup C
      PROVE  SelfAndAncestors(g) \subseteq VisibleGroups(l)'
  <2>1. PICK anchor \in Anchors(l, p) :
          /\ g \in SelfAndAncestors(Walk(anchor, p))
          /\ SelfAndAncestors(Walk(anchor, p)) \subseteq VisibleGroups(l) \cup C
    BY <1>6
  <2>2. Walk(anchor, p) \in Path
    BY <1>1, <1>4, ResolvedArePaths
  <2> QED
    BY <1>5, <2>1, <2>2, AncestorsOfAncestor
<1>8. ASSUME RootOnly(m)
      PROVE  /\ \A a \in tx'[l].anchors : a = <<Last(a)>>
             /\ tx'[l].allowed \cup tx'[l].joined \subseteq claimed
             /\ \A g \in tx'[l].created : \E q \in claimed : g \in SelfAndAncestors(q)
  <2>1. /\ \A a \in tx[l].anchors : a = <<Last(a)>>
        /\ tx[l].allowed \cup tx[l].joined \subseteq claimed
        /\ \A g \in tx[l].created : \E q \in claimed : g \in SelfAndAncestors(q)
    BY <1>8 DEF SyncInScope
  <2>2. \A anchor \in Anchors(l, p) : anchor = <<Last(anchor)>> /\ Walk(anchor, p) = p
    BY <1>1, <1>4, <1>8, <2>1, RootAnchor
  <2> QED
    BY <1>4, <1>5, <1>6, <2>1, <2>2
<1>9. \A g \in tx'[l].created \cup tx'[l].allowed \cup tx'[l].joined :
         SelfAndAncestors(g) \subseteq VisibleGroups(l)'
  BY <1>5, <1>7 DEF SyncInScope
<1>10. tx'[l].created # {} => m.createMissing
  BY <1>5, <1>6 DEF SyncInScope
<1> QED
  BY <1>5, <1>8, <1>9, <1>10 DEF SyncInScope, IsManaged

LEMMA ScopeJoin ==
  ASSUME TypeOK, NEW l \in Logins, JoinAllowed(l), SyncInScope(l)
  PROVE  SyncInScope(l)'
<1>1. /\ tx'[l].allowed = {}
      /\ tx'[l].joined = tx[l].joined \cup tx[l].allowed
      /\ tx'[l].mapper = tx[l].mapper
      /\ tx'[l].claimed = tx[l].claimed /\ tx'[l].todo = tx[l].todo
      /\ tx'[l].anchors = tx[l].anchors /\ tx'[l].created = tx[l].created
      /\ tx'[l].left = tx[l].left
      /\ UNCHANGED groups
  BY JoinAdvances
<1> QED
  BY <1>1 DEF SyncInScope, VisibleGroups, IsManaged

LEMMA ScopeLeave ==
  ASSUME TypeOK, NEW l \in Logins, LeaveNotListed(l), SyncInScope(l)
  PROVE  SyncInScope(l)'
<1>1. /\ tx[l] \in Sync
      /\ tx' = [tx EXCEPT ![l] = [tx[l] EXCEPT !.pc = "commit", !.left = NotListed(l)]]
      /\ UNCHANGED groups
  BY LeaveAdvances
<1>2. tx'[l] = [tx[l] EXCEPT !.pc = "commit", !.left = NotListed(l)]
  BY <1>1 DEF TypeOK
<1>3. \A g \in NotListed(l) :
        /\ tx[l].mapper.removeNotListed
        /\ IsManaged(tx[l].mapper, g)
        /\ g \notin tx[l].claimed
  BY DEF NotListed
<1> QED
  BY <1>1, <1>2, <1>3 DEF SyncInScope, Sync, VisibleGroups, IsManaged

\* Committing keeps the tree: the parents of a created group are created with it.
LEMMA RealmCommit ==
  ASSUME TypeOK, RealmConsistent, NEW l \in Logins, Commit(l), SyncInScope(l)
  PROVE  RealmConsistent'
<1>1. tx[l] \in Sync
  BY ActiveIsSync DEF Active, Commit
<1>2. groups' = VisibleGroups(l)
  BY DEF Commit, VisibleGroups
<1>3. \A g \in groups' : SelfAndAncestors(g) \subseteq groups'
  BY <1>2 DEF RealmConsistent, SyncInScope, VisibleGroups
<1>4. tx[l].joined \subseteq groups'
  BY <1>1, <1>2, Ancestors DEF SyncInScope, Sync
<1>5. Memberships(l) \subseteq groups'
  BY <1>1, <1>2, <1>4 DEF Memberships, RealmConsistent, Sync, VisibleGroups
<1>6. \A u \in Users : members'[u] \subseteq groups'
  BY <1>1, <1>2, <1>5 DEF Commit, TypeOK, RealmConsistent, VisibleGroups
<1> QED
  BY <1>3, <1>6 DEF RealmConsistent

LEMMA RealmAdmin ==
  ASSUME TypeOK, RealmConsistent, Admin
  PROVE  RealmConsistent' /\ groups \subseteq groups' /\ UNCHANGED tx
<1>1. PICK g \in AdminPaths :
        \/ AdminCreateGroup(g)
        \/ AdminToggleRole(g)
        \/ \E u \in Users : AdminToggleMembership(u, g)
  BY DEF Admin
<1>2. CASE AdminCreateGroup(g)
  BY <1>2 DEF AdminCreateGroup, RealmConsistent
<1>3. CASE AdminToggleRole(g)
  BY <1>3 DEF AdminToggleRole, RealmConsistent
<1>4. CASE \E u \in Users : AdminToggleMembership(u, g)
  BY <1>4 DEF AdminToggleMembership, RealmConsistent, TypeOK
<1> QED
  BY <1>1, <1>2, <1>3, <1>4

LEMMA ScopeInit == Init => ScopeInv
<1> SUFFICES ASSUME Init PROVE ScopeInv
  OBVIOUS
<1>1. TypeOK
  BY ConfigAssumption DEF Init, TypeOK, Ended
<1>2. RealmConsistent
  BY ConfigAssumption DEF Init, RealmConsistent
<1>3. \A l \in Logins : ~Active(l)
  BY DEF Init, Active
<1> QED
  BY <1>1, <1>2, <1>3 DEF ScopeInv

\* One sync moves; the others and the realm keep the invariant.
LEMMA ScopeOfOthers ==
  ASSUME ScopeInv, NEW l \in Logins, groups \subseteq groups',
         \A k \in Logins \ {l} : tx'[k] = tx[k],
         Active(l)' => SyncInScope(l)'
  PROVE  \A k \in Logins : Active(k)' => SyncInScope(k)'
<1> SUFFICES ASSUME NEW k \in Logins \ {l}, Active(k)' PROVE SyncInScope(k)'
  OBVIOUS
<1>1. Active(k)
  BY DEF Active
<1> QED
  BY <1>1, ScopeStable DEF ScopeInv

LEMMA ScopeNext == ScopeInv /\ TypeOK' /\ [Next]_vars => ScopeInv'
<1> SUFFICES ASSUME ScopeInv, TypeOK', [Next]_vars PROVE ScopeInv'
  OBVIOUS
<1>0. TypeOK /\ RealmConsistent
  BY DEF ScopeInv
<1>1. CASE UNCHANGED vars
  <2>1. \A l \in Logins : Active(l)' => SyncInScope(l)'
    BY <1>1, ScopeStable DEF vars, ScopeInv, Active
  <2> QED
    BY <1>1, <2>1 DEF vars, ScopeInv, RealmConsistent
<1>2. CASE Admin
  <2>1. \A l \in Logins : Active(l)' => SyncInScope(l)'
    BY <1>0, <1>2, RealmAdmin, ScopeStable DEF ScopeInv, Active
  <2> QED
    BY <1>0, <1>2, <2>1, RealmAdmin DEF ScopeInv
<1>3. CASE Login
  <2>1. PICK l \in Logins :
          \/ \E u \in Users, m \in Mappers, claim \in Claims : Begin(l, u, m, claim)
          \/ Proceed(l)
    BY <1>3 DEF Login
  <2>2. CASE \E u \in Users, m \in Mappers, claim \in Claims : Begin(l, u, m, claim)
    <3>1. SyncInScope(l)'
      BY <1>0, <2>2, ScopeBegin
    <3>2. UNCHANGED <<groups, members>> /\ \A k \in Logins \ {l} : tx'[k] = tx[k]
      BY <1>0, <2>2 DEF Begin, TypeOK
    <3> QED
      BY <1>0, <3>1, <3>2, ScopeOfOthers DEF ScopeInv, RealmConsistent
  <2>3. CASE tx[l].pc = "add" /\ Add(l)
    <3>1. SyncInScope(l)'
      BY <1>0, <2>3, ScopeAdd DEF ScopeInv, Active
    <3>2. UNCHANGED <<groups, members>> /\ \A k \in Logins \ {l} : tx'[k] = tx[k]
      BY <1>0, <2>3, AddAdvances
    <3> QED
      BY <1>0, <3>1, <3>2, ScopeOfOthers DEF ScopeInv, RealmConsistent
  <2>7. CASE JoinAllowed(l)
    <3>1. SyncInScope(l)'
      BY <1>0, <2>7, ScopeJoin DEF ScopeInv, Active, JoinAllowed
    <3>2. UNCHANGED <<groups, members>> /\ \A k \in Logins \ {l} : tx'[k] = tx[k]
      BY <1>0, <2>7, JoinAdvances
    <3> QED
      BY <1>0, <3>1, <3>2, ScopeOfOthers DEF ScopeInv, RealmConsistent
  <2>4. CASE LeaveNotListed(l)
    <3>1. SyncInScope(l)'
      BY <1>0, <2>4, ScopeLeave DEF ScopeInv, Active, LeaveNotListed
    <3>2. UNCHANGED <<groups, members>> /\ \A k \in Logins \ {l} : tx'[k] = tx[k]
      BY <1>0, <2>4 DEF LeaveNotListed, TypeOK
    <3> QED
      BY <1>0, <3>1, <3>2, ScopeOfOthers DEF ScopeInv, RealmConsistent
  <2>5. CASE Commit(l)
    <3>1. SyncInScope(l)
      BY <2>5 DEF ScopeInv, Active, Commit
    <3>2. RealmConsistent'
      BY <1>0, <2>5, <3>1, RealmCommit
    <3>3. groups \subseteq groups' /\ ~Active(l)' /\ \A k \in Logins \ {l} : tx'[k] = tx[k]
      BY <1>0, <2>5 DEF Commit, TypeOK, Active
    <3> QED
      BY <1>0, <3>2, <3>3, ScopeOfOthers DEF ScopeInv
  <2>6. CASE Fail(l)
    <3>1. ~Active(l)' /\ UNCHANGED <<groups, members>> /\ \A k \in Logins \ {l} : tx'[k] = tx[k]
      BY <1>0, <2>6 DEF Fail, TypeOK, Active
    <3> QED
      BY <1>0, <3>1, ScopeOfOthers DEF ScopeInv, RealmConsistent
  <2> QED
    BY <2>1, <2>2, <2>3, <2>4, <2>5, <2>6, <2>7 DEF Proceed
<1> QED
  BY <1>1, <1>2, <1>3 DEF Next

\* Every sync stays in its scope and the realm stays a tree, in every behaviour.
THEOREM ScopeHolds == Spec => []ScopeInv
<1>1. ScopeInv /\ TypeOK' /\ [Next]_vars => ScopeInv'
  BY ScopeNext
<1> QED
  BY <1>1, ScopeInit, TypeCorrect, PTL DEF Spec

\* The realm's groups are a tree that holds all memberships, whatever the
\* logins and administrators do (the parents created on the way).
THEOREM RealmStaysConsistent == Spec => []RealmConsistent
BY ScopeHolds, PTL DEF ScopeInv

\* With lookups from the realm root no sync leaves a group it has just joined
\* (the removal loop of syncGroups against its adding loop).
THEOREM NeverJoinThenLeave == Spec => []NoJoinThenLeave
<1>1. ScopeInv => NoJoinThenLeave
  <2> SUFFICES ASSUME ScopeInv, NEW l \in Logins, Active(l), RootOnly(tx[l].mapper)
               PROVE  tx[l].joined \cap tx[l].left = {}
    BY DEF NoJoinThenLeave
  <2> QED
    BY DEF ScopeInv, SyncInScope
<1> QED
  BY <1>1, ScopeHolds, PTL

-----------------------------------------------------------------------------
(***************************************************************************)
(* What an undisturbed sync has achieved so far, and what the memberships  *)
(* of a user look like after a sync that left nothing to be done.          *)
(***************************************************************************)

\* With lookups from the realm root: a claimed path that is no longer to do was
\* not found, or its group exists and is an admin group, or the user is in it or
\* below it, or joins it next; and a sync that repeats the one that settled the
\* user does nothing.
RootSyncFaithful(l) ==
  LET s == tx[l] IN
  /\ \A p \in s.skipped : p \in s.claimed /\ ~IsAdminGroupJoinAllowed(l, p)
  /\ \A p \in s.claimed \ (s.todo \cup s.notFound) : p \in VisibleGroups(l)
  /\ \A p \in s.claimed \ (s.todo \cup s.notFound \cup s.skipped) :
       \E h \in members[s.user] \cup s.joined \cup s.allowed : Matches(h, p)
  /\ <<s.mapper, s.claimed>> \in settled[s.user] =>
       s.joined = {} /\ s.allowed = {} /\ s.left = {} /\ s.created = {} /\ s.notFound = {}

\* The same for any lookup: nothing is left before all is added, and after the
\* removal only claimed groups are managed.
SyncFaithful(l) ==
  LET s == tx[l] IN
  /\ s.pc \in {"add", "join"} => s.left = {}
  /\ s.pc # "join" => s.allowed = {}
  /\ s.pc = "commit" => s.todo = {}
  /\ l \notin disturbed =>
       /\ s.pc = "commit" /\ s.mapper.removeNotListed =>
            \A g \in Memberships(l) : IsManaged(s.mapper, g) => g \in s.claimed
       /\ RootOnly(s.mapper) => RootSyncFaithful(l)

\* What settles user u: mapper and claim for which there is nothing to do.
SettledRight(u) ==
  \A x \in settled[u] : RootOnly(x[1]) =>
    /\ x[2] \subseteq groups
    /\ \A p \in x[2] : p \in members[u] \/ (~x[1].allowAdmin /\ GrantsAdmin(p))
    /\ x[1].removeNotListed => \A g \in members[u] : IsManaged(x[1], g) => g \in x[2]

FaithInv ==
  /\ ScopeInv
  /\ \A l \in Logins : Active(l) => SyncFaithful(l)
  /\ \A u \in Users : SettledRight(u)

\* A group that exists is found, with all of its parents.
LEMMA ExistingIsFound ==
  ASSUME TypeOK, RealmConsistent, NEW l \in Logins, tx[l] \in Sync,
         RootOnly(tx[l].mapper), \A a \in tx[l].anchors : a = <<Last(a)>>,
         NEW p \in Path, p \in groups
  PROVE  /\ Anchors(l, p) # {}
         /\ \A anchor \in Anchors(l, p) :
              Walk(anchor, p) = p /\ MissingOnWalk(l, Walk(anchor, p)) = {}
<1>1. SelfAndAncestors(p) \subseteq VisibleGroups(l)
  BY DEF RealmConsistent, VisibleGroups
<1>2. <<Head(p)>> \in VisibleGroups(l)
  BY <1>1, RootIsAncestor
<1>3. Anchors(l, p) # {}
  BY <1>2 DEF Anchors, TopLevelCandidates
<1>4. \A anchor \in Anchors(l, p) : Walk(anchor, p) = p
  BY RootAnchor
<1> QED
  BY <1>1, <1>3, <1>4 DEF MissingOnWalk

\* A sync that does not move stays faithful as long as nobody changes roles or
\* its user's groups, or is marked when somebody does.
LEMMA FaithStable ==
  ASSUME NEW k \in Logins, SyncFaithful(k), tx'[k] = tx[k], groups \subseteq groups',
         k \notin disturbed' =>
           /\ k \notin disturbed
           /\ adminGroups' = adminGroups
           /\ members'[tx[k].user] = members[tx[k].user]
           /\ settled'[tx[k].user] = settled[tx[k].user]
  PROVE  SyncFaithful(k)'
<1> DEFINE s == tx[k]
<1>1. /\ s.pc \in {"add", "join"} => s.left = {}
      /\ s.pc # "join" => s.allowed = {}
      /\ s.pc = "commit" => s.todo = {}
  BY DEF SyncFaithful
<1>2. CASE k \in disturbed'
  BY <1>1, <1>2 DEF SyncFaithful
<1>3. CASE k \notin disturbed'
  <2>1. /\ k \notin disturbed
        /\ \A g : IsAdminGroupJoinAllowed(k, g)' <=> IsAdminGroupJoinAllowed(k, g)
        /\ Memberships(k)' = Memberships(k)
        /\ VisibleGroups(k) \subseteq VisibleGroups(k)'
        /\ members'[s.user] = members[s.user] /\ settled'[s.user] = settled[s.user]
    BY <1>3 DEF IsAdminGroupJoinAllowed, GrantsAdmin, Memberships, VisibleGroups
  <2>2. RootOnly(s.mapper) => RootSyncFaithful(k)'
    BY <2>1 DEF SyncFaithful, RootSyncFaithful
  <2> QED
    BY <1>1, <2>1, <2>2 DEF SyncFaithful, IsManaged
<1> QED
  BY <1>2, <1>3

\* What settles a user stays right while only groups are added.
LEMMA SettledStable ==
  ASSUME NEW u \in Users, SettledRight(u), groups \subseteq groups',
         adminGroups' = adminGroups, members'[u] = members[u], settled'[u] = settled[u]
  PROVE  SettledRight(u)'
<1>1. \A g : GrantsAdmin(g)' <=> GrantsAdmin(g)
  BY DEF GrantsAdmin
<1> QED
  BY <1>1 DEF SettledRight, IsManaged

LEMMA FaithBegin ==
  ASSUME TypeOK, NEW l \in Logins, NEW u \in Users, NEW m \in Mappers,
         NEW claim \in Claims, Begin(l, u, m, claim)
  PROVE  SyncFaithful(l)'
<1>1. /\ tx'[l].pc = "add" /\ tx'[l].todo = tx'[l].claimed
      /\ tx'[l].joined = {} /\ tx'[l].allowed = {} /\ tx'[l].left = {} /\ tx'[l].created = {}
      /\ tx'[l].skipped = {} /\ tx'[l].notFound = {}
  BY DEF Begin, TypeOK
<1> QED
  BY <1>1 DEF SyncFaithful, RootSyncFaithful

LEMMA FaithAdd ==
  ASSUME ScopeInv, NEW l \in Logins, tx[l].pc = "add", Add(l),
         SyncFaithful(l), SettledRight(tx[l].user)
  PROVE  SyncFaithful(l)'
<1> DEFINE m == tx[l].mapper
           u == tx[l].user
           claimed == tx[l].claimed
<1>1. /\ TypeOK /\ RealmConsistent /\ SyncInScope(l) /\ tx[l] \in Sync
      /\ UNCHANGED <<groups, adminGroups, members, disturbed, settled>>
  BY AddAdvances DEF ScopeInv, Active
<1>2. PICK p \in tx[l].todo : \E A, C, J, K, N \in SUBSET Path :
         /\ Advance(l, p, A, C, J, K, N)
         /\ Reported(l, p, A, C, J, K, N) \/ Reached(l, p, A, C, J, K, N)
  BY <1>1, AddAdvances
<1>3. PICK A, C, J, K, N \in SUBSET Path :
         /\ Advance(l, p, A, C, J, K, N)
         /\ Reported(l, p, A, C, J, K, N) \/ Reached(l, p, A, C, J, K, N)
  BY <1>2
<1>4. p \in Path /\ p \in claimed
  BY <1>1 DEF Sync, SyncInScope
<1>5. /\ tx'[l].pc = IF J = {} THEN "add" ELSE "join"
      /\ tx'[l].allowed = J /\ tx[l].allowed = {} /\ tx'[l].user = u
      /\ tx'[l].mapper = m /\ tx'[l].claimed = claimed
      /\ tx'[l].todo = tx[l].todo \ {p}
      /\ tx'[l].created = tx[l].created \cup C
      /\ tx'[l].joined = tx[l].joined
      /\ tx'[l].skipped = tx[l].skipped \cup K
      /\ tx'[l].notFound = tx[l].notFound \cup N
      /\ tx'[l].left = {} /\ tx[l].left = {}
  BY <1>3 DEF Advance, SyncFaithful
<1>6. /\ \A g : IsAdminGroupJoinAllowed(l, g)' <=> IsAdminGroupJoinAllowed(l, g)
      /\ VisibleGroups(l)' = VisibleGroups(l) \cup C
      /\ Memberships(l) = members[u] \cup tx[l].joined
  BY <1>1, <1>5 DEF IsAdminGroupJoinAllowed, GrantsAdmin, VisibleGroups, Memberships
<1>8. ASSUME l \notin disturbed, RootOnly(m)
      PROVE  RootSyncFaithful(l)'
  <2>1. RootSyncFaithful(l)
    BY <1>8 DEF SyncFaithful
  <2>2. \A anchor \in Anchors(l, p) : Walk(anchor, p) = p
    BY <1>1, <1>4, <1>8, RootAnchor DEF SyncInScope
  <2>3. \/ Reported(l, p, A, C, J, K, N) /\ C = {} /\ J = {} /\ K = {} /\ N = {p}
        \/ /\ C = MissingOnWalk(l, p) /\ N = {}
           /\ \/ IsMemberOf(l, p) /\ J = {} /\ K = {}
              \/ ~IsAdminGroupJoinAllowed(l, p) /\ J = {} /\ K = {p}
              \/ ~IsMemberOf(l, p) /\ IsAdminGroupJoinAllowed(l, p) /\ J = {p} /\ K = {}
    BY <1>3, <2>2 DEF Reported, Reached
  <2>4. \A q \in tx'[l].skipped : q \in claimed /\ ~IsAdminGroupJoinAllowed(l, q)'
    BY <1>4, <1>5, <1>6, <2>1, <2>3 DEF RootSyncFaithful
  <2>5. ASSUME NEW q \in claimed \ (tx'[l].todo \cup tx'[l].notFound)
        PROVE  q \in VisibleGroups(l)'
    <3>1. CASE q = p
      BY <1>4, <1>5, <1>6, <2>3, <3>1, Ancestors DEF MissingOnWalk
    <3>2. CASE q # p
      BY <1>5, <1>6, <2>1, <3>2 DEF RootSyncFaithful
    <3> QED
      BY <3>1, <3>2
  <2>6. ASSUME NEW q \in claimed \ (tx'[l].todo \cup tx'[l].notFound \cup tx'[l].skipped)
        PROVE  \E h \in members[u] \cup tx'[l].joined \cup tx'[l].allowed : Matches(h, q)
    <3>1. CASE q = p
      <4>1. Matches(p, p)
        BY <1>4, MatchesItself DEF Path
      <4> QED
        BY <1>5, <1>6, <2>3, <2>6, <3>1, <4>1 DEF IsMemberOf
    <3>2. CASE q # p
      BY <1>5, <2>1, <3>2 DEF RootSyncFaithful
    <3> QED
      BY <3>1, <3>2
  <2>7. ASSUME <<m, claimed>> \in settled[u]
        PROVE  /\ tx'[l].joined = {} /\ tx'[l].allowed = {}
               /\ tx'[l].created = {} /\ tx'[l].notFound = {}
    <3>1. tx[l].joined = {} /\ tx[l].created = {} /\ tx[l].notFound = {}
      BY <2>1, <2>7 DEF RootSyncFaithful
    <3>2. /\ p \in groups
          /\ p \in members[u] \/ (~m.allowAdmin /\ GrantsAdmin(p))
      BY <1>4, <1>8, <2>7 DEF SettledRight
    <3>3. /\ Anchors(l, p) # {}
          /\ \A anchor \in Anchors(l, p) : MissingOnWalk(l, Walk(anchor, p)) = {}
          /\ MissingOnWalk(l, p) = {}
      BY <1>1, <1>4, <1>8, <2>2, <3>2, ExistingIsFound DEF SyncInScope
    <3>4. ~Reported(l, p, A, C, J, K, N)
      BY <3>3 DEF Reported
    <3>5. IsMemberOf(l, p) \/ ~IsAdminGroupJoinAllowed(l, p)
      <4>1. Matches(p, p)
        BY <1>4, MatchesItself DEF Path
      <4> QED
        BY <1>6, <3>2, <4>1 DEF IsMemberOf, IsAdminGroupJoinAllowed
    <3> QED
      BY <1>5, <2>3, <3>1, <3>3, <3>4, <3>5
  <2> QED
    BY <1>1, <1>5, <2>4, <2>5, <2>6, <2>7 DEF RootSyncFaithful
<1> QED
  BY <1>1, <1>5, <1>8 DEF SyncFaithful

LEMMA FaithJoin ==
  ASSUME ScopeInv, NEW l \in Logins, JoinAllowed(l), SyncFaithful(l)
  PROVE  SyncFaithful(l)'
<1>1. /\ tx[l].pc = "join" /\ tx'[l].pc = "add" /\ tx'[l].allowed = {}
      /\ tx'[l].joined = tx[l].joined \cup tx[l].allowed
      /\ tx'[l].user = tx[l].user /\ tx'[l].mapper = tx[l].mapper
      /\ tx'[l].claimed = tx[l].claimed /\ tx'[l].todo = tx[l].todo
      /\ tx'[l].created = tx[l].created /\ tx'[l].left = tx[l].left
      /\ tx'[l].skipped = tx[l].skipped /\ tx'[l].notFound = tx[l].notFound
      /\ UNCHANGED <<groups, adminGroups, members, disturbed, settled>>
  BY JoinAdvances DEF ScopeInv
<1>2. /\ \A g : IsAdminGroupJoinAllowed(l, g)' <=> IsAdminGroupJoinAllowed(l, g)
      /\ VisibleGroups(l)' = VisibleGroups(l)
  BY <1>1 DEF IsAdminGroupJoinAllowed, GrantsAdmin, VisibleGroups
<1>3. ASSUME l \notin disturbed, RootOnly(tx[l].mapper)
      PROVE  RootSyncFaithful(l)'
  <2>1. RootSyncFaithful(l)
    BY <1>3 DEF SyncFaithful
  <2> QED
    BY <1>1, <1>2, <2>1 DEF RootSyncFaithful
<1> QED
  BY <1>1, <1>3 DEF SyncFaithful

LEMMA FaithLeave ==
  ASSUME ScopeInv, NEW l \in Logins, LeaveNotListed(l),
         SyncFaithful(l), SettledRight(tx[l].user)
  PROVE  SyncFaithful(l)'
<1> DEFINE m == tx[l].mapper
           u == tx[l].user
           claimed == tx[l].claimed
<1>1. /\ TypeOK /\ tx[l] \in Sync
      /\ tx[l].pc = "add" /\ tx[l].todo = {}
      /\ tx' = [tx EXCEPT ![l] = [tx[l] EXCEPT !.pc = "commit", !.left = NotListed(l)]]
      /\ UNCHANGED <<groups, adminGroups, members, disturbed, settled>>
  BY LeaveAdvances DEF ScopeInv
<1>2. tx'[l] = [tx[l] EXCEPT !.pc = "commit", !.left = NotListed(l)]
  BY <1>1 DEF TypeOK
<1>3. /\ tx'[l].pc = "commit" /\ tx'[l].user = u /\ tx'[l].mapper = m
      /\ tx'[l].claimed = claimed /\ tx'[l].todo = {} /\ tx[l].todo = {}
      /\ tx'[l].created = tx[l].created /\ tx'[l].joined = tx[l].joined
      /\ tx'[l].skipped = tx[l].skipped /\ tx'[l].notFound = tx[l].notFound
      /\ tx'[l].left = NotListed(l) /\ tx[l].left = {}
      /\ tx'[l].allowed = {} /\ tx[l].allowed = {}
  <2>1. tx[l].left = {} /\ tx[l].allowed = {}
    BY <1>1 DEF SyncFaithful
  <2>2. DOMAIN tx[l] = {"pc", "user", "mapper", "claimed", "todo", "anchors",
                        "created", "allowed", "joined", "left", "skipped", "notFound"}
    BY <1>1 DEF Sync
  <2>3. /\ tx'[l].pc = "commit" /\ tx'[l].left = NotListed(l)
        /\ \A f \in DOMAIN tx[l] \ {"pc", "left"} : tx'[l][f] = tx[l][f]
    BY <1>2, <2>2
  <2> QED
    BY <1>1, <2>1, <2>2, <2>3
<1>4. /\ \A g : IsAdminGroupJoinAllowed(l, g)' <=> IsAdminGroupJoinAllowed(l, g)
      /\ VisibleGroups(l)' = VisibleGroups(l)
      /\ Memberships(l) = members[u] \cup tx[l].joined
      /\ Memberships(l)' = Memberships(l) \ NotListed(l)
  BY <1>1, <1>3 DEF IsAdminGroupJoinAllowed, GrantsAdmin, VisibleGroups, Memberships
<1>5. m.removeNotListed =>
        \A g \in Memberships(l)' : IsManaged(m, g) => g \in claimed
  BY <1>4 DEF NotListed
<1>6. ASSUME l \notin disturbed, RootOnly(m)
      PROVE  RootSyncFaithful(l)'
  <2>1. RootSyncFaithful(l)
    BY <1>6 DEF SyncFaithful
  <2>2. ASSUME <<m, claimed>> \in settled[u]
        PROVE  NotListed(l) = {}
    <3>1. tx[l].joined = {}
      BY <2>1, <2>2 DEF RootSyncFaithful
    <3> QED
      BY <1>4, <1>6, <2>2, <3>1 DEF NotListed, SettledRight
  <2> QED
    BY <1>1, <1>3, <1>4, <2>1, <2>2 DEF RootSyncFaithful
<1> QED
  BY <1>1, <1>3, <1>4, <1>5, <1>6 DEF SyncFaithful, IsManaged

\* A sync that nobody disturbed settles its user rightly when it commits.
LEMMA SettledCommit ==
  ASSUME ScopeInv, NEW l \in Logins, Commit(l), SyncFaithful(l),
         NEW u \in Users, u = tx[l].user
  PROVE  SettledRight(u)'
<1> DEFINE m == tx[l].mapper
           claimed == tx[l].claimed
<1>1. /\ TypeOK /\ tx[l] \in Sync /\ tx[l].pc = "commit"
      /\ adminGroups' = adminGroups
      /\ groups' = VisibleGroups(l)
  BY ActiveIsSync DEF ScopeInv, Active, Commit, VisibleGroups, Sync
<1>2. members'[u] = Memberships(l)
  BY <1>1 DEF Commit, TypeOK
<1>3. settled'[u] = IF l \notin disturbed /\ Accomplished(l) THEN {<<m, claimed>>} ELSE {}
  BY <1>1 DEF Commit, TypeOK
<1>4. \A g : GrantsAdmin(g)' <=> GrantsAdmin(g)
  BY <1>1 DEF GrantsAdmin
<1> SUFFICES ASSUME l \notin disturbed, Accomplished(l), RootOnly(m)
             PROVE  /\ claimed \subseteq groups'
                    /\ \A p \in claimed : p \in members'[u] \/ (~m.allowAdmin /\ GrantsAdmin(p)')
                    /\ m.removeNotListed =>
                         \A g \in members'[u] : IsManaged(m, g) => g \in claimed
  BY <1>3 DEF SettledRight, IsManaged
<1>5. /\ RootSyncFaithful(l) /\ tx[l].todo = {} /\ tx[l].notFound = {}
      /\ tx[l].allowed = {}
  BY <1>1 DEF SyncFaithful, Accomplished
<1>6. claimed \subseteq groups'
  BY <1>1, <1>5 DEF RootSyncFaithful
<1>7. \A p \in claimed : p \in members'[u] \/ (~m.allowAdmin /\ GrantsAdmin(p)')
  BY <1>2, <1>4, <1>5 DEF RootSyncFaithful, Accomplished, IsAdminGroupJoinAllowed
<1>8. m.removeNotListed => \A g \in members'[u] : IsManaged(m, g) => g \in claimed
  BY <1>1, <1>2 DEF SyncFaithful
<1> QED
  BY <1>6, <1>7, <1>8

LEMMA FaithInit == Init => FaithInv
<1> SUFFICES ASSUME Init PROVE FaithInv
  OBVIOUS
<1>1. ScopeInv
  BY ScopeInit
<1>2. \A l \in Logins : ~Active(l)
  BY DEF Init, Active
<1>3. \A u \in Users : SettledRight(u)
  BY DEF Init, SettledRight
<1> QED
  BY <1>1, <1>2, <1>3 DEF FaithInv

\* A commit disturbs the other syncs of its user and nobody else.
LEMMA FaithCommit ==
  ASSUME FaithInv, NEW l \in Logins, Commit(l)
  PROVE  /\ \A k \in Logins : Active(k)' => SyncFaithful(k)'
         /\ \A u \in Users : SettledRight(u)'
<1> DEFINE v == tx[l].user
<1>1. /\ TypeOK /\ Active(l) /\ SyncFaithful(l) /\ v \in Users
      /\ ~Active(l)'
      /\ \A k \in Logins \ {l} : tx'[k] = tx[k]
      /\ groups \subseteq groups' /\ adminGroups' = adminGroups
      /\ disturbed' = (disturbed \ {l}) \cup OverlappingSyncs(l, v)
      /\ \A u \in Users \ {v} : members'[u] = members[u] /\ settled'[u] = settled[u]
  BY ActiveIsSync DEF FaithInv, ScopeInv, TypeOK, Commit, Active, Sync
<1>2. ASSUME NEW k \in Logins, Active(k)'
      PROVE  SyncFaithful(k)'
  <2>1. k # l /\ tx'[k] = tx[k] /\ Active(k) /\ SyncFaithful(k)
    BY <1>1, <1>2 DEF Active, FaithInv
  <2>2. tx[k].user \in Users
    BY <1>1, <2>1, ActiveIsSync DEF Sync
  <2>3. k \notin disturbed' => k \notin disturbed /\ tx[k].user # v
    BY <1>1, <2>1 DEF OverlappingSyncs
  <2> QED
    BY <1>1, <2>1, <2>2, <2>3, FaithStable
<1>3. ASSUME NEW u \in Users
      PROVE  SettledRight(u)'
  <2>1. CASE u = v
    BY <1>1, <2>1, SettledCommit DEF FaithInv
  <2>2. CASE u # v
    BY <1>1, <2>2, SettledStable DEF FaithInv
  <2> QED
    BY <2>1, <2>2
<1> QED
  BY <1>2, <1>3

\* An administrator disturbs the syncs that could see the change.
LEMMA FaithAdmin ==
  ASSUME FaithInv, Admin
  PROVE  /\ \A k \in Logins : Active(k)' => SyncFaithful(k)'
         /\ \A u \in Users : SettledRight(u)'
<1>1. PICK g \in AdminPaths :
        \/ AdminCreateGroup(g)
        \/ AdminToggleRole(g)
        \/ \E u \in Users : AdminToggleMembership(u, g)
  BY DEF Admin
<1>2. /\ TypeOK /\ UNCHANGED tx /\ groups \subseteq groups'
      /\ \A k \in Logins : Active(k)' =>
           Active(k) /\ tx'[k] = tx[k] /\ SyncFaithful(k) /\ tx[k].user \in Users
  BY RealmAdmin, ActiveIsSync DEF FaithInv, ScopeInv, Active, Sync
<1>3. CASE AdminCreateGroup(g)
  <2>1. UNCHANGED <<adminGroups, members, disturbed, settled>>
    BY <1>3 DEF AdminCreateGroup
  <2> QED
    BY <1>2, <2>1, FaithStable, SettledStable DEF FaithInv
<1>4. CASE AdminToggleRole(g)
  <2>1. \A k \in Logins : Active(k) => k \in disturbed'
    BY <1>4 DEF AdminToggleRole, AllSyncs
  <2>2. \A k \in Logins : Active(k)' => SyncFaithful(k)'
    BY <1>2, <2>1, FaithStable
  <2>3. \A u \in Users : settled'[u] = {}
    BY <1>4 DEF AdminToggleRole, Unsettled
  <2> QED
    BY <2>2, <2>3 DEF SettledRight
<1>5. CASE \E u \in Users : AdminToggleMembership(u, g)
  <2>1. PICK v \in Users : AdminToggleMembership(v, g)
    BY <1>5
  <2>2. /\ adminGroups' = adminGroups
        /\ disturbed' = disturbed \cup SyncsOf(v)
        /\ settled'[v] = {}
        /\ \A u \in Users \ {v} : members'[u] = members[u] /\ settled'[u] = settled[u]
    BY <1>2, <2>1 DEF AdminToggleMembership, TypeOK
  <2>3. ASSUME NEW k \in Logins, Active(k)'
        PROVE  SyncFaithful(k)'
    <3>1. k \notin disturbed' => k \notin disturbed /\ tx[k].user # v
      BY <1>2, <2>2, <2>3 DEF SyncsOf
    <3> QED
      BY <1>2, <2>2, <2>3, <3>1, FaithStable
  <2>4. ASSUME NEW u \in Users
        PROVE  SettledRight(u)'
    <3>1. CASE u = v
      BY <2>2, <3>1 DEF SettledRight
    <3>2. CASE u # v
      BY <1>2, <2>2, <3>2, SettledStable DEF FaithInv
    <3> QED
      BY <3>1, <3>2
  <2> QED
    BY <2>3, <2>4
<1> QED
  BY <1>1, <1>3, <1>4, <1>5

\* One sync moves within its own transaction, and nothing else changes.
LEMMA FaithOfOthers ==
  ASSUME FaithInv, NEW l \in Logins,
         UNCHANGED <<groups, adminGroups, members, settled>>,
         disturbed' = disturbed \/ disturbed' = disturbed \ {l},
         \A k \in Logins \ {l} : tx'[k] = tx[k],
         Active(l)' => SyncFaithful(l)'
  PROVE  /\ \A k \in Logins : Active(k)' => SyncFaithful(k)'
         /\ \A u \in Users : SettledRight(u)'
<1>1. ASSUME NEW k \in Logins \ {l}, Active(k)'
      PROVE  SyncFaithful(k)'
  <2>1. Active(k) /\ SyncFaithful(k) /\ tx'[k] = tx[k]
    BY <1>1 DEF Active, FaithInv
  <2> QED
    BY <2>1, FaithStable
<1>2. \A u \in Users : SettledRight(u)'
  BY SettledStable DEF FaithInv
<1> QED
  BY <1>1, <1>2

LEMMA FaithNext == FaithInv /\ ScopeInv' /\ [Next]_vars => FaithInv'
<1> SUFFICES ASSUME FaithInv, ScopeInv', [Next]_vars
             PROVE  /\ \A k \in Logins : Active(k)' => SyncFaithful(k)'
                    /\ \A u \in Users : SettledRight(u)'
  BY DEF FaithInv
<1>0. ScopeInv /\ TypeOK
  BY DEF FaithInv, ScopeInv
<1>1. CASE UNCHANGED vars
  BY <1>1, FaithStable, SettledStable DEF vars, FaithInv, Active
<1>2. CASE Admin
  BY <1>2, FaithAdmin
<1>3. CASE Login
  <2>1. PICK l \in Logins :
          \/ \E u \in Users, m \in Mappers, claim \in Claims : Begin(l, u, m, claim)
          \/ Proceed(l)
    BY <1>3 DEF Login
  <2>2. CASE \E u \in Users, m \in Mappers, claim \in Claims : Begin(l, u, m, claim)
    <3>1. SyncFaithful(l)'
      BY <1>0, <2>2, FaithBegin
    <3>2. /\ UNCHANGED <<groups, adminGroups, members, disturbed, settled>>
          /\ \A k \in Logins \ {l} : tx'[k] = tx[k]
      BY <1>0, <2>2 DEF Begin, TypeOK
    <3> QED
      BY <3>1, <3>2, FaithOfOthers
  <2>3. CASE tx[l].pc = "add" /\ Add(l)
    <3>1. SyncFaithful(l) /\ SettledRight(tx[l].user)
      BY <1>0, <2>3, ActiveIsSync DEF FaithInv, Active, Sync
    <3>2. SyncFaithful(l)'
      BY <1>0, <2>3, <3>1, FaithAdd
    <3>3. /\ UNCHANGED <<groups, adminGroups, members, disturbed, settled>>
          /\ \A k \in Logins \ {l} : tx'[k] = tx[k]
      BY <1>0, <2>3, AddAdvances
    <3> QED
      BY <3>2, <3>3, FaithOfOthers
  <2>7. CASE JoinAllowed(l)
    <3>1. SyncFaithful(l)'
      BY <1>0, <2>7, FaithJoin DEF FaithInv, Active, JoinAllowed
    <3>2. /\ UNCHANGED <<groups, adminGroups, members, disturbed, settled>>
          /\ \A k \in Logins \ {l} : tx'[k] = tx[k]
      BY <1>0, <2>7, JoinAdvances
    <3> QED
      BY <3>1, <3>2, FaithOfOthers
  <2>4. CASE LeaveNotListed(l)
    <3>1. SyncFaithful(l) /\ SettledRight(tx[l].user)
      BY <1>0, <2>4, ActiveIsSync DEF FaithInv, Active, Sync, LeaveNotListed
    <3>2. SyncFaithful(l)'
      BY <1>0, <2>4, <3>1, FaithLeave
    <3>3. /\ UNCHANGED <<groups, adminGroups, members, disturbed, settled>>
          /\ \A k \in Logins \ {l} : tx'[k] = tx[k]
      BY <1>0, <2>4 DEF LeaveNotListed, TypeOK
    <3> QED
      BY <3>2, <3>3, FaithOfOthers
  <2>5. CASE Commit(l)
    BY <2>5, FaithCommit
  <2>6. CASE Fail(l)
    <3>1. /\ UNCHANGED <<groups, adminGroups, members, settled>>
          /\ disturbed' = disturbed \ {l}
          /\ ~Active(l)' /\ \A k \in Logins \ {l} : tx'[k] = tx[k]
      BY <1>0, <2>6 DEF Fail, TypeOK, Active
    <3> QED
      BY <3>1, FaithOfOthers
  <2> QED
    BY <2>1, <2>2, <2>3, <2>4, <2>5, <2>6, <2>7 DEF Proceed
<1> QED
  BY <1>1, <1>2, <1>3 DEF Next

\* Undisturbed syncs do their part step by step, and what settles a user stays
\* true until somebody changes the user or the roles, in every behaviour.
THEOREM FaithHolds == Spec => []FaithInv
<1>1. FaithInv /\ ScopeInv' /\ [Next]_vars => FaithInv'
  BY FaithNext
<1> QED
  BY <1>1, FaithInit, ScopeHolds, PTL DEF Spec

\* An undisturbed login that is about to commit reflects the claim (the adding
\* and the removal loop of syncGroups together).
THEOREM EachLoginReflectsClaim == Spec => []LoginReflectsClaim
<1>1. FaithInv => LoginReflectsClaim
  <2> SUFFICES ASSUME FaithInv, NEW l \in Logins, tx[l].pc = "commit",
                      l \notin disturbed, RootOnly(tx[l].mapper)
               PROVE  /\ \A p \in tx[l].claimed \ (tx[l].skipped \cup tx[l].notFound) :
                           \/ p \in Memberships(l)
                           \/ \E h \in members[tx[l].user] \cup tx[l].joined :
                                h # p /\ Matches(h, p)
                      /\ tx[l].mapper.removeNotListed =>
                           \A g \in Memberships(l) :
                             IsManaged(tx[l].mapper, g) => g \in tx[l].claimed
    BY DEF LoginReflectsClaim
  <2>1. Active(l) /\ SyncFaithful(l) /\ SyncInScope(l)
    BY DEF FaithInv, ScopeInv, Active
  <2>2. RootSyncFaithful(l) /\ tx[l].todo = {} /\ tx[l].allowed = {}
    BY <2>1 DEF SyncFaithful
  <2>3. ASSUME NEW p \in tx[l].claimed \ (tx[l].skipped \cup tx[l].notFound)
        PROVE  \/ p \in Memberships(l)
               \/ \E h \in members[tx[l].user] \cup tx[l].joined : h # p /\ Matches(h, p)
    <3>1. PICK h \in members[tx[l].user] \cup tx[l].joined : Matches(h, p)
      BY <2>2, <2>3 DEF RootSyncFaithful
    <3>2. p \notin tx[l].left
      BY <2>1, <2>3 DEF SyncInScope
    <3> QED
      BY <3>1, <3>2 DEF Memberships
  <2>4. tx[l].mapper.removeNotListed =>
          \A g \in Memberships(l) : IsManaged(tx[l].mapper, g) => g \in tx[l].claimed
    BY <2>1 DEF SyncFaithful
  <2> QED
    BY <2>3, <2>4
<1> QED
  BY <1>1, FaithHolds, PTL

\* Repeating a login with an unchanged claim changes nothing, and its summary
\* line is an INFO line only for what is skipped (end of syncGroups).
THEOREM ResyncStaysQuiet == Spec => []ResyncIsQuiet
<1>1. FaithInv => ResyncIsQuiet
  <2> SUFFICES ASSUME FaithInv, NEW l \in Logins, Active(l), l \notin disturbed,
                      RootOnly(tx[l].mapper), <<tx[l].mapper, tx[l].claimed>> \in settled[tx[l].user]
               PROVE  /\ tx[l].joined = {} /\ tx[l].left = {}
                      /\ tx[l].created = {} /\ tx[l].notFound = {}
                      /\ (\A p \in tx[l].claimed : IsAdminGroupJoinAllowed(l, p)) =>
                           SummaryLevel(l) = "DEBUG"
    BY DEF ResyncIsQuiet
  <2>1. RootSyncFaithful(l)
    BY DEF FaithInv, SyncFaithful
  <2>2. /\ tx[l].joined = {} /\ tx[l].left = {}
        /\ tx[l].created = {} /\ tx[l].notFound = {}
    BY <2>1 DEF RootSyncFaithful
  <2>3. (\A p \in tx[l].claimed : IsAdminGroupJoinAllowed(l, p)) => tx[l].skipped = {}
    BY <2>1 DEF RootSyncFaithful
  <2> QED
    BY <2>2, <2>3 DEF SummaryLevel
<1> QED
  BY <1>1, FaithHolds, PTL

-----------------------------------------------------------------------------
(***************************************************************************)
(* The group mapper keeps its promise to the realm (GroupSync).            *)
(***************************************************************************)

\* The promise speaks of the same paths.
LEMMA SamePaths ==
  /\ Promise!Path = Path
  /\ \A p : Promise!SelfAndAncestors(p) = SelfAndAncestors(p)
  /\ \A g, t : Promise!Matches(g, t) <=> Matches(g, t)
BY DEF Promise!Path, Path, Promise!SelfAndAncestors, SelfAndAncestors,
       Promise!Prefixes, Prefixes, Promise!Matches, Matches,
       Promise!IsPrefix, IsPrefix

LEMMA PromiseCommit ==
  ASSUME ScopeInv, AllRootOnly, NEW l \in Logins, Commit(l)
  PROVE  Promise!Next
<1> DEFINE s == tx[l]
           u == s.user
           m == s.mapper
           offer(c) == [claim |-> ClaimedFull(m, c), scope |-> EffectiveScope(m),
                        removes |-> m.removeNotListed, creates |-> m.createMissing]
<1>1. /\ s \in Sync /\ SyncInScope(l) /\ RootOnly(m)
      /\ u \in Users /\ m \in Mappers
  BY ActiveIsSync DEF Active, Commit, ScopeInv, AllRootOnly, Sync
<1>2. PICK c \in Claims : s.claimed = ClaimedFull(m, c)
  BY <1>1 DEF SyncInScope
<1>3. \A v \in Users \ {u} : members'[v] = members[v]
  BY <1>1 DEF Commit, ScopeInv, TypeOK
<1>4. members'[u] = (members[u] \cup s.joined) \ s.left
  BY <1>1 DEF Commit, ScopeInv, TypeOK, Memberships
<1>5. members'[u] \ members[u] \subseteq s.claimed
  BY <1>1, <1>4 DEF SyncInScope
<1>6. members[u] \ members'[u] \subseteq s.left
  BY <1>4
<1>7. \A g \in s.left : /\ m.removeNotListed
                        /\ g \in Path
                        /\ Matches(g, EffectiveScope(m))
                        /\ g \notin s.claimed
  BY <1>1 DEF SyncInScope, IsManaged, Sync
<1>8. members[u] \ members'[u] \subseteq
        IF m.removeNotListed
        THEN {g \in Path : Matches(g, EffectiveScope(m))} \ s.claimed ELSE {}
  BY <1>6, <1>7
<1>9. groups \subseteq groups' /\ groups' \ groups \subseteq s.created
  BY DEF Commit
<1>10. groups' \ groups \subseteq
         IF m.createMissing THEN UNION {SelfAndAncestors(p) : p \in s.claimed} ELSE {}
  BY <1>1, <1>9 DEF SyncInScope
<1>11. Promise!Sync(u, offer(c))
  BY <1>2, <1>3, <1>5, <1>8, <1>9, <1>10, SamePaths
  DEF Promise!Sync, Promise!OnlyMembershipsOf
<1> QED
  BY <1>1, <1>11 DEF Promise!Next

LEMMA PromiseAdmin ==
  ASSUME ScopeInv, Admin
  PROVE  Promise!Next \/ UNCHANGED <<groups, members>>
<1>1. PICK g \in AdminPaths :
        \/ AdminCreateGroup(g)
        \/ AdminToggleRole(g)
        \/ \E u \in Users : AdminToggleMembership(u, g)
  BY DEF Admin
<1>2. CASE AdminCreateGroup(g)
  <2>1. Promise!CreateGroup(g) /\ g \in groups'
    BY <1>2, SamePaths DEF AdminCreateGroup, Promise!CreateGroup
  <2> QED
    BY <2>1 DEF Promise!Next
<1>3. CASE AdminToggleRole(g)
  BY <1>3 DEF AdminToggleRole
<1>4. CASE \E u \in Users : AdminToggleMembership(u, g)
  <2>1. PICK u \in Users : AdminToggleMembership(u, g)
    BY <1>4
  <2>2. Promise!ChangeMembership(u, g) /\ g \in groups
    BY <2>1 DEF AdminToggleMembership, Promise!ChangeMembership
  <2> QED
    BY <2>2 DEF Promise!Next
<1> QED
  BY <1>1, <1>2, <1>3, <1>4

\* With lookups from the realm root, every behaviour of the mapper is one of
\* GroupSync: a login changes only its own user, once, within claim and scope.
THEOREM KeepsPromise ==
  ASSUME AllRootOnly
  PROVE  Spec => SyncIsAtomic
<1>1. Init => Promise!Init
  BY ConfigAssumption, SamePaths DEF Init, Promise!Init
<1>2. ScopeInv /\ [Next]_vars => [Promise!Next]_<<groups, members>>
  <2> SUFFICES ASSUME ScopeInv, [Next]_vars
               PROVE  Promise!Next \/ UNCHANGED <<groups, members>>
    OBVIOUS
  <2>1. CASE UNCHANGED vars
    BY <2>1 DEF vars
  <2>2. CASE Admin
    BY <2>2, PromiseAdmin
  <2>3. CASE Login
    <3>1. PICK l \in Logins :
            \/ \E u \in Users, m \in Mappers, claim \in Claims : Begin(l, u, m, claim)
            \/ Proceed(l)
      BY <2>3 DEF Login
    <3>2. CASE tx[l].pc = "add" /\ Add(l)
      BY <3>2, AddAdvances DEF ScopeInv
    <3>3. CASE Commit(l)
      BY <3>3, PromiseCommit
    <3> QED
      BY <3>1, <3>2, <3>3 DEF Proceed, Begin, JoinAllowed, LeaveNotListed, Fail
  <2> QED
    BY <2>1, <2>2, <2>3 DEF Next
<1> QED
  BY <1>1, <1>2, ScopeHolds, PTL DEF Spec, SyncIsAtomic, Promise!Spec

=============================================================================

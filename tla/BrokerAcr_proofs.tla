-------------------------- MODULE BrokerAcr_proofs --------------------------
(***************************************************************************)
(* Theorems about the broker step-up, for all values, maps and clients.    *)
(***************************************************************************)
EXTENDS BrokerAcr, TLAPS

\* Levels are numbers, and those of the map are not negative.
LEMMA Levels ==
  /\ \A a \in Values : AcrToLevel(a) \in Int
  /\ AcrToLevel(None) = 0
  /\ \A a \in DOMAIN LoaMap : AcrToLevel(a) = LoaMap[a] /\ LoaMap[a] \in Nat
BY AcrAssumption DEF AcrToLevel, Values

\* A client's setting is a value, and so is what Forward makes of it.
LEMMA ForwardedValues ==
  /\ \A c \in Clients : ClientAcr(c) \in Values /\ RequiredLevel(c) \in Int
  /\ \A r, c \in Values : MaxAcr(r, c) \in Values
<1>1. \A c \in Clients : ClientAcr(c) \in Values
  BY AcrAssumption DEF ClientAcr
<1>2. \A c \in Clients : RequiredLevel(c) \in Int
  BY <1>1, Levels DEF RequiredLevel
<1>3. \A r, c \in Values : MaxAcr(r, c) \in Values
  BY DEF MaxAcr
<1> QED
  BY <1>1, <1>2, <1>3

\* Of values with a level the one sent on is at least the client's.
LEMMA MaxAcrIsHigher ==
  ASSUME NEW r \in Values, NEW c \in Values,
         {MaxAcr(r, c), c} \subseteq DOMAIN LoaMap \cup {None}
  PROVE  AcrToLevel(MaxAcr(r, c)) >= AcrToLevel(c)
<1>1. CASE c = None
  <2>1. AcrToLevel(MaxAcr(r, c)) \in Nat
    BY Levels
  <2> QED
    BY <1>1, <2>1, Levels
<1>2. CASE c # None /\ r = None
  BY <1>2, Levels DEF MaxAcr
<1>3. CASE c # None /\ r # None
  <2>1. c \in DOMAIN LoaMap
    BY <1>3
  <2>2. r \notin DOMAIN LoaMap => MaxAcr(r, c) = r
    BY <1>3 DEF MaxAcr
  <2>3. r \in DOMAIN LoaMap
    BY <1>3, <2>2
  <2>4. MaxAcr(r, c) = IF LoaMap[r] >= LoaMap[c] THEN r ELSE c
    BY <1>3, <2>1, <2>3 DEF MaxAcr
  <2> QED
    BY <2>1, <2>3, <2>4, Levels
<1> QED
  BY <1>1, <1>2, <1>3

-----------------------------------------------------------------------------
\* Every reachable state is well-typed.
THEOREM TypeCorrect == Spec => []TypeOK
<1>1. Init => TypeOK
  <2>1. Init => stage \in Stages /\ level \in Int
    BY DEF Init, Stages
  <2>4. Init => disturbed \in BOOLEAN
    BY Zenon DEF Init
  <2>2. Init => client \in Clients /\ enforce \in Enforces
    BY DEF Init
  <2>3. Init => /\ asked \in Values /\ note \in Values
                /\ url \in Values /\ token \in Values
    BY DEF Init, Values
  <2> QED
    BY <2>1, <2>2, <2>3, <2>4 DEF TypeOK
<1>2. TypeOK /\ [Next]_vars => TypeOK'
  <2> SUFFICES ASSUME TypeOK, [Next]_vars
               PROVE  TypeOK'
    OBVIOUS
  <2> USE DEF TypeOK
  <2>1. CASE Forward
    BY <2>1, ForwardedValues DEF Forward, Stages
  <2>2. CASE \E value \in Values : Redirect(value)
    BY <2>2 DEF Redirect, Stages
  <2>3. CASE \E value \in Values : UpstreamLogin(value)
    BY <2>3 DEF UpstreamLogin, Stages
  <2>4. CASE EnforceGrants
    BY <2>4, Levels DEF EnforceGrants, Stages
  <2>5. CASE EnforceDenies
    BY <2>5 DEF EnforceDenies, Stages
  <2>6. CASE StartOver
    BY <2>6 DEF StartOver, Stages
  <2>7. CASE \E c \in Clients : Reconfigure(c)
    BY <2>7 DEF Reconfigure
  <2>8. CASE UNCHANGED vars
    BY <2>8 DEF vars
  <2> QED
    BY <2>1, <2>2, <2>3, <2>4, <2>5, <2>6, <2>7, <2>8 DEF Next
<1> QED
  BY <1>1, <1>2, PTL DEF Spec

-----------------------------------------------------------------------------
(***************************************************************************)
(* What the application asked for: the note is its value, or one of the    *)
(* map that is not lower; while nobody interferes the URL, the token and   *)
(* the level recorded cover the note.                                      *)
(***************************************************************************)
NoteCoversAsked ==
  asked # None =>
    /\ note # None
    /\ note = asked \/ {note, asked} \subseteq DOMAIN LoaMap
    /\ AcrToLevel(note) >= AcrToLevel(asked)

NoteReached ==
  ~disturbed =>
    /\ stage = "upstream" => url = note
    /\ stage = "returned" => AcrToLevel(token) >= AcrToLevel(note)
    /\ stage = "granted"  => level >= AcrToLevel(note)

\* Forward replaces a value by a higher one of the map, or not at all.
LEMMA MaxAcrRaises ==
  ASSUME NEW r \in Values, NEW c \in Values, r # None, MaxAcr(r, c) # r
  PROVE  /\ {r, MaxAcr(r, c)} \subseteq DOMAIN LoaMap
         /\ AcrToLevel(MaxAcr(r, c)) >= AcrToLevel(r)
<1>1. /\ r \in DOMAIN LoaMap /\ c \in DOMAIN LoaMap
      /\ ~(LoaMap[r] >= LoaMap[c])
      /\ MaxAcr(r, c) = c
  BY DEF MaxAcr
<1> QED
  BY <1>1, Levels

\* No step loses what the application asked for.
LEMMA AskedNext ==
  ASSUME TypeOK, NoteCoversAsked, [Next]_vars
  PROVE  NoteCoversAsked'
<1> USE DEF NoteCoversAsked
<1>1. CASE Forward
  <2>1. PICK c \in Values : c = ClientAcr(client)
    BY ForwardedValues DEF TypeOK
  <2>2. note' = MaxAcr(note, c) /\ asked' = asked /\ note \in Values /\ asked \in Values
    BY <1>1, <2>1 DEF Forward, TypeOK
  <2>3. ASSUME asked # None, MaxAcr(note, c) # note
        PROVE  /\ {note, MaxAcr(note, c)} \subseteq DOMAIN LoaMap
               /\ AcrToLevel(MaxAcr(note, c)) >= AcrToLevel(note)
    BY <2>2, <2>3, MaxAcrRaises
  <2>4. MaxAcr(note, c) \in Values
    BY <2>2, ForwardedValues
  <2>5. /\ AcrToLevel(note) \in Int /\ AcrToLevel(asked) \in Int
        /\ AcrToLevel(MaxAcr(note, c)) \in Int
    BY <2>2, <2>4, Levels
  <2>6. CASE MaxAcr(note, c) = note
    BY <2>2, <2>6
  <2>7. CASE MaxAcr(note, c) # note /\ asked # None
    BY <2>2, <2>3, <2>5, <2>7, AcrAssumption
  <2> QED
    BY <2>2, <2>6, <2>7
<1>2. CASE ~Forward /\ Next
  BY <1>2 DEF Next, Redirect, UpstreamLogin, EnforceGrants, EnforceDenies, StartOver,
              Reconfigure
<1>3. CASE UNCHANGED vars
  BY <1>3 DEF vars
<1> QED
  BY <1>1, <1>2, <1>3

\* Every step carries the level of the note on.
LEMMA ReachedNext ==
  ASSUME TypeOK, NoteReached, [Next]_vars
  PROVE  NoteReached'
<1> USE DEF NoteReached
<1>1. CASE Forward
  BY <1>1 DEF Forward
<1>2. ASSUME NEW value \in Values, Redirect(value)
      PROVE  NoteReached'
  <2>1. ~disturbed' => value = note
    BY <1>2, Zenon DEF Redirect
  <2> QED
    BY <1>2, <2>1 DEF Redirect
<1>3. ASSUME NEW value \in Values, UpstreamLogin(value)
      PROVE  NoteReached'
  <2>1. AcrToLevel(value) \in Int /\ AcrToLevel(url) \in Int
    BY Levels DEF TypeOK
  <2>2. ~disturbed' => ~disturbed /\ ~(AcrToLevel(value) < AcrToLevel(url))
    BY <1>3, Zenon DEF UpstreamLogin
  <2>3. stage = "upstream" /\ stage' = "returned" /\ token' = value /\ note' = note
    BY <1>3 DEF UpstreamLogin
  <2> QED
    BY <2>1, <2>2, <2>3
<1>4. CASE EnforceGrants
  BY <1>4 DEF EnforceGrants
<1>5. CASE EnforceDenies
  BY <1>5 DEF EnforceDenies
<1>6. CASE StartOver
  BY <1>6 DEF StartOver
<1>7. CASE \E c \in Clients : Reconfigure(c)
  BY <1>7 DEF Reconfigure
<1>8. CASE UNCHANGED vars
  BY <1>8 DEF vars
<1> QED
  BY <1>1, <1>2, <1>3, <1>4, <1>5, <1>6, <1>7, <1>8 DEF Next

\* For every map, complete or not, and every setting of the client: a login
\* nobody interferes with reaches what the application asked for, however often
\* it started over.
THEOREM ApplicationsGetWhatTheyAsk == Spec => []LoginAsAsked
<1>1. Init => NoteCoversAsked /\ NoteReached
  <2>1. Init => /\ note = asked /\ asked \in Values
                /\ stage \notin {"upstream", "returned", "granted"}
    BY DEF Init
  <2>2. \A a \in Values : AcrToLevel(a) >= AcrToLevel(a)
    BY Levels
  <2> QED
    BY <2>1, <2>2 DEF NoteCoversAsked, NoteReached
<1>2. TypeOK /\ NoteCoversAsked /\ [Next]_vars => NoteCoversAsked'
  BY AskedNext
<1>3. TypeOK /\ NoteReached /\ [Next]_vars => NoteReached'
  BY ReachedNext
<1>4. TypeOK /\ NoteCoversAsked /\ NoteReached => LoginAsAsked
  <2>1. TypeOK => /\ AcrToLevel(note) \in Int /\ AcrToLevel(asked) \in Int
                  /\ level \in Int
    BY Levels DEF TypeOK
  <2> QED
    BY <2>1 DEF NoteCoversAsked, NoteReached, LoginAsAsked
<1> QED
  BY <1>1, <1>2, <1>3, <1>4, TypeCorrect, PTL DEF Spec

-----------------------------------------------------------------------------
(***************************************************************************)
(* What an undisturbed login carries from one half to the other: the level *)
(* required of it is covered by the note, then by the URL, which is the    *)
(* note, then by the token.                                                *)
(***************************************************************************)
Carried ==
  ~disturbed /\ Comparable =>
    /\ stage = "forwarded" => AcrToLevel(note) >= RequiredLevel(client)
    /\ stage = "upstream"  => AcrToLevel(url) >= RequiredLevel(client)
    /\ stage = "returned"  => AcrToLevel(token) >= RequiredLevel(client)
    /\ stage # "denied"

\* Every step of a login keeps the required level covered.
LEMMA CarriedNext ==
  ASSUME TypeOK, Carried, [Next]_vars
  PROVE  Carried'
<1> USE DEF Carried, Comparable
<1>1. CASE Forward
  <2>1. note' = MaxAcr(note, ClientAcr(client)) /\ client' = client /\ stage' = "forwarded"
    BY <1>1 DEF Forward
  <2>2. Comparable' => AcrToLevel(note') >= RequiredLevel(client)
    BY <2>1, MaxAcrIsHigher, ForwardedValues DEF RequiredLevel, TypeOK
  <2> QED
    BY <2>1, <2>2
<1>2. ASSUME NEW value \in Values, Redirect(value)
      PROVE  Carried'
  BY <1>2 DEF Redirect, TypeOK
<1>3. ASSUME NEW value \in Values, UpstreamLogin(value)
      PROVE  Carried'
  <2>1. AcrToLevel(value) \in Int /\ AcrToLevel(url) \in Int /\ RequiredLevel(client) \in Int
    BY Levels, ForwardedValues DEF TypeOK
  <2>2. ~disturbed' => ~disturbed /\ ~(AcrToLevel(value) < AcrToLevel(url))
    BY <1>3, Zenon DEF UpstreamLogin
  <2>3. stage = "upstream" /\ stage' = "returned" /\ token' = value /\ client' = client
    BY <1>3 DEF UpstreamLogin
  <2>4. Comparable' <=> Comparable
    BY <1>3 DEF UpstreamLogin
  <2>5. ~disturbed' /\ Comparable' => AcrToLevel(token') >= RequiredLevel(client')
    BY <2>1, <2>2, <2>3, <2>4
  <2> QED
    BY <2>3, <2>5
<1>4. CASE EnforceGrants
  BY <1>4 DEF EnforceGrants
<1>5. CASE EnforceDenies
  BY <1>5 DEF EnforceDenies, Admitted
<1>6. CASE StartOver
  BY <1>6 DEF StartOver
<1>7. CASE \E c \in Clients : Reconfigure(c)
  BY <1>7 DEF Reconfigure
<1>8. CASE UNCHANGED vars
  BY <1>8 DEF vars
<1> QED
  BY <1>1, <1>2, <1>3, <1>4, <1>5, <1>6, <1>7, <1>8 DEF Next

\* Forward never sends on less than the client is configured for, of values
\* the realm's map gives a level.
THEOREM ForwardKeepsTheFloor == Spec => []ForwardNeverLowers
<1>1. Init => Carried
  BY DEF Init, Carried
<1>2. Carried /\ TypeOK /\ [Next]_vars => Carried'
  BY CarriedNext
<1>3. Carried => ForwardNeverLowers
  BY DEF Carried, ForwardNeverLowers
<1> QED
  BY <1>1, <1>2, <1>3, TypeCorrect, PTL DEF Spec

\* With such values, only a login somebody interfered with, or that fell short
\* upstream, is denied.
THEOREM HonestLoginsAreGranted == Spec => []HonestLoginGranted
<1>1. Init => Carried
  BY DEF Init, Carried
<1>2. Carried /\ TypeOK /\ [Next]_vars => Carried'
  BY CarriedNext
<1>3. Carried => HonestLoginGranted
  BY DEF Carried, HonestLoginGranted
<1> QED
  BY <1>1, <1>2, <1>3, TypeCorrect, PTL DEF Spec

=============================================================================

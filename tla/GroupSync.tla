----------------------------- MODULE GroupSync -----------------------------
(***************************************************************************)
(* What the group mapper promises the rest of the realm, independently of  *)
(* how a sync is carried out: a broker login changes the memberships of    *)
(* its own user in one step, joins only groups the claim names, leaves     *)
(* only managed groups the claim does not name, and creates only groups on *)
(* the way to claimed ones.                                                *)
(***************************************************************************)
EXTENDS GroupPath

CONSTANTS
  Users,
  Offers   \* what logins can bring: a claim and the mapper's settings

VARIABLES groups, members

Init ==
  /\ groups \subseteq Path
  /\ members \in [Users -> SUBSET groups]

\* Only the memberships of user u change.
OnlyMembershipsOf(u) == \A v \in Users \ {u} : members'[v] = members[v]

Sync(u, offer) ==
  /\ OnlyMembershipsOf(u)
  /\ members'[u] \ members[u] \subseteq offer.claim
  /\ members[u] \ members'[u] \subseteq
       IF offer.removes THEN {g \in Path : Matches(g, offer.scope)} \ offer.claim ELSE {}
  /\ groups \subseteq groups'
  /\ groups' \ groups \subseteq
       IF offer.creates THEN UNION {SelfAndAncestors(p) : p \in offer.claim} ELSE {}

\* An administrator creates a group below an existing one or at the root.
CreateGroup(g) ==
  /\ SelfAndAncestors(g) \ {g} \subseteq groups
  /\ groups' = groups \cup {g}
  /\ UNCHANGED members

\* An administrator changes one membership.
ChangeMembership(u, g) ==
  /\ members' = [members EXCEPT ![u] = IF g \in @ THEN @ \ {g} ELSE @ \cup {g}]
  /\ UNCHANGED groups

Next ==
  \/ \E u \in Users : \E offer \in Offers : Sync(u, offer)
  \/ \E g \in groups' : CreateGroup(g)
  \/ \E u \in Users : \E g \in groups : ChangeMembership(u, g)

Spec == Init /\ [][Next]_<<groups, members>>

=============================================================================

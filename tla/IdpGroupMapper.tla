--------------------------- MODULE IdpGroupMapper ---------------------------
(***************************************************************************)
(* Group synchronisation at broker logins (IdpGroupMapper.syncGroups).     *)
(*                                                                         *)
(* Every broker login runs one sync inside its own store transaction:      *)
(* it resolves (and possibly creates) the group of each claimed path,      *)
(* joins the user, then leaves the managed groups that are not claimed,    *)
(* and commits with the request.  Several logins, of the same or of        *)
(* different users, and administrators working in the console interleave   *)
(* with it at every step.                                                  *)
(*                                                                         *)
(* A group is identified by its canonical path: the store does not accept  *)
(* two siblings of the same name.  Groups are created but never deleted or *)
(* renamed here.                                                           *)
(***************************************************************************)
EXTENDS GroupPath

CONSTANTS
  Users,               \* brokered users of the realm
  Logins,              \* broker logins that may be in flight at once
  Mappers,             \* mapper configurations in use
  Claims,              \* sets of paths a claim can yield after extraction
  InitialGroups,       \* groups that exist before the first login
  AdminPaths           \* groups an administrator may create, grant, assign

\* The configuration of a mapper, with the prefixes already normalized;
\* targetSlash says whether the raw target prefix starts with a slash.
MapperConfig ==
  [targetPrefix: Seq(Names), targetSlash: BOOLEAN, managedPrefix: Seq(Names),
   legacyLookup: BOOLEAN, removeNotListed: BOOLEAN, createMissing: BOOLEAN,
   allowAdmin: BOOLEAN]

\* A claim names no empty path, and the realm's groups form a tree.
ASSUME ConfigAssumption ==
  /\ Mappers \subseteq MapperConfig
  /\ Claims \subseteq SUBSET Path
  /\ InitialGroups \subseteq Path
  /\ AdminPaths \subseteq Path
  /\ \A g \in InitialGroups : SelfAndAncestors(g) \subseteq InitialGroups

VARIABLES
  groups,       \* committed groups of the realm
  adminGroups,  \* groups an administrative role is mapped to
  members,      \* user -> groups the user is a direct member of
  tx,           \* login -> its sync, or the outcome of its last one
  disturbed,    \* logins whose user or groups others changed meanwhile
  settled       \* user -> the sync the user's memberships are the result of

vars == <<groups, adminGroups, members, tx, disturbed, settled>>

(***************************************************************************)
(* The state of one sync.  todo holds the claimed paths still to be added, *)
(* anchors the top-level lookups remembered in "resolved", allowed the     *)
(* group that has passed the check for admin roles and is joined next;     *)
(* created, joined, left, skipped and notFound are the lists of the        *)
(* summary line.                                                           *)
(***************************************************************************)
Sync ==
  [pc: {"add", "join", "commit"}, user: Users, mapper: Mappers,
   claimed: SUBSET Path, todo: SUBSET Path, anchors: SUBSET Path,
   created: SUBSET Path, allowed: SUBSET Path, joined: SUBSET Path, left: SUBSET Path,
   skipped: SUBSET Path, notFound: SUBSET Path]

\* A login slot with no sync in flight keeps how the last one ended.
Ended == [pc: {"idle", "done", "failed"}]

Active(l) == tx[l].pc \in {"add", "join", "commit"}

TypeOK ==
  /\ groups \subseteq Path
  /\ adminGroups \subseteq Path
  /\ members \in [Users -> SUBSET Path]
  /\ tx \in [Logins -> Sync \cup Ended]
  /\ disturbed \subseteq Logins
  /\ settled \in [Users -> SUBSET (Mappers \X SUBSET Path)]

Init ==
  /\ groups = InitialGroups
  /\ adminGroups = {}
  /\ members = [u \in Users |-> {}]
  /\ tx = [l \in Logins |-> [pc |-> "idle"]]
  /\ disturbed = {}
  /\ settled = [u \in Users |-> {}]

-----------------------------------------------------------------------------
(***************************************************************************)
(* Configuration.                                                          *)
(***************************************************************************)

\* The first segment of a path is looked up among the top-level groups only.
RootOnly(m) == ~m.legacyLookup \/ m.targetSlash

\* No mapper in use falls back to the lookup anywhere in the tree.
AllRootOnly == \A m \in Mappers : RootOnly(m)

\* A target prefix replaces the managed prefix as the scope of removals.
EffectiveScope(m) ==
  IF m.targetPrefix # << >> THEN m.targetPrefix ELSE m.managedPrefix

\* The full paths a claim stands for.
ClaimedFull(m, claim) == {m.targetPrefix \o p : p \in claim}

IsManaged(m, g) == Matches(g, EffectiveScope(m))

-----------------------------------------------------------------------------
(***************************************************************************)
(* The realm as a login sees it through its transaction.                   *)
(***************************************************************************)

VisibleGroups(l) == groups \cup tx[l].created

Memberships(l) == (members[tx[l].user] \cup tx[l].joined) \ tx[l].left

\* UserModel.isMemberOf: a member of a subgroup counts as well.
IsMemberOf(l, g) == \E h \in Memberships(l) : Matches(h, g)

\* An administrative role of a group also holds for the groups below it.
GrantsAdmin(g) == \E a \in adminGroups : Matches(g, a)

IsAdminGroupJoinAllowed(l, g) == tx[l].mapper.allowAdmin \/ ~GrantsAdmin(g)

-----------------------------------------------------------------------------
(***************************************************************************)
(* Resolving a path.                                                       *)
(***************************************************************************)

\* The groups findTopLevel may return for the first segment of a path: the
\* one remembered in this sync, else a root group or, with the legacy lookup,
\* whichever group of that name the realm lists first.
TopLevelCandidates(l, name) ==
  LET remembered == {a \in tx[l].anchors : Last(a) = name}
  IN  IF remembered # {} THEN remembered
      ELSE IF RootOnly(tx[l].mapper) THEN {<<name>>} \cap VisibleGroups(l)
      ELSE {g \in VisibleGroups(l) : Last(g) = name}

\* Where the first segment ends up: a missing one is created at the root.
Anchors(l, path) ==
  LET found == TopLevelCandidates(l, Head(path))
  IN  IF found = {} /\ tx[l].mapper.createMissing THEN {<<Head(path)>>} ELSE found

\* Faulty: the walk does not start at the group found for the first segment.
WalkFromNowhere(anchor, path) == Tail(path)

\* The group reached by walking the rest of the path below an anchor.
Walk(anchor, path) == anchor \o Tail(path)

\* Faulty: the parents of a missing group are not created with it.
MissingAtTheEnd(l, g) == {g} \ VisibleGroups(l)

\* The groups on the way that do not exist yet.
MissingOnWalk(l, g) == SelfAndAncestors(g) \ VisibleGroups(l)

\* The walk ends at group g: it exists, or what is missing may be created.
Resolves(l, g) ==
  MissingOnWalk(l, g) # {} => tx[l].mapper.createMissing

-----------------------------------------------------------------------------
(***************************************************************************)
(* The steps of a sync.                                                    *)
(***************************************************************************)

\* A broker login of user u reaches the mapper m with a claim.
Begin(l, u, m, claim) ==
  /\ ~Active(l)
  /\ LET full == ClaimedFull(m, claim) IN
     tx' = [tx EXCEPT ![l] =
              [pc |-> "add", user |-> u, mapper |-> m,
               claimed |-> full, todo |-> full, anchors |-> {},
               created |-> {}, allowed |-> {}, joined |-> {}, left |-> {},
               skipped |-> {}, notFound |-> {}]]
  /\ UNCHANGED <<groups, adminGroups, members, disturbed, settled>>

\* The claimed path p cannot be resolved: no group for its first segment, or
\* one missing further down, and the mapper may not create any.
AddNotFound(l, p) ==
  /\ tx[l].pc = "add"
  /\ p \in tx[l].todo
  /\ LET s == [tx[l] EXCEPT !.todo = @ \ {p}, !.notFound = @ \cup {p}] IN
     \/ Anchors(l, p) = {} /\ tx' = [tx EXCEPT ![l] = s]
     \/ \E anchor \in Anchors(l, p) :
          /\ ~Resolves(l, Walk(anchor, p))
          /\ tx' = [tx EXCEPT ![l] = [s EXCEPT !.anchors = @ \cup {anchor}]]
  /\ UNCHANGED <<groups, adminGroups, members, disturbed, settled>>

\* Faulty: the path stays on the list of those to be added.
ResolvedAgain(l, p, anchor, g) ==
  [tx[l] EXCEPT !.anchors = @ \cup {anchor}, !.created = @ \cup MissingOnWalk(l, g)]

\* The sync after path p was resolved to group g: what it looked up is
\* remembered, what was missing on the way is created.
Resolved(l, p, anchor, g) ==
  [tx[l] EXCEPT !.todo = @ \ {p}, !.anchors = @ \cup {anchor},
                !.created = @ \cup MissingOnWalk(l, g)]

\* The claimed path p resolves to a group the user is already a member of.
AddHeld(l, p) ==
  /\ tx[l].pc = "add"
  /\ p \in tx[l].todo
  /\ \E anchor \in Anchors(l, p) : LET g == Walk(anchor, p) IN
       /\ Resolves(l, g)
       /\ IsMemberOf(l, g)
       /\ tx' = [tx EXCEPT ![l] = Resolved(l, p, anchor, g)]
  /\ UNCHANGED <<groups, adminGroups, members, disturbed, settled>>

\* The claimed group grants an administrative role and is not joined; what was
\* created on the way to it stays.
AddSkipped(l, p) ==
  /\ tx[l].pc = "add"
  /\ p \in tx[l].todo
  /\ \E anchor \in Anchors(l, p) : LET g == Walk(anchor, p) IN
       /\ Resolves(l, g)
       /\ ~IsMemberOf(l, g)
       /\ ~IsAdminGroupJoinAllowed(l, g)
       /\ tx' = [tx EXCEPT ![l] =
                  [Resolved(l, p, anchor, g) EXCEPT !.skipped = @ \cup {p}]]
  /\ UNCHANGED <<groups, adminGroups, members, disturbed, settled>>

\* Faulty: a group the user is in is joined again.
MayJoinAgain(l, g) == IsAdminGroupJoinAllowed(l, g)

MayJoin(l, g) == ~IsMemberOf(l, g) /\ IsAdminGroupJoinAllowed(l, g)

\* The claimed group has passed the check for administrative roles ...
AddAllowed(l, p) ==
  /\ tx[l].pc = "add"
  /\ p \in tx[l].todo
  /\ \E anchor \in Anchors(l, p) : LET g == Walk(anchor, p) IN
       /\ Resolves(l, g)
       /\ MayJoin(l, g)
       /\ tx' = [tx EXCEPT ![l] =
                  [Resolved(l, p, anchor, g) EXCEPT !.pc = "join", !.allowed = {g}]]
  /\ UNCHANGED <<groups, adminGroups, members, disturbed, settled>>

\* ... and the user joins it, whatever roles it grants by now.
JoinAllowed(l) ==
  /\ tx[l].pc = "join"
  /\ tx' = [tx EXCEPT ![l] =
       [tx[l] EXCEPT !.pc = "add", !.joined = @ \cup tx[l].allowed, !.allowed = {}]]
  /\ UNCHANGED <<groups, adminGroups, members, disturbed, settled>>

\* Faulty: a group on the way to a claimed one counts as claimed.
NotOnTheWay(l) ==
  IF tx[l].mapper.removeNotListed
  THEN {g \in Memberships(l) : /\ IsManaged(tx[l].mapper, g)
                               /\ \A p \in tx[l].claimed : ~Matches(p, g)}
  ELSE {}

\* Faulty: the scope is not looked at.
NotListedAnywhere(l) ==
  IF tx[l].mapper.removeNotListed THEN Memberships(l) \ tx[l].claimed ELSE {}

\* Faulty: compared with the paths left to add, of which there are none.
NotLeftToAdd(l) ==
  IF tx[l].mapper.removeNotListed
  THEN {g \in Memberships(l) : IsManaged(tx[l].mapper, g) /\ g \notin tx[l].todo}
  ELSE {}

\* The memberships the removal loop ends, from the list taken at its start.
NotListed(l) ==
  IF tx[l].mapper.removeNotListed
  THEN {g \in Memberships(l) : IsManaged(tx[l].mapper, g) /\ g \notin tx[l].claimed}
  ELSE {}

\* All claimed paths are handled: leave what is managed and not claimed.
LeaveNotListed(l) ==
  /\ tx[l].pc = "add"
  /\ tx[l].todo = {}
  /\ tx' = [tx EXCEPT ![l] = [@ EXCEPT !.pc = "commit", !.left = NotListed(l)]]
  /\ UNCHANGED <<groups, adminGroups, members, disturbed, settled>>

\* The level of the summary line, of what the sync has done so far.
SummaryLevel(l) ==
  IF tx[l].notFound # {} THEN "WARN"
  ELSE IF tx[l].joined \cup tx[l].left \cup tx[l].skipped \cup tx[l].created # {} THEN "INFO"
  ELSE "DEBUG"

-----------------------------------------------------------------------------
(***************************************************************************)
(* The store ends the transaction of the login.  Two siblings of one name  *)
(* and two rows for one membership violate its unique constraints.         *)
(***************************************************************************)

Conflict(l) ==
  \/ tx[l].created \cap groups # {}
  \/ tx[l].joined \cap members[tx[l].user] # {}

\* Every claimed group exists, and the user is in it unless it was skipped.
Accomplished(l) ==
  /\ tx[l].notFound = {}
  /\ tx[l].claimed \ tx[l].skipped \subseteq Memberships(l)

\* Whoever works on user u at the same time saw an older state.
OverlappingSyncs(l, u) == {k \in Logins \ {l} : Active(k) /\ tx[k].user = u}

Commit(l) ==
  /\ tx[l].pc = "commit"
  /\ ~Conflict(l)
  /\ LET u == tx[l].user IN
     /\ groups' = groups \cup tx[l].created
     /\ members' = [members EXCEPT ![u] = Memberships(l)]
     /\ disturbed' = (disturbed \ {l}) \cup OverlappingSyncs(l, u)
     /\ settled' = [settled EXCEPT ![u] =
          IF l \notin disturbed /\ Accomplished(l)
          THEN {<<tx[l].mapper, tx[l].claimed>>} ELSE {}]
  /\ tx' = [tx EXCEPT ![l] = [pc |-> "done"]]
  /\ UNCHANGED adminGroups

\* Nothing of a sync that violates a constraint is kept; the login fails.
Fail(l) ==
  /\ tx[l].pc = "commit"
  /\ Conflict(l)
  /\ tx' = [tx EXCEPT ![l] = [pc |-> "failed"]]
  /\ disturbed' = disturbed \ {l}
  /\ UNCHANGED <<groups, adminGroups, members, settled>>

-----------------------------------------------------------------------------
(***************************************************************************)
(* Administrators change the realm under the running syncs.                *)
(***************************************************************************)

Unsettled == [u \in Users |-> {}]

AllSyncs == {l \in Logins : Active(l)}

SyncsOf(u) == {l \in Logins : Active(l) /\ tx[l].user = u}

AdminCreateGroup(g) ==
  /\ g \notin groups
  /\ SelfAndAncestors(g) \ {g} \subseteq groups
  /\ groups' = groups \cup {g}
  /\ UNCHANGED <<adminGroups, members, tx, disturbed, settled>>

\* Map an administrative role to a group, or take it away.
AdminToggleRole(g) ==
  /\ g \in groups
  /\ adminGroups' = IF g \in adminGroups THEN adminGroups \ {g} ELSE adminGroups \cup {g}
  /\ disturbed' = disturbed \cup AllSyncs
  /\ settled' = Unsettled
  /\ UNCHANGED <<groups, members, tx>>

\* Add the user to a group by hand, or remove the user from it.
AdminToggleMembership(u, g) ==
  /\ g \in groups
  /\ members' = [members EXCEPT ![u] = IF g \in @ THEN @ \ {g} ELSE @ \cup {g}]
  /\ disturbed' = disturbed \cup SyncsOf(u)
  /\ settled' = [settled EXCEPT ![u] = {}]
  /\ UNCHANGED <<groups, adminGroups, tx>>

-----------------------------------------------------------------------------
Add(l) ==
  \E p \in tx[l].todo :
    AddNotFound(l, p) \/ AddHeld(l, p) \/ AddSkipped(l, p) \/ AddAllowed(l, p)

\* The steps the server takes by itself once a login has begun.
Proceed(l) ==
  \/ tx[l].pc = "add" /\ Add(l)
  \/ JoinAllowed(l)
  \/ LeaveNotListed(l)
  \/ Commit(l)
  \/ Fail(l)

Login == \E l \in Logins :
  \/ \E u \in Users, m \in Mappers, claim \in Claims : Begin(l, u, m, claim)
  \/ Proceed(l)

Admin == \E g \in AdminPaths :
  \/ AdminCreateGroup(g)
  \/ AdminToggleRole(g)
  \/ \E u \in Users : AdminToggleMembership(u, g)

Next == Login \/ Admin

Spec == Init /\ [][Next]_vars

\* The server works through a sync it has begun: the loops of syncGroups have
\* no condition that waits.
FairSpec == Spec /\ \A l \in Logins : WF_vars(Proceed(l))

-----------------------------------------------------------------------------
(***************************************************************************)
(* Properties.                                                             *)
(***************************************************************************)

\* The realm's groups stay a tree and nobody is a member of a group that does
\* not exist: the parents resolveGroup creates on the way are committed with
\* the group, whatever other logins and administrators create meanwhile.
RealmConsistent ==
  /\ \A g \in groups : SelfAndAncestors(g) \subseteq groups
  /\ \A u \in Users : members[u] \subseteq groups

\* What holds of every sync in flight.  It works off paths that its own claim
\* names; it ends only memberships in its scope that the claim does not name;
\* and whatever it joins or creates has all its parents, committed or pending.
\* With a lookup from the realm root the group reached is the one the claim
\* names, so only claimed groups are joined and only groups on the way to them
\* created.
SyncInScope(l) ==
  LET s == tx[l] IN
  /\ \E claim \in Claims : s.claimed = ClaimedFull(s.mapper, claim)
  /\ s.todo \subseteq s.claimed
  /\ \A g \in s.left :
       s.mapper.removeNotListed /\ IsManaged(s.mapper, g) /\ g \notin s.claimed
  /\ \A g \in s.created \cup s.allowed \cup s.joined :
       SelfAndAncestors(g) \subseteq VisibleGroups(l)
  /\ s.created # {} => s.mapper.createMissing
  /\ RootOnly(s.mapper) =>
       /\ \A a \in s.anchors : a = <<Last(a)>>
       /\ s.allowed \cup s.joined \subseteq s.claimed
       /\ \A g \in s.created : \E p \in s.claimed : g \in SelfAndAncestors(p)

\* The invariant the proofs rest on.
ScopeInv ==
  /\ TypeOK
  /\ RealmConsistent
  /\ \A l \in Logins : Active(l) => SyncInScope(l)

\* With the lookup from the realm root, a sync does not leave a group it has
\* just joined for the claim: the path the removal loop computes for a joined
\* group is the path that was claimed.
NoJoinThenLeave ==
  \A l \in Logins :
    Active(l) /\ RootOnly(tx[l].mapper) => tx[l].joined \cap tx[l].left = {}

\* What is about to be committed reflects the claim, unless the user was
\* changed by others while the sync ran: the user is in every claimed group
\* that exists and may be joined, but for those the user was in through a
\* subgroup when their turn came, be it that of an earlier membership or of a
\* claimed one joined before, and in no other group of the managed scope.
LoginReflectsClaim ==
  \A l \in Logins :
    tx[l].pc = "commit" /\ l \notin disturbed /\ RootOnly(tx[l].mapper) =>
      /\ \A p \in tx[l].claimed \ (tx[l].skipped \cup tx[l].notFound) :
           \/ p \in Memberships(l)
           \/ \E h \in members[tx[l].user] \cup tx[l].joined : h # p /\ Matches(h, p)
      /\ tx[l].mapper.removeNotListed =>
           \A g \in Memberships(l) : IsManaged(tx[l].mapper, g) => g \in tx[l].claimed

\* The same without the exception: each login reflects the current claim.
ClaimedGroupsHeld ==
  \A l \in Logins :
    tx[l].pc = "commit" /\ l \notin disturbed =>
      tx[l].claimed \ (tx[l].skipped \cup tx[l].notFound) \subseteq Memberships(l)

\* A sync that repeats the one the user's memberships are the result of, and
\* that left nothing to be done, changes nothing: no group is joined and left
\* again, for each login with an unchanged claim.  Its summary line is a DEBUG
\* line, unless the claim names a group the user may not join because of its
\* roles: that one is skipped again, and syncGroups logs INFO, at each login.
ResyncIsQuiet ==
  \A l \in Logins :
    Active(l) /\ l \notin disturbed /\ RootOnly(tx[l].mapper)
      /\ <<tx[l].mapper, tx[l].claimed>> \in settled[tx[l].user]
      => /\ tx[l].joined = {}
         /\ tx[l].left = {}
         /\ tx[l].created = {}
         /\ tx[l].notFound = {}
         /\ (\A p \in tx[l].claimed : IsAdminGroupJoinAllowed(l, p)) =>
              SummaryLevel(l) = "DEBUG"

\* Every sync that has begun ends, with or without success.
LoginEnds == \A l \in Logins : Active(l) ~> ~Active(l)

\* All that other parts of the realm see of a sync is one atomic change of the
\* user's own memberships, within claim and scope.
Promise == INSTANCE GroupSync WITH
  Offers <- {[claim |-> ClaimedFull(m, c), scope |-> EffectiveScope(m),
              removes |-> m.removeNotListed, creates |-> m.createMissing] :
             m \in Mappers, c \in Claims}

SyncIsAtomic == Promise!Spec

=============================================================================

-------------------------- MODULE MCIdpGroupMapper --------------------------
(***************************************************************************)
(* Small realms for IdpGroupMapper: two group names, claims of up to two   *)
(* paths, two logins in flight.                                            *)
(***************************************************************************)
EXTENDS IdpGroupMapper

CONSTANTS A, B

\* No target prefix, whole realm managed, everything allowed but admin groups.
Plain ==
  [targetPrefix |-> << >>, targetSlash |-> FALSE, managedPrefix |-> << >>,
   legacyLookup |-> FALSE, removeNotListed |-> TRUE, createMissing |-> TRUE,
   allowAdmin |-> FALSE]

\* Groups are placed below A, missing ones are reported, none are created.
Targeted ==
  [Plain EXCEPT !.targetPrefix = <<A>>, !.createMissing = FALSE]

\* Removal only below A, admin groups may be joined.
ManagedBelowA ==
  [Plain EXCEPT !.managedPrefix = <<A>>, !.allowAdmin = TRUE]

\* Nothing is removed.
AddOnly == [Plain EXCEPT !.removeNotListed = FALSE]

\* First segments are looked up anywhere in the tree.
Legacy == [Plain EXCEPT !.legacyLookup = TRUE, !.createMissing = FALSE]

ManagedAndAddOnly == {ManagedBelowA, AddOnly}
PlainOnly == {Plain}
AllThree == {Plain, Targeted, Legacy}

\* Nothing, a group, and a group with one of the same name at the root.
RootClaims == {{}, {<<A>>}, {<<A, B>>, <<B>>}}
\* Nothing, a group with its subgroup, and one of the subgroup's name.
FamilyClaims == {{}, {<<A>>, <<A, B>>}, {<<B>>}}
NestedClaims == {{<<A>>}, {<<A, B>>, <<B>>}}

OneTopLevel == {<<A>>}
ParentAndChild == {<<A>>, <<A, B>>}

LoginSymmetry == Permutations(Logins)

=============================================================================

CONSTANTS
  A = A
  B = B
  Names = {A, B}
  Users = {u1}
  Logins = {l1, l2}
  Mappers <- AllThree
  Claims <- FamilyClaims
  InitialGroups <- OneTopLevel
  AdminPaths <- ParentAndChild
SPECIFICATION Spec
SYMMETRY LoginSymmetry
INVARIANT TypeOK
INVARIANT LoginReflectsClaim
INVARIANT ResyncIsQuiet

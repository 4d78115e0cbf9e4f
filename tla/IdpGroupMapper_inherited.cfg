CONSTANTS
  A = A
  B = B
  Names = {A, B}
  Users = {u1}
  Logins = {l1}
  Mappers <- PlainOnly
  Claims <- RootClaims
  InitialGroups <- OneTopLevel
  AdminPaths = {}
SPECIFICATION Spec
INVARIANT ClaimedGroupsHeld

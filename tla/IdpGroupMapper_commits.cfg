CONSTANTS
  A = A
  B = B
  Names = {A, B}
  Users = {u1}
  Logins = {l1, l2}
  Mappers <- ManagedAndAddOnly
  Claims <- NestedClaims
  InitialGroups = {}
  AdminPaths = {}
SPECIFICATION FairSpec
INVARIANT ScopeInv
INVARIANT NoJoinThenLeave
PROPERTY SyncIsAtomic
PROPERTY LoginEnds

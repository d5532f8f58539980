SPECIFICATION Spec
CONSTANTS
  OfflineQueue = FALSE
  MaxRecords = 1
  Call = {c1, c2}
  Nobody = Nobody
  Pages = {"physical", "supervisor", "conflicts"}
  Resolver = {k1, k2}
  MaxFaults = 2
INVARIANT BusyHasOneOwner
PROPERTY KeepsPromise
CHECK_DEADLOCK FALSE

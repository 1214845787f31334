SPECIFICATION Spec
CONSTANTS
  c1 = c1
  c2 = c2
  done = done
  asks = asks
  i1 = i1
  e1 = e1
  e2 = e2
  Loops <- MCLoops
  NSessions = 2
  Kinds <- MCKinds
  SubIds <- MCSubIds
  Endpoints <- MCEndpoints
  NoEndpoint = NoEndpoint
  PageSize = 1
  Setups <- MCSetups
SYMMETRY Interchangeable
INVARIANTS
  OncePerWindow
  QuietWhenTold
  OfflineAtRest
  UnmovedListedOnce
CHECK_DEADLOCK FALSE

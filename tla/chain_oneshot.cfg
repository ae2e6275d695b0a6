SPECIFICATION ChainSpec
CONSTANTS
  MaxObjs = 5
  Timeouts = {0, 7}
  HopKinds = {"tunnel", "socks5"}
  OneShot = TRUE
INVARIANTS
  NoDanglingUse
  TimeoutReachesChain
  RouteThroughAllHops
  FailureStopsTheWalk
  DestroyFreesInstalled
CHECK_DEADLOCK FALSE

SPECIFICATION ChainSpec
CONSTANTS
  MaxObjs = 4
  Timeouts = {0, 7}
  HopKinds = {"tunnel", "socks5"}
  OneShot = FALSE
INVARIANT ProxiesAreStillThere
CHECK_DEADLOCK FALSE

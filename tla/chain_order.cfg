SPECIFICATION ChainSpec
CONSTANTS
  MaxObjs = 3
  Timeouts = {0, 7}
  HopKinds = {"tunnel", "socks5"}
  OneShot = TRUE
INVARIANT HopsInInsertionOrder
CHECK_DEADLOCK FALSE

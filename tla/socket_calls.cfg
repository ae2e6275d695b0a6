SPECIFICATION SocketSpec
CONSTANTS
  MaxObjs = 3
  Timeouts = {0, 7}
  HopKinds = {"tunnel", "socks5", "proxy"}
  OneShot = TRUE
  MaxFd = 1
  Hosts = {h1, h2}
  h1 = h1
  h2 = h2
  NoHost = NoHost
  CloseRule = "never"
  StdinHeld = FALSE
  StopAfterFail = TRUE
INVARIANTS
  TlsNamesDestination
  CommTimeoutCurrent
  BoundOnlyWhenRouted
  FailureDescribed
CHECK_DEADLOCK FALSE

SPECIFICATION ClientSpec
CONSTANTS
  MaxFd = 2
  Hosts = {h1}
  h1 = h1
  NoHost = NoHost
  Timeouts = {0, 7}
  CloseRule = "never"
  StdinHeld = FALSE
  StopAfterFail = TRUE
INVARIANTS
  SockIsOurs
  TlsReleasable
  CommFollowsSock
  NoStrayUse
  NoCleartextAfterTls
CHECK_DEADLOCK FALSE

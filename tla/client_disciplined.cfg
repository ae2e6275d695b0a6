SPECIFICATION ClientSpec
CONSTANTS
  MaxFd = 2
  Hosts = {h1}
  h1 = h1
  NoHost = NoHost
  Timeouts = {0, 7}
  CloseRule = "always"
  StdinHeld = TRUE
  StopAfterFail = FALSE
INVARIANT NoDescriptorLeak
PROPERTY ImplementsSession
CHECK_DEADLOCK FALSE

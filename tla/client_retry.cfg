SPECIFICATION ClientSpec
CONSTANTS
  MaxFd = 2
  Hosts = {h1}
  h1 = h1
  NoHost = NoHost
  Timeouts = {0, 7}
  CloseRule = "connected"
  StdinHeld = TRUE
  StopAfterFail = FALSE
INVARIANT DestructorReleases
CHECK_DEADLOCK FALSE

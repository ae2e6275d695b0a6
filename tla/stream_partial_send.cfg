SPECIFICATION StreamSpec
CONSTANTS
  Bytes = {"a"}
  MaxIn = 1
  MaxLen = 2
  SendBuf = 1
INVARIANT SendsMeansSent
CHECK_DEADLOCK FALSE

SPECIFICATION StreamSpec
CONSTANTS
  Bytes = {"a", "CR", "LF", "NUL"}
  MaxIn = 3
  MaxLen = 2
  SendBuf = 1
INVARIANTS
  StreamTypeOK
  ReadIsExact
  LineFraming
  LineKeepsData
PROPERTIES
  RetrySafeUntimed
  TimedCallsReturn
  LoopEnds
CHECK_DEADLOCK FALSE

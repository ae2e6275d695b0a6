SPECIFICATION Spec
CONSTANTS
  TimeoutArgs <- MCTimeoutArgs
  Ticks = 1
  IntHalf = 128
  MsPerSec = 8
  UsPerMs = 2
  RecSize = 2
  InCap = 2
  OutCap = 1
  MsgUnits = 2
INVARIANTS TypeOK ErrorNamesCause ModeRestored NoTimeoutOverPending EofIsReal SendsAccounted
PROPERTIES HandsOver ConnectTimeoutHonoured TlsCallsReturn

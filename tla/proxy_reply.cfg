SPECIFICATION HandshakeSpec
CONSTANTS
  NameLens = {0, 3}
  SignBit = 4
  Givens <- MCGivens
  MaxData = 2
INVARIANTS
  HandshakeTypeOK
  NoOverread
  SuccessIsGranted
  ReplyConsumed
  ProxyToldDestination
PROPERTY HandshakeReturns
CHECK_DEADLOCK FALSE

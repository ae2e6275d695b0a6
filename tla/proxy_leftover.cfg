SPECIFICATION HandshakeSpec
CONSTANTS
  NameLens = {0, 3}
  SignBit = 4
  Givens <- MCGivens
  MaxData = 1
INVARIANT RestOfReplyRead
CHECK_DEADLOCK FALSE

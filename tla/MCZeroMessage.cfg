CONSTANTS
  Curves <- OneCurve
  PiDigits <- MCPiDigits
  LOW_PART_BITS = 3
  MaxSeed = 1
  Messages = {0, 10}
  Foreign <- MCForeign
  Elements = {}
SPECIFICATION Spec
CHECK_DEADLOCK FALSE
INVARIANT
  SignableMessagesVerify

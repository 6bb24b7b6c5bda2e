CONSTANTS
  Curves <- MCCurves
  PiDigits <- MCPiDigits
  LOW_PART_BITS = 3
  MaxSeed = 1
  Messages = {0, 1, 10, 15}
  Foreign <- MCForeign
  Elements = {0, 1, 4, 7, 8, 13, 17, 22, 28}
SPECIFICATION Spec
CHECK_DEADLOCK FALSE
INVARIANTS
  VerifyIsEcdsa
  OwnSignatureAccepted
  MultiplesOfGeneratorExist
  FastHashIsPedersenHash

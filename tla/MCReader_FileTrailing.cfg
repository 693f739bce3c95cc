CONSTANTS
  NULL = NULL
  IoTypes = {"FILE"}
  Lengths <- MCLengths
  Requests <- MCRequests
  SizeBits = 4
  IntBits = 3
SPECIFICATION Spec
PROPERTY VerifyEndSound

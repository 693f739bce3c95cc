CONSTANTS
  NULL = NULL
  IoTypes = {"FILE", "MEM"}
  Lengths <- MCLengths
  Requests <- MCRequests
  SizeBits = 4
  IntBits = 3
SPECIFICATION Spec
INVARIANTS TypeOK OffsetInBounds

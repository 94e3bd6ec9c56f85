SPECIFICATION Spec
CONSTANTS
  Byte = {b0, b1}
  Junk = junk
  N0 = 2
  MaxN = 6
  MaxLen = 2
SYMMETRY ByteSymmetry
INVARIANTS
  TypeOK
  PositionsAgree
  ChecksStillHold
  UnreadIsWritten
PROPERTY
  RefinesByteQueue

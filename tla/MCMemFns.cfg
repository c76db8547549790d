SPECIFICATION Spec
CONSTANTS
  Unroll = 2
  Size = 6
  MaxByte = 1
INVARIANTS
  TypeOK
  CopyExact
  SetExact
  CmpExact

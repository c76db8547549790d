SPECIFICATION Spec
CONSTANTS
  app = app
  drv = drv
  Callers <- MCCallers
  NoCaller = NoCaller
  Bytes = {20, 96, 140, 256}
  WordBits = 4
  HeapWords = 3
  MaxLeaks = 1
SYMMETRY Symmetry
INVARIANTS
  TypeOK
  NoOverlap
  BitmapExact
PROPERTIES
  SearchComplete
  EmptyHeapServes
  PoolSpec

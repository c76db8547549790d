SPECIFICATION DataSpec
CONSTANTS
  ControlUnits = 1
  DataUnits = 2
  BlockUnits = 1
  HeapUnits = 7
  DataBufs = 2
  EpDepth = 1
  MaxSends = 3
CONSTRAINT FewSends
INVARIANTS
  FlowTypeOK
  HeapExact
  ModeHonest
  DeadLate
  InOrder
  NoCarryOver
  SessionBound
  PreloadSucceeds
  SourceConserved
  SourcePattern
PROPERTIES
  SwitchSucceeds
CHECK_DEADLOCK FALSE

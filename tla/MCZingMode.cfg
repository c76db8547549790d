SPECIFICATION Spec
CONSTANTS
  AfcN = 3
  Counts <- MCCounts
  RefCounts <- MCRefCounts
  Build = "DEV"
  AckMode = TRUE
  Pokes <- MCPokes
  UartWrites <- MCUartWrites
  Polled <- MCPolled
  MaxFails = 1
  NoVal = NoVal
INVARIANTS
  TypeOK
  NoLostUpdate
  RoleAgrees
  HwCfgIntact
  PathAsSelected
  AfcNearest

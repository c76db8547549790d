SPECIFICATION Spec
CONSTANTS
  a1 = a1
  a2 = a2
  v1 = v1
  NoAddr = NoAddr
  NoVal = NoVal
  Addrs <- MCAddrs
  Vals <- MCVals
INVARIANT
  CommandStored

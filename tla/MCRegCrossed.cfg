SPECIFICATION Spec
CONSTANTS
  app = app
  ep0 = ep0
  uart = uart
  a1 = a1
  a2 = a2
  v1 = v1
  v2 = v2
  NoAddr = NoAddr
  NoVal = NoVal
  Addrs <- MCAddrs
  Vals <- MCVals
  Threads <- AllThreads
  Callbacks <- AllCallbacks
  Ops <- AllOps
  CtlOutCount = 2
  CtlInCount = 1
  MaxUnsolicited = 0
INVARIANT
  ReadsOwnRegister

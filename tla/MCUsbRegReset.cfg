SPECIFICATION UsbSpec
CONSTANTS
  app = app
  a1 = a1
  v1 = v1
  v2 = v2
  NoAddr = NoAddr
  NoVal = NoVal
  Addrs = {a1}
  Vals <- MCVals
  Threads <- MCThreads
  Callbacks = {}
  Ops <- MCOps
  CtlOutCount = 2
  CtlInCount = 1
  MaxUnsolicited = 0
  MaxResets = 1
INVARIANT
  ResetSparesReads

SPECIFICATION FairSpec
CONSTANTS
  t1 = t1
  t2 = t2
  b0 = b0
  b1 = b1
  bF = bF
  Threads = {t1, t2}
  Byte <- MCByte
  ZeroByte = b0
  OnesByte = bF
  SlaveData <- MCSlaveData
  UIntMod = 64
  Requests <- MCRequests
  Timeouts = {1, 3}
  Exclusive = TRUE
INVARIANTS StreamInStep NoStrayPointer BusInStep
PROPERTIES RequestHeld EveryCallEnds

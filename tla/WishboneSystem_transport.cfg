SPECIFICATION FairSpec
CONSTANTS
  t1 = t1
  t2 = t2
  b0 = b0
  b1 = b1
  b2 = b2
  bF = bF
  Threads = {t1, t2}
  Byte <- MCByte
  ZeroByte = b0
  OnesByte = bF
  Requests <- MCRequests
  UIntMod = 64
  mem_size = 5
  LongMod = 4
  Timeouts = {3}
INVARIANTS SystemInStep NeverTimesOut
PROPERTIES ImplementsTransport

SPECIFICATION FairSpec
CONSTANTS
  b0 = b0
  b1 = b1
  bF = bF
  Byte <- MCByte
  ZeroByte = b0
  OnesByte = bF
  mem_size = 2
  LongMod = 4
  Masters <- MCMasters
INVARIANTS TypeOK AckIsPending
PROPERTIES AckOnce HeldStrobeIsAcked

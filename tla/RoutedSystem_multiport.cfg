CONSTANTS
  Initiators = {i1, i2}
  HelperCalls <- MultiportCalls
  Buffers = {"src", "dst"}
  Targets = {0, 1, 2}
  initiatorsConfig <- Multiport
  BitwiseAnd <- BitAnd
  Memories = {0, 1}
  SIZE = 2
  Word <- Words
  Garbage <- Unwritten
  LongMod = 2
  Roms = {2}
  baseaddr = 96
  ROM <- ImageOf6
SPECIFICATION FairSpec
PROPERTIES ImplementsAddressSpace

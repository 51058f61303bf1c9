CONSTANTS
  Initiators = {i1}
  HelperCalls <- BasicCalls
  Buffers = {"src", "dst"}
  Targets = {0}
  initiatorsConfig <- Basic
  BitwiseAnd <- BitAnd
  Memories = {0}
  SIZE = 2
  Word <- Words
  Garbage <- Unwritten
  LongMod = 2
  Roms = {}
  baseaddr = 0
  ROM <- ImageOf6
SPECIFICATION Spec
INVARIANTS NoStrayAccess

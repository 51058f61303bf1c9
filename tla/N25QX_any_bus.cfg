SPECIFICATION FairFlash
CONSTANTS
  dummy_cycles = 4
  Sends <- BusValues
  Files <- Images
  Places <- Regions
  MaxRegions = 2
  MaxCnt = 9
INVARIANT InStep
PROPERTIES AnswersFromMemory EveryReadIsAnswered

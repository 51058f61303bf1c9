SPECIFICATION FairSpec
CONSTANTS
  Logs <- Models
  max_size = 1
  max_files = 2
  MaxFaults = 1
  Programs <- TestBenches
  stop_on_invalid = TRUE
  Words <- Fetched
  MaxLines = 5
  MaxRuns = 2
INVARIANTS FilesAreBounded NeverWritesToNull GetFindsLogger FlushesLiveLoggers OneFlusher
  OneInstruction OperandsOutsideCode
PROPERTIES ImplementsLog EveryLineIsFlushed EveryRunEnds
CHECK_DEADLOCK FALSE

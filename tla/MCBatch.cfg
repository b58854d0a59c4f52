CONSTANTS
  NumTasks = 2  Path = {f}  Permits = 2  MaxTerminal = 1
  Modes <- EveryMode  MaxEdits = 1  MaxInterrupts = 1  Forced = TRUE
SPECIFICATION Spec
INVARIANT TypeOK OnlySuccessIsPromoted LastIndexDecides NewFilesKept LiveRunsListed
PROPERTY BatchEnds
CHECK_DEADLOCK FALSE

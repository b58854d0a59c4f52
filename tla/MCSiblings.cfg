CONSTANTS
  NumTasks = 2  Path = {f}  Permits = 1  MaxTerminal = 1
  Modes <- WithTrees  MaxEdits = 0  MaxInterrupts = 0  Forced = FALSE
SPECIFICATION Spec
INVARIANT SiblingsKept
CHECK_DEADLOCK FALSE

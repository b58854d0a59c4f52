CONSTANTS
  turn = turn  w1 = w1  w2 = w2
  Turn = turn  Workers = {}
  OldFiles <- CurrentFile  CutsCharacters = TRUE
  MaxMessages = 2  MaxRewrites = 0  MaxRuns = 2  MaxCrashes = 2
SPECIFICATION Spec
INVARIANT SyncedHistoryLoads
CHECK_DEADLOCK FALSE

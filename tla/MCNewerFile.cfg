CONSTANTS
  turn = turn  w1 = w1  w2 = w2
  Turn = turn  Workers = {}
  OldFiles <- OnlyNewerFile  CutsCharacters = FALSE
  MaxMessages = 1  MaxRewrites = 1  MaxRuns = 2  MaxCrashes = 0
SPECIFICATION Spec
PROPERTY NewerFileKept
CHECK_DEADLOCK FALSE

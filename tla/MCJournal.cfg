CONSTANTS
  turn = turn  w1 = w1  w2 = w2
  Turn = turn  Workers = {w1}
  OldFiles <- AnyOldFile  CutsCharacters = FALSE
  MaxMessages = 1  MaxRuns = 3  MaxRewrites = 1  MaxCrashes = 1
SPECIFICATION Spec
INVARIANT UndisturbedKept JournalIsMemory OpenRunsAreOpen
CHECK_DEADLOCK FALSE

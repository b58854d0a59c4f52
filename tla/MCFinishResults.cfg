CONSTANTS
    Batches <- OneFinish
    MIN_TAIL = 2
    SUMMARY_NUDGE_MAX = 2
    Tails = {0, 2}
    Commands = {}
    MaxPrompts = 2
    MaxReplies = 3
    MaxRounds = 1
    MaxShrinks = 0
    MaxCommands = 0
SPECIFICATION TranscriptSpec
CHECK_DEADLOCK FALSE
PROPERTY FinishKeepsResults

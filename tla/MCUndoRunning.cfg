CONSTANTS
    Batches <- OneWrite
    MIN_TAIL = 2
    SUMMARY_NUDGE_MAX = 2
    Tails = {0, 2}
    Commands = {"undo"}
    MaxPrompts = 1
    MaxReplies = 3
    MaxRounds = 1
    MaxShrinks = 0
    MaxCommands = 1
SPECIFICATION TranscriptSpec
CHECK_DEADLOCK FALSE
PROPERTY UndoneStaysUndone

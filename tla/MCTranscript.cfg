CONSTANTS
    Batches <- ReadsAndWrite
    MIN_TAIL = 2
    SUMMARY_NUDGE_MAX = 1
    Tails = {2}
    Commands = {"abort", "steer", "bash", "undo", "compact", "clear"}
    MaxPrompts = 2
    MaxReplies = 2
    MaxRounds = 1
    MaxShrinks = 1
    MaxCommands = 1
SPECIFICATION TranscriptSpec
CHECK_DEADLOCK FALSE
INVARIANT RequestIsValid JournalHoldsConversation
PROPERTY ResultsStay

CONSTANTS
    turn = turn
    child = child
    mid = mid
    big = big
    Main = turn
    Children = {child}
    Home <- TwoWorkspaces
    Paths = {mid, big}
    Written = {mid, big}
    Size <- Sizes
    ErrorSizes = {6}
    MAX_ENTRIES = 2
    MAX_TOTAL = 8
    DIGEST_MIN = 1
    Preview = 2
    RESTORE_MAX = 4
    INGRESS_MAX = 5
    MaxWipes = 2
    MaxOutside = 1
    Unwatched <- Nothing
    MaxResults = 2
SPECIFICATION CacheSpec
CHECK_DEADLOCK FALSE
INVARIANT FullBytesRemain

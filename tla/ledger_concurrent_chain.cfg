CONSTANTS
    Threads = {t1, t2}
    Entries = {a, b}
    NoEntry = NoEntry
    WriteFaults = FALSE
    MaxLines = 3
    MaxCrashes = 1
SPECIFICATION Spec
INVARIANT ChainIntact
CHECK_DEADLOCK FALSE

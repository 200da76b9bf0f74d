CONSTANTS
    Threads = {t1, t2}
    Entries = {a, b}
    NoEntry = NoEntry
    WriteFaults = TRUE
    MaxLines = 3
    MaxCrashes = 1
SPECIFICATION Spec
INVARIANTS LossIsDetected
CHECK_DEADLOCK FALSE

CONSTANTS
    Threads = {t1, t2}
    Entries = {a, b}
    NoEntry = NoEntry
    WriteFaults = FALSE
    MaxLines = 3
    MaxCrashes = 1
SPECIFICATION FairSpec
INVARIANTS AppendsDurable ObjectMatchesFile EditsDetected
PROPERTIES RecordsImmutable ImplementsAuditLog AppendsEnd
CHECK_DEADLOCK FALSE

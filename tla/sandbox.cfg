SPECIFICATION FairSpec
CONSTANTS
    Warmups = {w1}
    Patches = {p1}
    Checks = {c1}
    Destroys = {d1}
    Reaper = reaper
    NoOne = nobody
    MaxBoxes = 3
    MaxFaults = 1
INVARIANTS NoLeakWithoutFault PublishDisplacesNothing ExecSerial
PROPERTIES Reclaimed RequestsEnd
CHECK_DEADLOCK FALSE

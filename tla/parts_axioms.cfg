SPECIFICATION Spec
CONSTANTS
    edit = edit
    new = new
    ignored = ignored
    banned = banned
    test = test
    testToo = testToo
    Changes = {edit, new, ignored, banned, test, testToo}
    Creates = {new, ignored}
    Ignored = {ignored}
    InTests = {test, testToo, ignored}
    Banned = {banned}
    TestPatches <- SomeTestPatches
    Answers <- SomeAnswers
    MaxIters = 2
    MaxRuns = 2
    e1 = e1
    e2 = e2
    Entries = {e1, e2}
    Kind <- OneKind
    Failing <- IsFailing
    Poor <- IsPoor
    Conflicts <- InConflict
    MaxEntries = 1
    MaxLines = 2
    Chats = {t1, t2}
    Prompts = {p1, p2}
    MaxRecords = 5
    MaxAnswers = 7
    Strict = FALSE
    Ingests = {c1, c2, c3}
    Strategies = {"s1", "s2"}
    Contexts = {"x"}
    NoHash = "none"
    Results <- Reports
    Runs = {"r1", "r2"}
    Bodies = {"x", "y"}
    LedgerBound = 3
    MaxChain = 3
INVARIANTS AxiomsStay
SYMMETRY SameCalls
CHECK_DEADLOCK FALSE

SPECIFICATION MCSpec
CONSTANTS
    Runs = {r1}
    NoRun = NoRun
    Calls = {c1, c2, c3}
    Importers = {i1, i2}
    GatewaySteps <- MCSteps
    NoPatch <- MCNoPatch
    NetworkMinTier = 2
    FormatFixMinTier = 2
    MaxClones = 2
    Iters = {0, 1}
    AllowedTypes = {"read_file", "detect_workdirs", "apply_patch", "run_cmd_template", "ensure_deps", "run_tests", "format_fix"}
    Blocked = {"secret"}
    Forbidden = {"test"}
    MaxFiles = 2
    MaxAdded = 2
    MaxDeleted = 2
    MaxTotal = 3
    MaxReads = 1
    MaxSearches = 1
    MaxBytes = 1
    KeepIters = 1
    Sizes = {0, 1}
    WorkdirIds = {w1}
    WarmPool = FALSE
INVARIANTS BudgetsHold PatchTold ImportKept
SYMMETRY CallSymmetry
CHECK_DEADLOCK FALSE

SPECIFICATION Spec
CONSTANTS
    Runs = {r1, r2}
    Actions = {"run_tests", "apply_patch"}
    PathClasses = {"code", "tests"}
    FailureKinds = {"tests_failed"}
    Dims = {"files"}
    TestEdits = TRUE
    MCBudget = 1
    Steps <- MCSteps
    Estimates <- MCEstimates
    AllowedEdits <- MCAllowedEdits
    MaxTotalSteps <- MCMaxTotalSteps
    PatchBudget <- MCPatchBudget
    EscalateOn <- MCEscalateOn
    PolicyMaxSteps = 100
    FailClusterThreshold = 1
    MaxHistory = 1
    Maintenance = TRUE
    MaxExecutions = 3
SYMMETRY RunSymmetry
INVARIANTS BudgetOverrunBounded EditsEarned EnvelopeCoupled RowAnnounced
CHECK_DEADLOCK FALSE

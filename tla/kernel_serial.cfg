SPECIFICATION Spec
CONSTANTS
    Runs = {r1}
    Actions = {"run_tests", "apply_patch"}
    PathClasses = {"code", "tests"}
    FailureKinds = {"tests_failed"}
    Dims = {"files"}
    TestEdits = FALSE
    MCBudget = 8
    Steps <- MCSteps
    Estimates <- MCEstimates
    AllowedEdits <- MCAllowedEdits
    MaxTotalSteps <- MCMaxTotalSteps
    PatchBudget <- MCPatchBudget
    EscalateOn <- MCEscalateOn
    PolicyMaxSteps = 100
    FailClusterThreshold = 2
    MaxHistory = 4
    Maintenance = FALSE
    MaxExecutions = 8
INVARIANTS LoopsEnd ExecutionsCommitted
PROPERTIES DriftLocksOut
CHECK_DEADLOCK FALSE

SPECIFICATION Spec
CONSTANTS
    Callers = {c1, c2, c3}
    FailureThreshold = 2
    MaxFailures = 4
    Fingerprints = {"f", "g", "h"}
    WindowSize = 3
    MaxClusters = 2
    MaxCount = 3
    MaxAuto = 2
    MaxLog = 3
    MaxCycles = 3
    MaxRevisions = 2
    MaxSubtasks = 3
    Sizes = {2, 3}
    MaxAttempts = 2
    MaxStagnation = 2
    MaxEscalations = 5
    n0 = n0
    n1 = n1
    n2 = n2
    n3 = n3
    n4 = n4
    raise = raise
    Nodes = {n0, n1, n2, n3, n4}
    Root = n0
    Raises = raise
    Graphs <- SomeGraphs
    Budgets = {3, 5}
    MaxDepth = 3
    Lines = {0, 50, 101}
    Timeouts = {0, 240}
    Percents = {0, 42, 80, 100}
INVARIANTS RecentFailuresKept CorrectionsBounded SwarmAccounted
           NoSubgoalPassedOver SearchComplete RiskGateIdle
PROPERTIES BreakerSettles RiskOrdered
CHECK_DEADLOCK FALSE

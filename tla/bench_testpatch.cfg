SPECIFICATION Spec
CONSTANTS
    edit = edit
    test = test
    Changes = {edit, test}
    Creates = {}
    Ignored = {}
    InTests = {test}
    Banned = {}
    TestPatches <- SomeTestPatches
    Answers <- SomeAnswers
    MaxIters = 2
    MaxRuns = 1
INVARIANT ProposalIsTheAgents
CHECK_DEADLOCK FALSE

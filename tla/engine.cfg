SPECIFICATION FairSpec
CONSTANTS
    Clients = {c1, c2}
    Verdicts = {"approved", "rejected"}
    Limit = 2
    Kinds = {"low", "patch", "denied"}
    MaxPlan = 3
    Plans <- MCPlans
    StepIds <- MCStepIds
    LedgerFaults = TRUE
    NetworkFaults = TRUE
INVARIANTS StatusTruthful CleanedUp AnswersCover
PROPERTY RunEnds
CHECK_DEADLOCK FALSE

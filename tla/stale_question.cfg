SPECIFICATION FairSpec
CONSTANTS
    e1 = e1
    e2 = e2
    Executors = {e1, e2}
    MaxCaps = 1
    Plans = {0, 1}
    PlanDeps <- Flat
    AskSteps = {}
    ReadOnly = {}
    Timeout = 2
    LeaseGrace = 0
    ApprovalTtl = 1
    ClarifyTtl = 1
    MaxSteps = 8
    MaxRetries = 0
    MaxReplans = 0
    MaxInvestigations = 0
    MaxRounds = 2
    MayAttach = TRUE
    ChildRun = FALSE
    MayCrash = TRUE
CHECK_DEADLOCK FALSE
PROPERTY UnansweredExpires

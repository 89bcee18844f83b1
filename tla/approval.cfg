SPECIFICATION Spec
CONSTANTS
    e1 = e1
    e2 = e2
    Executors = {e1, e2}
    MaxCaps = 2
    Plans = {2}
    PlanDeps <- Flat
    AskSteps = {1}
    ReadOnly = {1}
    Timeout = 2
    LeaseGrace = 0
    ApprovalTtl = 1
    ClarifyTtl = 1
    MaxSteps = 9
    MaxRetries = 1
    MaxReplans = 0
    MaxInvestigations = 0
    MaxRounds = 0
    MayAttach = TRUE
    ChildRun = TRUE
    MayCrash = TRUE
SYMMETRY Symmetry
CHECK_DEADLOCK FALSE
INVARIANT ApprovalSingleUse

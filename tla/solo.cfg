SPECIFICATION Spec
CONSTANTS
    e1 = e1
    e2 = e2
    Executors = {e1, e2}
    MaxCaps = 3
    Plans = {0, 2}
    PlanDeps <- Chain
    AskSteps = {}
    ReadOnly = {1, 3}
    Timeout = 2
    LeaseGrace = 1
    ApprovalTtl = 1
    ClarifyTtl = 1
    MaxSteps = 13
    MaxRetries = 1
    MaxReplans = 1
    MaxInvestigations = 1
    MaxRounds = 0
    MayAttach = TRUE
    ChildRun = FALSE
    MayCrash = TRUE
SYMMETRY Symmetry
CHECK_DEADLOCK FALSE
INVARIANTS TypeOK TerminalEventOnce SoleExecutor CallsBounded PlanHonoured
PROPERTIES ImplementsContract

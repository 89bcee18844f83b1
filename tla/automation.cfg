SPECIFICATION MCSpec
CONSTANTS
    w1 = w1
    w2 = w2
    k1 = k1
    Steps = {1, 2, 3}
    Plans <- AllPlans
    MaxConcurrency = 1
    Notify = {"success", "failure"}
    Keys = {k1}
    Workers = {w1}
    Timeout = 1
    Lease = 0
    Poll = 0
    Period = 1
    Grace = 0
    Horizon = 3
    Execs = {1, 2}
    MaxCrashes = 1
ACTION_CONSTRAINT Scope
CHECK_DEADLOCK FALSE
INVARIANTS AutoTypeOK AdmissionRespected OutcomeTruthful StepsFollowPlan TriggeredOnce
PROPERTIES ExecutionFinal ExecutionSettles

SPECIFICATION FairSpec
CONSTANTS
    w1 = w1
    w2 = w2
    k1 = k1
    Steps = {1}
    Plans <- SinglePlan
    MaxConcurrency = 1
    Notify = {"success", "failure"}
    Keys = {k1}
    Workers = {w1}
    Timeout = 1
    Lease = 0
    Poll = 0
    Period = 1
    Grace = 0
    Horizon = 0
    Execs = {1}
    MaxCrashes = 0
CHECK_DEADLOCK FALSE
PROPERTY CancelledChildEnds

SPECIFICATION FairSpec
CONSTANTS
    w1 = w1
    w2 = w2
    Workers = {w1, w2}
    Timeout = 2
    Lease = 0
    ApprovalTtl = 2
    MaxApprovals = 3
    MaxCrashes = 2
CHECK_DEADLOCK FALSE
INVARIANTS ActionTypeOK RepeatsHarmless RecordTruthful
PROPERTIES Authorised ImplementsChange ActionSettles

SPECIFICATION FairSpec
CONSTANTS
    w1 = w1
    w2 = w2
    Messages = {1, 2}
    Workers = {w1, w2}
    Lease = 1
    Backoff = 0
    MaxAttempts = 2
    MaxReconciliations = 1
    Versions = {1}
    MaxClaims = 2
    MaxCrashes = 1
CHECK_DEADLOCK FALSE
INVARIANTS RobotTypeOK LedgerTruthful
PROPERTIES ImplementsDelivery PostAuthorised RepliesMove

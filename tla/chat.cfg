SPECIFICATION FairSpec
CONSTANTS
    w1 = w1
    a1 = a1
    a2 = a2
    Trusted = {1}
    Bridged = {2}
    InboxWorkers = {w1}
    Adapters = {a1, a2}
    InboxAttempts = 2
    MaxAttempts = 2
    Lease = 1
    Backoff = 1
    MaxFaults = 1
CHECK_DEADLOCK FALSE
INVARIANTS ChannelTypeOK AttemptsAgree AcceptedOnce
PROPERTIES ChannelMoves

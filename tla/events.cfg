SPECIFICATION FairSpec
CONSTANTS
    w1 = w1
    w2 = w2
    q1 = q1
    ws = ws
    sse = sse
    Writers = {w1, w2}
    Requests = {q1}
    Sockets = {ws}
    Streams = {sse}
    Batch = 1
    MaxEvents = 2
    MaxLapses = 1
CHECK_DEADLOCK FALSE
INVARIANTS StreamTypeOK NoGap RequestOnce
PROPERTY ReadersFinish

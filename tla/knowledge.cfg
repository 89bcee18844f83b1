SPECIFICATION FairSpec
CONSTANTS
    d1 = d1
    f = f
    root = root
    b1 = b1
    b2 = b2
    w1 = w1
    w2 = w2
    r = r
    Docs = {d1}
    Folders = {f}
    Root = root
    Bodies = {b1, b2}
    Workers = {w1, w2}
    Readers = {r}
    PageSize = 1
    WorkLease = 2
    AccessLease = 1
    Poll = 0
    Backoff = 1
    Start <- StartInFolder
    MaxActs = 1
    MaxFaults = 1
INVARIANTS KnowledgeTypeOK AccessBounded
PROPERTIES NothingOverlooked AnswersFresh ScansRecur

CONSTANTS
    u1 = u1
    u2 = u2
    c1 = c1
    c2 = c2
    Users = {u1, u2}
    Conns = {c1, c2}
    NoConn = NoConn
    Kinds = {"cmd", "blocking", "pipe", "tx"}
    Batch = 2
    MaxRetries = 1
    MaxCalls = 1
    MultiRefused = FALSE
SPECIFICATION Spec
SYMMETRY Symmetry
INVARIANTS
    OwnReplies
    RunsBounded
    NoErrorMeansRun
CHECK_DEADLOCK FALSE

CONSTANTS
    t1 = t1
    t2 = t2
    t3 = t3
    c1 = c1
    c2 = c2
    c3 = c3
    Txs = {t1, t2, t3}
    Conns = {c1, c2, c3}
    NoConn = NoConn
    MaxRetries = 0
    MaxIncrs = 4
SPECIFICATION TxSpec
SYMMETRY Symmetry
INVARIANTS
    IncrementsKept
    IdleUnwatched
PROPERTIES
    CheckAndSet
CHECK_DEADLOCK FALSE

CONSTANTS
    u1 = u1
    u2 = u2
    c1 = c1
    c2 = c2
    c3 = c3
    Users = {u1, u2}
    Conns = {c1, c2, c3}
    Reaper = reaper
    NoConn = NoConn
    PoolSize = 2
SPECIFICATION Spec
SYMMETRY Symmetry
INVARIANTS
    TypeOK
    QueueCountsHolders
    PoolBound
    NoSharing
    OpenIsOwned
    BreakerHasProber
    TrippedHasError

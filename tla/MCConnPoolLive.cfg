CONSTANTS
    u1 = u1
    u2 = u2
    c1 = c1
    Users = {u1, u2}
    Conns = {c1}
    Reaper = reaper
    NoConn = NoConn
    PoolSize = 2
SPECIFICATION FairSpec
PROPERTIES
    ImplementsLease
    GoroutinesStop
    BreakerResets
    CallsEnd

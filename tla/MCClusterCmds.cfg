CONSTANTS
    a1 = a1
    a2 = a2
    s1 = s1
    s2 = s2
    Addrs = {a1, a2}
    Slots = {s1, s2}
    Covered = {s1}
    NoAddr = NoAddr
    NoNode = NoNode
    Batch = 2
    Kinds = {"cmd", "pipe", "tx"}
    MaxRedirects = 2
    MaxMoves = 1
    MaxNodes = 2
    MaxTrouble = 1
SPECIFICATION Spec
SYMMETRY Symmetry
INVARIANTS
    NilMeansRunOpen
    RunsOnce
    TxRunsOnce
    RedirectsConverge
CHECK_DEADLOCK FALSE

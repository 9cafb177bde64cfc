CONSTANTS
    Conns = {c1, c2}
    None = None
    NPage = 2
    Writes = {{1},{1,2}}
    NReader = 2
    Modes = {"passive", "truncate"}
    MaxTxn = 2
    MaxFrame = 3
    MaxRare = 2
SPECIFICATION Spec
SYMMETRY Symmetry
CONSTRAINT NoFlaw
INVARIANTS
    Snapshot
    NothingLost
    Recoverable
    WriterCurrent

CONSTANTS
    Conns = {c1, c2}
    None = None
    NPage = 2
    Writes = {{1},{1,2}}
    NReader = 3
    Modes = {"passive"}
    MaxTxn = 3
    MaxFrame = 4
    MaxRare = 0
SPECIFICATION Spec
SYMMETRY Symmetry
INVARIANTS
    Snapshot

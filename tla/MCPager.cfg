CONSTANTS
    Conns = {c1, c2}
    Proc <- Apart
    NPage = 2
    Modes <- AllSame
    FullSync = TRUE
    ExtraSync = FALSE
    Aligned = FALSE
    MaxTxn = 2
    MaxRare = 2
SPECIFICATION Spec
SYMMETRY Symmetry
CONSTRAINT ZeroLasts
INVARIANTS
    Exclusion
    ReadersView
    Recoverable

CONSTANTS
    Conns = {c1, c2}
    Proc <- Together
    NPage = 2
    Modes <- AllSame
    FullSync = TRUE
    ExtraSync = FALSE
    Aligned = FALSE
    MaxTxn = 2
    MaxRare = 1
SPECIFICATION Spec
SYMMETRY Symmetry
CONSTRAINT ZeroLasts
INVARIANT
    ReadersView

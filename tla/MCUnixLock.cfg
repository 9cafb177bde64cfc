CONSTANTS
    f1 = f1
    f2 = f2
    f3 = f3
    Files = {f1, f2, f3}
    Proc <- Threads
    MaxErr = 2
SPECIFICATION FairSpec
INVARIANT
    ReservedAgrees
PROPERTIES
    ImplementsDbLock
    OnlyThreadsStarve

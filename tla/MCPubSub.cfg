CONSTANTS
    c1 = c1
    c2 = c2
    Channels = {"news"}
    Patterns = {}
    User = user
    Recv = recv
    Conns = {c1, c2}
    NoConn = NoConn
    ChanSize = 1
    MaxInbox = 1
    MaxBreaks = 1
SPECIFICATION FairSpec
INVARIANTS
    OneConn
    Subscribed
PROPERTIES
    HealthyKept
    ChannelCloses
    Resubscribes

CONSTANTS
    a1 = a1
    a2 = a2
    n1 = n1
    n2 = n2
    n3 = n3
    p1 = p1
    l1 = l1
    l2 = l2
    Addrs = {a1, a2}
    Seeds = {a1}
    Loopback = {}
    Nodes = {n1, n2, n3}
    NoNode = NoNode
    Callers = {p1}
    Loaders = {l1, l2}
    First = l1
    MaxLoads = 2
SPECIFICATION Spec
SYMMETRY Symmetry
INVARIANTS
    SingleFlight
    OpenIsOwned
PROPERTIES
    StateAdvances
    GCKeepsStamped

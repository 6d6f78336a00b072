SPECIFICATION Spec
CONSTANTS
    n1 = n1
    n2 = n2
    n3 = n3
    w1 = w1
    w2 = w2
    s1 = s1
    s2 = s2
    None = None
    Node = {n1, n2}
    Slot = {s1, s2}
    Worker = {w1, w2}
    First = w1
    monitor = monitor
    Monitor = monitor
    Target = 1
    MaxSavedNodes = 1
    MaxConns = 2
SYMMETRY Symmetry
INVARIANTS
    TypeOK
    UsedNodesAreKnown
    AtMostTarget
    NoneIsForgotten

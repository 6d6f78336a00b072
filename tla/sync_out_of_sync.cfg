SPECIFICATION Spec
CONSTANTS
    g = g
    a1 = a1
    a2 = a2
    a3 = a3
    a4 = a4
    a5 = a5
    b2 = b2
    b3 = b3
    b4 = b4
    x3 = x3
    x4 = x4
    none = none
    n1 = n1
    n2 = n2
    Node = {n1, n2}
    Header <- MCHeader
    Genesis = g
    Parent <- MCParent
    Work <- MCWork
    StartTips = {g}
    RemoteTips <- MCSameTips
    InvalidBlocks = {x3}
    ChunkSize = 2
    LocatorTop = 1
    MaxLag = 1
    MaxBehind = 1
PROPERTIES
    OutOfSyncNodesAreBehind

SPECIFICATION Spec
CONSTANTS
    Node = {n1, n2}
    MaxRecent = 2
    DisconnectMidpoint = 2
    SeenBonus = 1
    OutOfSyncMidpoint = 2
    InvalidMidpoint = 2
    ConnectedFor = 1
    MaxTime = 2
    MaxCalls = 3
SYMMETRY NodeSymmetry
INVARIANTS
    TypeOK
    IndexesAgree
    BlacklistAgrees
    RecentRatingsAreRight
    LatestTimeIsLatest
    WritesReplayToMetrics
    ClosedIsSaved

SPECIFICATION FairSpec
CONSTANTS
    c1 = c1
    c2 = c2
    Conn = {c1, c2}
    MaxSessions = 3
INVARIANTS
    TypeOK
    WorksOnOpenDatabases
    ClosedWhenStopped
    NothingOutlivesItsSession
PROPERTIES
    CallsSettle
    ChecksSettle

SPECIFICATION FairSpec
CONSTANTS
    p1 = p1
    p2 = p2
    interval = interval
    Caller = {p1, p2}
    Interval = interval
    MaxCalls = 4
    MaxAddrs = 1
    MaxSpoilt = 1
INVARIANTS
    TypeOK
    RepliesAnswerTheirRequests
    OneEventPerSocket
PROPERTIES
    CallsSettle
CHECK_DEADLOCK FALSE

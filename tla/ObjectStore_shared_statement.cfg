CONSTANTS
    t1 = t1
    t2 = t2
    p1 = p1
    p2 = p2
    Thread = {t1, t2}
    Process = {p1}
    ProcessOf <- Threaded
    NoThread = NoThread
    Guid = {g1, g2}
    NoGuid = NoGuid
    Place = {NoName, a}
    NoName = NoName
    MayFail = FALSE
    MaxCalls = 4
SPECIFICATION Spec
PROPERTIES
    RecordsOwnGuid
CHECK_DEADLOCK FALSE

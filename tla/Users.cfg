\* Two connections, two names, three users in memory, six calls; or three
\* connection objects, a copy and a copy's copy among them, and six calls.
CONSTANTS
    Connection = {c1, c2}
    Name = {n1, n2}
    Accounts = 1
    MaxGuid = 2
    MaxUser = 3
    MaxCalls = 6
    Nobody = Nobody
    Unused = Unused
    Gone = Gone
    Cnc = {m1, m2, m3}
    Config = {f1, f2}
    Transaction = {t1}
    Reconnects = TRUE
    MaxHandles = 2
    MaxCncCalls = 6
SPECIFICATION UsersSpec
INVARIANTS StackHolds PointersHold OpenTells
PROPERTIES DisposeEnds
CHECK_DEADLOCK FALSE

CONSTANTS
    a = a
    b = b
    Connection = {c1, c2}
    Empty = Empty
    Name = {a, b, Empty}
    Path <- Paths
    NoPath = NoPath
    MayFail = TRUE
    MaxCalls = 3
SYMMETRY ConnectionSymmetry
SPECIFICATION Spec
INVARIANTS
    ParentsFirst
    PathsAgree
    ContextStands
CHECK_DEADLOCK FALSE

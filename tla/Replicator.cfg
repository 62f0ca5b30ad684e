CONSTANTS
    g1 = g1
    g2 = g2
    Site = {s1, s2}
    Guid = {g1, g2}
    NoGuid = NoGuid
    Parent <- ChildOfG1
    Absent = Absent
    MayPurge = TRUE
    Forces = {TRUE, FALSE}
    MaxTime = 1
    MaxEdits = 3
    MaxXmls = 2
    MaxRecords = 2
SYMMETRY SiteSymmetry
SPECIFICATION Spec
INVARIANTS
    GoneRecorded
    LinksResolve
PROPERTIES
    AppliedOnce
    ImportsGoForward
CHECK_DEADLOCK FALSE

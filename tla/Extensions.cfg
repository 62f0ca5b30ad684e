\* Two programs: five calls of lock and approve, or three that set and remove
\* two parameters, or three that make and remove attachments.
CONSTANTS
    Caller = {c1, c2}
    Person = {p1, p2}
    NoPerson = NoPerson
    Nobody = Nobody
    Absent = Absent
    MaxCalls = 5
    Holder = {h1, h2}
    ParamName = {n1, n2}
    ParamValue = {"v", "w"}
    MaxParams = 3
    MaxParamCalls = 3
    Keeper = {k1, k2}
    AttName = {"a"}
    MaxAtts = 2
    MaxLocations = 2
    MaxAttCalls = 3
SPECIFICATION ExtSpec
INVARIANTS FreshAgrees ParametersTell AttachmentsKept
PROPERTIES TakenOnce LostUnseen RemovingEnds
CHECK_DEADLOCK FALSE

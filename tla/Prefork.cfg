\* Two processes: three calls that write an object and repligard, or four that
\* the quota counts, or three installers' calls, where every statement may
\* fail; or five on two configurations and a file.
CONSTANTS
    t1 = t1
    t2 = t2
    p1 = p1
    p2 = p2
    Thread = {t1, t2}
    Process = {p1, p2}
    ProcessOf <- Prefork
    NoThread = NoThread
    Guid = {g1, g2}
    NoGuid = NoGuid
    Place = {NoName, a}
    NoName = NoName
    MayFail = TRUE
    MaxCalls = 3
    Writer = {w1, w2}
    Thing = {o1, o2}
    Limit = 2
    MaxSize = 3
    UInt = 16
    MaxQuotaCalls = 4
    Installer = {i1, i2}
    Kind = {"basic", "rich"}
    Field = {"f1", "f2"}
    FieldsOf <- SharedTable
    MaxInstalls = 3
    Cfg = {c1, c2}
    KeyFile = {f1}
    Text = {"a", "b"}
    MaxDepth = 3
    MaxCfgCalls = 5
SYMMETRY PreforkSymmetry
SPECIFICATION PreforkSpec
INVARIANTS
    RecordAgrees RecordsCount TablesSettle ReadsBack
CHECK_DEADLOCK FALSE

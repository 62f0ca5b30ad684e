\* One job of any kind but purge, whose code is create's, and a pool of two
\* threads; or a query of up to three columns, joins and constraints and four
\* other calls.
CONSTANTS
    Job = {j1}
    Worker = {w1, w2}
    Kinds = {"load", "create", "update", "delete"}
    Main = Main
    NoJob = NoJob
    MaxCalls = 3
    Column <- SqlColumns
    Joinable <- SqlJoins
    Filtering <- SqlFilters
    MaxParts = 3
    MaxDataCalls = 4
SPECIFICATION SqlSpec
INVARIANTS JobsHold SelectsColumns
PROPERTIES PushesAnswered
CHECK_DEADLOCK FALSE

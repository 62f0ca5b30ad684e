\* Four things with what they lead to, four calls on one query; two storages
\* besides the executor's own, four calls on one executor; some 4000
\* directories of schema files, 600 views of three classes and five calls.
CONSTANTS
    Rows <- DataRows
    Name <- Names
    Pair <- Pairs
    Limits = {0, 1}
    MaxCalls = 4
    Storage = {"s1", "s2"}
    Borrowed = {2}
    MaxSelectCalls = 4
    Library <- Libraries
    Class <- ViewedClasses
    View <- ViewDecls
    MaxViewCalls = 5
SPECIFICATION Spec
INVARIANTS StatementMeans QueriesAnswer SchemaMeans ViewsShow
CHECK_DEADLOCK FALSE

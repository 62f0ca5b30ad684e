CONSTANTS
    Caller = {c1, c2}
    Guid = {g1}
    NoGuid = NoGuid
    Data = {d1, d2}
    Workspace = {0, 1, 2}
    Up <- Ups
    MayFail = TRUE
    MaxCalls = 3
SYMMETRY Symmetry
SPECIFICATION Spec
INVARIANTS
    OneCopy
    LoggedWhereLive
    UpdateShows
PROPERTY
    ImplementsOverlay
CHECK_DEADLOCK FALSE

CONSTANTS
    NoSession = NoSession
    Parents = {p1}
    Sessions = {s1}
    MaxPages = 2
    MaxTaskId = 2
    MaxMutations = 1
    MaxResets = 0
    MaxRevision = 4
SPECIFICATION FairSpec
CHECK_DEADLOCK FALSE
INVARIANTS
    TypeOK
    PagesContiguous
    LoadingHasWorker
PROPERTIES
    UpdatesAdvance
    LoadingSettles

CONSTANTS
    NoSession = NoSession
    Parents = {p1}
    Sessions = {s1}
    MaxPages = 2
    MaxTaskId = 2
    MaxMutations = 1
    MaxResets = 1
    MaxRevision = 0
SPECIFICATION Spec
CHECK_DEADLOCK FALSE
INVARIANT StaleWorkersRejected

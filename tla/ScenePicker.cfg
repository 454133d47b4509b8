CONSTANTS
    Windows = {w1}
    NoWindow = NoWindow
    Hits = {h1, h2, h3}
    NoHit = NoHit
    Sessions = {s1}
    NoSession = NoSession
    MaxRecent = 2
    MaxRevision = 4
    MaxObserved = 5
    MaxResets = 1
SPECIFICATION FairSpec
CHECK_DEADLOCK FALSE
INVARIANTS
    RunningHasWorker
    StoppedIsUnheard
    IdleShowsNothing
    RecentDistinct
PROPERTIES
    WindowlessEnds

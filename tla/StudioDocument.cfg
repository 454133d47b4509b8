CONSTANTS
    NoDocument = NoDocument
    Values = {1}
    Offsets = {1}
    MaxHistory = 2
    MaxNodes = 3
    MaxActions = 6
SPECIFICATION FairSpec
CHECK_DEADLOCK FALSE
INVARIANT DocumentsSound
INVARIANT SavedIsSaved
PROPERTY AutosaveCatchesUp
PROPERTY HistoryHolds

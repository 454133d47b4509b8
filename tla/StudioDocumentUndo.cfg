CONSTANTS
    NoDocument = NoDocument
    Values = {1}
    Offsets = {}
    MaxHistory = 9
    MaxNodes = 2
    MaxActions = 4
SPECIFICATION FairSpec
CHECK_DEADLOCK FALSE
INVARIANT UndoReverts

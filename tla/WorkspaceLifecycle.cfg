SPECIFICATION FairSpec
CONSTANTS
  game1 = game1
  game2 = game2
  NoProcess = NoProcess
  Processes = {game1, game2}
  MaxAttaches = 2
  MaxRequests = 2
  MaxRefreshes = 1
CHECK_DEADLOCK FALSE
INVARIANTS
  SessionOfProcess
  SnapshotOfProcess
  PageAgrees
  LoadingIsAsked
PROPERTIES
  AttachSettles

SPECIFICATION FairSpec
CONSTANTS
  o1 = o1
  o2 = o2
  NoObject = NoObject
  Objects = {o1, o2}
  Opened = o1
  Ops = {"set-active", "delete", "load-scene"}
  MaxRequests = 3
  MaxActions = 3
  MaxUpdates = 2
  MaxNews = 4
INVARIANTS
  PromisesAccounted
  LatestFlagWaits
  PendingCounted
  IntentIsLatest
  ShowsGame
  TabsConsistent
PROPERTIES
  CallsHold

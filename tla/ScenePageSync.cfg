SPECIFICATION FairSpec
CONSTANTS
  Kinds = {"components"}
  Sessions = {1}
  MaxStarts = 2
  MaxTransit = 3
  MaxUpdates = 2
INVARIANTS SessionOnly QuietCatalog
PROPERTIES VersionAdvances SceneSettles
CHECK_DEADLOCK FALSE

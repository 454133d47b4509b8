SPECIFICATION Spec
CONSTANTS
  Kinds = {"header"}
  Sessions = {1}
  MaxStarts = 2
  MaxTransit = 2
  MaxUpdates = 1
INVARIANT ReadyShown
CHECK_DEADLOCK FALSE

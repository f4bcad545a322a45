SPECIFICATION Spec
CONSTANTS
  Versions = {"v1"}
  Fetchers = {"f1", "f2", "f3"}
  Chunks = 2
  Limit = 4
  MaxFetches = 3
INVARIANT
  NoPartialHit
CHECK_DEADLOCK FALSE

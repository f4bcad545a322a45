SPECIFICATION FairSpec
CONSTANTS
  Releases = {1, 2}
  Clusters <- OneCluster
  MaxUid = 2
  MaxQueued = 2
  MaxChanges = 3
INVARIANTS
  ServiceKept
PROPERTIES
  OrphansRemoved
  InstalledConverges
CHECK_DEADLOCK FALSE

SPECIFICATION FairSpec
CONSTANTS
  v1 = v1
  c1 = c1
  b1 = b1
  l1 = l1
  Requests = {v1, c1, b1, l1}
  Loads <- Mixed
  Protected <- Authenticating
  Threads = 3
  Connections = 2
CHECK_DEADLOCK FALSE
INVARIANT TypeOK
INVARIANT ConnectionsAccounted
INVARIANT CountersCountTasks
INVARIANT NoGridlock
PROPERTY ServedUnlessStarved
PROPERTY ImplementsCourse

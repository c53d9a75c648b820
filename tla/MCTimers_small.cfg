SPECIFICATION MCSpec
CONSTANTS
  M = 4
  Counts = {0, 3}
  MaxLate = 1
  NumCores = 3
  ClusterOf <- SmallClusters
  MaxRequests = 2
  MaxRestarts = 1
INVARIANT TimerCovers
PROPERTY FedNeverBites
INVARIANT RequestCarried
PROPERTY FastIpiServed

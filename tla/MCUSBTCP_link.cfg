SPECIFICATION FairSpec
CONSTANTS
  Pkts = {"sa", "st", "b", "d"}
  MaxConns = 1
  Kind <- MCKind
  Plans <- MCPlans
CHECK_DEADLOCK FALSE
 
 
PROPERTY StatusSetsAddress
PROPERTY ControlEnds

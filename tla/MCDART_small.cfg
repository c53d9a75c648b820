SPECIFICATION FairSpec
CONSTANTS
  Sids = {"s", "z"}
  L0 = {0}
  L1 = {0}
  L2 = {0}
  Dirs = {"d"}
  Tabs = {"t", "u"}
  Ptes = {"x", "y"}
  None = "none"
  Bypass = {}
  Agents = {"aes", "sio"}
  BqlAgents = {"sio"}
  Cpu = "cpu"
  Needs = {{"w"}}
  MaxEdits = 2
  Iovas <- SmallIovas
  Perm <- SmallPerm
  Setups <- SmallSetups
INVARIANT TlbNotStale
 
PROPERTY OpEnds

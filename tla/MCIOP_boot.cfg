SPECIFICATION MCSpec
CONSTANTS
  SepRole = FALSE
  MaxMessageCount = 15
  Word = {0}
  Status = {}
  Maskable = {}
  EpUserStart = 2
  MaxSent = 2
  MaxSleeps = 1
  MaxNotices = 2
  Devices <- SmallDevices
  MaxResets <- OtherResets
  RxSlots = 4
  TxSlots = 3
  MaxOutstanding = 2
  MaxCommands = 3
  MaxBoots = 2
INVARIANT NoAbort
INVARIANT RollcallComplete
 
PROPERTY BootCompletes
INVARIANT AopRepliesExact
PROPERTY AopServed
CHECK_DEADLOCK FALSE

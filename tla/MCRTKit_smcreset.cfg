SPECIFICATION Spec
CONSTANTS
  SepRole = FALSE
  MaxMessageCount = 15
  Word = {0}
  Status = {}
  Maskable = {}
  EpUserStart = 2
  MaxSent = 0
  MaxSleeps = 0
  MaxNotices = 0
  Devices <- NewSmc
  MaxResets <- SmcResets
INVARIANT NoAbort
CHECK_DEADLOCK FALSE

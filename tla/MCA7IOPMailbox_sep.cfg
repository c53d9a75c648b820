SPECIFICATION Spec
CONSTANTS
  SepRole = TRUE
  MaxMessageCount = 1
  Word = {0}
  Status = {65538, 262144}
  Maskable = {65538}
  CtrlDirs = {}
  MaxAccepted = 1
  MaxStatus = 2
  Resets = TRUE
  MaskBits <- SepMasks
INVARIANT SepIrqExact

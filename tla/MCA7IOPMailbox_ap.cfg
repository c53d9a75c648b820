SPECIFICATION Spec
CONSTANTS
  SepRole = FALSE
  MaxMessageCount = 1
  Word = {0, 1}
  Status = {}
  Maskable = {}
  CtrlDirs = {"iop", "ap"}
  MaxAccepted = 2
  MaxStatus = 0
  Resets = TRUE
  MaskBits <- ApMasks
INVARIANT InOrderOnce
PROPERTY ImplementsChannel
PROPERTY ApLinesExact

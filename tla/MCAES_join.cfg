SPECIFICATION FairSpec
CONSTANTS
  MaxThreads = 1
  Watermark = {2}
  MaxCommands = 1
  MaxControls = 2
  ResetsBusy = FALSE
  Words <- SmallWords
PROPERTY BqlReleased
CHECK_DEADLOCK FALSE

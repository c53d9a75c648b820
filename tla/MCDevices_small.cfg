SPECIFICATION MCSpec
CONSTANTS
  MaxThreads = 2
  Watermark = {2}
  MaxCommands = 2
  MaxControls = 4
  ResetsBusy = FALSE
  Words <- SmallWords
  MaxSepRequests = 3
  MaxSepResets = 1
  RxSize = 3
  MaxTyped = 5
  MaxBreaks = 2
  MaxUartResets = 1
  Bands = 2
  MaxFrames = 2
  MaxBlends = 2
  MaxDispResets = 1
INVARIANT LevelExact
 
INVARIANT SepDmaExact
INVARIANT ScreenCurrent
PROPERTY CommandsServed
PROPERTY SepAnswers
PROPERTY BytesReachConsole
CHECK_DEADLOCK FALSE

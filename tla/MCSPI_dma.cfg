SPECIFICATION MCSpec
CONSTANTS
  Eps = {4, 5}
  Sizes = {1, 3}
  Depth = 2
  MaxCmds = 4
  OtherCmds = 3
  Words = {1, 2, 3, 5}
  Modes = {"dma", "irq"}
  MaxTransfers = 2
  LLWords = 5
  Payload = 1
  Spots = {p, q}
  MaxEvents = 3
  MaxReports = 4
  MaxControls = 1
  MaxRestarts = 1
CHECK_DEADLOCK FALSE
 
 
INVARIANT MemoryOwned
INVARIANT ReportsExact
INVARIANT TouchStory
 
PROPERTY ReportsReachDriver

SPECIFICATION MCSpec
CONSTANTS
  Sids = {1}
  Buses = {{}, {1}}
  Regs = 2
  MaxLen = 2
  MaxReqs = 5
  Pins = {1, 2}
  Groups = {"a", "b"}
  MaxWork = 2
  MaxRequests = 3
  MaxConfigs = 3
  MaxGpResets = 1
CHECK_DEADLOCK FALSE
INVARIANT Framed
PROPERTY AnswersRead
PROPERTY PinServed

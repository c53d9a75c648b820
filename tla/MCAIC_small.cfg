SPECIFICATION FairSpec
CONSTANTS
  NumCPU = 2
  NumIRQ = 2
  MaxInputs = 2
PROPERTY ExtServed
PROPERTY IpiServed

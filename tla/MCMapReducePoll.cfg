SPECIFICATION FairSpec
CONSTANTS
  ThreadLevel = 2
  NoThread = NoThread
  Inputs <- EmptyInputs
  Patient = TRUE
PROPERTY PollingEnds

SPECIFICATION FairSpec
CONSTANTS
  ThreadLevel = 2
  NoThread = NoThread
  Inputs <- MixedInputs
  Patient = FALSE
INVARIANTS JobTypeOK ClaimsBounded CountWithinTotal ShuffleConserves FullMeansComplete
PROPERTIES ProgressMonotone ImplementsMapReduce JobEnds

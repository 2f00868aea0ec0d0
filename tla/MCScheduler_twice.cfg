SPECIFICATION FairSpec
CONSTANTS
  MaxProcs = 2
  NULL = NULL
  Rip <- MCRip
  Code <- SleepTwiceCode
  Mains = {"kernelMainThread"}
  Delays = {1, 3}
PROPERTY
  SleepReturns

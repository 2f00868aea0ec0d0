SPECIFICATION FairSpec
CONSTANTS
  MaxProcs = 3
  NULL = NULL
  Rip <- MCRip
  Code <- TwoSleepersCode
  Mains = {"kernelMainThread"}
  Delays = {1, 3}
PROPERTY
  HandlerReturns

SPECIFICATION FairSpec
CONSTANTS
  MaxProcs = 5
  NULL = NULL
  Rip <- MCRip
  Code <- ThreadsCode
  Mains = {"kernelMainThread", "manyThreads"}
  Delays = {0, 1, 2, 3, 5}
INVARIANTS
  NoNullDereference
  NoneOverdue
  RotationIsRunnable
  ResumableWhenOffCpu
  OwnSpaceWhenUser
PROPERTIES
  AtMostOneTickEarly
  SleepReturns
  ImplementsThreads

SPECIFICATION MemorySpec
\* A fault in init halts the CPU; so does memory that is no longer intact.
CHECK_DEADLOCK FALSE
CONSTANTS
  NULL = NULL
  Sizes = {4096, 16337}
  MaxPages = 9
  MaxLive = 3
  NONE = NONE
  N = 6
  NumFrames = 22
  Vmm = {kernel, p1}
  Kernel = kernel
  FrameCounts = {3, 8, 9, 10, 11, 12, 13, 14}
INVARIANTS
  Tiling
  InUseIffLive
  ExpandsAtMostOnce
  HeapBacked
  FramesAccounted
PROPERTIES
  CallReturns
  ImplementsAllocator

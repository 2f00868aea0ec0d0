SPECIFICATION Spec
CONSTANTS
  NONE = NONE
  N = 6
  NumFrames = 15
  Vmm = {kernel}
  Kernel = kernel
  Pages <- HeapPages
INVARIANT
  AllocPageReports

SPECIFICATION Spec
CONSTANTS
  NONE = NONE
  N = 6
  NumFrames = 20
  Vmm = {kernel}
  Kernel = kernel
  Pages <- HeapPages
INVARIANT
  DirectMapKept

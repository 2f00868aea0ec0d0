SPECIFICATION Spec
CONSTANTS
  NONE = NONE
  N = 6
  NumFrames = 20
  Vmm = {kernel, p1, p2}
  Kernel = kernel
  Pages <- MCPages
INVARIANTS
  EveryFrameOnePurpose
  DirectMapComplete
  KernelHalfShared
PROPERTY
  ImplementsAddressSpaces

SPECIFICATION Spec
CONSTANTS
  MemoryMaps <- MCMaps
  Offsets = {0, 1, 4095}
INVARIANTS
  Conservation
  BitmapInUsableMemory
  NeverBeyondBitmap
  GivesUpOnlyWhenAllHeld
PROPERTY
  ImplementsFrameAllocator
CHECK_DEADLOCK FALSE

SPECIFICATION FairSpec
CONSTANTS
  Thread = {kmain, t1, t2}
  Boot = kmain
  HANDLER = HANDLER
  MaxDepth = 3
INVARIANTS
  MutualExclusion
  InterruptsRestored
  BootUninterrupted
PROPERTIES
  RequestTaken
  ImplementsCriticalSection

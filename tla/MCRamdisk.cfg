SPECIFICATION Spec
CONSTANTS
  NULL = NULL
  RUNNING = RUNNING
  Files <- MCFiles
  Names = {"", "font", "fonts", "missing"}
INVARIANTS
  AtHeader
  FindsFirst
PROPERTY
  SearchEnds

SPECIFICATION Spec
CONSTANTS
  Addr = {1, 2, 3, 4, 5, 6}
  malloc <- FirstFree
  NULL = NULL
  Junk = Junk
  Absent = Absent
  Holders = {"file", "entry"}
  Char = {"A", "B", "="}
  Names <- MCNames
  Values <- MCValues
  MAX_ENVSTR = 5
INVARIANTS
  TypeOK
  OwnedOnce
  LoopsStop
  SetsEachOnce
PROPERTIES
  KeepsEnvironment
  Returns
CHECK_DEADLOCK FALSE

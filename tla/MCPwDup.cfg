SPECIFICATION Spec
CONSTANTS
  Char = {"a", "b"}
  NUL = NUL
  Junk = Junk
  NULL = NULL
  STRUCT = 3
  Passwds <- MCPasswds
INVARIANTS
  TypeOK
  InsideBlock
  CopyReads
CHECK_DEADLOCK FALSE

SPECIFICATION Spec
CONSTANTS
  LAST_MINUTE = 59
  LAST_HOUR = 23
  LAST_DOM = 31
  LAST_MONTH = 12
  LAST_DOW = 7
  MAX_COMMAND = 4
  INT_MAX = 511
  Users = {"root", "bob"}
  LongHome = {"bob"}
  Files <- MCFiles
INVARIANTS
  TypeOK
  StaysInStep
  NoGarbage
  Conforms
  SelectsSomething
PROPERTY
  Ends
CHECK_DEADLOCK FALSE

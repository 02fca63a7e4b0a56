SPECIFICATION ScanSpec
CONSTANTS
  LAST_MINUTE = 59
  LAST_HOUR = 23
  LAST_DOM = 31
  LAST_MONTH = 12
  LAST_DOW = 7
  MAX_COMMAND = 4
  INT_MAX = 511
  Users = {"root", "bob"}
  LongHome = {"bob"}
  Files <- ScanFiles
  Arrivals <- MCArrivals
  Names = {"a", "b", "c"}
  Directories <- SettingDirectories
  Special = Special
  MAX_FD = 6
  MAX_CHANGES = 0
  YEAR_CAP = 3
  DaysIn <- RealDaysIn
  Clocks <- MCClocks
INVARIANTS
  EveryJobRead
CHECK_DEADLOCK FALSE

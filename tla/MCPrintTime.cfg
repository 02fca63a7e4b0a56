SPECIFICATION Spec
CONSTANTS
  LAST_MINUTE = 1
  LAST_HOUR = 1
  LAST_DOM = 3
  LAST_MONTH = 3
  LAST_DOW = 7
  YEAR_CAP = 3
  DaysIn <- MCDaysIn
  Entries <- MCEntries
  Clocks <- MCClocks
INVARIANTS
  TypeOK
  SearchInv
  PrintedSelected
  NotInPast
  WithinAYear
  YearInv
  GivesUpBehindYear
PROPERTY
  EndsWhenSchedulable
CHECK_DEADLOCK FALSE

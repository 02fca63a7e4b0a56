SPECIFICATION Spec
CONSTANTS
  LAST_MINUTE = 2
  LAST_HOUR = 2
  LAST_DOM = 3
  LAST_MONTH = 3
  LAST_DOW = 7
  YEAR_CAP = 2
  DaysIn <- MCDaysIn
  Entries <- SimpleEntries
  Clocks <- MCClocks
PROPERTY
  KeepsPromise
  AlwaysAnswers
CHECK_DEADLOCK FALSE

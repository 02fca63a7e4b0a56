SPECIFICATION Spec
CONSTANTS
  LAST_MINUTE = 59
  LAST_HOUR = 23
  LAST_DOM = 31
  LAST_MONTH = 12
  LAST_DOW = 7
  YEAR_CAP = 4
  DaysIn <- RealDaysIn
  Entries <- Yearly
  Clocks <- RealClocks
PROPERTY
  Ends
CHECK_DEADLOCK FALSE

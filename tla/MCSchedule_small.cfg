CONSTANTS
  Star = Star
  Absent = Absent
  Error = Error
  Word = 8
  Bounds <- MCBounds
  Dates <- MCDates
  HoursPerDay = 4
  MinutesPerHour = 2
  SecondsPerMinute = 2
  DaysPerWeek = 3
  YearLimit = 1
  Queries <- MCQueries
SPECIFICATION Spec
INVARIANTS ParsedAsWritten Exact MidnightHandled
PROPERTY Terminates
CHECK_DEADLOCK FALSE

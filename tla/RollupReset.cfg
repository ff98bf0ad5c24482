SPECIFICATION Spec
CONSTANTS
  MaxHour = 4
  MaxRows = 1
  WeekHours = 2
  Trailing = 1
  Retention = 3
  Backfill = 1
  Scoped = FALSE
  Resets = 1
  Outage = 2
  Shadow = TRUE
INVARIANT Dense
PROPERTY ResetIsAccounted
CHECK_DEADLOCK FALSE

SPECIFICATION Spec
CONSTANTS
  MaxHour = 5
  MaxRows = 2
  WeekHours = 2
  Trailing = 1
  Retention = 2
  Backfill = 1
  Scoped = TRUE
  Resets = 0
  Outage = 2
  Shadow = FALSE
PROPERTY ActivationIsTrue
CHECK_DEADLOCK FALSE

\* A cohort writer that commits the row it has read, beside checkpoint capture.
SPECIFICATION Spec
CONSTANTS
  t1 = t1
  t2 = t2
  Task <- Two
  MaxStops = 1
PROPERTIES
  CompletionIsKept
CHECK_DEADLOCK FALSE

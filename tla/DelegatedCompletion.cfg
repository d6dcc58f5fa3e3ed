\* Two delegated tasks, two interventions by the user.
SPECIFICATION FairSpec
CONSTANTS
  t1 = t1
  t2 = t2
  Task <- Two
  MaxStops = 2
INVARIANTS
  ClaimsAreCarried
  QueuedWakeIsCurrent
  SingleActiveRun
  ToldOnce
PROPERTIES
  CohortStepsForward
  StatusStepsForward
  ResultsReachParent
\* Every handler may be done and every effect settled.
CHECK_DEADLOCK FALSE

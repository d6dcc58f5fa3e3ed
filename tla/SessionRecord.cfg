\* A session that is released and opened again.
SPECIFICATION Spec
CONSTANTS
    t1 = t1
    t2 = t2
    Thread = {t1, t2}
    MaxRuntimes = 2
    MaxStarts = 2
    MaxUpsets = 2
    MaxPins = 1
CONSTRAINT T1StartsFirst
INVARIANTS
    LiveSessionIsRecorded
\* Every session may have ended, with nothing left to start.
CHECK_DEADLOCK FALSE

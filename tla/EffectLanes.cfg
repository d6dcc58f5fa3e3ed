SPECIFICATION Spec
CONSTANTS
    t1 = t1
    start = start
    detach = detach
    title = title
    restart = restart
    resume = resume
    w1 = w1
    w2 = w2
    x1 = x1
    p1 = p1
    p2 = p2
    Effect = {start, detach, title}
    Thread = {t1}
    ThreadOf <- OneThread
    TypeOf <- TypesHere
    Pid = {p1}
    NoPid = NoPid
    Worker = {w1, w2}
    Waiter = {}
    AwaitedBy <- AwaitsResume
    NoEffect = NoEffect
    MaxAttempts = 2
    Preemptible = TRUE
    MaxDbFaults = 0
    MaxCrashes = 1
SYMMETRY Workers
INVARIANTS
    OneRunningPerLane
    StartsInOrder
PROPERTIES
    ImplementsLaneQueue
CHECK_DEADLOCK FALSE

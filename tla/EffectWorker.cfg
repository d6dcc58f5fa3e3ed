SPECIFICATION FairSpec
CONSTANTS
    t1 = t1
    start = start
    detach = detach
    title = title
    restart = restart
    resume = resume
    w1 = w1
    w2 = w2
    x1 = x1
    p1 = p1
    p2 = p2
    Effect = {start, resume}
    Thread = {t1}
    ThreadOf <- OneThread
    TypeOf <- TypesHere
    Pid = {p1}
    NoPid = NoPid
    Worker = {w1, w2}
    Waiter = {x1}
    AwaitedBy <- AwaitsResume
    NoEffect = NoEffect
    MaxAttempts = 2
    Preemptible = FALSE
    MaxDbFaults = 2
    MaxCrashes = 1
INVARIANTS
    TypeOK
    CancellationReaches
    ProcessBoundStaysInProcess
    AttemptsBounded
    ExclusiveExecution
PROPERTIES
    SettledIsFinal
    EveryEffectSettles
    WaitersReturn
CHECK_DEADLOCK FALSE

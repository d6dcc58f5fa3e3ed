SPECIFICATION FairSpec
CONSTANTS
    t1 = t1
    t2 = t2
    send = send
    resend = resend
    stray = stray
    note = note
    ingest = ingest
    capture = capture
    recapture = recapture
    message = message
    settle = settle
    checkpoint = checkpoint
    Request = {send, resend, note, ingest, capture, recapture}
    NoRequest = NoRequest
    Command = {message, settle, checkpoint}
    NoCommand = NoCommand
    Thread = {t1, t2}
    CommandOf <- CommandOfRequest
    ThreadOf <- ThreadOfRequest
    BatchSize <- SizeOfRequest
    Direct <- DirectRequests
    MaxCrashes = 1
CONSTRAINT TwinsInOrder
INVARIANTS
    LiveOrder
    AtMostOnce
    AnswersAreTrue
PROPERTIES
    VerdictIsFinal
    ImplementsEventLog
    EveryRequestAnswered
    CommittedIsAnnounced
CHECK_DEADLOCK FALSE

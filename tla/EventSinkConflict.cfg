SPECIFICATION Spec
CONSTANTS
    t1 = t1
    t2 = t2
    send = send
    resend = resend
    stray = stray
    note = note
    ingest = ingest
    capture = capture
    recapture = recapture
    message = message
    settle = settle
    checkpoint = checkpoint
    Request = {send, stray}
    NoRequest = NoRequest
    Command = {message, settle, checkpoint}
    NoCommand = NoCommand
    Thread = {t1, t2}
    CommandOf <- CommandOfRequest
    ThreadOf <- ThreadOfRequest
    BatchSize <- SizeOfRequest
    Direct <- DirectRequests
    MaxCrashes = 1
INVARIANTS
    ReplayIsForItsThread
CHECK_DEADLOCK FALSE

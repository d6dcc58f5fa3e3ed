SPECIFICATION Spec
CONSTANTS
    m1 = m1
    m2 = m2
    m3 = m3
    NoMsg = NoMsg
    Msg = {m1, m2}
    Agent = {}
    MaxAttempts = 2
    MaxTries = 2
    MaxActs = 1
INVARIANTS
    FinalAttemptIsCaptured
CHECK_DEADLOCK FALSE

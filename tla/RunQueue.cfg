SPECIFICATION FairSpec
CONSTANTS
    m1 = m1
    m2 = m2
    m3 = m3
    NoMsg = NoMsg
    Msg = {m1, m2, m3}
    Agent = {m3}
    MaxAttempts = 2
    MaxTries = 2
    MaxActs = 1
CONSTRAINT Instance
INVARIANTS
    NothingLost
    OneActiveRun
    SettledByItsOwnTurn
PROPERTIES
    DeliveredOnce
    QueueMoves
CHECK_DEADLOCK FALSE

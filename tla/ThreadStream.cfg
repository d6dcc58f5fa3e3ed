\* Three events of four kinds with two pruning passes and a crash or a lost
\* connection, and four events with neither.
SPECIFICATION FairStream
CONSTANTS
    mine = mine
    other = other
    a = a
    b = b
    viewer = viewer
    Thread = {mine, other}
    Key = {a, b}
    NoKey = NoKey
    FamilyOf <- Families
    Client = {viewer}
    Watches <- WatchesMine
    Entry <- Entries
    Batch <- Batches
    MaxItems = 3
    PageSize = 1
    MaxReplay = 2
    MaxEvents = 4
    MaxLosses = 1
    MaxPasses = 2
CONSTRAINT Instance
INVARIANTS
    NothingSkipped
    EntitiesInOrder
PROPERTIES
    NoStepBack
    CatchesUp
\* The log is bounded, and a client that shows all of it has nothing to do.
CHECK_DEADLOCK FALSE

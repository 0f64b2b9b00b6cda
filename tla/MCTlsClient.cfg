CONSTANTS
    BufSize = 7
    MaxChunk = 2
    RecvLens = {1, 3}
    SendLens = {0, 3}
    MaxMixed = 4
    OwnRecords = {3}
    Sessions <- AllSessions
SPECIFICATION FairSpec
CHECK_DEADLOCK FALSE
INVARIANTS
    StreamExact
    BufferIntact
    WaitsOnlyForMissing
PROPERTIES
    GivesStream
    CallReturns

CONSTANTS
    Callers = {"once", "again"}
    Total = 4
    RecvArgs <- Args
    SendLens = {1, 3}
    MaxCalls = 4
SPECIFICATION FairSpec
CHECK_DEADLOCK FALSE
INVARIANTS
    TypeOK
    ReadsLandHome
    WokenMeansDone
PROPERTIES
    GivesStream
    CallReturns

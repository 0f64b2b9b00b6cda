CONSTANTS
    Callers = {"lua"}
    Total = 4
    RecvArgs <- PlainReceive
    SendLens = {}
    MaxCalls = 3
SPECIFICATION Spec
CHECK_DEADLOCK FALSE
INVARIANT RecvTruthful

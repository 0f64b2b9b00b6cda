CONSTANTS
    Total = 3
    RecvMax = 2
    MaxStarts = 2
    MaxSends = 2
SPECIFICATION Spec
INVARIANTS FinishedWhole SentOnce BuffersLive
PROPERTIES LateNeverFinishes Finishes
CHECK_DEADLOCK FALSE

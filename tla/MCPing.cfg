CONSTANTS
    Threads = {lua, worker}
    Ids = {a, b, c}
    Handles = {h1, h2, h3}
    MaxBases = 1
    Nobody = Nobody
    Retries = {1, 2}
    Second = 1
    MaxWork = 6
    MaxEchoes = 2
    MaxClock = 2
SYMMETRY Symmetry
SPECIFICATION ProcessSpec
INVARIANTS HandlesValid RoundTripNotShort AnsweredByHost
CHECK_DEADLOCK FALSE

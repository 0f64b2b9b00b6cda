CONSTANTS
    Cases <- Several
    Timeout = 2
    HeaderMax = 6
SPECIFICATION FairSpec
INVARIANTS
    EachByteOnce
    RequestExact
    GivesUpForReason
PROPERTY RequestReturns

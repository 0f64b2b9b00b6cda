CONSTANTS
    anna = anna
    bob = bob
    Clients = {anna, bob}
    Timeouts <- Waits
    Servers <- AllServers
SPECIFICATION FairSpec
INVARIANTS
    AnswerTruthful
    FalseNotEarly
PROPERTY CallReturns

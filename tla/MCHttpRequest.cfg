CONSTANTS
    Scenarios <- Answers
    BufferSize = 5
    Slack = 7
    HeaderMax = 12
SPECIFICATION FairSpec
INVARIANTS
    CallbackSawBody
    GoodAnswerAccepted
    BodyFollowsHeaders
PROPERTIES
    Delivers
    Terminates

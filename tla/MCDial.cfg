CONSTANT Cases <- Dials
SPECIFICATION Spec
INVARIANTS
    TunnelUntouched
    ConversationLegal
    Authenticated
    ErrorsAreTrue

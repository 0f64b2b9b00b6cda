CONSTANT Dials <- MCDials
SPECIFICATION VerifierSpec
INVARIANTS AcceptedTrusted AcceptedNamed GoodAccepted NamesReadBack
CHECK_DEADLOCK FALSE

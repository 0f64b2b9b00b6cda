CONSTANT Dials <- MCDials
SPECIFICATION VerifierSpec
INVARIANT CriticalSkipped
CHECK_DEADLOCK FALSE

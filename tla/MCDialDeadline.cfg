CONSTANTS
    Budgets <- Some
    Waits = {0, 1, 250, 749, 999}
    Lookups = {0, 5000}
SPECIFICATION Spec
INVARIANTS
    MessageBounded
    DeadlineHolds

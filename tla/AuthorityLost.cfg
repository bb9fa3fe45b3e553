SPECIFICATION Spec
CONSTANTS
    AnchorMismatch = AnchorMismatch
    MaxAttempt = 2
    MaxCrash = 2
CHECK_DEADLOCK FALSE
INVARIANTS
    HeadRecoverable

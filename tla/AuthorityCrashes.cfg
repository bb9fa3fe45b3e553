SPECIFICATION Spec
CONSTANTS
    AnchorMismatch = AnchorMismatch
    MaxAttempt = 3
    MaxCrash = 3
CHECK_DEADLOCK FALSE
INVARIANTS
    TypeOK
    NewestHeadLoaded
    EventsOfAnchored
    NoSlotFork
    PublishedUnderAuthority
    LostOnlyBehind

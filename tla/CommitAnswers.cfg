SPECIFICATION FairSpec
CONSTANTS
    c1 = c1
    c2 = c2
    Caller = {c1, c2}
    a = a
    b = b
    Id = {a, b}
    LargeId = {a, b}
    Size = {1, 9}
    Waits = {FALSE}
    Request <- Requests
    CohortEntries = 2
    CohortBytes = 2
    None = None
    MaxFail = 1
    MaxDirect = 1
CHECK_DEADLOCK FALSE
INVARIANTS
    WorkSeen
    FenceLifted
PROPERTIES
    
    CallsAnswered

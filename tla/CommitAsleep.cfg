SPECIFICATION FairSpec
CONSTANTS
    c1 = c1
    c2 = c2
    Caller = {c1, c2}
    a = a
    Id = {a}
    LargeId = {a}
    Size = {1, 9}
    Waits = {TRUE}
    Request <- Requests
    CohortEntries = 2
    CohortBytes = 2
    None = None
    MaxFail = 0
    MaxDirect = 0
CHECK_DEADLOCK FALSE
PROPERTY CallsAnswered

SPECIFICATION Spec
CONSTANTS
    c1 = c1
    c2 = c2
    c3 = c3
    c4 = c4
    Caller = {c1, c2, c3, c4}
    a = a
    b = b
    Id = {a, b}
    LargeId = {a}
    Size = {1, 9}
    Waits = {TRUE}
    Request <- Requests
    CohortEntries = 2
    CohortBytes = 2
    None = None
    MaxFail = 1
    MaxDirect = 0
SYMMETRY Symmetry
CHECK_DEADLOCK FALSE
INVARIANTS
    TypeOK
    CreditsExact
    
    AnsweredStable
    WrittenOnce
    WrittenInOrder
    CookedForCohort

SPECIFICATION FairSpec
CONSTANTS
    n1 = n1
    n2 = n2
    Node = {n1, n2}
    a = a
    Value = {a}
    None = None
    MaxBatch = 3
    MaxTerm = 3
    MaxLog = 2
    MaxCrash = 0
    MaxFlushFail = 1
    MaxLate = 0
    MaxBusy = 2
CHECK_DEADLOCK FALSE
PROPERTIES
    OperationsReturn

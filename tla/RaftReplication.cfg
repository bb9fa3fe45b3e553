SPECIFICATION Spec
CONSTANTS
    n1 = n1
    n2 = n2
    n3 = n3
    Node = {n1, n2, n3}
    a = a
    Value = {a}
    None = None
    MaxBatch = 3
    MaxTerm = 3
    MaxLog = 3
    MaxCrash = 0
    MaxFlushFail = 0
    MaxLate = 0
    MaxBusy = 1
SYMMETRY Symmetry
VIEW UntalliedState
CHECK_DEADLOCK FALSE
INVARIANTS
    LeaderCompleteness
PROPERTIES
    ImplementsReplicatedLog

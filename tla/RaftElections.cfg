SPECIFICATION Spec
CONSTANTS
    n1 = n1
    n2 = n2
    n3 = n3
    Node = {n1, n2, n3}
    a = a
    Value = {a}
    None = None
    MaxBatch = 3
    MaxTerm = 2
    MaxLog = 1
    MaxCrash = 1
    MaxFlushFail = 0
    MaxLate = 1
    MaxBusy = 2
SYMMETRY Symmetry
VIEW LiveState
CHECK_DEADLOCK FALSE
INVARIANTS
    ElectionSafety
    

SPECIFICATION Spec
CONSTANTS
    n1 = n1
    n2 = n2
    n3 = n3
    Node = {n1, n2, n3}
    a = a
    b = b
    Value = {a, b}
    None = None
    MaxBatch = 2
    MaxTerm = 2
    MaxLog = 2
    MaxCrash = 1
    MaxFlushFail = 1
    MaxLate = 0
    MaxBusy = 1
SYMMETRY Symmetry
VIEW UntalliedState
CHECK_DEADLOCK FALSE
INVARIANTS
    TypeOK
    LogMatching
    ChosenOnQuorumDisk
    CommittedPrefix

CONSTANTS
    Key = {k1}
    Value = {v1}
    Gone = Gone
    Lease = 2
    Radix = 256
    MaxWrite = 2
    MaxJob = 1
    MaxStop = 2
    MaxFail = 1
SPECIFICATION Spec
INVARIANTS
    NeverReused
    FreshIds
    
    
    

SPECIFICATION Spec
CHECK_DEADLOCK FALSE
CONSTANTS
  None = None
  Node <- MCNode
  Value <- MCValue
  Targets <- MCTargets
  Partition = 0
  MaxTerm = 3
  MaxWrite = 2
  MaxFault = 2
  MaxAdmin = 2
INVARIANTS
  TypeOK
  OneLeader
  AckedCovered
  LeaderHoldsAcked
  Agreed
  StoreFollowsLog
  ReadsCurrent
PROPERTIES
  StopKeepsVoters
  RepairKeepsAcked

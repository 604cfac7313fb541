CONSTANTS
  Backend = {b1, b2, b3}
  NoBackend = NoBackend
  Caller = {c1, c2, c3}
  MaxStarts = 1
SPECIFICATION FairSpec
INVARIANTS TypeOK OneVm NoOrphan ExclusiveLease
PROPERTIES StopLeavesOnlyLeased WaitsEnd LeaseSpec
CHECK_DEADLOCK FALSE

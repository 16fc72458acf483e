\* Parallel calls of up to three thunks, within the caps, and one retry.
CONSTANTS
  t1 = t1
  t2 = t2
  t3 = t3
  Thunks <- ThreeThunks
  Script = script
  Concurrency = 2
  Cap = 2
  NestedCap = 3
  MaxRetries = 1
SPECIFICATION FairSpec
INVARIANTS
  CapHolds
  NoOrphans
PROPERTIES
  FinalOnce
  RunReported
CHECK_DEADLOCK FALSE

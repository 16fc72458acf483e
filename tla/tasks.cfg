\* Three subagents, any dependencies, cancelled at any time.
CONSTANTS
  a = a
  b = b
  c = c
  ghost = ghost
  Tasks <- ThreeTasks
  Ghosts <- NoTask
  MaxConcurrent = 2
  MaxRetries = 1
SPECIFICATION FairSpec
INVARIANTS
  TypeOK
  SlotsConserved
  AnnouncedIsRecorded
PROPERTIES
  KeepsPromise
  WaitersRun
CHECK_DEADLOCK FALSE

\* A shell and an agent, a stop and a shutdown that overlap and may be cancelled.
CONSTANTS
  sh1 = sh1
  ag = ag
  tool = tool
  shutdown = shutdown
  Shells <- OneShell
  Agents <- OneAgent
  Callers <- OneTool
  Closer = shutdown
  MaxTerminated = 1
  MaxPrompts = 2
  MaxAsked = 1
  MaxClock = 1
SPECIFICATION FairSpec
INVARIANTS
  TypeOK
  Tracked
  StopIsFinal
  AcceptedRan
PROPERTIES
  StopReturns
  ExitRecorded
CHECK_DEADLOCK FALSE

\* Two jobs, edited, removed, failing and cut off by deaths of the process.
CONSTANTS
  daily = daily
  ping = ping
  Jobs <- TwoJobs
  Intervals <- TwoPeriods
  MaxGap = 1
  MaxTime = 3
SPECIFICATION FairSpec
INVARIANTS
  InFlightOnce
  DuesIncrease
  DisabledRests
PROPERTIES
  DeathKeepsJobs
  DueFires
CHECK_DEADLOCK FALSE

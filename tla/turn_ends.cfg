\* One caller: retries and compactions alone do not keep an invoke going.
CONSTANTS
  alice = alice
  bob = bob
  Callers <- OneCaller
  MaxId = 7
  MaxRetries = 1
  MaxInputs = 0
  Faults = {"cancel"}
SPECIFICATION FairSpec
PROPERTY TurnEnds
CHECK_DEADLOCK FALSE

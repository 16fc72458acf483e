\* One caller, turn after turn, with retries, compactions, aborts, cancellation.
CONSTANTS
  alice = alice
  bob = bob
  Callers <- OneCaller
  MaxId = 8
  MaxRetries = 1
  MaxInputs = 2
  Faults = {"cancel"}
SPECIFICATION Spec
INVARIANTS
  TypeOK
  RoundsWhole
  TurnSoFarSent
  TurnAnswered
  SteersInOrder
CHECK_DEADLOCK FALSE

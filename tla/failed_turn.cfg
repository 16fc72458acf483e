\* A turn fails after others succeeded.
CONSTANTS
  alice = alice
  bob = bob
  Callers <- OneCaller
  MaxId = 6
  MaxRetries = 0
  MaxInputs = 0
  Faults = {}
SPECIFICATION Spec
PROPERTY FailedTurnKeepsHistory
CHECK_DEADLOCK FALSE

\* A cancelled turn, and the requests after it.
CONSTANTS
  alice = alice
  bob = bob
  Callers <- OneCaller
  MaxId = 7
  MaxRetries = 0
  MaxInputs = 0
  Faults = {"cancel"}
SPECIFICATION Spec
INVARIANT OnlyUsableSent
CHECK_DEADLOCK FALSE

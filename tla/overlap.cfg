\* Two callers whose turns overlap, forks, failing hooks, steering.
CONSTANTS
  alice = alice
  bob = bob
  Callers <- TwoCallers
  MaxId = 6
  MaxRetries = 0
  MaxInputs = 1
  Faults = {"cancel", "hook", "fork"}
SPECIFICATION Spec
INVARIANT PhaseReleased
SYMMETRY Symmetric
CHECK_DEADLOCK FALSE

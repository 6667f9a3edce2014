SPECIFICATION Spec
CONSTANTS
  Flows = {f1, f2}
  MaxInFlight = 2
INVARIANT NeverRevived
CHECK_DEADLOCK FALSE

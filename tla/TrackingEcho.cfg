\* An untracking that is acted on and announced again by the other device.
SPECIFICATION Spec
CONSTANTS
  Devices = {a, b}
  Users = {a}
  MaxOps = 5
INVARIANTS
  LastOperationStands
CHECK_DEADLOCK FALSE

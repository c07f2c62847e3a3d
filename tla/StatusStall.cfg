\* A library report whose worker is stuck in the kernel answers, and is cut off all the same.
CONSTANTS
  Folder = {f1}
  Event = {e1}
  Device <- MCDevice
  Accepted <- MCAccepted
  Place <- MCPlace
  MaxPlugs = 0
SPECIFICATION Spec
INVARIANTS
  StallIsAnswered
CHECK_DEADLOCK FALSE

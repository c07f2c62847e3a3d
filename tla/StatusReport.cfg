\* One run of the status command: a library of two folders, two event nodes and three changes.
CONSTANTS
  Folder = {f1, f2}
  Event = {e1, e2}
  Device <- MCDevice
  Accepted <- MCAccepted
  Place <- MCPlace
  MaxPlugs = 3
SPECIFICATION FairSpec
INVARIANTS
  HealthyIsComplete
  WorstIsTold
  NeverStuck
PROPERTIES
  PadWarned
  CutOffOnlyStuck
  Answers
CHECK_DEADLOCK FALSE

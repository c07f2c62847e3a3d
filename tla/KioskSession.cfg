\* Requests, crashes, switches and signals against each other, and the screen's return under
\* fairness.
CONSTANTS
  Tools = {t1}
  MaxSwitches = 2
  MaxSignals = 2
SPECIFICATION FairSpec
INVARIANTS
  RequestIsHonoured
  SessionOutlivesDesktop
  NeverStuck
PROPERTIES
  ExcusedByOwnRequest
  ScreenImplemented
  SwitchDecides
  ScreenComesBack
  CrashLoopEnds
  SwitchCompletes

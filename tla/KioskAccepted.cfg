\* A switch against a session that is starting; nobody uses a Tools entry.
CONSTANTS
  Tools = {}
  MaxSwitches = 2
  MaxSignals = 1
SPECIFICATION Spec
PROPERTIES
  AcceptedIsSelected

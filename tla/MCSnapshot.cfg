\* Does the page take the snapshots it is sent?  Nothing fails.
CONSTANTS
  Limit = 2
  MaxEvents = 4
  MaxFaults = 0
  MaxCrashes = 0
SPECIFICATION Spec
INVARIANT
  CursorFollowsSnapshots
CHECK_DEADLOCK FALSE

\* A log of two events, up to four events and the end; two failed writes, two restarts.
CONSTANTS
  Limit = 2
  MaxEvents = 4
  MaxFaults = 2
  MaxCrashes = 2
SPECIFICATION Spec
INVARIANTS
  EventsTypeOK
  EndIsLast
PROPERTIES
  RestartTellsTheEnd
  ToldInOrder
  EndIsLearned
\* A page that has learned of the end closes its source, and nothing is left to do.
CHECK_DEADLOCK FALSE

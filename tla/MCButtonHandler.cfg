SPECIFICATION Spec
CONSTANTS
  BufferSize = 10
  MaxPresses = 5
CHECK_DEADLOCK FALSE
INVARIANTS
  InputInv
  PatientOperatorIsHeard
PROPERTIES
  EventsAreRead

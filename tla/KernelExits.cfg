\* Exits within exits: three processes, two nested calls.
CONSTANTS
  Process = {p1, p2, p3}
  NULL = NULL
  MaxCalls = 2
  NumEvents = 1
  Posted = {"MSG"}
  AppCalls = {"initialize", "start", "exit", "sync"}
SPECIFICATION Spec
SYMMETRY Symmetry
INVARIANTS CurrentIsThread ListIsSimple ExitsAllMarked
CHECK_DEADLOCK FALSE

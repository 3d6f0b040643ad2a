\* A process exited by another and started again.
CONSTANTS
  Process = {p1, p2}
  NULL = NULL
  MaxCalls = 1
  NumEvents = 1
  Posted = {"MSG"}
  AppCalls = {"start", "exit"}
SPECIFICATION Spec
INVARIANTS StartsAtBegin
CHECK_DEADLOCK FALSE

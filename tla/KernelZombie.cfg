\* A process restarted while its exit is announced.
CONSTANTS
  Process = {p1, p2}
  NULL = NULL
  MaxCalls = 2
  NumEvents = 1
  Posted = {"MSG"}
  AppCalls = {"start", "exit"}
SPECIFICATION Spec
PROPERTIES StartsOnlyStopped
CHECK_DEADLOCK FALSE

\* Broadcasts and directed events while processes exit and restart.
CONSTANTS
  Process = {p1, p2, p3}
  NULL = NULL
  MaxCalls = 1
  NumEvents = 1
  Posted = {"MSG"}
  AppCalls = {"start", "exit", "post"}
SPECIFICATION Spec
SYMMETRY Symmetry
INVARIANTS TypeOK WalksReachAll
CHECK_DEADLOCK FALSE

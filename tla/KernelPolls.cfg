\* Every call and every kind of event, polls at any time.
CONSTANTS
  Process = {p1, p2}
  NULL = NULL
  MaxCalls = 1
  NumEvents = 1
  Posted = {"MSG", "EXIT", "INIT"}
  AppCalls = {"initialize", "start", "exit", "post", "sync", "poll"}
SPECIFICATION Spec
SYMMETRY Symmetry
INVARIANTS Settled PollIsPending
CHECK_DEADLOCK FALSE

\* Every call.  Two processes that exit and start, two event timers and one
\* timer for them, so that numbers run out and are shared; time matters little.
\* Once a process has exited, its thread may stop and remove event timers.
CONSTANTS
  NumTimers = 2
  Wrap = 2
  NumEtimers = 3
  NumEvents = 1
  Process = {p, q}
  NONE = NONE
  MaxLate = 0
  Prompt = FALSE
  Calls = {"set", "reset", "reset_with_new_interval", "restart", "adjust",
           "stop", "remove", "exit", "post"}
  LastCalls = {"stop", "remove"}
SPECIFICATION HistorySpec
INVARIANTS HistoryOK NoOrphans
CHECK_DEADLOCK FALSE

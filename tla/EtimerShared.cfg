\* Two processes that set event timers and exit.
CONSTANTS
  NumTimers = 3
  Wrap = 3
  NumEtimers = 3
  NumEvents = 1
  Process = {p, q}
  NONE = NONE
  MaxLate = 2
  Prompt = TRUE
  Calls = {"set", "exit"}
  LastCalls = {}
SPECIFICATION HistorySpec
PROPERTIES NotEarly
CHECK_DEADLOCK FALSE

\* Two event timers and a queue of one that other events fill as well.  The
\* event timers are looked at once in a wrap, and are reset less than a wrap
\* after they expired.
CONSTANTS
  NumTimers = 3
  Wrap = 3
  NumEtimers = 3
  NumEvents = 1
  Process = {p}
  NONE = NONE
  MaxLate = 3
  Prompt = TRUE
  Calls = {"set", "reset", "restart", "stop", "post"}
  LastCalls = {}
SPECIFICATION FairSpec
INVARIANT ExpirationIsKnown
PROPERTIES NotEarly OnTime NothingLost EachFires
CHECK_DEADLOCK FALSE

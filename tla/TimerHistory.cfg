\* Two timers, a clock that wraps at three and intervals of all but a wrap.
\* They are followed past the second wrap after their start, or used through
\* three objects.
CONSTANTS
  NumTimers = 3
  Wrap = 3
  MaxAge = 7
  Object = {o1, o2, o3}
SPECIFICATION TimersSpec
INVARIANTS HistoryOK NeverEarly ExactIfSeen SleepyheadSeesAll TimersAreExclusive

\* Three tasks, one of them without an interval; the time since a start is counted
\* past the first wrap.
CONSTANTS
  NumTasks = 3
  interval <- Intervals
  Wrap = 3
  MaxAge = 4
SPECIFICATION FairSpec
INVARIANTS HistoryOK
PROPERTIES NotEarly OnTime EachRuns

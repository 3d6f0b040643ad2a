\* The event queue has four slots and three events, and its counters wrap at 7,
\* the least value that FitsAssumption allows; a ring of four slots; a list of
\* up to four elements; three processes in two files, with calls of threads
\* three deep; polls of three processes.  A wait comes to an end.
CONSTANTS
  Event = {e1, e2, e3}
  NumEvents = 4
  Wrap = 7
  Zero = Zero
  Item = {b1, b2}
  Blank = Blank
  Size = 4
  Element = {x1, x2, x3, x4}
  NULL = NULL
  p1 = p1
  p2 = p2
  p3 = p3
  Process = {p1, p2, p3}
  Lines <- MCLines
  Macro <- MCMacro
  FileOf <- MCFileOf
  MaxDepth = 3
  NumProcesses = 3
  ClockWrap = 7
  Frequency = 3
  Million = 5
  MaxElapsed = 21
SPECIFICATION LibrarySpec
INVARIANTS TypeOK PeekHolds IsCycle ChildHasBlocked PollIsNotForgotten WaitIsExact
PROPERTIES IsFifo RingIsFifo ContinuationsArePrivate
CHECK_DEADLOCK FALSE

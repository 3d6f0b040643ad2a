\* The main loop, the tasks, interrupts and the kernel; the system may be
\* initialised again.  No symmetry, the properties are temporal.
CONSTANTS
  Process = {et, p1}
  Etimer = et
  NULL = NULL
  MaxCalls = 1
  MaxTaskCalls = 1
  NumEvents = 1
  Posted = {"MSG"}
  AppCalls = {"start", "exit", "post", "poll", "initialize", "init"}
SPECIFICATION System
INVARIANTS SystemOK
PROPERTIES DrivesKernel AlwaysRestsAgain PollIsServed EventsAreTaken EtimersAreLookedAt
CHECK_DEADLOCK FALSE

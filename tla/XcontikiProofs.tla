--------------------------- MODULE XcontikiProofs ---------------------------
(***************************************************************************)
(* The system as a whole implements the kernel: main, the tasks and the    *)
(* interrupt handlers do to the kernel only what module ProcessKernel lets *)
(* its surroundings do.  What is proved of the kernel alone therefore      *)
(* holds in the system, for any processes, whichever of them is the event  *)
(* timers' one, and any number of kernel calls by the tasks.               *)
(***************************************************************************)
EXTENDS Xcontiki, ProcessKernelProofs

USE TasksAssumption, EtimerAssumption
-----------------------------------------------------------------------------
\* The place in the main loop is known, and so is what a first run is.
LEMMA SystemInitOK == SystemInit => SystemOK
  BY DEF SystemInit, SystemOK

\* A pass that begins as a first run stays one until the modules are ready, and
\* nobody but the main loop moves it on.
LEMMA MainLoopKeepsOK == SystemOK /\ MainLoop => SystemOK'
<1>. SUFFICES ASSUME SystemOK, MainLoop PROVE SystemOK'
  OBVIOUS
<1>. USE DEF SystemOK, At, Goes
<1>1. CASE EnterMain
  BY <1>1 DEF EnterMain
<1>2. CASE InitModules
  BY <1>2 DEF InitModules
<1>3. CASE InitEtimer
  BY <1>3 DEF InitEtimer
<1>4. CASE RequestPoll
  BY <1>4 DEF RequestPoll
<1>5. CASE RunOneEvent
  BY <1>5 DEF RunOneEvent
<1>. QED
  BY <1>1, <1>2, <1>3, <1>4, <1>5 DEF MainLoop

LEMMA SystemNextOK == SystemOK /\ [SystemNext]_sysVars => SystemOK'
<1>. SUFFICES ASSUME SystemOK, [SystemNext]_sysVars PROVE SystemOK'
  OBVIOUS
<1>1. CASE MainLoop
  BY <1>1, MainLoopKeepsOK
<1>2. CASE UNCHANGED loopVars
  BY <1>2 DEF SystemOK, loopVars
<1>3. CASE TaskCalls
  BY <1>3 DEF TaskCalls, SystemOK, At
<1>4. CASE InitAgain
  BY <1>4 DEF InitAgain, SystemOK, At
<1>5. UNCHANGED sysVars => UNCHANGED loopVars
  BY DEF sysVars
<1>. QED
  BY <1>1, <1>2, <1>3, <1>4, <1>5
  DEF SystemNext, ThreadCalls, ThreadReturns, Kernel, Interrupt

\* Every pass of xcontiki__main initialises the modules if and only if it is a
\* first run, and tasks and events come to an initialised system only.
THEOREM SystemOKCorrect == System => []SystemOK
<1>1. System => SystemInit /\ [][SystemNext]_sysVars
  BY PTL DEF System
<1>. QED
  BY <1>1, SystemInitOK, SystemNextOK, PTL
-----------------------------------------------------------------------------
\* A step of the main loop is a call of the kernel, or none.
LEMMA MainLoopIsKernelStep == MainLoop => [Next]_vars
<1>. SUFFICES ASSUME MainLoop PROVE [Next]_vars
  OBVIOUS
<1>1. CASE EnterMain
  BY <1>1 DEF EnterMain
<1>2. CASE InitModules
  BY <1>2 DEF InitModules, Next
<1>3. CASE InitEtimer
  BY <1>3 DEF InitEtimer, Next, AppCall
<1>4. CASE RequestPoll
  BY <1>4 DEF RequestPoll, Next, AppCall
<1>5. CASE RunOneEvent
  BY <1>5 DEF RunOneEvent, Next
<1>. QED
  BY <1>1, <1>2, <1>3, <1>4, <1>5 DEF MainLoop

LEMMA SystemStepIsKernelStep == [SystemNext]_sysVars => [Next]_vars
<1>. SUFFICES ASSUME [SystemNext]_sysVars PROVE [Next]_vars
  OBVIOUS
<1>1. CASE MainLoop
  BY <1>1, MainLoopIsKernelStep
<1>2. CASE ThreadCalls \/ TaskCalls
  BY <1>2 DEF ThreadCalls, TaskCalls, Next
<1>3. CASE ThreadReturns \/ Kernel
  BY <1>3 DEF ThreadReturns, Kernel, Next
<1>4. CASE Interrupt
  BY <1>4 DEF Interrupt, Next, AppCall
<1>5. CASE InitAgain
  BY <1>5 DEF InitAgain
<1>6. CASE UNCHANGED sysVars
  BY <1>6 DEF sysVars
<1>. QED
  BY <1>1, <1>2, <1>3, <1>4, <1>5, <1>6 DEF SystemNext

\* xcontiki.c uses the kernel as module ProcessKernel assumes: with interrupts
\* that poll at any time and tasks between the events, every behaviour of the
\* system is one of the kernel.
THEOREM KernelIsDriven == System => Spec
<1>1. System => SystemInit /\ [][SystemNext]_sysVars
  BY PTL DEF System
<1>2. SystemInit => Init
  BY DEF SystemInit
<1>. QED
  BY <1>1, <1>2, SystemStepIsKernelStep, PTL DEF Spec

\* In the system, whenever the main loop, a task or an interrupt comes to the
\* kernel: its data is well-typed, a process on the list can get an event when
\* the kernel is at rest, and no condemned process outlives an exit.
THEOREM SystemKeepsProcesses ==
    System => [](TypeOK /\ CurrentIsThread /\ ListIsSimple /\ Settled /\ ExitsAllMarked)
  BY KernelIsDriven, TypeCorrect, CurrentCorrect, ListIsSimpleCorrect,
     SettledCorrect, ExitsAllMarkedCorrect, PTL

\* In the system no walk of the list misses a process, and no poll that the main
\* loop, a thread or an interrupt asked of a listed process is forgotten.
THEOREM SystemKeepsPromises == System => [](WalksReachAll /\ PollIsPending)
  BY KernelIsDriven, WalksReachAllCorrect, PollIsPendingCorrect, PTL
=============================================================================

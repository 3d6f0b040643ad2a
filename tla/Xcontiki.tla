------------------------------ MODULE Xcontiki ------------------------------
(***************************************************************************)
(* The system as a whole: main, which calls xcontiki__main forever, and    *)
(* xcontiki.c.  A pass of xcontiki__main initialises the system if it has  *)
(* to, runs the tasks, asks for a poll of the event timers' process and    *)
(* calls process_next_event once if anything waits.                        *)
(*                                                                         *)
(* The kernel is module ProcessKernel.  Its empty stack is split here: the *)
(* main loop is at one of its calls, and `at` says at which.  Interrupts   *)
(* call poll at any time.                                                  *)
(***************************************************************************)
EXTENDS ProcessKernel

CONSTANTS
    Etimer,         \* xcontiki_os_sys_Etimer__process
    MaxTaskCalls    \* bound: kernel calls made by the tasks in a pass

ASSUME EtimerAssumption == Etimer \in Process
ASSUME TasksAssumption  == MaxTaskCalls \in Nat

VARIABLES
    at,         \* where xcontiki__main is, "call" before it is called again
    first_run,
    taskCalls   \* kernel calls made by the tasks in this pass

loopVars == <<at, first_run, taskCalls>>
sysVars  == <<vars, loopVars>>

At(a)   == at = a /\ AtRest
Goes(a) == at' = a

\* Types; and the tasks and the kernel run in an initialised system only.
SystemOK ==
    /\ at \in {"call", "init", "start", "tasks", "event"}
    /\ first_run \in BOOLEAN
    /\ taskCalls \in 0..MaxTaskCalls
    /\ at # "call" => (first_run <=> at \in {"init", "start"})
-----------------------------------------------------------------------------
\* main calls xcontiki__main again, whatever it has answered.
EnterMain ==
    /\ At("call")
    /\ Goes(IF first_run THEN "init" ELSE "tasks")
    /\ UNCHANGED <<vars, first_run, taskCalls>>

\* init: the process module, then the event timers' process.
InitModules ==
    /\ At("init")
    /\ Initialize
    /\ Goes("start")
    /\ UNCHANGED <<first_run, taskCalls>>

\* Fault: every pass is a first run.
InitEtimerForgets ==
    /\ At("start")
    /\ Start(Etimer)
    /\ Goes("tasks")
    /\ UNCHANGED <<first_run, taskCalls>>

InitEtimer ==
    /\ At("start")
    /\ Start(Etimer)
    /\ Goes("tasks")
    /\ first_run' = FALSE
    /\ UNCHANGED taskCalls

\* Fault: the main loop does not ask for a poll.
RequestNoPoll ==
    /\ At("tasks")
    /\ Goes("event")
    /\ taskCalls' = 0
    /\ UNCHANGED <<vars, first_run>>

\* The scheduler returns, and the event timers are to be looked at.
RequestPoll ==
    /\ At("tasks")
    /\ IF IsRunning(Etimer) THEN Poll(Etimer) ELSE UNCHANGED vars
    /\ Goes("event")
    /\ taskCalls' = 0
    /\ UNCHANGED first_run

\* Fault: process_next_event is called for events in the queue only.
RunOneEventQueued ==
    /\ At("event")
    /\ IF queue # <<>> THEN NextEvent ELSE UNCHANGED vars
    /\ Goes("call")
    /\ UNCHANGED <<first_run, taskCalls>>

\* If anything waits, one turn of the kernel; then xcontiki__main returns.
RunOneEvent ==
    /\ At("event")
    /\ IF Waiting THEN NextEvent ELSE UNCHANGED vars
    /\ Goes("call")
    /\ UNCHANGED <<first_run, taskCalls>>

MainLoop == EnterMain \/ InitModules \/ InitEtimer \/ RequestPoll \/ RunOneEvent

\* The kernel and the threads it calls go on.  The thread of Etimer is like any
\* other here: what it does is in module Etimer, and is among what threads do.
ThreadCalls == ~AtRest /\ AppCall /\ UNCHANGED loopVars

ThreadReturns == Return /\ UNCHANGED loopVars

Kernel == KernelStep /\ UNCHANGED loopVars

\* A task that the scheduler has called makes a kernel call.
TaskCalls ==
    /\ At("tasks")
    /\ taskCalls < MaxTaskCalls
    /\ AppCall
    /\ taskCalls' = taskCalls + 1
    /\ UNCHANGED <<at, first_run>>

Interrupt == (\E p \in Process : Poll(p)) /\ UNCHANGED loopVars

\* xcontiki__init has the next pass start anew.  first_run is read when that
\* pass begins and not before, so nothing is lost by calling it there only.
InitAgain ==
    /\ At("call")
    /\ "init" \in AppCalls
    /\ first_run' = TRUE
    /\ UNCHANGED <<vars, at, taskCalls>>

SystemInit ==
    /\ Init
    /\ at = "call"
    /\ first_run = TRUE
    /\ taskCalls = 0

SystemNext ==
    \/ MainLoop
    \/ ThreadCalls \/ ThreadReturns \/ Kernel
    \/ TaskCalls \/ Interrupt \/ InitAgain

\* The processor runs on, and a thread returns once its calls are made.
System == /\ SystemInit /\ [][SystemNext]_sysVars
          /\ WF_sysVars(MainLoop) /\ WF_sysVars(ThreadReturns)
          /\ WF_sysVars(Kernel)
-----------------------------------------------------------------------------
\* xcontiki.c drives the kernel as module ProcessKernel assumes: although the
\* tasks come in between, process_next_event is called again and again as long
\* as something waits.
DrivesKernel == FairSpec

\* The event timers are looked at again and again while their process is on the
\* list: in every pass of the main loop its thread gets a poll.
EtimersAreLookedAt ==
    []<>(Etimer \notin Listed \/ (Active("thread") /\ Top.p = Etimer /\ Top.ev = "POLL"))
=============================================================================

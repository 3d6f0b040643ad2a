------------------------------- MODULE Etimer -------------------------------
(***************************************************************************)
(* The event timers of xcontiki: xcontiki_os_sys_Etimer.c and              *)
(* xcontiki_os_sys_Etimer_priv.h, over the timers of module Timer.         *)
(*                                                                         *)
(* An event timer is a timer and the process that is to get its event.     *)
(* The events are posted by a process of the library, which looks at one   *)
(* event timer after another whenever it is polled, and removes those of   *)
(* a process that has exited.  Its thread calls no other thread, so that   *)
(* nothing but time and interrupts comes between its steps.                *)
(*                                                                         *)
(* As in Timer, builds with NDEBUG are modelled.  The kernel is reduced to *)
(* the processes that run, the queue and the poll of the library's own     *)
(* process; that process never exits.  Threads of running processes call   *)
(* the library.                                                            *)
(***************************************************************************)
EXTENDS Integers, Sequences

CONSTANTS
    NumTimers,  \* XCONTIKI_OS_SYS_TIMER__CONF_TIMERS_NUMBER
    Wrap,       \* 2 ^ the width of xcontiki_arch_Clock__time_t
    NumEtimers, \* XCONTIKI_OS_SYS_ETIMER__CONF_ETIMERS_NUMBER
    NumEvents,  \* XCONTIKI_OS_SYS_PROCESS__CONF_NUMEVENTS
    Process,    \* the processes of the application
    NONE,       \* XCONTIKI_OS_SYS_PROCESS__NONE
    Calls,      \* bound: the calls that processes make
    LastCalls   \* bound: the calls that processes make when they have exited

ASSUME NumTimersAssumption  == NumTimers \in Nat \ {0}
ASSUME WrapAssumption       == Wrap \in Nat \ {0}
ASSUME NumEtimersAssumption == NumEtimers \in Nat \ {0}
ASSUME NumEventsAssumption  == NumEvents \in Nat
ASSUME NoneAssumption       == NONE \notin Process
ASSUME CallsAssumption ==
    Calls \subseteq {"set", "reset", "reset_with_new_interval", "restart",
                     "adjust", "stop", "remove", "exit", "post"}
ASSUME LastCallsAssumption == LastCalls \subseteq Calls

VARIABLES
    clock, interval, start, previous_diff,  \* of module Timer
    allocated, running, expired,            \* timer_flags, of module Timer
    timer, process_ptr, etimer_flags,
    et,         \* the loop of the thread; 0 outside of it
    polled,     \* needspoll of xcontiki_os_sys_Etimer__process
    alive,      \* the processes that run
    leaving,    \* those that have exited and whose threads execute still
    queue       \* the events that wait

T == INSTANCE Timer

timers  == <<clock, interval, start, previous_diff, allocated, running, expired>>
etimers == <<timer, process_ptr, etimer_flags>>
processes == <<alive, leaving>>
kernel  == <<polled, processes, queue>>
vars    == <<timers, etimers, et, kernel>>

Etimer == 1..(NumEtimers - 1)   \* 0 is no event timer

TimerEvent(p, e) == [to |-> p, etimer |-> e]
OtherEvent       == [to |-> NONE, etimer |-> 0]

Armed(e) == etimer_flags[e].running

TypeOK ==
    /\ T!TypeOK
    /\ timer \in [Etimer -> T!Timer \cup {0}]
    /\ process_ptr \in [Etimer -> Process \cup {NONE}]
    /\ etimer_flags \in [Etimer -> [allocated : BOOLEAN, running : BOOLEAN]]
    /\ et \in Etimer \cup {0}
    /\ polled \in BOOLEAN
    /\ alive \in SUBSET Process
    /\ leaving \in SUBSET (Process \ alive)
    /\ queue \in Seq([to : Process \cup {NONE}, etimer : Etimer \cup {0}])
    /\ Len(queue) <= NumEvents
-----------------------------------------------------------------------------
\* xcontiki_os_sys_Timer__expired for the timer of e: timer 0 has expired.
Expires(e) == timer[e] = 0 \/ T!Expires(timer[e])

\* Fault: the expiration time is reckoned from now.
ExpirationTimeFromNow(e) ==
    IF timer[e] = 0 THEN 0 ELSE T!Plus(clock, interval[timer[e]])

\* What xcontiki_os_sys_Etimer__expiration_time answers.
ExpirationTime(e) ==
    IF timer[e] = 0 THEN 0 ELSE T!Plus(start[timer[e]], interval[timer[e]])

\* Calls of the timer library return at once for timer 0.
OnTimer(e, A(_)) == IF timer[e] = 0 THEN UNCHANGED timers ELSE A(timer[e])

AddTimer(e, p) ==
    /\ polled' = TRUE
    /\ process_ptr' = [process_ptr EXCEPT ![e] = p]
    /\ etimer_flags' = [etimer_flags EXCEPT ![e] = [allocated |-> TRUE,
                                                    running |-> TRUE]]

\* xcontiki_os_sys_Timer__set for the timer of e, which has none at first.
SetTimer(e, i) ==
    \/ timer[e] # 0 /\ T!Set(timer[e], i) /\ UNCHANGED timer
    \/ /\ timer[e] = 0
       /\ \E t \in T!Timer :
            T!SetNew(t, i) /\ timer' = [timer EXCEPT ![e] = t]
    \/ /\ timer[e] = 0
       /\ \A t \in T!Timer : allocated[t]
       /\ UNCHANGED <<timers, timer>>

\* Numbers that set has given out.  A removed event timer keeps its timer.
GivenOut(e) == etimer_flags[e].allocated \/ timer[e] # 0

\* xcontiki_os_sys_Etimer__set.  Without a number the first free event timer is
\* taken; a number is believed, whether it is allocated or not.
SetNew(p, e, i) ==
    /\ ~etimer_flags[e].allocated
    /\ \A f \in Etimer : f < e => etimer_flags[f].allocated
    /\ SetTimer(e, i)
    /\ AddTimer(e, p)
    /\ UNCHANGED <<et, processes, queue>>

Set(p, e, i) ==
    /\ GivenOut(e)
    /\ SetTimer(e, i)
    /\ AddTimer(e, p)
    /\ UNCHANGED <<et, processes, queue>>

Reset(p, e) ==
    /\ OnTimer(e, T!Reset)
    /\ AddTimer(e, p)
    /\ UNCHANGED <<timer, et, processes, queue>>

\* xcontiki_os_sys_Etimer__reset_with_new_interval: the interval is changed
\* first, so it is the one by which the timer has expired or not and by which
\* its start moves on.
ResetWithNewInterval(p, e, i) ==
    LET t == timer[e]
        diff == T!Diff(t)
        over == expired[t] \/ diff >= i \/ diff < previous_diff[t]
    IN  /\ \/ t = 0 /\ UNCHANGED timers
           \/ /\ t # 0
              /\ interval' = [interval EXCEPT ![t] = i]
              /\ start' = [start EXCEPT ![t] = IF over THEN T!Plus(@, i) ELSE @]
              /\ previous_diff' = [previous_diff EXCEPT
                                        ![t] = IF over THEN 0 ELSE diff]
              /\ expired' = [expired EXCEPT ![t] = over /\ i = 0]
              /\ running' = [running EXCEPT ![t] = IF over THEN i # 0 ELSE @]
              /\ UNCHANGED <<clock, allocated>>
        /\ AddTimer(e, p)
        /\ UNCHANGED <<timer, et, processes, queue>>

\* Fault: restart calls the wrong function of the timer library.
RestartByReset(p, e) == Reset(p, e)

Restart(p, e) ==
    /\ OnTimer(e, T!Restart)
    /\ AddTimer(e, p)
    /\ UNCHANGED <<timer, et, processes, queue>>

\* xcontiki_os_sys_Etimer__adjust: the difference may be negative.
Adjust(e, d) ==
    /\ OnTimer(e, LAMBDA t : T!SetStart(t, T!Plus(start[t], d)))
    /\ UNCHANGED <<etimers, et, kernel>>

Stop(e) ==
    /\ etimer_flags' = [etimer_flags EXCEPT ![e].running = FALSE]
    /\ process_ptr' = [process_ptr EXCEPT ![e] = NONE]
    /\ UNCHANGED <<timers, timer, et, kernel>>

\* Removes the event timers in E, and their timers.
RemoveAll(E) ==
    /\ etimer_flags' = [e \in Etimer |->
            IF e \in E THEN [allocated |-> FALSE, running |-> FALSE]
                       ELSE etimer_flags[e]]
    /\ process_ptr' = [e \in Etimer |-> IF e \in E THEN NONE
                                                   ELSE process_ptr[e]]
    /\ T!Removed({timer[e] : e \in E} \ {0})
    /\ UNCHANGED timer

Remove(e) == RemoveAll({e}) /\ UNCHANGED <<et, kernel>>
-----------------------------------------------------------------------------
\* Fault: the loop stops at the first event timer of the process.
OwnedFirst(p) ==
    {e \in Etimer :
        /\ process_ptr[e] = p
        /\ \A f \in Etimer : f < e => process_ptr[f] # p}

\* The event timers that an exit of p leaves to be removed.
OwnedBy(p) == {e \in Etimer : etimer_flags[e].allocated /\ process_ptr[e] = p}

\* The process p exits; the thread of the library gets EXITED.  After that the
\* thread of p gets EXIT or, if it asked for the exit itself, goes on.
Exit(p) ==
    /\ alive' = alive \ {p}
    /\ leaving' = leaving \cup {p}
    /\ RemoveAll(OwnedBy(p))
    /\ UNCHANGED <<et, polled, queue>>

LastReturn(p) ==
    /\ leaving' = leaving \ {p}
    /\ UNCHANGED <<timers, etimers, et, polled, alive, queue>>

\* The thread gets POLL and begins its loop.
LoopBegin ==
    /\ polled
    /\ polled' = FALSE
    /\ et' = IF Etimer = {} THEN 0 ELSE 1
    /\ UNCHANGED <<timers, etimers, processes, queue>>

\* Fault: the loop ends before the last event timer.
FollowingShort(e) == IF e + 2 < NumEtimers THEN e + 1 ELSE 0

Following(e) == IF e + 1 < NumEtimers THEN e + 1 ELSE 0

\* Fault: one event too many is let in.
RoomLate == Len(queue) <= NumEvents

Room == Len(queue) < NumEvents

Fire(e) ==
    /\ queue' = Append(queue, TimerEvent(process_ptr[e], e))
    /\ process_ptr' = [process_ptr EXCEPT ![e] = NONE]
    /\ etimer_flags' = [etimer_flags EXCEPT ![e].running = FALSE]
    /\ UNCHANGED polled

\* Fault: an event timer whose event is refused has fired nevertheless.
RefusedStops(e) ==
    /\ polled' = TRUE
    /\ process_ptr' = [process_ptr EXCEPT ![e] = NONE]
    /\ etimer_flags' = [etimer_flags EXCEPT ![e].running = FALSE]
    /\ UNCHANGED queue

\* The event finds no room: a poll is asked for, and the event timer goes on.
Refused(e) ==
    /\ polled' = TRUE
    /\ UNCHANGED <<process_ptr, etimer_flags, queue>>

\* A turn of the loop.
Turn ==
    /\ et # 0
    /\ et' = Following(et)
    /\ IF Armed(et) THEN OnTimer(et, T!Look) ELSE UNCHANGED timers
    /\ IF Armed(et) /\ Expires(et)
       THEN IF Room THEN Fire(et) ELSE Refused(et)
       ELSE UNCHANGED <<process_ptr, etimer_flags, polled, queue>>
    /\ UNCHANGED <<timer, processes>>

\* xcontiki_os_sys_Etimer__request_poll, from an interrupt or the main loop.
RequestPoll ==
    /\ polled' = TRUE
    /\ UNCHANGED <<timers, etimers, et, processes, queue>>

Tick == T!Tick /\ UNCHANGED <<etimers, et, kernel>>

Start(p) ==
    /\ p \notin alive
    /\ alive' = alive \cup {p}
    /\ leaving' = leaving \ {p}
    /\ UNCHANGED <<timers, etimers, et, polled, queue>>

\* Other events are posted; the kernel takes the first event of the queue.
Post ==
    /\ Room
    /\ queue' = Append(queue, OtherEvent)
    /\ UNCHANGED <<timers, etimers, et, polled, processes>>

Take ==
    /\ queue # <<>>
    /\ queue' = Tail(queue)
    /\ UNCHANGED <<timers, etimers, et, polled, processes>>
-----------------------------------------------------------------------------
Init ==
    /\ T!Init
    /\ timer = [e \in Etimer |-> 0]
    /\ process_ptr = [e \in Etimer |-> NONE]
    /\ etimer_flags = [e \in Etimer |-> [allocated |-> FALSE, running |-> FALSE]]
    /\ et = 0
    /\ polled = FALSE
    /\ alive = Process
    /\ leaving = {}
    /\ queue = <<>>
=============================================================================

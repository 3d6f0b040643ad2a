----------------------- MODULE ProtothreadsScheduler -----------------------
(***************************************************************************)
(* The scheduler of protothreads, xcontiki_os_sys_ProtothreadsScheduler.c. *)
(*                                                                         *)
(* A pass calls one task after another: those that have not ended in every *)
(* pass, and those that have ended when their interval has passed since    *)
(* they were last started.  Tasks take time, so the clock may tick between *)
(* any two steps, in particular between the two readings for one task.     *)
(***************************************************************************)
EXTENDS Integers

CONSTANTS
    NumTasks,   \* number_of_tasks
    interval,   \* the intervals of the task list
    Wrap        \* 2 ^ the width of xcontiki_arch_Clock__time_t

ASSUME NumTasksAssumption == NumTasks \in Nat
ASSUME WrapAssumption     == Wrap \in Nat \ {0}
ASSUME IntervalAssumption == interval \in [0..(NumTasks - 1) -> 0..(Wrap - 1)]

VARIABLES
    clock,                              \* xcontiki_arch_Clock__time()
    last_states, last_ticks, prev_diff,
    scheduler_first_run,
    i,      \* the loop; NumTasks outside of it
    at      \* where the loop is: it looks at the task i, "look", reads the
            \* clock again, "stamp", or has called the task, "call"

vars == <<clock, last_states, last_ticks, prev_diff, scheduler_first_run, i, at>>

Task == 0..(NumTasks - 1)
Time == 0..(Wrap - 1)

WAITING   == 0
YIELDED   == 1
EXITED    == 2
ENDED     == 3
FIRST_RUN == 4

TypeOK ==
    /\ clock \in Time
    /\ last_states \in [Task -> WAITING..FIRST_RUN]
    /\ last_ticks \in [Task -> Time]
    /\ prev_diff \in [Task -> Time]
    /\ scheduler_first_run \in BOOLEAN
    /\ i \in Task \cup {NumTasks}
    /\ at \in {"look", "stamp", "call"}
    /\ i = NumTasks => at = "look"
-----------------------------------------------------------------------------
\* Differences of clock readings, which wrap.
Minus(a, b) == IF b <= a THEN a - b ELSE a - b + Wrap

Diff(t) == Minus(clock, last_ticks[t])

\* Fault: the wrap of the clock is not noticed.
DueNoWrap(t) == Diff(t) >= interval[t]

\* Fault: the interval must be exceeded.
DueLate(t) == Diff(t) > interval[t] \/ Diff(t) < prev_diff[t]

Due(t) == Diff(t) >= interval[t] \/ Diff(t) < prev_diff[t]

\* The task t is called whatever the time is.
GoesOn(t) == interval[t] = 0 \/ last_states[t] < EXITED

\* Fault: the previous difference of the interval before is kept.
StartKeepsDiff(t) ==
    /\ last_ticks' = [last_ticks EXCEPT ![t] = clock]
    /\ UNCHANGED prev_diff

\* A new interval of the task t begins.
Start(t) ==
    /\ last_ticks' = [last_ticks EXCEPT ![t] = clock]
    /\ prev_diff' = [prev_diff EXCEPT ![t] = 0]

\* The scheduler is called; the first time all tasks are to start.
Begin ==
    /\ i = NumTasks
    /\ i' = 0
    /\ scheduler_first_run' = FALSE
    /\ IF scheduler_first_run
       THEN /\ last_states' = [t \in Task |-> FIRST_RUN]
            /\ last_ticks' = [t \in Task |-> 0]
       ELSE UNCHANGED <<last_states, last_ticks>>
    /\ UNCHANGED <<clock, prev_diff, at>>

\* The task i has not been started since the scheduler was initialised.
StartFirst ==
    /\ i \in Task /\ at = "look"
    /\ last_states[i] >= FIRST_RUN
    /\ Start(i)
    /\ at' = "call"
    /\ UNCHANGED <<clock, last_states, scheduler_first_run, i>>

GoOn ==
    /\ i \in Task /\ at = "look"
    /\ last_states[i] < FIRST_RUN
    /\ GoesOn(i)
    /\ at' = "call"
    /\ UNCHANGED <<clock, last_states, last_ticks, prev_diff,
                   scheduler_first_run, i>>

\* The task i has ended.  Its interval has passed, or it is left alone.
Look ==
    /\ i \in Task /\ at = "look"
    /\ last_states[i] < FIRST_RUN
    /\ ~GoesOn(i)
    /\ IF Due(i)
       THEN at' = "stamp" /\ UNCHANGED <<prev_diff, i>>
       ELSE /\ prev_diff' = [prev_diff EXCEPT ![i] = Diff(i)]
            /\ i' = i + 1
            /\ UNCHANGED at
    /\ UNCHANGED <<clock, last_states, last_ticks, scheduler_first_run>>

\* The clock is read again, and the task i called.
StartAgain ==
    /\ at = "stamp"
    /\ Start(i)
    /\ at' = "call"
    /\ UNCHANGED <<clock, last_states, scheduler_first_run, i>>

\* The task i returns.
Return(r) ==
    /\ at = "call"
    /\ last_states' = [last_states EXCEPT ![i] = r]
    /\ i' = i + 1
    /\ at' = "look"
    /\ UNCHANGED <<clock, last_ticks, prev_diff, scheduler_first_run>>

\* xcontiki_os_sys_ProtothreadsScheduler__init
Initialize ==
    /\ i = NumTasks
    /\ scheduler_first_run' = TRUE
    /\ UNCHANGED <<clock, last_states, last_ticks, prev_diff, i, at>>

\* Fault: the counter of the clock is wider than the readings that are kept.
TickWide ==
    /\ clock' = clock + 1
    /\ UNCHANGED <<last_states, last_ticks, prev_diff, scheduler_first_run, i, at>>

Tick ==
    /\ clock' = IF clock + 1 < Wrap THEN clock + 1 ELSE 0
    /\ UNCHANGED <<last_states, last_ticks, prev_diff, scheduler_first_run, i, at>>

Init ==
    /\ clock \in Time
    /\ last_states = [t \in Task |-> WAITING]
    /\ last_ticks = [t \in Task |-> 0]
    /\ prev_diff = [t \in Task |-> 0]
    /\ scheduler_first_run = TRUE
    /\ i = NumTasks
    /\ at = "look"
=============================================================================

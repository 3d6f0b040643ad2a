-------------------------- MODULE SchedulerHistory --------------------------
(***************************************************************************)
(* What the scheduler of protothreads promises: the same steps, with the   *)
(* real time since each task was started kept beside the clock that wraps. *)
(***************************************************************************)
EXTENDS ProtothreadsScheduler

CONSTANTS
    MaxAge      \* bound: what is counted of the time since a start

ASSUME MaxAgeAssumption == MaxAge \in Nat /\ MaxAge >= Wrap

VARIABLES
    age,    \* the real time since a task was started, at most MaxAge
    gap     \* the real time since its difference was taken; Wrap from the time
            \* on when that has once been a whole wrap

history == <<age, gap>>

HistoryOK ==
    /\ TypeOK
    /\ age \in [Task -> 0..MaxAge]
    /\ gap \in [Task -> 0..Wrap]
-----------------------------------------------------------------------------
Capped(n, max) == IF n < max THEN n ELSE max

Fresh(t) ==
    /\ age' = [age EXCEPT ![t] = 0]
    /\ gap' = [gap EXCEPT ![t] = 0]

Seen(t) ==
    /\ gap' = [gap EXCEPT ![t] = IF @ < Wrap THEN 0 ELSE @]
    /\ UNCHANGED age

Pass ==
    /\ Tick
    /\ age' = [t \in Task |-> Capped(age[t] + 1, MaxAge)]
    /\ gap' = [t \in Task |-> Capped(gap[t] + 1, Wrap)]

HistoryInit ==
    /\ Init
    /\ age = [t \in Task |-> 0]
    /\ gap = age

\* What the loop goes on with; there is always one step.
Loop ==
    \/ Begin /\ UNCHANGED history
    \/ StartFirst /\ Fresh(i)
    \/ GoOn /\ UNCHANGED history
    \/ Look /\ Seen(i)
    \/ StartAgain /\ Fresh(i)
    \/ \E r \in WAITING..ENDED : Return(r) /\ UNCHANGED history

HistoryNext == Loop \/ (Initialize /\ UNCHANGED history) \/ Pass

HistorySpec == HistoryInit /\ [][HistoryNext]_<<vars, history>>

\* The main loop calls the scheduler again and again, tasks return, and time
\* passes.
FairSpec == HistorySpec /\ WF_vars(Loop) /\ WF_vars(Pass)
-----------------------------------------------------------------------------
Started(t) == i = t /\ at = "call"

\* A task that has ended is not started again before its interval has passed
\* since its last start, whatever the clock did in between and however long
\* the task or a pass took.
NotEarly ==
    [][\A t \in Task :
        /\ ~Started(t) /\ Started(t)' /\ last_states[t] \in {EXITED, ENDED}
        => age[t] >= interval[t]]_<<vars, history>>

\* A task whose interval has passed is not passed over, if it has been looked
\* at within each wrap of the clock since it was started.
OnTime ==
    [][\A t \in Task :
        /\ i = t /\ i' # t /\ ~Started(t)
        /\ gap[t] < Wrap
        => age[t] < interval[t]]_<<vars, history>>

\* The clock comes round to where it was when the difference of the task t was
\* taken, and nobody has looked at the task since.  Differences are taken of a
\* task that has ended and has an interval.
ComesRound(t) ==
    /\ clock' # clock
    /\ ~Started(t)
    /\ ~GoesOn(t) /\ last_states[t] < FIRST_RUN
    /\ Minus(Diff(t), prev_diff[t]) = Wrap - 1

\* Every task is called again and again, whatever the others do.  A task without
\* an interval, and one that has not ended, is never excepted; another one is if
\* again and again a whole wrap of the clock hides between two looks at this very
\* task.  When a task is no more called it has been looked at since it ended, so
\* that the difference is one that was taken.
EachRuns == \A t \in Task : []<>Started(t) \/ []<><<ComesRound(t)>>_vars
=============================================================================

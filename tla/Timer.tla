------------------------------- MODULE Timer -------------------------------
(***************************************************************************)
(* The timers of xcontiki: xcontiki_os_sys_Timer.c and                     *)
(* xcontiki_os_sys_Timer_priv.h.                                           *)
(*                                                                         *)
(* A timer is noticed to have expired only when somebody looks at it, and  *)
(* all it has to go by is a clock that wraps, its start, and how far the   *)
(* clock had come at the look before (previous_diff).  What the answers    *)
(* are worth is stated in module TimerHistory.                             *)
(*                                                                         *)
(* Builds with NDEBUG are modelled: an assertion that fails is followed by *)
(* a return, and calls that return at once change nothing.                 *)
(***************************************************************************)
EXTENDS Integers

CONSTANTS
    NumTimers,  \* XCONTIKI_OS_SYS_TIMER__CONF_TIMERS_NUMBER
    Wrap        \* 2 ^ the width of xcontiki_arch_Clock__time_t

ASSUME NumTimersAssumption == NumTimers \in Nat \ {0}
ASSUME WrapAssumption      == Wrap \in Nat \ {0}

VARIABLES
    clock,          \* xcontiki_arch_Clock__time()
    interval, start, previous_diff,
    allocated, running, expired     \* timer_flags

vars == <<clock, interval, start, previous_diff, allocated, running, expired>>

Timer == 1..(NumTimers - 1)     \* 0 is no timer
Time  == 0..(Wrap - 1)

TypeOK ==
    /\ clock \in Time
    /\ interval \in [Timer -> Time]
    /\ start \in [Timer -> Time]
    /\ previous_diff \in [Timer -> Time]
    /\ allocated \in [Timer -> BOOLEAN]
    /\ running \in [Timer -> BOOLEAN]
    /\ expired \in [Timer -> BOOLEAN]
-----------------------------------------------------------------------------
\* Sums and differences of clock readings, which wrap.
Plus(a, b)  == IF a + b < Wrap THEN a + b ELSE a + b - Wrap
Minus(a, b) == IF b <= a THEN a - b ELSE a - b + Wrap

Diff(t) == Minus(clock, start[t])

\* Fault: a clock that has passed the start again is not noticed.
DueNoWrap(t) == Diff(t) >= interval[t]

Due(t) == Diff(t) >= interval[t] \/ Diff(t) < previous_diff[t]

\* What xcontiki_os_sys_Timer__expired answers.
Expires(t) == expired[t] \/ Due(t)

\* What xcontiki_os_sys_Timer__remaining answers.
Remaining(t) == IF Expires(t) THEN 0 ELSE Minus(interval[t], Diff(t))

\* Looks at the timers in T and finds those in X to have expired; the clock is
\* read once.
Looked(T, X) ==
    /\ expired' = [t \in Timer |-> expired[t] \/ t \in X]
    /\ running' = [t \in Timer |-> running[t] /\ t \notin X]
    /\ previous_diff' = [t \in Timer |->
            IF t \in T \ X THEN Diff(t) ELSE previous_diff[t]]
    /\ UNCHANGED <<clock, interval, start, allocated>>
-----------------------------------------------------------------------------
\* Fault: a timer that is set keeps the previous difference of its last use.
SetToKeepsDiff(t, i) ==
    /\ interval' = [interval EXCEPT ![t] = i]
    /\ expired' = [expired EXCEPT ![t] = (i = 0)]
    /\ running' = [running EXCEPT ![t] = (i # 0)]
    /\ start' = IF i = 0 THEN start ELSE [start EXCEPT ![t] = clock]
    /\ UNCHANGED previous_diff

\* The timer starts now.  One with no interval has expired, and keeps its
\* start and its previous difference.
SetTo(t, i) ==
    /\ interval' = [interval EXCEPT ![t] = i]
    /\ expired' = [expired EXCEPT ![t] = (i = 0)]
    /\ running' = [running EXCEPT ![t] = (i # 0)]
    /\ IF i = 0
       THEN UNCHANGED <<start, previous_diff>>
       ELSE /\ start' = [start EXCEPT ![t] = clock]
            /\ previous_diff' = [previous_diff EXCEPT ![t] = 0]

\* Fault: the allocation does not mark the timer as taken.
SetNewUnmarked(t, i) ==
    /\ ~allocated[t]
    /\ \A u \in Timer : u < t => allocated[u]
    /\ SetTo(t, i)
    /\ UNCHANGED <<clock, allocated>>

\* xcontiki_os_sys_Timer__set: without a number the first free timer is taken;
\* a number is believed, whether it is allocated or not.
SetNew(t, i) ==
    /\ ~allocated[t]
    /\ \A u \in Timer : u < t => allocated[u]
    /\ allocated' = [allocated EXCEPT ![t] = TRUE]
    /\ SetTo(t, i)
    /\ UNCHANGED clock

Set(t, i) == SetTo(t, i) /\ UNCHANGED <<clock, allocated>>

\* xcontiki_os_sys_Timer__expired and __remaining; their answers are above.
Look(t) == Looked({t}, {u \in {t} : Expires(u)})

\* Fault: reset starts from the current time.
NewStartNow(t) == clock

\* Fault: the new start is kept in a wider type.
NewStartWide(t) == start[t] + interval[t]

NewStart(t) == Plus(start[t], interval[t])

\* Fault: reset does not set the running flag.
RunningKept(t) == running[t]

RunningAgain(t) == interval[t] # 0

\* xcontiki_os_sys_Timer__reset: the next interval begins where the last one
\* ended; before that only the look remains.
Reset(t) ==
    IF ~Expires(t)
    THEN Look(t)
    ELSE /\ start' = [start EXCEPT ![t] = NewStart(t)]
         /\ previous_diff' = [previous_diff EXCEPT ![t] = 0]
         /\ expired' = [expired EXCEPT ![t] = (interval[t] = 0)]
         /\ running' = [running EXCEPT ![t] = RunningAgain(t)]
         /\ UNCHANGED <<clock, interval, allocated>>

\* xcontiki_os_sys_Timer__restart: the interval begins now.
Restart(t) ==
    /\ start' = [start EXCEPT ![t] = clock]
    /\ previous_diff' = [previous_diff EXCEPT ![t] = 0]
    /\ expired' = [expired EXCEPT ![t] = (interval[t] = 0)]
    /\ running' = [running EXCEPT ![t] = running[t] \/ interval[t] # 0]
    /\ UNCHANGED <<clock, interval, allocated>>

\* The timers in T are free and count as expired.
Removed(T) ==
    /\ allocated' = [t \in Timer |-> allocated[t] /\ t \notin T]
    /\ expired' = [t \in Timer |-> expired[t] \/ t \in T]
    /\ running' = [t \in Timer |-> running[t] /\ t \notin T]
    /\ UNCHANGED <<clock, interval, start, previous_diff>>

\* xcontiki_os_sys_Timer__remove
Remove(t) == Removed({t})

\* xcontiki_os_sys_Timer__set_interval: the flags stay, so a timer that has
\* been seen to expire counts as expired whatever the new interval is.
SetInterval(t, i) ==
    /\ interval' = [interval EXCEPT ![t] = i]
    /\ UNCHANGED <<clock, start, previous_diff, allocated, running, expired>>

\* xcontiki_os_sys_Timer__set_start: the previous difference, measured from
\* the old start, stays.
SetStart(t, s) ==
    /\ start' = [start EXCEPT ![t] = s]
    /\ UNCHANGED <<clock, interval, previous_diff, allocated, running, expired>>

\* xcontiki_os_sys_Timer__sleepyhead_thread, from BEGIN to END: every running
\* timer is looked at, whether it has been seen to expire or not.  The time to
\* sleep that it computes is used by nobody.
Sleepyhead ==
    LET T == {t \in Timer : running[t]} IN Looked(T, {t \in T : Due(t)})

\* Time passes between two calls.
Tick ==
    /\ clock' = Plus(clock, 1)
    /\ UNCHANGED <<interval, start, previous_diff, allocated, running, expired>>

Init ==
    /\ clock \in Time
    /\ interval = [t \in Timer |-> 0]
    /\ start = interval /\ previous_diff = interval
    /\ allocated = [t \in Timer |-> FALSE]
    /\ running = allocated /\ expired = allocated

Next ==
    \/ \E t \in Timer :
        \/ \E i \in Time :
            SetNew(t, i) \/ Set(t, i) \/ SetInterval(t, i) \/ SetStart(t, i)
        \/ Look(t) \/ Reset(t) \/ Restart(t) \/ Remove(t)
    \/ Sleepyhead
    \/ Tick

Spec == Init /\ [][Next]_vars
=============================================================================

---------------------------- MODULE TimerHistory ----------------------------
(***************************************************************************)
(* What the timers of module Timer are worth: the same steps, with the     *)
(* real time that has passed kept beside the clock that wraps.             *)
(***************************************************************************)
EXTENDS Timer

CONSTANT
    MaxAge      \* bound: a timer is followed for so long after its start

ASSUME MaxAgeAssumption == MaxAge \in Nat

VARIABLES
    tracked,    \* the timer is as set, restart or reset left it
    age,        \* the real time since the start of a tracked timer
    gap         \* the real time since it was looked at; Wrap from the time on
                \* when that has once been a whole wrap

history == <<tracked, age, gap>>

HistoryOK ==
    /\ TypeOK
    /\ tracked \in [Timer -> BOOLEAN]
    /\ age \in [Timer -> Nat]
    /\ gap \in [Timer -> 0..Wrap]
-----------------------------------------------------------------------------
\* The timer t is tracked or not, a time a after its start.
Track(t, b, a) ==
    LET d == IF b THEN a ELSE 0
    IN  /\ tracked' = [tracked EXCEPT ![t] = b]
        /\ age' = [age EXCEPT ![t] = d]
        /\ gap' = [gap EXCEPT ![t] = IF d < Wrap THEN d ELSE Wrap]

\* The timers in T are looked at.
See(T) ==
    /\ gap' = [t \in Timer |-> IF t \in T /\ gap[t] < Wrap THEN 0 ELSE gap[t]]
    /\ UNCHANGED <<tracked, age>>

\* A tick of real time.
Pass ==
    /\ tracked' = [t \in Timer |-> tracked[t] /\ age[t] < MaxAge]
    /\ age' = [t \in Timer |-> IF tracked'[t] THEN age[t] + 1 ELSE 0]
    /\ gap' = [t \in Timer |-> CASE ~tracked'[t] -> 0
                                  [] tracked'[t] /\ gap[t] < Wrap -> gap[t] + 1
                                  [] OTHER -> gap[t]]

HistoryInit ==
    /\ Init
    /\ tracked = [t \in Timer |-> FALSE]
    /\ age = [t \in Timer |-> 0]
    /\ gap = age

HistoryNext ==
    \/ \E t \in Timer, i \in Time :
        \/ SetNew(t, i) /\ Track(t, TRUE, 0)
        \/ Set(t, i) /\ Track(t, TRUE, 0)
        \/ SetStart(t, i) /\ Track(t, FALSE, 0)
        \/ SetInterval(t, i) /\ IF expired[t] THEN Track(t, FALSE, 0)
                                              ELSE UNCHANGED history
    \/ \E t \in Timer :
        \/ Look(t) /\ See({t})
        \/ Reset(t) /\ IF Expires(t)
                       THEN Track(t, tracked[t], age[t] - interval[t])
                       ELSE See({t})
        \/ Restart(t) /\ Track(t, TRUE, 0)
        \/ Remove(t) /\ Track(t, FALSE, 0)
    \/ Sleepyhead /\ See({t \in Timer : running[t]})
    \/ Tick /\ Pass

HistorySpec == HistoryInit /\ [][HistoryNext]_<<vars, history>>
-----------------------------------------------------------------------------
\* A timer never expires early, whenever and however seldom it is looked at:
\* neither the wrap of the clock nor a reset long overdue invents an expiry.
NeverEarly ==
    \A t \in Timer : tracked[t] /\ Expires(t) => age[t] >= interval[t]

\* The time left of a timer.
Left(t) == IF age[t] >= interval[t] THEN 0 ELSE interval[t] - age[t]

\* A timer that is looked at less than a wrap after its start and after each
\* look is exact: remaining answers the time that is left, so that the timer
\* is not late either, although its interval may be all but a whole wrap.
ExactIfSeen ==
    \A t \in Timer :
        tracked[t] /\ gap[t] < Wrap => Remaining(t) = Left(t)

\* The sleepyhead thread, which looks at running timers only, passes over no
\* timer that has yet to expire.
SleepyheadSeesAll ==
    \A t \in Timer : tracked[t] /\ ~expired[t] => running[t]
=============================================================================

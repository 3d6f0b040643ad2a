--------------------------- MODULE EtimerHistory ---------------------------
(***************************************************************************)
(* What the event timers of module Etimer promise: the same steps, with    *)
(* the time that each event timer has left, by the words of Etimer.h, kept *)
(* beside the code.                                                        *)
(***************************************************************************)
EXTENDS Etimer

CONSTANTS
    MaxLate,    \* bound: an event timer is known to be overdue by so much
    Prompt      \* bound: every event timer is looked at once in a wrap

ASSUME MaxLateAssumption == MaxLate \in Nat
ASSUME PromptAssumption  == Prompt \in BOOLEAN

VARIABLE
    left        \* the time until an event timer is to expire; -MaxLate when that is
                \* so long ago that nothing is said of the event timer

HistoryOK == TypeOK /\ left \in [Etimer -> -MaxLate .. Wrap]
-----------------------------------------------------------------------------
Leave(e, d) ==
    left' = [left EXCEPT ![e] = IF d > -MaxLate THEN d ELSE -MaxLate]

Interval(e) == IF timer[e] = 0 THEN 0 ELSE interval[timer[e]]

\* The next interval begins when the last one ended.
GoOn(e, i) ==
    IF Expires(e) /\ left[e] \in (1 - MaxLate)..0 THEN Leave(e, left[e] + i)
                                                  ELSE UNCHANGED left

\* A difference of readings taken as a number with a sign.
Signed(d) == IF 2 * d < Wrap THEN d ELSE d - Wrap

\* Some event timer that has not been seen to expire has not been looked at
\* for a wrap less one.
Overlooked ==
    \E e \in Etimer :
        /\ Armed(e) /\ timer[e] # 0
        /\ ~expired[timer[e]]
        /\ T!Minus(T!Diff(timer[e]), previous_diff[timer[e]]) >= Wrap - 1

\* A call of p from among those in C.
Call(p, C) ==
    \E e \in Etimer :
        \/ /\ "set" \in C
           /\ \E i \in T!Time : (SetNew(p, e, i) \/ Set(p, e, i)) /\ Leave(e, i)
        \/ /\ GivenOut(e)
           /\ \/ "reset" \in C /\ Reset(p, e) /\ GoOn(e, Interval(e))
              \/ /\ "reset_with_new_interval" \in C
                 /\ \E i \in T!Time :
                        ResetWithNewInterval(p, e, i) /\ GoOn(e, i)
              \/ "restart" \in C /\ Restart(p, e) /\ Leave(e, Interval(e))
              \/ /\ "adjust" \in C
                 /\ \E d \in T!Time :
                        /\ left[e] + Signed(d) < Wrap
                        /\ Adjust(e, d)
                        /\ IF Expires(e) THEN UNCHANGED left
                                         ELSE Leave(e, left[e] + Signed(d))
              \/ "stop" \in C /\ Stop(e) /\ Leave(e, -MaxLate)
              \/ "remove" \in C /\ Remove(e) /\ UNCHANGED left

\* The thread of the library is not in its loop.
Quiet == et = 0

\* A tick of real time.
Pass ==
    /\ Tick
    /\ Prompt => ~Overlooked
    /\ left' = [e \in Etimer |->
            IF left[e] > -MaxLate THEN left[e] - 1 ELSE left[e]]

HistoryInit == Init /\ left = [e \in Etimer |-> 0]

HistoryNext ==
    \/ Quiet /\ \E p \in alive : Call(p, Calls)
    \/ Quiet /\ \E p \in leaving : Call(p, LastCalls)
    \/ Quiet /\ \E p \in leaving : LastReturn(p) /\ UNCHANGED left
    \/ Quiet /\ "exit" \in Calls /\ \E p \in alive : Exit(p) /\ UNCHANGED left
    \/ Quiet /\ \E p \in Process : Start(p) /\ UNCHANGED left
    \/ Quiet /\ LoopBegin /\ UNCHANGED left
    \/ Quiet /\ "post" \in Calls /\ Post /\ UNCHANGED left
    \/ Quiet /\ Take /\ UNCHANGED left
    \/ Turn /\ UNCHANGED left
    \/ RequestPoll /\ UNCHANGED left
    \/ Pass

HistorySpec == HistoryInit /\ [][HistoryNext]_<<vars, left>>
-----------------------------------------------------------------------------
\* The event of the event timer e goes into the queue.
Posts(e) == et = e /\ queue' = Append(queue, TimerEvent(process_ptr[e], e))

\* The event of an event timer is not posted before its time.
NotEarly == [][\A e \in Etimer : Posts(e) => left[e] <= 0]_<<vars, left>>

\* An event timer whose time has come is not passed over: its event is posted
\* at the next look, unless the queue is full.
OnTime ==
    [][\A e \in Etimer :
        /\ et = e /\ et' # e
        /\ Armed(e) /\ left[e] \in (1 - MaxLate)..0
        => Posts(e) \/ ~Room]_<<vars, left>>

\* In the loop, an event timer stops only with its event in the queue.
NothingLost ==
    [][\A e \in Etimer : et = e /\ Armed(e) /\ ~Armed(e)' => Posts(e)]_vars

\* expiration_time answers the time at which an event timer is to expire, or was
\* to expire, also after resets long overdue and across the wrap of the clock.
\* One that was set to no interval has no such time.
ExpirationIsKnown ==
    \A e \in Etimer :
        left[e] > -MaxLate /\ Interval(e) # 0
            => ExpirationTime(e) = (clock + left[e]) % Wrap

\* An event timer that runs has a process that runs to send its event to.  This
\* needs that a process begins no interval once it has exited: its event timers
\* are removed before its EXIT handler is called.
NoOrphans == \A e \in Etimer : Armed(e) => process_ptr[e] \in alive
-----------------------------------------------------------------------------
\* The main loop asks for a poll in each pass; the kernel then calls the
\* thread, whose loop runs to its end, and takes an event.
FairSpec ==
    /\ HistorySpec
    /\ WF_vars(RequestPoll /\ UNCHANGED left)
    /\ WF_vars(Quiet /\ LoopBegin /\ UNCHANGED left)
    /\ WF_vars(Turn /\ UNCHANGED left)
    /\ SF_vars(Quiet /\ Take /\ UNCHANGED left)
    /\ WF_vars(Pass)

\* The event timer e begins another interval.
Rearms(e) ==
    /\ timers' # timers
    /\ \E p \in Process :
        \/ Restart(p, e)
        \/ Reset(p, e) /\ Expires(e)
        \/ \E i \in T!Time : Set(p, e, i)

\* An event timer does not run forever, unless the application keeps
\* beginning its interval again or the queue is full whenever it is looked at.
EachFires ==
    \A e \in Etimer :
        \/ []<>~Armed(e)
        \/ []<><<Rearms(e)>>_vars
        \/ []<>(et = e) /\ <>[](et = e => ~Room)
=============================================================================

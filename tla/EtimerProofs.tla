---------------------------- MODULE EtimerProofs ----------------------------
(***************************************************************************)
(* Theorems about the event timers, for any number of event timers, of     *)
(* timers, of processes and of events, and any width of the clock.         *)
(***************************************************************************)
EXTENDS EtimerHistory, TLAPS

\* The calls that make their caller the owner of an event timer that runs.
Arming == {"set", "reset", "reset_with_new_interval", "restart"}

\* An event timer that runs is allocated, so that an exit finds it.
OwnedOK == \A e \in Etimer : Armed(e) => etimer_flags[e].allocated

\* A process begins no interval once it has exited.
NoLastArming == LastCalls \cap Arming = {}

USE NumTimersAssumption, WrapAssumption, NumEtimersAssumption,
    NumEventsAssumption, NoneAssumption, MaxLateAssumption
-----------------------------------------------------------------------------
(***************************************************************************)
(* The timers below the event timers keep their types.                     *)
(***************************************************************************)
\* Sums and differences of clock readings are clock readings.
LEMMA Readings ==
    ASSUME NEW a \in T!Time, NEW b \in T!Time
    PROVE  T!Plus(a, b) \in T!Time /\ T!Minus(a, b) \in T!Time
BY DEF T!Plus, T!Minus, T!Time

\* A reset keeps the types of the timers.
LEMMA ResetTyped ==
    ASSUME T!TypeOK, NEW t \in T!Timer, T!Reset(t)
    PROVE  T!TypeOK'
<1>1. T!Diff(t) \in T!Time /\ T!NewStart(t) \in T!Time
  BY Readings DEF T!Diff, T!NewStart, T!TypeOK
<1>2. CASE T!Look(t)
  BY <1>1, <1>2 DEF T!Look, T!Looked, T!TypeOK
<1>3. CASE T!Expires(t)
  <2>1. start' \in [T!Timer -> T!Time] /\ previous_diff' \in [T!Timer -> T!Time]
    BY <1>1, <1>3 DEF T!Reset, T!TypeOK, T!Time
  <2>2. expired' \in [T!Timer -> BOOLEAN] /\ running' \in [T!Timer -> BOOLEAN]
    BY <1>3 DEF T!Reset, T!RunningAgain, T!TypeOK
  <2> QED
    BY <1>3, <2>1, <2>2 DEF T!Reset, T!TypeOK
<1>4. T!Look(t) \/ T!Expires(t)
  BY DEF T!Reset
<1> QED
  BY <1>2, <1>3, <1>4

\* So do the other calls that event timers make.
LEMMA TimersTyped ==
    ASSUME T!TypeOK, NEW t \in T!Timer, NEW i \in T!Time,
           \/ T!SetNew(t, i) \/ T!Set(t, i) \/ T!SetStart(t, i)
           \/ T!Look(t) \/ T!Reset(t) \/ T!Restart(t)
    PROVE  T!TypeOK'
<1>1. CASE T!SetNew(t, i) \/ T!Set(t, i)
  <2>1. T!SetTo(t, i) /\ clock' = clock /\ allocated' \in [T!Timer -> BOOLEAN]
    BY <1>1 DEF T!SetNew, T!Set, T!TypeOK
  <2>2. /\ interval' \in [T!Timer -> T!Time]
        /\ start' \in [T!Timer -> T!Time]
        /\ previous_diff' \in [T!Timer -> T!Time]
    BY <2>1 DEF T!SetTo, T!TypeOK, T!Time
  <2>3. expired' \in [T!Timer -> BOOLEAN] /\ running' \in [T!Timer -> BOOLEAN]
    BY <2>1 DEF T!SetTo, T!TypeOK
  <2> QED
    BY <2>1, <2>2, <2>3 DEF T!TypeOK
<1>2. CASE T!SetStart(t, i)
  BY <1>2 DEF T!SetStart, T!TypeOK
<1>3. CASE T!Look(t)
  <2>1. T!Diff(t) \in T!Time
    BY Readings DEF T!Diff, T!TypeOK
  <2> QED
    BY <1>3, <2>1 DEF T!Look, T!Looked, T!TypeOK
<1>4. CASE T!Restart(t)
  <2>1. start' \in [T!Timer -> T!Time] /\ previous_diff' \in [T!Timer -> T!Time]
    BY <1>4 DEF T!Restart, T!TypeOK, T!Time
  <2>2. expired' \in [T!Timer -> BOOLEAN] /\ running' \in [T!Timer -> BOOLEAN]
    BY <1>4 DEF T!Restart, T!TypeOK
  <2> QED
    BY <1>4, <2>1, <2>2 DEF T!Restart, T!TypeOK
<1> QED
  BY <1>1, <1>2, <1>3, <1>4, ResetTyped
-----------------------------------------------------------------------------
(***************************************************************************)
(* The calls of event timers.                                              *)
(***************************************************************************)
\* What the time left of one event timer may become.
LEMMA LeaveTyped ==
    ASSUME HistoryOK, NEW e \in Etimer, NEW d \in Int, d <= Wrap, Leave(e, d)
    PROVE  left' \in [Etimer -> -MaxLate .. Wrap]
BY DEF Leave, HistoryOK

LEMMA GoOnTyped ==
    ASSUME HistoryOK, NEW e \in Etimer, NEW i \in T!Time, GoOn(e, i)
    PROVE  left' \in [Etimer -> -MaxLate .. Wrap]
<1>1. CASE left[e] \in (1 - MaxLate)..0 /\ Leave(e, left[e] + i)
  <2>1. left[e] + i \in Int /\ left[e] + i <= Wrap
    BY <1>1 DEF T!Time
  <2> QED
    BY <1>1, <2>1, LeaveTyped
<1>2. CASE UNCHANGED left
  BY <1>2 DEF HistoryOK
<1> QED
  BY <1>1, <1>2 DEF GoOn

\* The event timer e is given to the process p.
LEMMA Giving ==
    ASSUME HistoryOK, NEW e \in Etimer, NEW p \in Process,
           T!TypeOK', timer' \in [Etimer -> T!Timer \cup {0}],
           left' \in [Etimer -> -MaxLate .. Wrap],
           AddTimer(e, p), UNCHANGED <<et, processes, queue>>
    PROVE  HistoryOK'
BY DEF HistoryOK, TypeOK, AddTimer, processes

\* What the call does to the timer of e.
LEMMA SettingTimer ==
    ASSUME TypeOK, NEW e \in Etimer, NEW i \in T!Time, SetTimer(e, i)
    PROVE  T!TypeOK' /\ timer' \in [Etimer -> T!Timer \cup {0}]
<1>. T!TypeOK /\ timer \in [Etimer -> T!Timer \cup {0}]
  BY DEF TypeOK
<1>1. CASE timer[e] # 0 /\ T!Set(timer[e], i) /\ UNCHANGED timer
  BY <1>1, TimersTyped
<1>2. ASSUME NEW t \in T!Timer, T!SetNew(t, i), timer' = [timer EXCEPT ![e] = t]
      PROVE  T!TypeOK' /\ timer' \in [Etimer -> T!Timer \cup {0}]
  BY <1>2, TimersTyped
<1>3. CASE UNCHANGED <<timers, timer>>
  BY <1>3 DEF timers, T!TypeOK
<1> QED
  BY <1>1, <1>2, <1>3 DEF SetTimer

LEMMA Setting ==
    ASSUME HistoryOK, NEW e \in Etimer, NEW i \in T!Time, NEW p \in Process,
           SetNew(p, e, i) \/ Set(p, e, i), Leave(e, i)
    PROVE  HistoryOK'
<1>1. HistoryOK /\ TypeOK /\ SetTimer(e, i)
  BY DEF HistoryOK, SetNew, Set
<1>2. left' \in [Etimer -> -MaxLate .. Wrap]
  BY <1>1, LeaveTyped DEF T!Time
<1>3. AddTimer(e, p) /\ UNCHANGED <<et, processes, queue>>
  BY DEF SetNew, Set
<1> QED
  BY <1>1, <1>2, <1>3, SettingTimer, Giving

LEMMA Resetting ==
    ASSUME HistoryOK, NEW e \in Etimer, NEW p \in Process,
           Reset(p, e), GoOn(e, Interval(e))
    PROVE  HistoryOK'
<1>1. HistoryOK /\ T!TypeOK /\ timer \in [Etimer -> T!Timer \cup {0}]
  BY DEF HistoryOK, TypeOK
<1>2. Interval(e) \in T!Time
  BY <1>1 DEF Interval, T!TypeOK, T!Time
<1>3. left' \in [Etimer -> -MaxLate .. Wrap]
  BY <1>1, <1>2, GoOnTyped
<1>4. T!TypeOK'
  <2>1. CASE timer[e] = 0
    BY <1>1, <2>1 DEF Reset, OnTimer, timers, T!TypeOK
  <2>2. CASE timer[e] # 0
    BY <1>1, <2>2, ResetTyped DEF Reset, OnTimer
  <2> QED
    BY <2>1, <2>2
<1> QED
  BY <1>1, <1>3, <1>4, Giving DEF Reset

LEMMA Restarting ==
    ASSUME HistoryOK, NEW e \in Etimer, NEW p \in Process,
           Restart(p, e), Leave(e, Interval(e))
    PROVE  HistoryOK'
<1>1. HistoryOK /\ T!TypeOK /\ timer \in [Etimer -> T!Timer \cup {0}]
  BY DEF HistoryOK, TypeOK
<1>2. Interval(e) \in T!Time
  BY <1>1 DEF Interval, T!TypeOK, T!Time
<1>3. left' \in [Etimer -> -MaxLate .. Wrap]
  BY <1>1, <1>2, LeaveTyped DEF T!Time
<1>4. T!TypeOK'
  <2>1. CASE timer[e] = 0
    BY <1>1, <2>1 DEF Restart, OnTimer, timers, T!TypeOK
  <2>2. CASE timer[e] # 0
    BY <1>1, <1>2, <2>2, TimersTyped DEF Restart, OnTimer
  <2> QED
    BY <2>1, <2>2
<1> QED
  BY <1>1, <1>3, <1>4, Giving DEF Restart

LEMMA ResettingWithNewInterval ==
    ASSUME HistoryOK, NEW e \in Etimer, NEW i \in T!Time, NEW p \in Process,
           ResetWithNewInterval(p, e, i), GoOn(e, i)
    PROVE  HistoryOK'
<1>1. HistoryOK /\ T!TypeOK /\ timer \in [Etimer -> T!Timer \cup {0}]
  BY DEF HistoryOK, TypeOK
<1>2. left' \in [Etimer -> -MaxLate .. Wrap]
  BY <1>1, GoOnTyped
<1>3. T!TypeOK'
  <2>1. CASE UNCHANGED timers
    BY <1>1, <2>1 DEF timers, T!TypeOK
  <2>2. CASE timer[e] # 0 /\ ~UNCHANGED timers
    <3>. DEFINE t == timer[e]
                diff == T!Diff(t)
                over == expired[t] \/ diff >= i \/ diff < previous_diff[t]
    <3>1. /\ interval' = [interval EXCEPT ![t] = i]
          /\ start' = [start EXCEPT ![t] = IF over THEN T!Plus(@, i) ELSE @]
          /\ previous_diff' = [previous_diff EXCEPT ![t] = IF over THEN 0
                                                                  ELSE diff]
          /\ expired' = [expired EXCEPT ![t] = over /\ i = 0]
          /\ running' = [running EXCEPT ![t] = IF over THEN i # 0 ELSE @]
          /\ UNCHANGED <<clock, allocated>>
      BY <2>2 DEF ResetWithNewInterval
    <3>2. t \in T!Timer /\ diff \in T!Time /\ T!Plus(start[t], i) \in T!Time
      BY <1>1, <2>2, Readings DEF T!Diff, T!TypeOK
    <3>. over \in BOOLEAN
      BY DEF over
    <3>. HIDE DEF t, diff, over
    <3>3. start' \in [T!Timer -> T!Time]
      BY <1>1, <3>1, <3>2 DEF T!TypeOK
    <3>4. previous_diff' \in [T!Timer -> T!Time]
      BY <1>1, <3>1, <3>2 DEF T!TypeOK, T!Time
    <3>5. expired' \in [T!Timer -> BOOLEAN] /\ running' \in [T!Timer -> BOOLEAN]
      BY <1>1, <3>1, <3>2 DEF T!TypeOK
    <3> QED
      BY <1>1, <3>1, <3>3, <3>4, <3>5 DEF T!TypeOK
  <2> QED
    BY <2>1, <2>2 DEF ResetWithNewInterval
<1> QED
  BY <1>1, <1>2, <1>3, Giving DEF ResetWithNewInterval

LEMMA Adjusting ==
    ASSUME HistoryOK, NEW e \in Etimer, NEW d \in T!Time, Adjust(e, d),
           left[e] + Signed(d) < Wrap,
           IF Expires(e) THEN UNCHANGED left ELSE Leave(e, left[e] + Signed(d))
    PROVE  HistoryOK'
<1>1. T!TypeOK /\ timer \in [Etimer -> T!Timer \cup {0}]
  BY DEF HistoryOK, TypeOK
<1>2. left' \in [Etimer -> -MaxLate .. Wrap]
  <2>1. CASE UNCHANGED left
    BY <2>1 DEF HistoryOK
  <2>2. CASE Leave(e, left[e] + Signed(d))
    <3>1. left[e] \in Int /\ Signed(d) \in Int
      BY DEF HistoryOK, Signed, T!Time
    <3>2. left[e] + Signed(d) \in Int /\ left[e] + Signed(d) <= Wrap
      BY <3>1
    <3> QED
      BY <2>2, <3>2, LeaveTyped
  <2> QED
    BY <2>1, <2>2
<1>3. T!TypeOK'
  <2>1. CASE timer[e] = 0
    BY <1>1, <2>1 DEF Adjust, OnTimer, timers, T!TypeOK
  <2>2. CASE timer[e] # 0
    <3>1. T!Plus(start[timer[e]], d) \in T!Time
      BY <1>1, <2>2, Readings DEF T!TypeOK
    <3>2. T!SetStart(timer[e], T!Plus(start[timer[e]], d))
      BY <2>2 DEF Adjust, OnTimer
    <3> QED
      BY <1>1, <2>2, <3>1, <3>2, TimersTyped
  <2> QED
    BY <2>1, <2>2
<1> QED
  BY <1>2, <1>3 DEF Adjust, HistoryOK, TypeOK, etimers, kernel, processes

LEMMA Stopping ==
    ASSUME HistoryOK, NEW e \in Etimer, Stop(e), Leave(e, -MaxLate)
    PROVE  HistoryOK'
<1>1. left' \in [Etimer -> -MaxLate .. Wrap]
  BY LeaveTyped
<1> QED
  BY <1>1 DEF Stop, HistoryOK, TypeOK, T!TypeOK, timers, kernel, processes

LEMMA RemovingAll ==
    ASSUME TypeOK, NEW E \in SUBSET Etimer, RemoveAll(E)
    PROVE  /\ T!TypeOK'
           /\ timer' \in [Etimer -> T!Timer \cup {0}]
           /\ process_ptr' \in [Etimer -> Process \cup {NONE}]
           /\ etimer_flags' \in
                    [Etimer -> [allocated : BOOLEAN, running : BOOLEAN]]
<1>1. T!TypeOK'
  BY DEF RemoveAll, T!Removed, TypeOK, T!TypeOK
<1> QED
  BY <1>1 DEF RemoveAll, TypeOK

\* A call of the thread of p.
LEMMA Calling ==
    ASSUME HistoryOK, NEW p \in Process, NEW C, Call(p, C)
    PROVE  HistoryOK'
<1>1. ASSUME NEW e \in Etimer, Remove(e), UNCHANGED left
      PROVE  HistoryOK'
  <2>1. TypeOK /\ {e} \in SUBSET Etimer
    BY DEF HistoryOK
  <2> QED
    BY <1>1, <2>1, RemovingAll DEF Remove, HistoryOK, TypeOK, kernel, processes
<1> QED
  BY <1>1, Setting, Resetting, ResettingWithNewInterval, Restarting, Adjusting,
     Stopping
  DEF Call
-----------------------------------------------------------------------------
(***************************************************************************)
(* The other steps.                                                        *)
(***************************************************************************)
LEMMA Exiting ==
    ASSUME HistoryOK, NEW p \in Process, Exit(p), UNCHANGED left
    PROVE  HistoryOK'
<1>1. TypeOK /\ OwnedBy(p) \in SUBSET Etimer
  BY DEF HistoryOK, OwnedBy
<1> QED
  BY <1>1, RemovingAll DEF Exit, HistoryOK, TypeOK

\* A turn of the loop looks at a timer and may post an event.
LEMMA Turning ==
    ASSUME HistoryOK, Turn, UNCHANGED left
    PROVE  HistoryOK'
<1>1. /\ TypeOK /\ T!TypeOK /\ timer \in [Etimer -> T!Timer \cup {0}]
      /\ et \in Etimer
  BY DEF HistoryOK, TypeOK, Turn
<1>2. T!TypeOK'
  <2>1. CASE UNCHANGED timers
    BY <1>1, <2>1 DEF timers, T!TypeOK
  <2>2. CASE timer[et] # 0 /\ T!Look(timer[et])
    <3>1. 0 \in T!Time
      BY DEF T!Time
    <3> QED
      BY <1>1, <2>2, <3>1, TimersTyped
  <2> QED
    BY <2>1, <2>2 DEF Turn, OnTimer
<1>3. et' \in Etimer \cup {0}
  BY <1>1 DEF Turn, Following, Etimer
<1>4. /\ process_ptr' \in [Etimer -> Process \cup {NONE}]
      /\ etimer_flags' \in [Etimer -> [allocated : BOOLEAN, running : BOOLEAN]]
      /\ polled' \in BOOLEAN
      /\ queue' \in Seq([to : Process \cup {NONE}, etimer : Etimer \cup {0}])
      /\ Len(queue') <= NumEvents
  <2>1. CASE Room /\ Fire(et)
    <3>1. TimerEvent(process_ptr[et], et) \in
                [to : Process \cup {NONE}, etimer : Etimer \cup {0}]
      BY <1>1 DEF TypeOK, TimerEvent
    <3>2. queue' \in Seq([to : Process \cup {NONE}, etimer : Etimer \cup {0}])
          /\ Len(queue') = Len(queue) + 1
      BY <1>1, <2>1, <3>1 DEF Fire, TypeOK
    <3>3. /\ process_ptr' \in [Etimer -> Process \cup {NONE}]
          /\ etimer_flags' \in
                [Etimer -> [allocated : BOOLEAN, running : BOOLEAN]]
      BY <1>1, <2>1 DEF Fire, TypeOK
    <3> QED
      BY <1>1, <2>1, <3>2, <3>3 DEF Room, Fire, TypeOK
  <2>2. CASE Refused(et)
    BY <1>1, <2>2 DEF Refused, TypeOK
  <2>3. CASE UNCHANGED <<process_ptr, etimer_flags, polled, queue>>
    BY <1>1, <2>3 DEF TypeOK
  <2> QED
    BY <2>1, <2>2, <2>3 DEF Turn
<1> QED
  BY <1>1, <1>2, <1>3, <1>4 DEF Turn, HistoryOK, TypeOK, processes

LEMMA Passing ==
    ASSUME HistoryOK, Pass
    PROVE  HistoryOK'
<1>1. T!TypeOK'
  BY DEF Pass, Tick, T!Tick, T!Plus, T!Time, HistoryOK, TypeOK, T!TypeOK
<1>2. left' \in [Etimer -> -MaxLate .. Wrap]
  BY DEF Pass, HistoryOK
<1> QED
  BY <1>1, <1>2 DEF Pass, Tick, HistoryOK, TypeOK, etimers, kernel, processes

\* Every step keeps the types.
LEMMA TypeStep == HistoryOK /\ [HistoryNext]_<<vars, left>> => HistoryOK'
<1> SUFFICES ASSUME HistoryOK, [HistoryNext]_<<vars, left>> PROVE HistoryOK'
  OBVIOUS
<1>. TypeOK /\ T!TypeOK /\ alive \subseteq Process /\ leaving \subseteq Process
  BY DEF HistoryOK, TypeOK
<1> USE DEF HistoryOK, TypeOK, T!TypeOK, timers, etimers, processes, kernel
<1>1. ASSUME NEW p \in leaving, LastReturn(p), UNCHANGED left
      PROVE  HistoryOK'
  BY <1>1 DEF LastReturn
<1>2. ASSUME NEW p \in Process, Start(p), UNCHANGED left
      PROVE  HistoryOK'
  BY <1>2 DEF Start
<1>3. CASE LoopBegin /\ UNCHANGED left
  <2>1. ASSUME NEW e \in Etimer
        PROVE  1 \in Etimer
    BY DEF Etimer
  <2>2. et' \in Etimer \cup {0}
    BY <1>3, <2>1 DEF LoopBegin
  <2> QED
    BY <1>3, <2>2 DEF LoopBegin
<1>4. CASE Post /\ UNCHANGED left
  <2>1. OtherEvent \in [to : Process \cup {NONE}, etimer : Etimer \cup {0}]
    BY DEF OtherEvent
  <2> QED
    BY <1>4, <2>1 DEF Post, Room
<1>5. CASE Take /\ UNCHANGED left
  BY <1>5 DEF Take
<1>6. CASE RequestPoll /\ UNCHANGED left
  BY <1>6 DEF RequestPoll
<1>7. CASE UNCHANGED <<vars, left>>
  BY <1>7 DEF vars
<1> QED
  BY <1>1, <1>2, <1>3, <1>4, <1>5, <1>6, <1>7, Calling, Exiting, Turning, Passing
  DEF HistoryNext
-----------------------------------------------------------------------------
(***************************************************************************)
(* The processes of event timers.                                          *)
(***************************************************************************)
\* A call either gives the event timer to the caller, or leaves the owners of
\* those that run alone.
LEMMA CallKeepsOwners ==
    ASSUME HistoryOK, OwnedOK, NoOrphans,
           NEW p \in Process, NEW C, Call(p, C), p \in alive \/ C \cap Arming = {}
    PROVE  OwnedOK' /\ NoOrphans'
<1> USE DEF OwnedOK, NoOrphans, Armed
<1>. /\ process_ptr \in [Etimer -> Process \cup {NONE}]
     /\ etimer_flags \in [Etimer -> [allocated : BOOLEAN, running : BOOLEAN]]
  BY DEF HistoryOK, TypeOK
<1>1. ASSUME NEW e \in Etimer, AddTimer(e, p), UNCHANGED processes, p \in alive
      PROVE  OwnedOK' /\ NoOrphans'
  BY <1>1 DEF AddTimer, processes
<1>2. ASSUME NEW e \in Etimer, NEW d \in T!Time, Adjust(e, d)
      PROVE  OwnedOK' /\ NoOrphans'
  BY <1>2 DEF Adjust, etimers, kernel, processes
<1>3. ASSUME NEW e \in Etimer, Stop(e)
      PROVE  OwnedOK' /\ NoOrphans'
  BY <1>3 DEF Stop, kernel, processes
<1>4. ASSUME NEW e \in Etimer, Remove(e)
      PROVE  OwnedOK' /\ NoOrphans'
  BY <1>4 DEF Remove, RemoveAll, kernel, processes
<1>5. PICK e \in Etimer :
        \/ C \cap Arming # {} /\ AddTimer(e, p) /\ UNCHANGED processes
        \/ \E d \in T!Time : Adjust(e, d)
        \/ Stop(e)
        \/ Remove(e)
  BY DEF Call, Arming, SetNew, Set, Reset, ResetWithNewInterval, Restart
<1> QED
  BY <1>1, <1>2, <1>3, <1>4, <1>5

\* Every step keeps the owners, those of module Timer and of the kernel
\* because they do not touch them.
LEMMA OwnersStep ==
    ASSUME NoLastArming, HistoryOK, OwnedOK, NoOrphans,
           [HistoryNext]_<<vars, left>>
    PROVE  OwnedOK' /\ NoOrphans'
<1>. /\ process_ptr \in [Etimer -> Process \cup {NONE}]
     /\ etimer_flags \in [Etimer -> [allocated : BOOLEAN, running : BOOLEAN]]
     /\ alive \subseteq Process /\ leaving \subseteq Process
  BY DEF HistoryOK, TypeOK
<1>1. ASSUME NEW p \in alive, Call(p, Calls)
      PROVE  OwnedOK' /\ NoOrphans'
  BY <1>1, CallKeepsOwners
<1>2. ASSUME NEW p \in leaving, Call(p, LastCalls)
      PROVE  OwnedOK' /\ NoOrphans'
  BY <1>2, CallKeepsOwners DEF NoLastArming
<1> USE DEF OwnedOK, NoOrphans, Armed, timers, etimers, processes, kernel
<1>3. ASSUME NEW p \in alive, Exit(p)
      PROVE  OwnedOK' /\ NoOrphans'
  BY <1>3 DEF Exit, RemoveAll, OwnedBy
<1>4. CASE Turn
  <2>1. CASE Fire(et)
    BY <1>4, <2>1 DEF Turn, Fire
  <2>2. CASE UNCHANGED <<process_ptr, etimer_flags>>
    BY <1>4, <2>2 DEF Turn
  <2> QED
    BY <1>4, <2>1, <2>2 DEF Turn, Refused
<1>5. ASSUME UNCHANGED <<process_ptr, etimer_flags>>, alive \subseteq alive'
      PROVE  OwnedOK' /\ NoOrphans'
  BY <1>5
<1>6. ASSUME NEW p \in Process, LastReturn(p) \/ Start(p)
      PROVE  OwnedOK' /\ NoOrphans'
  BY <1>5, <1>6 DEF LastReturn, Start
<1>7. CASE LoopBegin \/ Post \/ Take \/ RequestPoll \/ Tick
  BY <1>5, <1>7 DEF LoopBegin, Post, Take, RequestPoll, Tick
<1>8. CASE UNCHANGED vars
  BY <1>5, <1>8 DEF vars
<1> QED
  BY <1>1, <1>2, <1>3, <1>4, <1>6, <1>7, <1>8 DEF HistoryNext, Pass
-----------------------------------------------------------------------------
LEMMA Initially == HistoryInit => HistoryOK /\ OwnedOK /\ NoOrphans
<1> SUFFICES ASSUME HistoryInit PROVE HistoryOK /\ OwnedOK /\ NoOrphans
  OBVIOUS
<1>1. T!TypeOK
  BY DEF HistoryInit, Init, T!Init, T!TypeOK, T!Time
<1>2. left \in [Etimer -> -MaxLate .. Wrap]
  BY DEF HistoryInit
<1>3. TypeOK
  <2>1. queue \in Seq([to : Process \cup {NONE}, etimer : Etimer \cup {0}])
        /\ Len(queue) = 0
    BY DEF HistoryInit, Init
  <2>2. /\ timer \in [Etimer -> T!Timer \cup {0}]
        /\ process_ptr \in [Etimer -> Process \cup {NONE}]
        /\ etimer_flags \in [Etimer -> [allocated : BOOLEAN, running : BOOLEAN]]
    BY DEF HistoryInit, Init
  <2>3. /\ et \in Etimer \cup {0} /\ polled \in BOOLEAN
        /\ alive \in SUBSET Process /\ leaving \in SUBSET (Process \ alive)
    BY DEF HistoryInit, Init
  <2>4. Len(queue) <= NumEvents
    BY <2>1
  <2> QED
    BY <1>1, <2>1, <2>2, <2>3, <2>4 DEF TypeOK
<1>4. OwnedOK /\ NoOrphans
  BY DEF HistoryInit, Init, OwnedOK, NoOrphans, Armed
<1> QED
  BY <1>2, <1>3, <1>4 DEF HistoryOK

\* Whatever processes call, with whatever numbers that set has given out:
\* Etimer.c keeps its tables in order, never gives an event timer a timer that
\* does not exist, and lets no event into a full queue.
THEOREM TypeCorrect == HistorySpec => []HistoryOK
<1>1. HistoryInit => HistoryOK
  BY Initially
<1> QED
  BY <1>1, TypeStep, PTL DEF HistorySpec

\* As long as no process begins an interval after it has exited, an exit takes
\* all event timers of the process along: xcontiki_os_sys_Etimer__process, on
\* EXITED, passes over none that runs.
THEOREM OrphansCorrect ==
    ASSUME NoLastArming
    PROVE  HistorySpec => []NoOrphans
<1>. DEFINE OInv == HistoryOK /\ OwnedOK /\ NoOrphans
<1>1. HistoryInit => OInv
  BY Initially
<1>2. OInv /\ [HistoryNext]_<<vars, left>> => OInv'
  BY TypeStep, OwnersStep
<1>3. OInv => NoOrphans
  OBVIOUS
<1> QED
  BY <1>1, <1>2, <1>3, PTL DEF HistorySpec

\* In the loop of xcontiki_os_sys_Etimer__process an event timer stops only with
\* its event in the queue: a full queue loses none.
THEOREM NothingLostCorrect == HistorySpec => NothingLost
<1>1. HistoryInit => HistoryOK
  BY Initially
<1>2. ASSUME HistoryOK, [HistoryNext]_<<vars, left>>, ~UNCHANGED vars,
             NEW e \in Etimer, et = e, Armed(e), ~Armed(e)'
      PROVE  Posts(e)
  <2>1. ~Quiet
    BY <1>2 DEF Quiet, Etimer
  <2>2. etimer_flags' # etimer_flags
    BY <1>2 DEF Armed
  <2>3. Turn
    BY <1>2, <2>1, <2>2
    DEF HistoryNext, RequestPoll, Pass, Tick, etimers, vars
  <2>4. CASE Fire(e)
    BY <1>2, <2>4 DEF Fire, Posts
  <2>5. CASE UNCHANGED etimer_flags
    BY <2>2, <2>5
  <2> QED
    BY <1>2, <2>3, <2>4, <2>5 DEF Turn, Refused
<1>3. HistoryOK /\ [HistoryNext]_<<vars, left>>
        => [\A e \in Etimer : et = e /\ Armed(e) /\ ~Armed(e)' => Posts(e)]_vars
  BY <1>2
<1> QED
  BY <1>1, <1>3, TypeStep, PTL DEF HistorySpec, NothingLost
-----------------------------------------------------------------------------
(***************************************************************************)
(* Time.  Event timers that are set, reset, restarted and stopped, as many *)
(* as there are timers for, are followed by their age.                     *)
(***************************************************************************)
\* The calls after which an event timer is still where its first set put it, and
\* still begins where its interval does.
PlainCalls ==
    Calls \cap {"reset_with_new_interval", "adjust", "remove", "exit"} = {}

\* There is a timer for every event timer.
EnoughTimers == NumEtimers <= NumTimers

\* Both tables are filled in order, so that an event timer has the timer with its
\* number.
InOrder ==
    /\ \A e \in Etimer : timer[e] = IF etimer_flags[e].allocated THEN e ELSE 0
    /\ \A t \in T!Timer :
           allocated[t] <=> t \in Etimer /\ etimer_flags[t].allocated

\* The time since the interval of e began, by the time that is left.
Age(e) == interval[e] - left[e]

\* The clock has come to where the start and the age put it.
OnTrack(e) == \E k \in Nat : Age(e) = k * Wrap + T!Diff(e)

\* Something is said of the event timer e.
Followed(e) == etimer_flags[e].allocated /\ left[e] > -MaxLate

\* What is known of an event timer that is followed.
Known(e) ==
    /\ expired[e] => left[e] <= 0
    /\ interval[e] # 0 => OnTrack(e)
    /\ ~expired[e] => interval[e] # 0 /\ previous_diff[e] <= Age(e)
    /\ Prompt /\ MaxLate <= Wrap /\ ~expired[e]
           => Armed(e) /\ Age(e) - previous_diff[e] < Wrap

TimeInv ==
    /\ HistoryOK /\ OwnedOK /\ InOrder
    /\ \A e \in Etimer : Followed(e) => Known(e)
-----------------------------------------------------------------------------
(***************************************************************************)
(* Arithmetic.                                                             *)
(***************************************************************************)
\* The numbers of event timers are numbers of timers.
LEMMA Places ==
    ASSUME EnoughTimers, NEW e \in Etimer
    PROVE  e \in T!Timer /\ e # 0
BY DEF EnoughTimers, Etimer, T!Timer

\* What the types say of one event timer and the timer with its number.
LEMMA Numbers ==
    ASSUME EnoughTimers, HistoryOK, NEW e \in Etimer
    PROVE  /\ clock \in Nat /\ clock < Wrap
           /\ start[e] \in Nat /\ start[e] < Wrap
           /\ interval[e] \in Nat /\ interval[e] < Wrap
           /\ previous_diff[e] \in Nat /\ previous_diff[e] < Wrap
           /\ T!Diff(e) \in Nat /\ T!Diff(e) < Wrap
           /\ left[e] \in Int /\ left[e] >= -MaxLate /\ left[e] <= Wrap
           /\ expired[e] \in BOOLEAN
           /\ Age(e) \in Int
<1>1. e \in T!Timer /\ T!TypeOK
  BY Places DEF HistoryOK, TypeOK
<1>2. /\ clock \in T!Time /\ start[e] \in T!Time /\ interval[e] \in T!Time
      /\ previous_diff[e] \in T!Time /\ expired[e] \in BOOLEAN
  BY <1>1 DEF T!TypeOK
<1>3. T!Diff(e) \in T!Time
  BY <1>2, Readings DEF T!Diff
<1>4. left[e] \in -MaxLate .. Wrap
  BY DEF HistoryOK
<1>5. left[e] \in Int /\ left[e] >= -MaxLate /\ left[e] <= Wrap
  BY <1>4
<1> QED
  BY <1>2, <1>3, <1>5 DEF T!Time, Age

\* A multiple of the wrap is zero or at least a wrap.
LEMMA Multiples ==
    ASSUME NEW k \in Nat
    PROVE  /\ k * Wrap \in Nat
           /\ k # 0 => k * Wrap >= Wrap
           /\ k # 0 => k - 1 \in Nat /\ k * Wrap = (k - 1) * Wrap + Wrap
           /\ (k + 1) * Wrap = k * Wrap + Wrap
<1>1. k * Wrap \in Nat
  OBVIOUS
<1>2. (k + 1) * Wrap = k * Wrap + Wrap
  OBVIOUS
<1>3. ASSUME k # 0
      PROVE  k - 1 \in Nat /\ k * Wrap = (k - 1) * Wrap + Wrap
  BY <1>3
<1>4. ASSUME k # 0
      PROVE  k * Wrap >= Wrap
  <2>1. (k - 1) * Wrap \in Nat
    BY <1>3, <1>4
  <2> QED
    BY <1>1, <1>3, <1>4, <2>1
<1> QED
  BY <1>1, <1>2, <1>3, <1>4

\* What the difference says of the age.
LEMMA Ages ==
    ASSUME EnoughTimers, HistoryOK, NEW e \in Etimer, OnTrack(e)
    PROVE  Age(e) = T!Diff(e) \/ Age(e) >= T!Diff(e) + Wrap
<1>1. PICK k \in Nat : Age(e) = k * Wrap + T!Diff(e)
  BY DEF OnTrack
<1>2. T!Diff(e) \in Nat /\ Age(e) \in Int
  BY Numbers
<1>3. k * Wrap \in Nat /\ (k # 0 => k * Wrap >= Wrap)
  BY Multiples
<1>4. CASE k = 0
  BY <1>1, <1>2, <1>4
<1>5. CASE k # 0
  BY <1>1, <1>2, <1>3, <1>5
<1> QED
  BY <1>4, <1>5

\* An event timer that would be seen to expire has no time left.
LEMMA Due ==
    ASSUME EnoughTimers, HistoryOK, NEW e \in Etimer, Known(e), T!Expires(e)
    PROVE  left[e] <= 0
<1>1. CASE expired[e]
  BY <1>1 DEF Known
<1>2. CASE ~expired[e]
  <2>1. OnTrack(e) /\ previous_diff[e] <= Age(e)
    BY <1>2 DEF Known
  <2>2. T!Diff(e) >= interval[e] \/ T!Diff(e) < previous_diff[e]
    BY <1>2 DEF T!Expires, T!Due
  <2>3. Age(e) >= interval[e]
    BY <2>1, <2>2, Ages, Numbers
  <2> QED
    BY <2>3, Numbers DEF Age
<1> QED
  BY <1>1, <1>2

\* One that is looked at in time, and would not be seen to expire, is as old as
\* the difference says and has time left.
LEMMA NotDue ==
    ASSUME EnoughTimers, HistoryOK, NEW e \in Etimer, Known(e), ~T!Expires(e),
           Prompt, MaxLate <= Wrap
    PROVE  Age(e) = T!Diff(e) /\ left[e] > 0
<1>1. OnTrack(e) /\ Age(e) - previous_diff[e] < Wrap
  BY DEF Known, T!Expires
<1>2. T!Diff(e) < interval[e] /\ T!Diff(e) >= previous_diff[e]
  BY Numbers DEF T!Expires, T!Due
<1>3. Age(e) = T!Diff(e)
  BY <1>1, <1>2, Ages, Numbers
<1> QED
  BY <1>2, <1>3, Numbers DEF Age
\* Whole wraps leave no remainder.
LEMMA Remainders ==
    ASSUME NEW x \in Nat, x < Wrap, NEW q \in Int
    PROVE  (x + q * Wrap) % Wrap = x
OBVIOUS

\* A reading that is some wraps away from a time is its remainder.
LEMMA WrapsAway ==
    ASSUME NEW x \in Nat, x < Wrap, NEW k \in Nat, NEW n \in Int,
           \/ n = x - k * Wrap
           \/ n = x - k * Wrap - Wrap
           \/ n = x - k * Wrap + Wrap
    PROVE  n % Wrap = x
<1>1. /\ -k \in Int /\ -k - 1 \in Int /\ 1 - k \in Int
      /\ (-k) * Wrap = -(k * Wrap)
      /\ (-k - 1) * Wrap = -(k * Wrap) - Wrap
      /\ (1 - k) * Wrap = -(k * Wrap) + Wrap
      /\ k * Wrap \in Nat
  OBVIOUS
<1>2. CASE n = x - k * Wrap
  <2>1. n = x + (-k) * Wrap
    BY <1>1, <1>2
  <2> QED
    BY <1>1, <2>1, Remainders
<1>3. CASE n = x - k * Wrap - Wrap
  <2>1. n = x + (-k - 1) * Wrap
    BY <1>1, <1>3
  <2> QED
    BY <1>1, <2>1, Remainders
<1>4. CASE n = x - k * Wrap + Wrap
  <2>1. n = x + (1 - k) * Wrap
    BY <1>1, <1>4
  <2> QED
    BY <1>1, <2>1, Remainders
<1> QED
  BY <1>2, <1>3, <1>4
-----------------------------------------------------------------------------
(***************************************************************************)
(* One event timer in one step.                                            *)
(***************************************************************************)
\* An event timer that a step does not change stays known.
LEMMA Untouched ==
    ASSUME NEW e \in Etimer, Known(e), clock' = clock,
           interval'[e] = interval[e], start'[e] = start[e],
           previous_diff'[e] = previous_diff[e], expired'[e] = expired[e],
           left'[e] = left[e], Armed(e) => Armed(e)'
    PROVE  Known(e)'
<1>1. T!Diff(e)' = T!Diff(e) /\ Age(e)' = Age(e)
  BY DEF T!Diff, T!Minus, Age
<1>2. OnTrack(e) => OnTrack(e)'
  BY <1>1 DEF OnTrack
<1> QED
  BY <1>1, <1>2 DEF Known

\* An event timer whose interval begins now is known.
LEMMA BeginsNow ==
    ASSUME EnoughTimers, HistoryOK, HistoryOK', NEW e \in Etimer, clock' = clock,
           expired'[e] = (interval'[e] = 0),
           interval'[e] # 0 => start'[e] = clock /\ previous_diff'[e] = 0,
           Armed(e)', left'[e] = interval'[e]
    PROVE  Known(e)'
<1>1. /\ clock \in Nat /\ interval'[e] \in Nat
  <2>1. /\ clock' \in Nat /\ interval'[e] \in Nat
    BY Places DEF HistoryOK, TypeOK, T!TypeOK, T!Time
  <2> QED
    BY <2>1
<1>2. Age(e)' = 0
  BY <1>1 DEF Age
<1>3. CASE interval'[e] = 0
  <2>1. expired'[e] = TRUE /\ left'[e] = 0
    BY <1>3
  <2> QED
    BY <1>3, <2>1 DEF Known
<1>4. CASE interval'[e] # 0
  <2>1. T!Diff(e)' = 0 /\ 0 = 0 * Wrap + 0
    BY <1>1, <1>4 DEF T!Diff, T!Minus
  <2>2. OnTrack(e)'
    BY <1>2, <2>1 DEF OnTrack
  <2>3. expired'[e] = FALSE /\ previous_diff'[e] = 0
    BY <1>4
  <2> QED
    BY <1>2, <1>4, <2>2, <2>3 DEF Known
<1> QED
  BY <1>3, <1>4

\* A look that does not see the event timer expire.
LEMMA LookedAt ==
    ASSUME EnoughTimers, HistoryOK, NEW e \in Etimer, Known(e), T!Look(e),
           left' = left, Armed(e) /\ ~T!Expires(e) => Armed(e)'
    PROVE  Known(e)'
<1>1. e \in T!Timer /\ T!TypeOK
  BY Places DEF HistoryOK, TypeOK
<1>2. /\ UNCHANGED <<clock, interval, start, left>>
      /\ expired'[e] = T!Expires(e)
      /\ previous_diff'[e] = IF T!Expires(e) THEN previous_diff[e] ELSE T!Diff(e)
  BY <1>1 DEF T!Look, T!Looked, T!Expires
<1>3. T!Diff(e)' = T!Diff(e) /\ Age(e)' = Age(e)
  BY <1>2 DEF T!Diff, T!Minus, Age
<1>4. OnTrack(e) => OnTrack(e)'
  BY <1>3 DEF OnTrack
<1>5. CASE T!Expires(e)
  <2>1. left[e] <= 0
    BY <1>5, Due
  <2> QED
    BY <1>2, <1>4, <1>5, <2>1 DEF Known
<1>6. CASE ~T!Expires(e)
  <2>1. ~expired[e] /\ ~expired'[e] /\ OnTrack(e) /\ interval[e] # 0
    BY <1>2, <1>6 DEF Known, T!Expires
  <2>2. T!Diff(e) <= Age(e)
    BY <2>1, Ages, Numbers
  <2>3. ASSUME Prompt, MaxLate <= Wrap
        PROVE  Armed(e)' /\ Age(e) - T!Diff(e) < Wrap
    <3>1. Age(e) = T!Diff(e)
      BY <1>6, <2>3, NotDue
    <3>2. Armed(e)
      BY <2>1, <2>3 DEF Known
    <3>3. Armed(e)'
      BY <1>6, <3>2
    <3> QED
      BY <3>1, <3>3, Numbers
  <2> QED
    BY <1>2, <1>3, <1>4, <1>6, <2>1, <2>2, <2>3 DEF Known
<1> QED
  BY <1>5, <1>6

\* The multiple of the wrap that an age holds does not depend on which of two
\* starts, an interval apart, it is reckoned from.
LEMMA MovesOn ==
    ASSUME EnoughTimers, HistoryOK, NEW e \in Etimer, OnTrack(e),
           Age(e) >= interval[e], clock' = clock, interval'[e] = interval[e],
           start'[e] = T!Plus(start[e], interval[e]),
           Age(e)' = Age(e) - interval[e]
    PROVE  OnTrack(e)'
<1>1. PICK k \in Nat : Age(e) = k * Wrap + T!Diff(e)
  BY DEF OnTrack
<1>. k * Wrap \in Nat /\ T!Diff(e) \in Nat
  BY Multiples, Numbers
<1>2. CASE T!Diff(e) >= interval[e]
  <2>1. T!Diff(e)' = T!Diff(e) - interval[e]
    BY <1>2, Numbers DEF T!Diff, T!Minus, T!Plus
  <2>2. Age(e)' = k * Wrap + T!Diff(e)'
    BY <1>1, <2>1, Numbers
  <2> QED
    BY <2>2 DEF OnTrack
<1>3. CASE T!Diff(e) < interval[e]
  <2>1. T!Diff(e)' = T!Diff(e) - interval[e] + Wrap
    BY <1>3, Numbers DEF T!Diff, T!Minus, T!Plus
  <2>2. k # 0
    <3>1. k = 0 => Age(e) = T!Diff(e)
      BY <1>1
    <3> QED
      BY <1>3, <3>1, Numbers
  <2>3. k - 1 \in Nat /\ k * Wrap = (k - 1) * Wrap + Wrap
    BY <2>2, Multiples
  <2>4. Age(e)' = (k - 1) * Wrap + T!Diff(e)'
    <3>1. (k - 1) * Wrap \in Nat
      BY <2>3, Multiples
    <3> QED
      BY <1>1, <2>1, <2>3, <3>1, Numbers
  <2> QED
    BY <2>3, <2>4 DEF OnTrack
<1> QED
  BY <1>2, <1>3, Numbers

\* A reset that comes after the expiry: the next interval begins where the last
\* one ended.
LEMMA GoesOn ==
    ASSUME EnoughTimers, HistoryOK, NEW e \in Etimer, Known(e),
           T!Expires(e), T!Reset(e), left[e] > -MaxLate,
           left'[e] = left[e] + interval[e], Armed(e)'
    PROVE  Known(e)'
<1>1. e \in T!Timer /\ T!TypeOK
  BY Places DEF HistoryOK, TypeOK
<1>2. /\ UNCHANGED clock
      /\ interval'[e] = interval[e]
      /\ start'[e] = T!Plus(start[e], interval[e])
      /\ previous_diff'[e] = 0
      /\ expired'[e] = (interval[e] = 0)
  BY <1>1 DEF T!Reset, T!NewStart, T!TypeOK
<1>3. left[e] <= 0
  BY Due
<1>4. Age(e)' = -left[e] /\ Age(e)' = Age(e) - interval[e]
  BY <1>2, Numbers DEF Age
<1>5. CASE interval[e] = 0
  <2>1. interval'[e] = 0
    BY <1>2, <1>5
  <2>2. left'[e] <= 0
    BY <1>3, <1>5, Numbers
  <2> QED
    BY <1>2, <1>5, <2>1, <2>2 DEF Known
<1>6. CASE interval[e] # 0
  <2>1. Age(e) >= interval[e]
    BY <1>3, Numbers DEF Age
  <2>2. OnTrack(e)'
    BY <1>2, <1>4, <1>6, <2>1, MovesOn DEF Known
  <2>3. ~expired'[e] /\ interval'[e] # 0 /\ previous_diff'[e] = 0
    BY <1>2, <1>6
  <2>4. 0 <= Age(e)' /\ (MaxLate <= Wrap => Age(e)' - 0 < Wrap)
    BY <1>3, <1>4, Numbers
  <2> QED
    BY <2>2, <2>3, <2>4 DEF Known
<1> QED
  BY <1>5, <1>6

\* Time passes: the difference grows by one or starts at zero again.
LEMMA TimePasses ==
    ASSUME EnoughTimers, HistoryOK, NEW e \in Etimer, Known(e), T!Tick,
           left'[e] = left[e] - 1, UNCHANGED etimer_flags,
           Prompt => ~Overlooked, timer[e] = e
    PROVE  Known(e)'
<1>1. /\ clock' = T!Plus(clock, 1) /\ Age(e)' = Age(e) + 1
      /\ UNCHANGED <<interval, start, previous_diff, expired>>
  BY Numbers DEF T!Tick, Age
<1>2. ASSUME OnTrack(e)
      PROVE  OnTrack(e)'
  <2>1. PICK k \in Nat : Age(e) = k * Wrap + T!Diff(e)
    BY <1>2 DEF OnTrack
  <2>. k * Wrap \in Nat
    BY Multiples
  <2>2. CASE T!Diff(e) + 1 < Wrap
    <3>1. T!Diff(e)' = T!Diff(e) + 1
      BY <1>1, <2>2, Numbers DEF T!Diff, T!Minus, T!Plus
    <3>2. Age(e)' = k * Wrap + T!Diff(e)'
      BY <1>1, <2>1, <3>1, Numbers
    <3> QED
      BY <3>2 DEF OnTrack
  <2>3. CASE T!Diff(e) + 1 >= Wrap
    <3>1. T!Diff(e) + 1 = Wrap /\ T!Diff(e)' = 0
      BY <1>1, <2>3, Numbers DEF T!Diff, T!Minus, T!Plus
    <3>2. (k + 1) * Wrap = k * Wrap + Wrap /\ k + 1 \in Nat
      BY Multiples
    <3>3. Age(e)' = (k + 1) * Wrap + T!Diff(e)'
      BY <1>1, <2>1, <3>1, <3>2, Numbers
    <3> QED
      BY <3>2, <3>3 DEF OnTrack
  <2> QED
    BY <2>2, <2>3, Numbers
<1>3. ASSUME Prompt, MaxLate <= Wrap, ~expired[e]
      PROVE  Armed(e) /\ Age(e) + 1 - previous_diff[e] < Wrap
  <2>1. /\ Armed(e) /\ Age(e) - previous_diff[e] < Wrap
        /\ OnTrack(e) /\ previous_diff[e] <= Age(e)
    BY <1>3 DEF Known
  <2>2. T!Minus(T!Diff(e), previous_diff[e]) < Wrap - 1
    <3>1. ~(T!Minus(T!Diff(e), previous_diff[e]) >= Wrap - 1)
      BY <1>3, <2>1, Places DEF Overlooked
    <3> QED
      BY <3>1, Numbers DEF T!Minus
  <2>3. PICK k \in Nat : Age(e) = k * Wrap + T!Diff(e)
    BY <2>1 DEF OnTrack
  <2>4. /\ k * Wrap \in Nat
        /\ k # 0 => k - 1 \in Nat /\ k * Wrap = (k - 1) * Wrap + Wrap
    BY Multiples
  <2>5. k - 1 \in Nat => (k - 1) * Wrap \in Nat /\ (k - 1 # 0 => (k - 1) * Wrap >= Wrap)
    BY Multiples
  <2>6. Age(e) - previous_diff[e] = T!Minus(T!Diff(e), previous_diff[e])
    <3>1. CASE k = 0
      BY <2>1, <2>3, <3>1, Numbers DEF T!Minus
    <3>2. CASE k # 0 /\ k - 1 = 0
      <4>1. Age(e) = Wrap + T!Diff(e)
        BY <2>3, <2>4, <3>2
      <4> QED
        BY <2>1, <4>1, Numbers DEF T!Minus
    <3>3. CASE k # 0 /\ k - 1 # 0
      <4>1. Age(e) >= Wrap + Wrap + T!Diff(e)
        BY <2>3, <2>4, <2>5, <3>3, Numbers
      <4> QED
        BY <2>1, <4>1, Numbers
    <3> QED
      BY <3>1, <3>2, <3>3
  <2> QED
    BY <2>1, <2>2, <2>6, Numbers
<1>4. Armed(e)' = Armed(e)
  BY DEF Armed
<1>5. /\ (expired'[e] => left'[e] <= 0) /\ (interval'[e] # 0 => OnTrack(e)')
      /\ (~expired'[e] => interval'[e] # 0 /\ previous_diff'[e] <= Age(e)')
  BY <1>1, <1>2, Numbers DEF Known
<1> QED
  BY <1>1, <1>3, <1>4, <1>5, Numbers DEF Known
-----------------------------------------------------------------------------
(***************************************************************************)
(* The calls, the loop and time.                                           *)
(***************************************************************************)
\* An event timer that has been given out is allocated and has its timer.
LEMMA GivenOutIsKnown ==
    ASSUME EnoughTimers, InOrder, NEW e \in Etimer, GivenOut(e)
    PROVE  /\ etimer_flags[e].allocated /\ timer[e] = e /\ e # 0
           /\ e \in T!Timer /\ allocated[e]
BY Places DEF InOrder, GivenOut

\* A call that makes the event timer e run and leaves the others alone.
LEMMA OneRuns ==
    ASSUME EnoughTimers, TimeInv, HistoryOK', NEW e \in Etimer, clock' = clock,
           timer' = [timer EXCEPT ![e] = e],
           allocated' = [allocated EXCEPT ![e] = TRUE],
           etimer_flags' = [etimer_flags EXCEPT
                                ![e] = [allocated |-> TRUE, running |-> TRUE]],
           \A u \in Etimer \ {e} :
               /\ interval'[u] = interval[u] /\ start'[u] = start[u]
               /\ previous_diff'[u] = previous_diff[u]
               /\ expired'[u] = expired[u] /\ left'[u] = left[u],
           Followed(e)' => Known(e)'
    PROVE  TimeInv'
<1>1. /\ allocated \in [T!Timer -> BOOLEAN] /\ e \in T!Timer
      /\ etimer_flags \in [Etimer -> [allocated : BOOLEAN, running : BOOLEAN]]
      /\ timer \in [Etimer -> T!Timer \cup {0}]
  BY Places DEF TimeInv, HistoryOK, TypeOK, T!TypeOK
<1>2. OwnedOK'
  BY <1>1 DEF TimeInv, OwnedOK, Armed
<1>3. InOrder'
  BY <1>1 DEF TimeInv, InOrder
<1>4. ASSUME NEW u \in Etimer, Followed(u)', u # e
      PROVE  Known(u)'
  <2>1. etimer_flags'[u] = etimer_flags[u] /\ left'[u] = left[u]
    BY <1>1, <1>4
  <2>2. Known(u)
    BY <1>4, <2>1 DEF Followed, TimeInv
  <2> QED
    BY <1>4, <2>1, <2>2, Untouched DEF Armed
<1> QED
  BY <1>2, <1>3, <1>4 DEF TimeInv

\* What is left of an event timer when it is given d.
LEMMA Leaving ==
    ASSUME HistoryOK, NEW e \in Etimer, NEW d \in Int, Leave(e, d)
    PROVE  /\ left'[e] > -MaxLate => left'[e] = d
           /\ \A u \in Etimer \ {e} : left'[u] = left[u]
BY DEF Leave, HistoryOK

\* A set begins an interval now, and gives an event timer that has no timer the one
\* with its number.
LEMMA SetKeepsTime ==
    ASSUME EnoughTimers, TimeInv, HistoryOK', NEW e \in Etimer, NEW i \in T!Time,
           NEW p \in Process, SetNew(p, e, i) \/ Set(p, e, i), Leave(e, i)
    PROVE  TimeInv'
<1>1. HistoryOK /\ TypeOK /\ InOrder /\ e \in T!Timer /\ e # 0 /\ i \in Int
  BY Places DEF TimeInv, HistoryOK, T!Time
<1>2. /\ timer \in [Etimer -> T!Timer \cup {0}]
      /\ allocated \in [T!Timer -> BOOLEAN]
      /\ etimer_flags \in [Etimer -> [allocated : BOOLEAN, running : BOOLEAN]]
  BY <1>1 DEF TypeOK, T!TypeOK
<1>3. /\ T!SetTo(e, i) /\ clock' = clock
      /\ timer' = [timer EXCEPT ![e] = e]
      /\ allocated' = [allocated EXCEPT ![e] = TRUE]
  <2>1. CASE GivenOut(e)
    <3>1. timer[e] = e /\ allocated[e]
      BY <1>1, <2>1, GivenOutIsKnown
    <3>2. T!Set(e, i) /\ UNCHANGED timer
      BY <1>1, <3>1 DEF SetNew, Set, SetTimer
    <3> QED
      BY <1>2, <3>1, <3>2 DEF T!Set
  <2>2. CASE ~GivenOut(e)
    <3>1. /\ SetTimer(e, i)
          /\ ~etimer_flags[e].allocated
          /\ \A f \in Etimer : f < e => etimer_flags[f].allocated
      BY <2>2 DEF SetNew, Set
    <3>2. timer[e] = 0 /\ ~allocated[e]
      BY <1>1, <3>1 DEF InOrder
    <3>3. PICK t \in T!Timer : T!SetNew(t, i) /\ timer' = [timer EXCEPT ![e] = t]
      BY <1>1, <3>1, <3>2 DEF SetTimer
    <3>4. ~allocated[t] /\ \A u \in T!Timer : u < t => allocated[u]
      BY <3>3 DEF T!SetNew
    <3>5. t = e
      <4>1. ~(e < t)
        BY <1>1, <3>2, <3>4
      <4>2. ~(t < e)
        <5>1. ASSUME t < e
              PROVE  t \in Etimer
          BY <5>1 DEF Etimer, T!Timer
        <5> QED
          BY <1>1, <3>1, <3>4, <5>1 DEF InOrder
      <4> QED
        BY <4>1, <4>2 DEF Etimer, T!Timer
    <3> QED
      BY <3>3, <3>5 DEF T!SetNew
  <2> QED
    BY <2>1, <2>2
<1>4. etimer_flags' = [etimer_flags EXCEPT
                            ![e] = [allocated |-> TRUE, running |-> TRUE]]
  BY DEF SetNew, Set, AddTimer
<1>5. /\ interval'[e] = i /\ expired'[e] = (i = 0)
      /\ i # 0 => start'[e] = clock /\ previous_diff'[e] = 0
      /\ \A u \in Etimer \ {e} :
            /\ interval'[u] = interval[u] /\ start'[u] = start[u]
            /\ previous_diff'[u] = previous_diff[u]
            /\ expired'[u] = expired[u]
  BY <1>1, <1>3, Places DEF TypeOK, T!TypeOK, T!SetTo
<1>6. Followed(e)' => Known(e)'
  <2>1. Armed(e)'
    BY <1>2, <1>4 DEF Armed
  <2> QED
    BY <1>1, <1>3, <1>5, <2>1, Leaving, BeginsNow DEF Followed
<1> QED
  BY <1>1, <1>3, <1>4, <1>5, <1>6, Leaving, OneRuns

\* The shape of a call of the timer library for an event timer given out.
LEMMA Callers ==
    ASSUME EnoughTimers, TimeInv, NEW e \in Etimer, NEW p, GivenOut(e),
           AddTimer(e, p), UNCHANGED <<timer, allocated>>
    PROVE  /\ timer' = [timer EXCEPT ![e] = e]
           /\ allocated' = [allocated EXCEPT ![e] = TRUE]
           /\ etimer_flags' = [etimer_flags EXCEPT
                                   ![e] = [allocated |-> TRUE, running |-> TRUE]]
           /\ Armed(e)'
<1>1. /\ allocated \in [T!Timer -> BOOLEAN] /\ e \in T!Timer
      /\ etimer_flags \in [Etimer -> [allocated : BOOLEAN, running : BOOLEAN]]
      /\ timer \in [Etimer -> T!Timer \cup {0}]
      /\ timer[e] = e /\ allocated[e]
  BY Places, GivenOutIsKnown DEF TimeInv, HistoryOK, TypeOK, T!TypeOK
<1> QED
  BY <1>1 DEF AddTimer, Armed

\* A restart begins the interval now.
LEMMA RestartKeepsTime ==
    ASSUME EnoughTimers, TimeInv, HistoryOK', NEW e \in Etimer, NEW p \in Process,
           GivenOut(e), Restart(p, e), Leave(e, Interval(e))
    PROVE  TimeInv'
<1>1. /\ HistoryOK /\ TypeOK /\ T!TypeOK /\ e \in T!Timer
      /\ timer[e] = e /\ Interval(e) = interval[e] /\ interval[e] \in Int
  <2>1. HistoryOK /\ TypeOK /\ T!TypeOK /\ InOrder
    BY DEF TimeInv, HistoryOK, TypeOK
  <2>2. e \in T!Timer /\ timer[e] = e /\ e # 0
    BY <2>1, GivenOutIsKnown
  <2>3. interval[e] \in Int
    BY <2>1, Numbers
  <2> QED
    BY <2>1, <2>2, <2>3 DEF Interval
<1>2. T!Restart(e) /\ AddTimer(e, p) /\ UNCHANGED timer
  BY <1>1, GivenOutIsKnown DEF Restart, OnTimer, TimeInv
<1>3. /\ clock' = clock /\ UNCHANGED <<interval, allocated>>
      /\ expired'[e] = (interval[e] = 0)
      /\ start'[e] = clock /\ previous_diff'[e] = 0
      /\ \A u \in Etimer \ {e} :
            /\ interval'[u] = interval[u] /\ start'[u] = start[u]
            /\ previous_diff'[u] = previous_diff[u]
            /\ expired'[u] = expired[u]
  BY <1>1, <1>2, Places DEF T!TypeOK, T!Restart
<1>4. Followed(e)' => Known(e)'
  BY <1>1, <1>2, <1>3, Leaving, Callers, BeginsNow DEF Followed
<1> QED
  BY <1>1, <1>2, <1>3, <1>4, Leaving, Callers, OneRuns

\* A reset begins the next interval, or it is no more than a look.
LEMMA ResetKeepsTime ==
    ASSUME EnoughTimers, TimeInv, HistoryOK', NEW e \in Etimer, NEW p \in Process,
           GivenOut(e), Reset(p, e), GoOn(e, Interval(e))
    PROVE  TimeInv'
<1>1. /\ HistoryOK /\ TypeOK /\ T!TypeOK /\ e \in T!Timer
      /\ timer[e] = e /\ Interval(e) = interval[e] /\ e # 0
      /\ etimer_flags[e].allocated
  BY GivenOutIsKnown DEF TimeInv, HistoryOK, TypeOK, Interval
<1>2. T!Reset(e) /\ AddTimer(e, p) /\ UNCHANGED timer
  BY <1>1 DEF Reset, OnTimer
<1>3. /\ clock' = clock /\ UNCHANGED allocated
      /\ \A u \in Etimer \ {e} :
            /\ interval'[u] = interval[u] /\ start'[u] = start[u]
            /\ previous_diff'[u] = previous_diff[u]
            /\ expired'[u] = expired[u]
  BY <1>1, <1>2, Places DEF T!TypeOK, T!Reset, T!Look, T!Looked
<1>4. Armed(e)'
  BY <1>2, <1>3, Callers
<1>5. CASE T!Expires(e)
  <2>1. Expires(e)
    BY <1>1, <1>5 DEF Expires
  <2>2. CASE left[e] \in (1 - MaxLate)..0
    <3>1. left[e] + interval[e] \in Int /\ Leave(e, left[e] + interval[e])
      BY <1>1, <2>1, <2>2, Numbers DEF GoOn
    <3>2. Known(e)
      BY <1>1, <2>2 DEF TimeInv, Followed
    <3>3. Followed(e)' => Known(e)'
      BY <1>1, <1>2, <1>4, <1>5, <2>2, <3>1, <3>2, Leaving, GoesOn DEF Followed
    <3> QED
      BY <1>1, <1>2, <1>3, <3>1, <3>3, Leaving, Callers, OneRuns
  <2>3. CASE ~(left[e] \in (1 - MaxLate)..0)
    <3>1. left' = left
      BY <2>3 DEF GoOn
    <3>2. ~Followed(e)
      <4>1. ASSUME Followed(e)
            PROVE  left[e] <= 0
        BY <1>1, <1>5, <4>1, Due DEF TimeInv
      <4> QED
        BY <1>1, <2>3, <4>1, Numbers DEF Followed
    <3>3. ~Followed(e)'
      BY <1>1, <3>1, <3>2 DEF Followed
    <3> QED
      BY <1>1, <1>2, <1>3, <3>1, <3>3, Callers, OneRuns
  <2> QED
    BY <2>2, <2>3
<1>6. CASE ~T!Expires(e)
  <2>1. left' = left
    BY <1>1, <1>6 DEF GoOn, Expires
  <2>2. T!Look(e)
    BY <1>2, <1>6 DEF T!Reset
  <2>3. Followed(e)' => Known(e)
    BY <1>1, <2>1 DEF Followed, TimeInv
  <2>4. Followed(e)' => Known(e)'
    BY <1>1, <1>4, <2>1, <2>2, <2>3, LookedAt
  <2> QED
    BY <1>1, <1>2, <1>3, <2>1, <2>4, Callers, OneRuns
<1> QED
  BY <1>5, <1>6

\* Nothing more is said of an event timer that is stopped.
LEMMA StopKeepsTime ==
    ASSUME TimeInv, HistoryOK', NEW e \in Etimer, Stop(e), Leave(e, -MaxLate)
    PROVE  TimeInv'
<1>1. /\ HistoryOK
      /\ etimer_flags \in [Etimer -> [allocated : BOOLEAN, running : BOOLEAN]]
  BY DEF TimeInv, HistoryOK, TypeOK
<1>2. /\ UNCHANGED <<clock, interval, start, previous_diff, allocated, expired,
                     timer>>
      /\ \A u \in Etimer :
            /\ etimer_flags'[u].allocated = etimer_flags[u].allocated
            /\ u # e => etimer_flags'[u].running = etimer_flags[u].running
            /\ etimer_flags'[u].running => etimer_flags[u].running
  BY <1>1 DEF Stop, timers
<1>3. ~(left'[e] > -MaxLate) /\ \A u \in Etimer \ {e} : left'[u] = left[u]
  BY <1>1 DEF Leave, HistoryOK
<1>4. OwnedOK' /\ InOrder'
  BY <1>2 DEF TimeInv, OwnedOK, InOrder, Armed
<1>5. ASSUME NEW u \in Etimer, Followed(u)'
      PROVE  Known(u)'
  <2>1. u # e /\ Followed(u)
    BY <1>2, <1>3, <1>5 DEF Followed
  <2>2. Known(u) /\ left'[u] = left[u] /\ (Armed(u) => Armed(u)')
    BY <1>2, <1>3, <2>1 DEF TimeInv, Armed
  <2> QED
    BY <1>2, <2>2, Untouched
<1> QED
  BY <1>4, <1>5 DEF TimeInv

\* Steps that touch neither the event timers nor time.
LEMMA ElsewhereKeepsTime ==
    ASSUME TimeInv, HistoryOK', UNCHANGED <<timers, etimers, left>>
    PROVE  TimeInv'
<1>1. OwnedOK' /\ InOrder'
  BY DEF TimeInv, OwnedOK, InOrder, Armed, timers, etimers
<1>2. ASSUME NEW u \in Etimer, Followed(u)'
      PROVE  Known(u)'
  <2>1. Known(u)
    BY <1>2 DEF TimeInv, Followed, etimers
  <2> QED
    BY <2>1, Untouched DEF timers, etimers, Armed
<1> QED
  BY <1>1, <1>2 DEF TimeInv

\* A plain call of the thread of p.
LEMMA CallKeepsTime ==
    ASSUME EnoughTimers, PlainCalls, TimeInv, HistoryOK', NEW p \in Process,
           NEW C \in SUBSET Calls, Call(p, C)
    PROVE  TimeInv'
<1>1. /\ "reset_with_new_interval" \notin C /\ "adjust" \notin C
      /\ "remove" \notin C
  BY DEF PlainCalls
<1> QED
  BY <1>1, SetKeepsTime, ResetKeepsTime, RestartKeepsTime, StopKeepsTime DEF Call

\* A turn of the loop, at an event timer that runs: its timer is looked at, and it
\* stops if that has expired and there is room for its event.
LEMMA TurnAt ==
    ASSUME EnoughTimers, TimeInv, Turn, NEW e \in Etimer, et = e, Armed(e)
    PROVE  /\ etimer_flags[e].allocated
           /\ T!Look(e)
           /\ Expires(e) <=> T!Expires(e)
<1>1. e # 0 /\ etimer_flags[e].allocated /\ timer[e] = e
  BY Places DEF TimeInv, OwnedOK, InOrder
<1>2. OnTimer(et, T!Look)
  BY DEF Turn
<1>3. T!Look(e)
  BY <1>1, <1>2 DEF OnTimer, T!Look
<1> QED
  BY <1>1, <1>3 DEF Expires

\* So the turn keeps what is known.
LEMMA TurnKeepsTime ==
    ASSUME EnoughTimers, TimeInv, HistoryOK', Turn, left' = left
    PROVE  TimeInv'
<1>0. PICK e \in Etimer : et = e
  BY DEF Turn, TimeInv, HistoryOK, TypeOK
<1>1. /\ e \in Etimer
      /\ etimer_flags \in [Etimer -> [allocated : BOOLEAN, running : BOOLEAN]]
      /\ UNCHANGED timer
  BY DEF Turn, TimeInv, HistoryOK, TypeOK
<1>2. /\ \A u \in Etimer :
            /\ etimer_flags'[u].allocated = etimer_flags[u].allocated
            /\ u # e => etimer_flags'[u].running = etimer_flags[u].running
            /\ etimer_flags'[u].running => etimer_flags[u].running
      /\ Armed(e) /\ ~Expires(e) => Armed(e)'
  <2>1. CASE Fire(e) /\ Expires(e)
    <3>1. etimer_flags' = [etimer_flags EXCEPT ![e].running = FALSE]
      BY <2>1 DEF Fire
    <3> QED
      BY <1>1, <2>1, <3>1
  <2>2. CASE UNCHANGED etimer_flags
    BY <2>2 DEF Armed
  <2> QED
    BY <1>0, <2>1, <2>2 DEF Turn, Refused
<1>3. CASE Armed(e)
  <2>1. /\ T!Look(e) /\ e \in T!Timer /\ T!TypeOK
        /\ (Expires(e) <=> T!Expires(e))
    BY <1>0, <1>1, <1>3, TurnAt, Places DEF TimeInv, HistoryOK, TypeOK
  <2>2. /\ UNCHANGED <<clock, interval, start, allocated>>
        /\ \A u \in Etimer \ {e} :
              previous_diff'[u] = previous_diff[u] /\ expired'[u] = expired[u]
    BY <2>1, Places DEF T!Look, T!Looked, T!TypeOK
  <2>3. OwnedOK' /\ InOrder'
    BY <1>1, <1>2, <2>2 DEF TimeInv, OwnedOK, InOrder, Armed
  <2>4. ASSUME NEW u \in Etimer, Followed(u)'
        PROVE  Known(u)'
    <3>1. Known(u)
      BY <1>2, <2>4 DEF Followed, TimeInv
    <3>2. CASE u = e
      <4>1. HistoryOK /\ (Armed(e) /\ ~T!Expires(e) => Armed(e)')
        BY <1>2, <2>1 DEF TimeInv
      <4> QED
        BY <2>1, <3>1, <3>2, <4>1, LookedAt
    <3>3. CASE u # e
      BY <1>2, <2>2, <3>1, <3>3, Untouched DEF Armed
    <3> QED
      BY <3>2, <3>3
  <2> QED
    BY <2>3, <2>4 DEF TimeInv
<1>4. CASE ~Armed(e)
  <2>1. UNCHANGED <<timers, etimers>>
    BY <1>0, <1>4 DEF Turn, etimers
  <2> QED
    BY <2>1, ElsewhereKeepsTime
<1> QED
  BY <1>3, <1>4

\* A tick of real time takes one from the time left of every event timer followed.
LEMMA PassKeepsTime ==
    ASSUME EnoughTimers, TimeInv, HistoryOK', Pass
    PROVE  TimeInv'
<1>1. /\ T!Tick /\ UNCHANGED <<timer, etimer_flags, allocated>>
      /\ Prompt => ~Overlooked
  BY DEF Pass, Tick, T!Tick, etimers
<1>2. OwnedOK' /\ InOrder'
  BY <1>1 DEF TimeInv, OwnedOK, InOrder, Armed
<1>3. ASSUME NEW e \in Etimer, Followed(e)'
      PROVE  Known(e)'
  <2>1. left[e] \in Int /\ HistoryOK
    BY Numbers DEF TimeInv
  <2>2. left'[e] = left[e] - 1 /\ Followed(e)
    BY <1>1, <1>3, <2>1 DEF Pass, Followed
  <2>3. Known(e) /\ timer[e] = e
    BY <2>2 DEF TimeInv, InOrder, Followed
  <2> QED
    BY <1>1, <2>1, <2>2, <2>3, TimePasses
<1> QED
  BY <1>2, <1>3 DEF TimeInv

\* Every step keeps the invariant.
LEMMA TimeStep ==
    ASSUME EnoughTimers, PlainCalls, TimeInv, [HistoryNext]_<<vars, left>>
    PROVE  TimeInv'
<1>1. HistoryOK /\ HistoryOK'
  BY TypeStep DEF TimeInv
<1>2. alive \subseteq Process /\ leaving \subseteq Process
  BY <1>1 DEF HistoryOK, TypeOK
<1>3. ASSUME NEW p \in alive, Call(p, Calls)
      PROVE  TimeInv'
  BY <1>1, <1>2, <1>3, CallKeepsTime
<1>4. ASSUME NEW p \in leaving, Call(p, LastCalls)
      PROVE  TimeInv'
  BY <1>1, <1>2, <1>4, CallKeepsTime, LastCallsAssumption
<1>5. CASE Turn /\ UNCHANGED left
  BY <1>1, <1>5, TurnKeepsTime
<1>6. CASE Pass
  BY <1>1, <1>6, PassKeepsTime
<1>7. ASSUME UNCHANGED <<timers, etimers, left>>
      PROVE  TimeInv'
  BY <1>1, <1>7, ElsewhereKeepsTime
<1>8. ASSUME NEW p, LastReturn(p) \/ Start(p), UNCHANGED left
      PROVE  TimeInv'
  BY <1>7, <1>8 DEF LastReturn, Start
<1>9. CASE (LoopBegin \/ Post \/ Take \/ RequestPoll) /\ UNCHANGED left
  BY <1>7, <1>9 DEF LoopBegin, Post, Take, RequestPoll
<1>10. CASE UNCHANGED <<vars, left>>
  BY <1>7, <1>10 DEF vars
<1> QED
  BY <1>3, <1>4, <1>5, <1>6, <1>8, <1>9, <1>10 DEF HistoryNext, PlainCalls

\* At first nothing is said of any event timer.
LEMMA TimeBegins == HistoryInit => TimeInv
<1> SUFFICES ASSUME HistoryInit PROVE TimeInv
  OBVIOUS
<1>1. InOrder /\ \A e \in Etimer : ~Followed(e)
  BY DEF HistoryInit, Init, T!Init, InOrder, Followed
<1> QED
  BY <1>1, Initially DEF TimeInv

\* The invariant always holds.
LEMMA TimeInvariance ==
    ASSUME EnoughTimers, PlainCalls
    PROVE  HistorySpec => []TimeInv
<1>1. TimeInv /\ [HistoryNext]_<<vars, left>> => TimeInv'
  BY TimeStep
<1> QED
  BY <1>1, TimeBegins, PTL DEF HistorySpec
-----------------------------------------------------------------------------
(***************************************************************************)
(* The theorems about time.                                                *)
(***************************************************************************)
\* Where a step stands in the loop, and what it posts there.
LEMMA TurnsOnly ==
    ASSUME HistoryOK, [HistoryNext]_<<vars, left>>, NEW e \in Etimer, et = e,
           et' # e \/ Posts(e)
    PROVE  Turn
<1>1. et # 0 /\ ~Quiet
  BY DEF Etimer, Quiet
<1>2. Len(Append(queue, TimerEvent(process_ptr[e], e))) = Len(queue) + 1
  BY DEF HistoryOK, TypeOK
<1>3. et' = et /\ queue' = queue => FALSE
  BY <1>2 DEF Posts
<1> QED
  BY <1>1, <1>3 DEF HistoryNext, RequestPoll, Pass, Tick, kernel, vars

\* An event of xcontiki_os_sys_Etimer__process is not early, however seldom it is
\* polled, however late the resets, and across any number of wraps of the clock.
THEOREM NotEarlyCorrect ==
    ASSUME EnoughTimers, PlainCalls
    PROVE  HistorySpec => NotEarly
<1>1. ASSUME TimeInv, [HistoryNext]_<<vars, left>>, NEW e \in Etimer, Posts(e)
      PROVE  left[e] <= 0
  <2>1. HistoryOK /\ Turn /\ et = e
    BY <1>1, TurnsOnly DEF TimeInv, Posts
  <2>2. queue' # queue
    <3>1. Len(Append(queue, TimerEvent(process_ptr[e], e))) = Len(queue) + 1
      BY <2>1 DEF HistoryOK, TypeOK
    <3> QED
      BY <1>1, <2>1, <3>1 DEF Posts, HistoryOK, TypeOK
  <2>3. Armed(e) /\ Expires(e)
    BY <2>1, <2>2 DEF Turn
  <2>4. T!Expires(e) /\ etimer_flags[e].allocated
    BY <1>1, <2>1, <2>3, TurnAt
  <2>5. CASE Followed(e)
    BY <1>1, <2>1, <2>4, <2>5, Due DEF TimeInv
  <2>6. CASE ~Followed(e)
    BY <2>1, <2>4, <2>6, Numbers DEF Followed
  <2> QED
    BY <2>5, <2>6
<1>2. TimeInv /\ [HistoryNext]_<<vars, left>>
        => [\A e \in Etimer : Posts(e) => left[e] <= 0]_<<vars, left>>
  BY <1>1
<1> QED
  BY <1>2, TimeInvariance, PTL DEF HistorySpec, NotEarly

\* Polled once in a wrap of the clock, xcontiki_os_sys_Etimer__process passes over no
\* event timer whose time has come, unless the queue has no room.
THEOREM OnTimeCorrect ==
    ASSUME EnoughTimers, PlainCalls, Prompt, MaxLate <= Wrap
    PROVE  HistorySpec => OnTime
<1>1. ASSUME TimeInv, [HistoryNext]_<<vars, left>>, NEW e \in Etimer,
             et = e, et' # e, Armed(e), left[e] \in (1 - MaxLate)..0, Room
      PROVE  Posts(e)
  <2>1. HistoryOK /\ Turn
    BY <1>1, TurnsOnly DEF TimeInv
  <2>2. etimer_flags[e].allocated /\ (Expires(e) <=> T!Expires(e))
    BY <1>1, <2>1, TurnAt
  <2>3. Followed(e)
    BY <1>1, <2>1, <2>2, Numbers DEF Followed
  <2>4. Expires(e)
    <3>1. ASSUME ~T!Expires(e)
          PROVE  left[e] > 0
      BY <1>1, <2>1, <2>3, <3>1, NotDue DEF TimeInv
    <3> QED
      BY <1>1, <2>2, <3>1, <2>1, Numbers
  <2> QED
    BY <1>1, <2>1, <2>4 DEF Turn, Fire, Posts
<1>2. TimeInv /\ [HistoryNext]_<<vars, left>>
        => [\A e \in Etimer :
                /\ et = e /\ et' # e
                /\ Armed(e) /\ left[e] \in (1 - MaxLate)..0
                => Posts(e) \/ ~Room]_<<vars, left>>
  BY <1>1
<1> QED
  BY <1>2, TimeInvariance, PTL DEF HistorySpec, OnTime

\* xcontiki_os_sys_Etimer__expiration_time answers when the event timer is to
\* expire, or was to expire, whenever it is asked.
THEOREM ExpirationCorrect ==
    ASSUME EnoughTimers, PlainCalls
    PROVE  HistorySpec => []ExpirationIsKnown
<1>1. ASSUME TimeInv, NEW e \in Etimer, left[e] > -MaxLate, Interval(e) # 0
      PROVE  ExpirationTime(e) = (clock + left[e]) % Wrap
  <2>. DEFINE x == T!Plus(start[e], interval[e])
  <2>1. /\ timer[e] = e /\ etimer_flags[e].allocated /\ interval[e] # 0
    BY <1>1 DEF TimeInv, InOrder, Interval
  <2>2. Known(e) /\ HistoryOK /\ ExpirationTime(e) = x
    BY <1>1, <2>1, Places DEF TimeInv, Followed, ExpirationTime
  <2>3. PICK k \in Nat : Age(e) = k * Wrap + T!Diff(e)
    BY <2>1, <2>2 DEF Known, OnTrack
  <2>4. x \in Nat /\ x < Wrap /\ clock + left[e] \in Int
    BY <2>2, Numbers DEF T!Plus
  <2>5. k * Wrap \in Nat
    BY Multiples
  <2>6. \/ clock + left[e] = x - k * Wrap
        \/ clock + left[e] = x - k * Wrap - Wrap
        \/ clock + left[e] = x - k * Wrap + Wrap
    <3>1. left[e] = interval[e] - k * Wrap - T!Diff(e)
      BY <2>2, <2>3, <2>5, Numbers DEF Age
    <3> QED
      BY <2>2, <2>5, <3>1, Numbers DEF T!Diff, T!Minus, T!Plus
  <2>. HIDE DEF x
  <2> QED
    BY <2>2, <2>4, <2>6, WrapsAway
<1>2. TimeInv => ExpirationIsKnown
  BY <1>1 DEF ExpirationIsKnown
<1> QED
  BY <1>2, TimeInvariance, PTL
=============================================================================

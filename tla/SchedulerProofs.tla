-------------------------- MODULE SchedulerProofs --------------------------
(***************************************************************************)
(* The theorems about the scheduler of protothreads: for any tasks, any    *)
(* intervals and any width of the clock, a task that has ended is started  *)
(* again neither early nor, if it is looked at once in a wrap, late.       *)
(***************************************************************************)
EXTENDS SchedulerHistory, TLAPS

\* The real time since the start of t as the scheduler measures it: up to the
\* look at which prev_diff was taken, and since then.
Measure(t) == prev_diff[t] + gap[t]

\* What is known of a task t whose start the arrays tell.
Known(t) ==
    /\ gap[t] < Wrap => /\ Measure(t) = Diff(t) \/ Measure(t) = Diff(t) + Wrap
                        /\ age[t] = Capped(Measure(t), MaxAge)
    /\ gap[t] = Wrap => age[t] >= Wrap

\* The arrays tell the start of t from its first start on; between the look that
\* finds it due and the start, prev_diff is the one of the look before.
Told(t) ==
    \/ Started(t)
    \/ /\ ~scheduler_first_run /\ last_states[t] < FIRST_RUN
       /\ ~(i = t /\ at = "stamp")

\* A task that is about to be started again is old enough.
Passed == at = "stamp" => age[i] >= interval[i]

IInv ==
    /\ HistoryOK
    /\ scheduler_first_run => i = NumTasks
    /\ Passed
    /\ \A t \in Task : Told(t) => Known(t)

USE NumTasksAssumption, WrapAssumption, IntervalAssumption, MaxAgeAssumption
-----------------------------------------------------------------------------
(***************************************************************************)
(* One task.                                                               *)
(***************************************************************************)
\* The difference to a reading when the clock ticks.
LEMMA Ticked ==
    ASSUME NEW a \in Time, NEW b \in Time, NEW c,
           c = IF a + 1 < Wrap THEN a + 1 ELSE 0
    PROVE  Minus(c, b) = IF Minus(a, b) + 1 < Wrap THEN Minus(a, b) + 1 ELSE 0
<1>1. /\ Wrap \in Nat /\ a \in Nat /\ b \in Nat /\ a < Wrap /\ b < Wrap
  BY DEF Time
<1>2. CASE a + 1 < Wrap
  <2>1. c = a + 1
    BY <1>2
  <2> QED
    BY <1>1, <1>2, <2>1 DEF Minus
<1>3. CASE ~(a + 1 < Wrap)
  <2>1. c = 0 /\ a = Wrap - 1
    BY <1>1, <1>3
  <2> QED
    BY <1>1, <2>1 DEF Minus
<1> QED
  BY <1>2, <1>3

\* What the types say of a task.
LEMMA Types ==
    ASSUME HistoryOK, NEW t \in Task
    PROVE  /\ clock \in Time /\ last_ticks[t] \in Time /\ prev_diff[t] \in Time
           /\ interval[t] \in Time /\ Diff(t) \in Time
           /\ age[t] \in 0..MaxAge /\ gap[t] \in 0..Wrap
<1>1. /\ clock \in Time /\ last_ticks[t] \in Time /\ prev_diff[t] \in Time
      /\ interval[t] \in Time
      /\ age[t] \in 0..MaxAge /\ gap[t] \in 0..Wrap
  BY DEF HistoryOK, TypeOK, Task, Time
<1>2. Diff(t) \in Time
  BY <1>1 DEF Diff, Minus, Time
<1> QED
  BY <1>1, <1>2

\* A task that is found due is old enough.
LEMMA Early ==
    ASSUME HistoryOK, NEW t \in Task, Known(t), Due(t)
    PROVE  age[t] >= interval[t]
BY Types DEF Known, Due, Measure, Capped, Time

\* One that is not, and was looked at within each wrap, is as old as the
\* difference says.
LEMMA Exact ==
    ASSUME HistoryOK, NEW t \in Task, Known(t), ~Due(t), gap[t] < Wrap
    PROVE  Measure(t) = Diff(t) /\ age[t] < interval[t]
BY Types DEF Known, Due, Measure, Capped, Time

\* What a step leaves alone stays known.
LEMMA Unchanged ==
    ASSUME NEW t \in Task, Known(t), clock' = clock,
           last_ticks'[t] = last_ticks[t], prev_diff'[t] = prev_diff[t],
           age'[t] = age[t], gap'[t] = gap[t]
    PROVE  Known(t)'
BY DEF Known, Measure, Diff, Minus

\* A task that starts now is known.
LEMMA Starting ==
    ASSUME HistoryOK, NEW t \in Task, clock' = clock, Start(t), Fresh(t)
    PROVE  Known(t)'
<1>1. /\ last_ticks'[t] = clock /\ prev_diff'[t] = 0
      /\ age'[t] = 0 /\ gap'[t] = 0
  BY DEF Start, Fresh, HistoryOK, TypeOK
<1>2. Diff(t)' = 0
  BY <1>1, Types DEF Diff, Minus, Time
<1> QED
  BY <1>1, <1>2 DEF Known, Measure, Capped

\* A task is looked at and left alone: the measure stays, with the look as its
\* new mark.
LEMMA Looking ==
    ASSUME HistoryOK, NEW t \in Task, Known(t), ~Due(t), Seen(t),
           clock' = clock, last_ticks' = last_ticks,
           prev_diff' = [prev_diff EXCEPT ![t] = Diff(t)]
    PROVE  Known(t)'
<1>1. /\ prev_diff'[t] = Diff(t) /\ Diff(t)' = Diff(t)
      /\ age'[t] = age[t] /\ gap'[t] = IF gap[t] < Wrap THEN 0 ELSE gap[t]
  BY DEF Seen, HistoryOK, TypeOK, Diff, Minus
<1>2. CASE gap[t] < Wrap
  <2>1. Measure(t)' = Diff(t) /\ Measure(t) = Diff(t)
    BY <1>1, <1>2, Exact, Types DEF Measure, Time
  <2> QED
    BY <1>1, <1>2, <2>1, Types DEF Known, Time
<1>3. CASE gap[t] = Wrap
  BY <1>1, <1>3 DEF Known
<1> QED
  BY <1>2, <1>3, Types

\* Time passes: the difference grows by one or starts at zero again.
LEMMA Aging ==
    ASSUME HistoryOK, NEW t \in Task, Known(t), Pass
    PROVE  Known(t)'
<1>1. /\ age'[t] = Capped(age[t] + 1, MaxAge) /\ gap'[t] = Capped(gap[t] + 1, Wrap)
      /\ prev_diff'[t] = prev_diff[t] /\ last_ticks'[t] = last_ticks[t]
      /\ clock' = IF clock + 1 < Wrap THEN clock + 1 ELSE 0
  BY DEF Pass, Tick
<1>2. /\ clock \in 0..(Wrap - 1) /\ last_ticks[t] \in 0..(Wrap - 1)
      /\ prev_diff[t] \in 0..(Wrap - 1) /\ Diff(t) \in 0..(Wrap - 1)
      /\ age[t] \in 0..MaxAge /\ gap[t] \in 0..Wrap
      /\ Wrap \in Nat /\ MaxAge \in Nat
  BY Types DEF Time
<1>3. Diff(t)' = IF Diff(t) + 1 < Wrap THEN Diff(t) + 1 ELSE 0
  <2>1. Diff(t)' = Minus(clock', last_ticks[t])
    BY <1>1 DEF Diff
  <2> QED
    BY <1>1, <2>1, Types, Ticked DEF Diff
<1>4. CASE gap[t] + 1 < Wrap
  <2>1. gap'[t] = gap[t] + 1
    BY <1>1, <1>4 DEF Capped
  <2>2. Measure(t)' = Measure(t) + 1 /\ Measure(t) \in Nat
    BY <1>1, <1>2, <2>1 DEF Measure
  <2>3. age'[t] = Capped(Measure(t)', MaxAge)
    BY <1>1, <1>2, <1>4, <2>2 DEF Known, Capped
  <2>4. Measure(t)' = Diff(t)' \/ Measure(t)' = Diff(t)' + Wrap
    <3>1. Measure(t) = Diff(t) \/ Measure(t) = Diff(t) + Wrap
      BY <1>2, <1>4 DEF Known
    <3>2. Measure(t) < 2 * Wrap - 2
      BY <1>2, <1>4 DEF Measure
    <3>3. CASE Diff(t) + 1 < Wrap
      <4>1. Diff(t)' = Diff(t) + 1
        BY <1>3, <3>3
      <4> QED
        BY <1>2, <2>2, <3>1, <4>1
    <3>4. CASE ~(Diff(t) + 1 < Wrap)
      <4>1. Diff(t)' = 0 /\ Diff(t) = Wrap - 1
        BY <1>2, <1>3, <3>4
      <4> QED
        BY <1>2, <2>2, <3>1, <3>2, <4>1
    <3> QED
      BY <3>3, <3>4
  <2> QED
    BY <1>4, <2>1, <2>3, <2>4, <1>2 DEF Known
<1>5. CASE gap[t] + 1 = Wrap
  <2>1. gap'[t] = Wrap
    BY <1>1, <1>5 DEF Capped
  <2>2. age[t] >= gap[t]
    BY <1>2, <1>5 DEF Known, Measure, Capped
  <2> QED
    BY <1>1, <1>2, <1>5, <2>1, <2>2 DEF Known, Capped
<1>6. CASE gap[t] = Wrap
  BY <1>1, <1>2, <1>6 DEF Known, Capped
<1>7. gap[t] \in Nat /\ gap[t] <= Wrap /\ Wrap \in Nat
  BY <1>2
<1>8. gap[t] + 1 < Wrap \/ gap[t] + 1 = Wrap \/ gap[t] = Wrap
  BY <1>7
<1> QED
  BY <1>4, <1>5, <1>6, <1>8
-----------------------------------------------------------------------------
(***************************************************************************)
(* The invariant holds initially and is kept by every step.                *)
(***************************************************************************)
\* The initial state: the start of no task is told.
LEMMA Initially == HistoryInit => IInv
BY DEF HistoryInit, Init, IInv, HistoryOK, TypeOK, Task, Time, Passed, Told,
       Started, WAITING, FIRST_RUN

\* A step that changes neither the clock nor what the arrays say of the tasks.
LEMMA Keeping ==
    ASSUME IInv, HistoryOK', clock' = clock,
           UNCHANGED <<last_ticks, prev_diff, age, gap>>,
           scheduler_first_run' => i' = NumTasks, at' # "stamp",
           \A t \in Task : Told(t)' => Told(t)
    PROVE  IInv'
<1>1. ASSUME NEW t \in Task, Told(t)'
      PROVE  Known(t)'
  BY <1>1, Unchanged DEF IInv
<1> QED
  BY <1>1 DEF IInv, Passed

\* A task is started.
LEMMA StartKeeps ==
    ASSUME IInv, StartFirst \/ StartAgain, Fresh(i)
    PROVE  IInv'
<1> USE DEF IInv
<1>1. i \in Task /\ i # NumTasks
      /\ clock' = clock /\ Start(i) /\ at' = "call" /\ i' = i
      /\ UNCHANGED <<last_states, scheduler_first_run>>
  BY DEF StartFirst, StartAgain, HistoryOK, TypeOK, Task
<1>2. HistoryOK'
  <2>1. last_ticks' \in [Task -> Time] /\ prev_diff' \in [Task -> Time]
    BY <1>1 DEF HistoryOK, TypeOK, Start, Time
  <2>2. age' \in [Task -> 0..MaxAge] /\ gap' \in [Task -> 0..Wrap]
    BY <1>1 DEF HistoryOK, Fresh
  <2> QED
    BY <1>1, <2>1, <2>2 DEF HistoryOK, TypeOK
<1>3. ASSUME NEW t \in Task, Told(t)'
      PROVE  Known(t)'
  <2>1. CASE t = i
    BY <1>1, <2>1, Starting
  <2>2. CASE t # i
    <3>1. Told(t)
      BY <1>1, <1>3, <2>2 DEF Told, Started
    <3>2. /\ last_ticks'[t] = last_ticks[t] /\ prev_diff'[t] = prev_diff[t]
          /\ age'[t] = age[t] /\ gap'[t] = gap[t]
      BY <1>1, <2>2 DEF Start, Fresh, HistoryOK, TypeOK
    <3> QED
      BY <1>1, <3>1, <3>2, Unchanged
  <2> QED
    BY <2>1, <2>2
<1> QED
  BY <1>1, <1>2, <1>3 DEF Passed

\* The task i is looked at.
LEMMA LookKeeps ==
    ASSUME IInv, Look, Seen(i)
    PROVE  IInv'
<1> USE DEF IInv
<1>1. /\ i \in Task /\ i # NumTasks
      /\ clock' = clock /\ at = "look" /\ last_ticks' = last_ticks
      /\ UNCHANGED <<last_states, scheduler_first_run>>
      /\ age' = age /\ gap' = [gap EXCEPT ![i] = IF @ < Wrap THEN 0 ELSE @]
  BY DEF Look, Seen, Task
<1>2. Told(i) /\ Known(i) /\ ~scheduler_first_run
  BY <1>1 DEF Look, Told, Task
<1>3. gap' \in [Task -> 0..Wrap]
  BY <1>1 DEF HistoryOK
<1>4. CASE Due(i)
  <2>1. prev_diff' = prev_diff /\ i' = i /\ at' = "stamp"
    BY <1>4 DEF Look
  <2>2. HistoryOK'
    BY <1>1, <1>3, <2>1 DEF HistoryOK, TypeOK
  <2>3. Passed'
    BY <1>1, <1>2, <1>4, <2>1, Early DEF Passed
  <2>4. ASSUME NEW t \in Task, Told(t)'
        PROVE  Known(t)'
    <3>1. t # i /\ Told(t)
      BY <1>1, <2>1, <2>4 DEF Told, Started
    <3>2. gap'[t] = gap[t]
      BY <1>1, <3>1 DEF HistoryOK
    <3> QED
      BY <1>1, <2>1, <3>1, <3>2, Unchanged
  <2> QED
    BY <1>2, <1>1, <2>2, <2>3, <2>4
<1>5. CASE ~Due(i)
  <2>1. prev_diff' = [prev_diff EXCEPT ![i] = Diff(i)] /\ i' = i + 1 /\ at' = "look"
    BY <1>1, <1>5 DEF Look
  <2>2. HistoryOK'
    <3>1. i' \in Task \cup {NumTasks}
      BY <1>1, <2>1 DEF Task
    <3>2. prev_diff' \in [Task -> Time]
      BY <1>1, <2>1, Types DEF HistoryOK, TypeOK
    <3> QED
      BY <1>1, <1>3, <2>1, <3>1, <3>2 DEF HistoryOK, TypeOK
  <2>3. ASSUME NEW t \in Task, Told(t)'
        PROVE  Known(t)'
    <3>1. CASE t = i
      BY <1>1, <1>2, <1>5, <2>1, <3>1, Looking
    <3>2. CASE t # i
      <4>1. Told(t)
        BY <1>1, <2>1, <2>3, <3>2 DEF Told, Started
      <4>2. prev_diff'[t] = prev_diff[t] /\ gap'[t] = gap[t]
        BY <1>1, <2>1, <3>2 DEF HistoryOK, TypeOK
      <4> QED
        BY <1>1, <4>1, <4>2, Unchanged
    <3> QED
      BY <3>1, <3>2
  <2> QED
    BY <1>1, <1>2, <2>1, <2>2, <2>3 DEF Passed
<1> QED
  BY <1>4, <1>5

\* Time passes.
LEMMA PassKeeps ==
    ASSUME IInv, Pass
    PROVE  IInv'
<1> USE DEF IInv
<1>1. UNCHANGED <<last_states, last_ticks, prev_diff, scheduler_first_run, i, at>>
  BY DEF Pass, Tick
<1>2. HistoryOK'
  <2>1. clock' \in Time
    BY DEF Pass, Tick, HistoryOK, TypeOK, Time
  <2>2. age' \in [Task -> 0..MaxAge] /\ gap' \in [Task -> 0..Wrap]
    BY DEF Pass, Capped, HistoryOK
  <2> QED
    BY <1>1, <2>1, <2>2 DEF HistoryOK, TypeOK
<1>3. Passed'
  <2> SUFFICES ASSUME at = "stamp" PROVE age'[i] >= interval[i]
    BY <1>1 DEF Passed
  <2>1. i \in Task
    BY DEF HistoryOK, TypeOK
  <2>2. age'[i] = Capped(age[i] + 1, MaxAge)
    BY <2>1 DEF Pass
  <2>3. age[i] >= interval[i]
    BY DEF Passed
  <2>4. interval[i] \in 0..(Wrap - 1) /\ age[i] \in 0..MaxAge
    BY <2>1, Types DEF Time
  <2> QED
    BY <2>2, <2>3, <2>4 DEF Capped
<1>4. ASSUME NEW t \in Task, Told(t)'
      PROVE  Known(t)'
  <2>1. Told(t)
    BY <1>1, <1>4 DEF Told, Started
  <2> QED
    BY <2>1, Aging
<1> QED
  BY <1>1, <1>2, <1>3, <1>4

\* Every step keeps the invariant.
LEMMA Steps == IInv /\ [HistoryNext]_<<vars, history>> => IInv'
<1> SUFFICES ASSUME IInv, [HistoryNext]_<<vars, history>> PROVE IInv'
  OBVIOUS
<1> USE DEF IInv
<1>1. CASE Begin /\ UNCHANGED history
  <2>1. /\ i = NumTasks /\ i' = 0 /\ scheduler_first_run' = FALSE /\ at' = at
        /\ clock' = clock /\ prev_diff' = prev_diff /\ age' = age /\ gap' = gap
        /\ at = "look"
    BY <1>1 DEF Begin, history, HistoryOK, TypeOK
  <2>2. i' \in Task \cup {NumTasks} /\ (i' = NumTasks => at' = "look")
    BY <2>1 DEF Task
  <2>3. CASE scheduler_first_run
    <3>1. last_states' = [t \in Task |-> FIRST_RUN] /\ last_ticks' = [t \in Task |-> 0]
      BY <1>1, <2>3 DEF Begin
    <3>2. HistoryOK'
      <4>1. FIRST_RUN \in WAITING..FIRST_RUN /\ 0 \in Time
        BY DEF FIRST_RUN, WAITING, Time
      <4> QED
        BY <2>1, <2>2, <3>1, <4>1 DEF HistoryOK, TypeOK
    <3>3. \A t \in Task : ~Told(t)'
      BY <2>1, <3>1 DEF Told, Started, FIRST_RUN
    <3> QED
      BY <2>1, <3>2, <3>3 DEF Passed
  <2>4. CASE ~scheduler_first_run
    <3>1. UNCHANGED <<last_states, last_ticks>>
      BY <1>1, <2>4 DEF Begin
    <3>2. HistoryOK'
      BY <2>1, <2>2, <3>1 DEF HistoryOK, TypeOK
    <3>3. \A t \in Task : Told(t)' => Told(t)
      BY <2>1, <2>4, <3>1 DEF Told, Started
    <3> QED
      BY <2>1, <3>1, <3>2, <3>3, Keeping
  <2> QED
    BY <2>3, <2>4
<1>2. CASE StartFirst /\ Fresh(i)
  BY <1>2, StartKeeps
<1>3. CASE GoOn /\ UNCHANGED history
  <2>1. HistoryOK' /\ \A t \in Task : Told(t)' => Told(t)
    BY <1>3 DEF GoOn, history, HistoryOK, TypeOK, Told, Started, Task
  <2> QED
    BY <1>3, <2>1, Keeping DEF GoOn, history
<1>4. CASE Look /\ Seen(i)
  BY <1>4, LookKeeps
<1>5. CASE StartAgain /\ Fresh(i)
  BY <1>5, StartKeeps
<1>6. ASSUME NEW r \in WAITING..ENDED, Return(r), UNCHANGED history
      PROVE  IInv'
  <2>1. i \in Task /\ ~scheduler_first_run
    BY <1>6 DEF Return, HistoryOK, TypeOK, Task
  <2>2. r \in WAITING..FIRST_RUN /\ r < FIRST_RUN
    BY DEF WAITING, ENDED, FIRST_RUN
  <2>3. HistoryOK'
    <3>1. i' \in Task \cup {NumTasks}
      BY <1>6, <2>1 DEF Return, Task
    <3> QED
      BY <1>6, <2>2, <3>1 DEF Return, history, HistoryOK, TypeOK
  <2>4. ASSUME NEW t \in Task, Told(t)'
        PROVE  Told(t)
    BY <1>6, <2>1, <2>4 DEF Return, Told, Started, HistoryOK, TypeOK
  <2> QED
    BY <1>6, <2>1, <2>3, <2>4, Keeping DEF Return, history
<1>7. CASE Initialize /\ UNCHANGED history
  <2>1. HistoryOK' /\ at' # "stamp" /\ \A t \in Task : Told(t)' => Told(t)
    BY <1>7 DEF Initialize, history, HistoryOK, TypeOK, Told, Started
  <2> QED
    BY <1>7, <2>1, Keeping DEF Initialize, history
<1>8. CASE Pass
  BY <1>8, PassKeeps
<1>9. CASE UNCHANGED <<vars, history>>
  BY <1>9 DEF vars, history, HistoryOK, TypeOK, Known, Measure, Diff, Minus, Told,
              Started, Passed
<1> QED
  BY <1>1, <1>2, <1>3, <1>4, <1>5, <1>6, <1>7, <1>8, <1>9 DEF HistoryNext, Loop

\* The invariant always holds.
LEMMA Invariance == HistorySpec => []IInv
<1>1. HistoryInit => IInv
  BY Initially
<1>2. IInv /\ [HistoryNext]_<<vars, history>> => IInv'
  BY Steps
<1> QED
  BY <1>1, <1>2, PTL DEF HistorySpec
-----------------------------------------------------------------------------
(***************************************************************************)
(* The theorems.                                                           *)
(***************************************************************************)
\* Starts and differences stay clock readings, and the loop its arrays' index.
THEOREM TypeCorrect == HistorySpec => []HistoryOK
<1>1. IInv => HistoryOK
  BY DEF IInv
<1> QED
  BY <1>1, Invariance, PTL

\* xcontiki_os_sys_ProtothreadsScheduler.c: a task that has ended is not started
\* again before its interval has passed.
THEOREM NotEarlyCorrect == HistorySpec => NotEarly
<1>1. ASSUME IInv, HistoryNext, NEW t \in Task, ~Started(t), Started(t)',
             last_states[t] \in {EXITED, ENDED}
      PROVE  age[t] >= interval[t]
  <2>1. last_states[t] < FIRST_RUN /\ ~(last_states[t] < EXITED)
    BY <1>1 DEF EXITED, ENDED, FIRST_RUN
  <2>2. CASE StartFirst
    <3>1. t = i /\ last_states[t] >= FIRST_RUN
      BY <1>1, <2>2 DEF StartFirst, Started
    <3>2. last_states[t] \in {2, 3} /\ FIRST_RUN = 4
      BY <1>1 DEF EXITED, ENDED, FIRST_RUN
    <3> QED
      BY <3>1, <3>2
  <2>3. CASE GoOn
    <3>1. t = i /\ interval[t] = 0
      BY <1>1, <2>1, <2>3 DEF GoOn, GoesOn, Started
    <3>2. age[t] \in 0..MaxAge
      BY <1>1, Types DEF IInv
    <3> QED
      BY <3>1, <3>2
  <2>4. CASE StartAgain
    BY <1>1, <2>4 DEF StartAgain, Started, IInv, Passed
  <2>5. CASE Begin
    BY <1>1, <2>5 DEF Begin, Started, IInv, HistoryOK, TypeOK
  <2>6. CASE Look
    BY <1>1, <2>6 DEF Look, Started
  <2>7. CASE \E r \in WAITING..ENDED : Return(r)
    BY <1>1, <2>7 DEF Return, Started
  <2>8. CASE Initialize
    BY <1>1, <2>8 DEF Initialize, Started
  <2>9. CASE Pass
    BY <1>1, <2>9 DEF Pass, Tick, Started
  <2> QED
    BY <1>1, <2>2, <2>3, <2>4, <2>5, <2>6, <2>7, <2>8, <2>9 DEF HistoryNext, Loop
<1>2. IInv /\ [HistoryNext]_<<vars, history>> =>
          [\A t \in Task :
              /\ ~Started(t) /\ Started(t)' /\ last_states[t] \in {EXITED, ENDED}
              => age[t] >= interval[t]]_<<vars, history>>
  BY <1>1
<1> QED
  BY <1>2, Invariance, PTL DEF HistorySpec, NotEarly

\* xcontiki_os_sys_ProtothreadsScheduler.c: a task that is looked at within each
\* wrap of the clock is not passed over once its interval has passed.
THEOREM OnTimeCorrect == HistorySpec => OnTime
<1>1. ASSUME IInv, HistoryNext, NEW t \in Task, i = t, i' # t, ~Started(t),
             gap[t] < Wrap
      PROVE  age[t] < interval[t]
  <2>1. i \in Task /\ i # NumTasks
    BY <1>1 DEF Task
  <2>2. Look
    BY <1>1, <2>1
    DEF HistoryNext, Loop, Begin, StartFirst, GoOn, StartAgain, Return, Started,
        Initialize, Pass, Tick
  <2>3. ~Due(t) /\ Told(t)
    BY <1>1, <2>1, <2>2 DEF Look, Told, IInv
  <2> QED
    BY <1>1, <2>3, Exact DEF IInv
<1>2. IInv /\ [HistoryNext]_<<vars, history>> =>
          [\A t \in Task :
              /\ i = t /\ i' # t /\ ~Started(t)
              /\ gap[t] < Wrap
              => age[t] < interval[t]]_<<vars, history>>
  BY <1>1
<1> QED
  BY <1>2, Invariance, PTL DEF HistorySpec, OnTime
=============================================================================

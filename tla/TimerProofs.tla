---------------------------- MODULE TimerProofs ----------------------------
(***************************************************************************)
(* The theorems about the timers: for any number of timers, any width of   *)
(* the clock and any order of calls, a timer is never early, and it is     *)
(* exact as long as it is looked at once in a wrap.                        *)
(***************************************************************************)
EXTENDS TimerHistory, TimerObjects, TLAPS

\* The clock has come to where the start and the age of the timer put it.
OnTrack(t) == \E k \in Nat : age[t] = k * Wrap + Diff(t)

\* What is known of a tracked timer t.
Known(t) ==
    /\ expired[t] => age[t] >= interval[t]
    /\ (~expired[t] \/ interval[t] # 0) => OnTrack(t)
    /\ gap[t] <= age[t]
    /\ ~expired[t] /\ gap[t] < Wrap => previous_diff[t] = age[t] - gap[t]
    /\ ~expired[t] => running[t]

IInv == HistoryOK /\ \A t \in Timer : tracked[t] => Known(t)

USE NumTimersAssumption, WrapAssumption, MaxAgeAssumption
-----------------------------------------------------------------------------
(***************************************************************************)
(* Arithmetic.                                                             *)
(***************************************************************************)
\* Sums and differences of clock readings are clock readings.
LEMMA Readings ==
    ASSUME NEW a \in Time, NEW b \in Time
    PROVE  Plus(a, b) \in Time /\ Minus(a, b) \in Time
BY DEF Plus, Minus, Time

\* A multiple of the wrap is zero or at least a wrap.
LEMMA Multiples ==
    ASSUME NEW k \in Nat
    PROVE  /\ k * Wrap \in Nat
           /\ k # 0 => k * Wrap >= Wrap
           /\ k # 0 => k - 1 \in Nat /\ k * Wrap = (k - 1) * Wrap + Wrap
           /\ (k + 1) * Wrap = k * Wrap + Wrap
<1>1. k * Wrap \in Nat
  OBVIOUS
<1>2. (k + 1) * Wrap = k * Wrap + Wrap
  OBVIOUS
<1>3. ASSUME k # 0
      PROVE  k - 1 \in Nat /\ k * Wrap = (k - 1) * Wrap + Wrap
  BY <1>3
<1>4. ASSUME k # 0
      PROVE  k * Wrap >= Wrap
  <2>1. (k - 1) * Wrap \in Nat
    BY <1>3, <1>4
  <2> QED
    BY <1>1, <1>3, <1>4, <2>1
<1> QED
  BY <1>1, <1>2, <1>3, <1>4

\* What the difference says of the age of a timer on its track.
LEMMA Ages ==
    ASSUME HistoryOK, NEW t \in Timer, OnTrack(t)
    PROVE  /\ Diff(t) \in Time
           /\ age[t] >= Diff(t)
           /\ age[t] # Diff(t) => age[t] >= Diff(t) + Wrap
<1>1. Diff(t) \in Time
  BY Readings DEF HistoryOK, TypeOK, Diff
<1>2. PICK k \in Nat : age[t] = k * Wrap + Diff(t)
  BY DEF OnTrack
<1>3. k * Wrap \in Nat /\ (k # 0 => k * Wrap >= Wrap)
  BY Multiples
<1>4. CASE k = 0
  BY <1>1, <1>2, <1>4 DEF Time
<1>5. CASE k # 0
  BY <1>1, <1>2, <1>3, <1>5 DEF Time, HistoryOK, TypeOK
<1> QED
  BY <1>4, <1>5

\* A known timer that would be seen to expire is old enough.
LEMMA Early ==
    ASSUME HistoryOK, NEW t \in Timer, Known(t), Expires(t)
    PROVE  age[t] >= interval[t]
<1>1. CASE expired[t]
  BY <1>1 DEF Known
<1>2. CASE ~expired[t]
  <2>1. OnTrack(t) /\ Due(t)
    BY <1>2 DEF Known, Expires
  <2>2. interval[t] < Wrap /\ interval[t] \in Nat /\ age[t] \in Nat /\ gap[t] \in 0..Wrap
        /\ previous_diff[t] \in Nat
    BY DEF HistoryOK, TypeOK, Time
  <2>3. CASE Diff(t) >= interval[t]
    BY <2>1, <2>2, <2>3, Ages DEF Time
  <2>4. CASE Diff(t) < previous_diff[t] /\ gap[t] < Wrap
    <3>1. previous_diff[t] = age[t] - gap[t]
      BY <1>2, <2>4 DEF Known
    <3>2. age[t] # Diff(t)
      BY <2>1, <2>2, <2>4, <3>1, Ages DEF Time
    <3> QED
      BY <2>1, <2>2, <3>2, Ages DEF Time
  <2>5. CASE gap[t] = Wrap
    BY <2>2, <2>5 DEF Known
  <2> QED
    BY <2>1, <2>2, <2>3, <2>4, <2>5 DEF Due
<1> QED
  BY <1>1, <1>2

\* A known timer that is looked at in time and would not be seen to expire is
\* as old as the difference says.
LEMMA Exact ==
    ASSUME HistoryOK, NEW t \in Timer, Known(t), ~Expires(t), gap[t] < Wrap
    PROVE  OnTrack(t) /\ age[t] = Diff(t) /\ age[t] < interval[t]
<1>1. OnTrack(t) /\ previous_diff[t] = age[t] - gap[t]
  BY DEF Known, Expires
<1>2. Diff(t) < interval[t] /\ Diff(t) >= previous_diff[t]
  BY <1>1, Ages DEF Expires, Due, HistoryOK, TypeOK, Time
<1>3. age[t] \in Nat /\ gap[t] \in Nat /\ Diff(t) \in Nat
  BY <1>1, Ages DEF HistoryOK, TypeOK, Time
<1>4. age[t] = Diff(t)
  BY <1>1, <1>2, <1>3, Ages
<1> QED
  BY <1>1, <1>2, <1>4
-----------------------------------------------------------------------------
(***************************************************************************)
(* The invariant holds initially and is kept by every step.                *)
(***************************************************************************)
\* The initial state: no timer is tracked.
LEMMA Initially == HistoryInit => IInv
BY DEF HistoryInit, Init, IInv, HistoryOK, TypeOK, Time, Timer

\* A timer that a step does not change stays known.
LEMMA Unchanged ==
    ASSUME NEW t \in Timer, Known(t), clock' = clock,
           interval'[t] = interval[t], start'[t] = start[t],
           previous_diff'[t] = previous_diff[t], expired'[t] = expired[t],
           running'[t] = running[t], age'[t] = age[t], gap'[t] = gap[t]
    PROVE  Known(t)'
BY DEF Known, OnTrack, Diff, Minus

\* A timer that starts now is known.
LEMMA Fresh ==
    ASSUME HistoryOK, NEW t \in Timer, clock' = clock, interval'[t] \in Time,
           expired'[t] = (interval'[t] = 0), age'[t] = 0, gap'[t] = 0,
           interval'[t] # 0 =>
               start'[t] = clock /\ previous_diff'[t] = 0 /\ running'[t]
    PROVE  Known(t)'
<1>1. ASSUME interval'[t] # 0
      PROVE  OnTrack(t)'
  <2>1. Diff(t)' = 0 /\ 0 = 0 * Wrap + 0
    BY <1>1 DEF Diff, Minus, HistoryOK, TypeOK, Time
  <2> QED
    BY <2>1 DEF OnTrack
<1>2. CASE interval'[t] = 0
  <2>1. expired'[t]
    BY <1>2
  <2> QED
    BY <1>2, <2>1 DEF Known
<1>3. CASE interval'[t] # 0
  <2>1. ~expired'[t]
    BY <1>3
  <2> QED
    BY <1>1, <1>3, <2>1 DEF Known
<1> QED
  BY <1>2, <1>3

\* Setting a timer keeps the types and makes it known.
LEMMA SettingTo ==
    ASSUME IInv, NEW t \in Timer, NEW i \in Time, SetTo(t, i), Track(t, TRUE, 0),
           clock' = clock, allocated' \in [Timer -> BOOLEAN]
    PROVE  IInv'
<1> USE DEF IInv
<1>1. HistoryOK'
  <2>1. start' \in [Timer -> Time] /\ previous_diff' \in [Timer -> Time]
    BY DEF SetTo, HistoryOK, TypeOK, Time
  <2>2. expired' \in [Timer -> BOOLEAN] /\ running' \in [Timer -> BOOLEAN]
    BY DEF SetTo, HistoryOK, TypeOK
  <2>3. tracked' \in [Timer -> BOOLEAN] /\ age' \in [Timer -> Nat]
        /\ gap' \in [Timer -> 0..Wrap]
    BY DEF Track, HistoryOK
  <2> QED
    BY <2>1, <2>2, <2>3 DEF SetTo, HistoryOK, TypeOK
<1>2. Known(t)'
  <2>1. interval'[t] = i /\ expired'[t] = (i = 0) /\ age'[t] = 0 /\ gap'[t] = 0
    BY DEF SetTo, Track, HistoryOK, TypeOK
  <2>2. i # 0 => start'[t] = clock /\ previous_diff'[t] = 0 /\ running'[t]
    BY DEF SetTo, HistoryOK, TypeOK
  <2> QED
    BY <2>1, <2>2, Fresh
<1>3. ASSUME NEW u \in Timer, u # t, tracked'[u]
      PROVE  Known(u)'
  <2>1. Known(u)
    BY <1>3 DEF Track, HistoryOK
  <2> QED
    BY <1>3, <2>1, Unchanged DEF SetTo, Track, HistoryOK, TypeOK
<1> QED
  BY <1>1, <1>2, <1>3

\* Looking at the timers in T, of which those in X have expired.
LEMMA Looking ==
    ASSUME IInv, NEW T \in SUBSET Timer, NEW X \in SUBSET T,
           \A t \in X : Expires(t), \A t \in T \ X : ~Due(t),
           Looked(T, X), See(T)
    PROVE  IInv'
<1> USE DEF IInv
<1>1. HistoryOK'
  <2>1. \A t \in Timer : Diff(t) \in Time
    BY Readings DEF HistoryOK, TypeOK, Diff
  <2>2. TypeOK'
    BY <2>1 DEF Looked, HistoryOK, TypeOK
  <2>3. tracked' \in [Timer -> BOOLEAN] /\ age' \in [Timer -> Nat]
        /\ gap' \in [Timer -> 0..Wrap]
    BY DEF See, HistoryOK
  <2> QED
    BY <2>2, <2>3 DEF HistoryOK
<1>2. ASSUME NEW t \in Timer, tracked'[t]
      PROVE  Known(t)'
  <2>1. Known(t) /\ HistoryOK
    BY <1>2 DEF See
  <2>2. UNCHANGED <<clock, interval[t], start[t], age[t]>> /\ Diff(t)' = Diff(t)
    BY DEF Looked, See, Diff, Minus
  <2>3. OnTrack(t) => OnTrack(t)'
    BY <2>2 DEF OnTrack
  <2>4. /\ expired'[t] = (expired[t] \/ t \in X)
        /\ running'[t] = (running[t] /\ t \notin X)
        /\ previous_diff'[t] = IF t \in T \ X THEN Diff(t) ELSE previous_diff[t]
        /\ gap'[t] = IF t \in T /\ gap[t] < Wrap THEN 0 ELSE gap[t]
    BY DEF Looked, See
  <2>5. age[t] \in Nat /\ gap[t] \in 0..Wrap
    BY DEF HistoryOK
  <2>6. gap'[t] <= age'[t]
    BY <2>1, <2>2, <2>4, <2>5 DEF Known
  <2>7. CASE t \notin T
    <3>1. expired'[t] = expired[t]
      BY <2>4, <2>7 DEF HistoryOK, TypeOK
    <3>2. previous_diff'[t] = previous_diff[t] /\ gap'[t] = gap[t]
      BY <2>4, <2>7
    <3>3. running'[t] = running[t]
      BY <2>4, <2>7 DEF HistoryOK, TypeOK
    <3> QED
      BY <2>1, <2>2, <3>1, <3>2, <3>3, Unchanged
  <2>8. CASE expired'[t]
    <3>1. Expires(t)
      BY <2>4, <2>8 DEF Expires
    <3>2. age[t] >= interval[t]
      BY <2>1, <3>1, Early
    <3>3. interval'[t] # 0 => OnTrack(t)'
      BY <2>1, <2>2, <2>3 DEF Known
    <3> QED
      BY <2>2, <2>6, <2>8, <3>2, <3>3 DEF Known
  <2>9. CASE t \in T /\ ~expired'[t]
    <3>1. t \in T \ X /\ ~expired[t] /\ ~Expires(t)
      BY <2>4, <2>9 DEF Expires
    <3>2. OnTrack(t)' /\ running'[t]
      BY <2>1, <2>3, <2>4, <3>1 DEF Known
    <3>3. gap'[t] < Wrap => previous_diff'[t] = age'[t] - gap'[t]
      <4>1. CASE gap[t] < Wrap
        BY <2>1, <2>2, <2>4, <2>5, <3>1, <4>1, Exact
      <4>2. CASE ~(gap[t] < Wrap)
        BY <2>4, <4>2
      <4> QED
        BY <4>1, <4>2
    <3> QED
      BY <2>6, <2>9, <3>2, <3>3 DEF Known
  <2> QED
    BY <2>7, <2>8, <2>9
<1> QED
  BY <1>1, <1>2

\* A timer that is not tracked any more needs no argument.
LEMMA Forgetting ==
    ASSUME IInv, NEW t \in Timer, Track(t, FALSE, 0), HistoryOK',
           clock' = clock,
           \A u \in Timer \ {t} :
               /\ interval'[u] = interval[u] /\ start'[u] = start[u]
               /\ previous_diff'[u] = previous_diff[u]
               /\ expired'[u] = expired[u] /\ running'[u] = running[u]
    PROVE  IInv'
<1>1. ASSUME NEW u \in Timer, tracked'[u]
      PROVE  Known(u)'
  <2>1. u # t /\ tracked[u] /\ age'[u] = age[u] /\ gap'[u] = gap[u]
    BY <1>1 DEF Track, HistoryOK, TypeOK, IInv
  <2> QED
    BY <2>1, Unchanged DEF IInv
<1> QED
  BY <1>1 DEF IInv

\* A reset that comes after the expiry.  The start moves on by the interval, so
\* the age shrinks by it.
LEMMA Resetting ==
    ASSUME IInv, NEW t \in Timer, Expires(t), Reset(t),
           Track(t, tracked[t], age[t] - interval[t])
    PROVE  IInv'
<1> USE DEF IInv
<1>1. /\ interval[t] \in Time /\ start[t] \in Time /\ clock \in Time
      /\ age[t] \in Nat /\ Wrap \in Nat
      /\ NewStart(t) \in Time
      /\ tracked[t] \in BOOLEAN
  BY Readings DEF HistoryOK, TypeOK, NewStart
<1>2. tracked[t] => Known(t) /\ age[t] >= interval[t] /\ age[t] - interval[t] \in Nat
  BY <1>1, Early DEF Time
<1>3. /\ start' = [start EXCEPT ![t] = NewStart(t)]
      /\ previous_diff' = [previous_diff EXCEPT ![t] = 0]
      /\ expired' = [expired EXCEPT ![t] = (interval[t] = 0)]
      /\ running' = [running EXCEPT ![t] = RunningAgain(t)]
      /\ UNCHANGED <<clock, interval, allocated>>
  BY DEF Reset
<1>4. HistoryOK'
  <2>1. start' \in [Timer -> Time] /\ previous_diff' \in [Timer -> Time]
    BY <1>1, <1>3 DEF HistoryOK, TypeOK, Time
  <2>2. expired' \in [Timer -> BOOLEAN] /\ running' \in [Timer -> BOOLEAN]
    BY <1>3 DEF HistoryOK, TypeOK, RunningAgain
  <2>3. tracked' \in [Timer -> BOOLEAN]
    BY <1>1 DEF Track, HistoryOK
  <2>4. age' \in [Timer -> Nat] /\ gap' \in [Timer -> 0..Wrap]
    BY <1>1, <1>2, <1>3 DEF Track, HistoryOK, TypeOK
  <2> QED
    BY <1>3, <2>1, <2>2, <2>3, <2>4 DEF HistoryOK, TypeOK
<1>5. ASSUME tracked'[t]
      PROVE  Known(t)'
  <2>1. tracked[t]
    BY <1>3, <1>5 DEF Track, HistoryOK, TypeOK
  <2>2. /\ age'[t] = age[t] - interval[t]
        /\ gap'[t] = IF age'[t] < Wrap THEN age'[t] ELSE Wrap
        /\ interval'[t] = interval[t] /\ start'[t] = NewStart(t) /\ clock' = clock
        /\ previous_diff'[t] = 0 /\ expired'[t] = (interval[t] = 0)
        /\ running'[t] = (interval[t] # 0)
    BY <1>3, <2>1 DEF Track, HistoryOK, TypeOK, RunningAgain
  <2>3. ASSUME interval[t] # 0
        PROVE  OnTrack(t)'
    <3>1. OnTrack(t)
      BY <1>2, <2>1, <2>3 DEF Known
    <3>2. PICK k \in Nat : age[t] = k * Wrap + Diff(t)
      BY <3>1 DEF OnTrack
    <3>. k * Wrap \in Nat /\ Diff(t) \in Nat
      BY <3>1, Multiples, Ages DEF Time
    <3>3. CASE Diff(t) >= interval[t]
      <4>1. Diff(t)' = Diff(t) - interval[t]
        BY <1>1, <2>2, <3>3 DEF Diff, Minus, NewStart, Plus, Time
      <4>2. age'[t] = k * Wrap + Diff(t)'
        BY <1>1, <2>2, <3>2, <4>1 DEF Time
      <4> QED
        BY <4>2 DEF OnTrack
    <3>4. CASE Diff(t) < interval[t]
      <4>1. Diff(t)' = Diff(t) - interval[t] + Wrap
        BY <1>1, <2>2, <3>4 DEF Diff, Minus, NewStart, Plus, Time
      <4>2. k # 0
        <5>1. k = 0 => age[t] = Diff(t)
          BY <3>2
        <5> QED
          BY <1>1, <1>2, <2>1, <3>4, <5>1 DEF Time
      <4>3. k - 1 \in Nat /\ k * Wrap = (k - 1) * Wrap + Wrap
        BY <4>2, Multiples
      <4>4. age'[t] = (k - 1) * Wrap + Diff(t)'
        <5>1. (k - 1) * Wrap \in Nat
          BY <4>3, Multiples
        <5> QED
          BY <1>1, <2>2, <3>2, <4>1, <4>3, <5>1 DEF Time
      <4> QED
        BY <4>3, <4>4 DEF OnTrack
    <3> QED
      BY <1>1, <3>1, <3>3, <3>4, Ages DEF Time
  <2>4. CASE interval[t] = 0
    <3>1. expired'[t]
      BY <2>2, <2>4
    <3> QED
      BY <1>1, <1>2, <2>1, <2>2, <2>4, <3>1 DEF Known
  <2>5. CASE interval[t] # 0
    <3>1. ~expired'[t] /\ running'[t]
      BY <2>2, <2>5
    <3>2. gap'[t] <= age'[t] /\ (gap'[t] < Wrap => 0 = age'[t] - gap'[t])
      BY <1>1, <1>2, <2>1, <2>2 DEF Time
    <3> QED
      BY <2>2, <2>3, <2>5, <3>1, <3>2 DEF Known
  <2> QED
    BY <2>4, <2>5
<1>6. ASSUME NEW u \in Timer, u # t, tracked'[u]
      PROVE  Known(u)'
  <2>1. Known(u)
    BY <1>3, <1>6 DEF Track, HistoryOK, TypeOK
  <2> QED
    BY <1>3, <1>6, <2>1, Unchanged DEF Track, HistoryOK, TypeOK
<1> QED
  BY <1>4, <1>5, <1>6

\* Time passes: the difference grows by one or starts at zero again.
LEMMA Ticking ==
    ASSUME IInv, Tick, Pass
    PROVE  IInv'
<1> USE DEF IInv
<1>1. HistoryOK'
  <2>1. clock' \in Time
    BY DEF Tick, HistoryOK, TypeOK, Time, Plus
  <2>2. tracked' \in [Timer -> BOOLEAN] /\ age' \in [Timer -> Nat]
    BY DEF Pass, HistoryOK
  <2>3. gap' \in [Timer -> 0..Wrap]
    BY DEF Pass, HistoryOK
  <2> QED
    BY <2>1, <2>2, <2>3 DEF Tick, HistoryOK, TypeOK
<1>2. ASSUME NEW t \in Timer, tracked'[t]
      PROVE  Known(t)'
  <2>1. tracked[t] /\ Known(t)
    BY <1>2 DEF Pass
  <2>2. /\ age'[t] = age[t] + 1
        /\ gap'[t] = IF gap[t] < Wrap THEN gap[t] + 1 ELSE gap[t]
        /\ clock' = Plus(clock, 1)
        /\ UNCHANGED <<interval[t], start[t], previous_diff[t], expired[t],
                       running[t]>>
    BY <1>2 DEF Tick, Pass
  <2>3. /\ clock \in Time /\ start[t] \in Time /\ interval[t] \in Time
        /\ age[t] \in Nat /\ gap[t] \in 0..Wrap
    BY DEF HistoryOK, TypeOK
  <2>4. ASSUME OnTrack(t)
        PROVE  OnTrack(t)'
    <3>1. PICK k \in Nat : age[t] = k * Wrap + Diff(t)
      BY <2>4 DEF OnTrack
    <3>2. CASE Diff(t) + 1 < Wrap
      <4>1. Diff(t)' = Diff(t) + 1
        BY <2>2, <2>3, <3>2 DEF Diff, Minus, Plus, Time
      <4>2. age'[t] = k * Wrap + Diff(t)'
        BY <2>2, <3>1, <2>4, <4>1, Multiples, Ages DEF Time
      <4> QED
        BY <4>2 DEF OnTrack
    <3>3. CASE Diff(t) + 1 >= Wrap
      <4>1. Diff(t) + 1 = Wrap /\ Diff(t)' = 0
        BY <2>2, <2>3, <3>3 DEF Diff, Minus, Plus, Time
      <4>2. k * Wrap \in Nat /\ (k + 1) * Wrap = k * Wrap + Wrap
        BY Multiples
      <4>3. age'[t] = (k + 1) * Wrap + Diff(t)'
        BY <2>2, <3>1, <2>4, <4>1, <4>2, Ages DEF Time
      <4>4. k + 1 \in Nat
        OBVIOUS
      <4> QED
        BY <4>3, <4>4 DEF OnTrack
    <3> QED
      BY <2>4, <3>2, <3>3, Ages DEF Time
  <2> QED
    BY <2>1, <2>2, <2>3, <2>4 DEF Known, Time, HistoryOK, TypeOK
<1> QED
  BY <1>1, <1>2

\* Giving a timer another interval: one that has expired is not tracked any
\* more, the others keep their start.
LEMMA SettingInterval ==
    ASSUME IInv, NEW t \in Timer, NEW i \in Time, SetInterval(t, i),
           IF expired[t] THEN Track(t, FALSE, 0) ELSE UNCHANGED history
    PROVE  IInv'
<1>1. HistoryOK'
  <2>1. TypeOK'
    BY DEF SetInterval, IInv, HistoryOK, TypeOK
  <2>2. CASE expired[t]
    <3>1. Track(t, FALSE, 0)
      BY <2>2
    <3> QED
      BY <2>1, <3>1 DEF Track, IInv, HistoryOK
  <2>3. CASE ~expired[t]
    BY <2>1, <2>3 DEF history, IInv, HistoryOK
  <2> QED
    BY <2>2, <2>3
<1>2. CASE expired[t]
  BY <1>1, <1>2, Forgetting DEF SetInterval, IInv, HistoryOK, TypeOK
<1>3. CASE ~expired[t]
  <2>1. ASSUME NEW u \in Timer, tracked'[u]
        PROVE  Known(u)'
    <3>1. Known(u)
      BY <1>3, <2>1 DEF IInv, history
    <3>2. CASE u # t
      BY <1>3, <3>1, <3>2, Unchanged
      DEF SetInterval, history, IInv, HistoryOK, TypeOK
    <3>3. CASE u = t
      BY <1>3, <3>1, <3>3
      DEF Known, OnTrack, Diff, Minus, SetInterval, history, IInv, HistoryOK,
          TypeOK
    <3> QED
      BY <3>2, <3>3
  <2> QED
    BY <1>1, <2>1 DEF IInv
<1> QED
  BY <1>2, <1>3

\* Restarting a timer.
LEMMA Restarting ==
    ASSUME IInv, NEW t \in Timer, Restart(t), Track(t, TRUE, 0)
    PROVE  IInv'
<1>1. HistoryOK'
  <2>1. start' \in [Timer -> Time] /\ previous_diff' \in [Timer -> Time]
    BY DEF Restart, IInv, HistoryOK, TypeOK, Time
  <2>2. expired' \in [Timer -> BOOLEAN] /\ running' \in [Timer -> BOOLEAN]
    BY DEF Restart, IInv, HistoryOK, TypeOK
  <2>3. tracked' \in [Timer -> BOOLEAN] /\ age' \in [Timer -> Nat]
        /\ gap' \in [Timer -> 0..Wrap]
    BY DEF Track, IInv, HistoryOK
  <2> QED
    BY <2>1, <2>2, <2>3 DEF Restart, IInv, HistoryOK, TypeOK
<1>2. Known(t)'
  <2>1. expired'[t] = (interval'[t] = 0) /\ (interval'[t] # 0 => running'[t])
    BY DEF Restart, IInv, HistoryOK, TypeOK
  <2>2. age'[t] = 0 /\ gap'[t] = 0
    BY DEF Track, IInv, HistoryOK
  <2>3. start'[t] = clock /\ previous_diff'[t] = 0 /\ clock' = clock
    BY DEF Restart, IInv, HistoryOK, TypeOK
  <2>4. interval'[t] \in Time
    BY DEF Restart, IInv, HistoryOK, TypeOK
  <2> QED
    BY <2>1, <2>2, <2>3, <2>4, Fresh DEF IInv
<1>3. ASSUME NEW u \in Timer, u # t, tracked'[u]
      PROVE  Known(u)'
  <2>1. Known(u)
    BY <1>3 DEF Track, IInv, HistoryOK
  <2> QED
    BY <1>3, <2>1, Unchanged DEF Restart, Track, IInv, HistoryOK, TypeOK
<1> QED
  BY <1>1, <1>2, <1>3 DEF IInv

\* Every step keeps the invariant.
LEMMA Steps == IInv /\ [HistoryNext]_<<vars, history>> => IInv'
<1> SUFFICES ASSUME IInv, [HistoryNext]_<<vars, history>> PROVE IInv'
  OBVIOUS
<1>. HistoryOK /\ TypeOK
  BY DEF IInv, HistoryOK
<1>1. ASSUME NEW t \in Timer, NEW i \in Time, SetNew(t, i), Track(t, TRUE, 0)
      PROVE  IInv'
  BY <1>1, SettingTo DEF SetNew, TypeOK
<1>2. ASSUME NEW t \in Timer, NEW i \in Time, Set(t, i), Track(t, TRUE, 0)
      PROVE  IInv'
  BY <1>2, SettingTo DEF Set, TypeOK
<1>3. ASSUME NEW t \in Timer, NEW i \in Time, SetStart(t, i), Track(t, FALSE, 0)
      PROVE  IInv'
  <2>1. HistoryOK'
    BY <1>3 DEF SetStart, Track, HistoryOK, TypeOK
  <2> QED
    BY <1>3, <2>1, Forgetting DEF SetStart, TypeOK
<1>4. ASSUME NEW t \in Timer, Look(t), See({t})
      PROVE  IInv'
  <2>. DEFINE X == {u \in {t} : Expires(u)}
  <2>1. {t} \in SUBSET Timer /\ X \in SUBSET {t} /\ Looked({t}, X)
    BY <1>4 DEF Look
  <2>2. (\A u \in X : Expires(u)) /\ (\A u \in {t} \ X : ~Due(u))
    BY DEF Expires
  <2>. HIDE DEF X
  <2> QED
    BY <1>4, <2>1, <2>2, Looking
<1>5. ASSUME NEW t \in Timer, Reset(t),
             IF Expires(t) THEN Track(t, tracked[t], age[t] - interval[t])
                           ELSE See({t})
      PROVE  IInv'
  <2>1. CASE Expires(t)
    BY <1>5, <2>1, Resetting
  <2>2. CASE ~Expires(t)
    BY <1>4, <1>5, <2>2 DEF Reset
  <2> QED
    BY <2>1, <2>2
<1>6. ASSUME NEW t \in Timer, Remove(t), Track(t, FALSE, 0)
      PROVE  IInv'
  <2>1. HistoryOK'
    BY <1>6 DEF Remove, Removed, Track, HistoryOK, TypeOK
  <2> QED
    BY <1>6, <2>1, Forgetting DEF Remove, Removed, TypeOK
<1>7. CASE Sleepyhead /\ See({t \in Timer : running[t]})
  <2>. DEFINE T == {t \in Timer : running[t]}
              X == {t \in T : Due(t)}
  <2>1. T \in SUBSET Timer /\ X \in SUBSET T /\ Looked(T, X) /\ See(T)
    BY <1>7 DEF Sleepyhead
  <2>2. (\A t \in X : Expires(t)) /\ (\A t \in T \ X : ~Due(t))
    BY DEF Expires
  <2>. HIDE DEF T, X
  <2> QED
    BY <2>1, <2>2, Looking
<1>8. CASE UNCHANGED <<vars, history>>
  BY <1>8 DEF vars, history, IInv, HistoryOK, TypeOK, Known, OnTrack, Diff, Minus
<1> QED
  BY <1>1, <1>2, <1>3, <1>4, <1>5, <1>6, <1>7, <1>8, SettingInterval, Restarting,
     Ticking
  DEF HistoryNext

\* The invariant implies what is claimed of timers.
LEMMA Claims == IInv => NeverEarly /\ ExactIfSeen /\ SleepyheadSeesAll
<1> SUFFICES ASSUME IInv PROVE NeverEarly /\ ExactIfSeen
  BY DEF IInv, Known, SleepyheadSeesAll
<1>1. NeverEarly
  BY Early DEF NeverEarly, IInv
<1>2. ASSUME NEW t \in Timer, tracked[t], gap[t] < Wrap
      PROVE  Remaining(t) = Left(t)
  <2>1. Known(t) /\ HistoryOK
    BY <1>2 DEF IInv, HistoryOK
  <2>2. CASE Expires(t)
    BY <2>1, <2>2, Early DEF Remaining, Left
  <2>3. CASE ~Expires(t)
    BY <1>2, <2>1, <2>3, Exact DEF Remaining, Left, Minus, HistoryOK, TypeOK, Time
  <2> QED
    BY <2>2, <2>3
<1> QED
  BY <1>1, <1>2 DEF ExactIfSeen

\* The invariant always holds.
LEMMA Invariance == HistorySpec => []IInv
<1>1. HistoryInit => IInv
  BY Initially
<1>2. IInv /\ [HistoryNext]_<<vars, history>> => IInv'
  BY Steps
<1> QED
  BY <1>1, <1>2, PTL DEF HistorySpec

-----------------------------------------------------------------------------
(***************************************************************************)
(* The theorems.                                                           *)
(***************************************************************************)
\* Starts, differences and intervals stay clock readings: the sums and
\* differences in Timer.c lose nothing but whole wraps.
THEOREM TypeCorrect == HistorySpec => []HistoryOK
<1>1. IInv => HistoryOK
  BY DEF IInv
<1> QED
  BY <1>1, Invariance, PTL

\* xcontiki_os_sys_Timer__expired never answers true early.
THEOREM NeverEarlyCorrect == HistorySpec => []NeverEarly
<1>1. IInv => NeverEarly
  BY Claims
<1> QED
  BY <1>1, Invariance, PTL

\* Looked at once in a wrap of the clock, xcontiki_os_sys_Timer__remaining
\* answers the time that is left and __expired is neither early nor late.
THEOREM ExactCorrect == HistorySpec => []ExactIfSeen
<1>1. IInv => ExactIfSeen
  BY Claims
<1> QED
  BY <1>1, Invariance, PTL

\* xcontiki_os_sys_Timer__sleepyhead_thread passes over no timer that has yet
\* to expire.
THEOREM SleepyheadCorrect == HistorySpec => []SleepyheadSeesAll
<1>1. IInv => SleepyheadSeesAll
  BY Claims
<1> QED
  BY <1>1, Invariance, PTL
-----------------------------------------------------------------------------
(***************************************************************************)
(* Timer objects.                                                          *)
(***************************************************************************)
\* An object has the number of a timer or none; the rest is what is claimed.
ObjectsInv ==
    /\ allocated \in [Timer -> BOOLEAN]
    /\ id \in [Object -> Timer \cup {0}]
    /\ TimersAreExclusive

\* Calls that neither give out nor free a timer, nor change what objects keep.
LEMMA NothingGiven ==
    ASSUME ObjectsInv, UNCHANGED <<allocated, id, gone>>, misused => misused'
    PROVE  ObjectsInv'
<1>1. TimersAreExclusive'
  BY DEF ObjectsInv, TimersAreExclusive, IsAllocated
<1> QED
  BY <1>1 DEF ObjectsInv

\* An object without a timer gets one that is free, hence nobody's.
LEMMA GivingATimer ==
    ASSUME ObjectsInv, NEW o \in Object, NEW t \in Timer, ~allocated[t],
           allocated' = [allocated EXCEPT ![t] = TRUE],
           id[o] = 0, id' = [id EXCEPT ![o] = t], gone' = gone,
           misused => misused'
    PROVE  ObjectsInv'
<1> USE DEF ObjectsInv
<1>1. allocated' \in [Timer -> BOOLEAN] /\ id' \in [Object -> Timer \cup {0}]
  OBVIOUS
<1>2. id'[o] = t /\ (\A q \in Object : q # o => id'[q] = id[q])
      /\ allocated'[t] /\ (\A u \in Timer : allocated[u] => allocated'[u])
  OBVIOUS
<1>3. ASSUME ~misused'
      PROVE  \A q \in Object \ gone : id[q] # 0 =>
                 /\ id[q] \in Timer /\ allocated[id[q]] /\ id[q] # t
                 /\ \A r \in Object \ gone : id[r] = id[q] => r = q
  BY <1>3 DEF TimersAreExclusive, IsAllocated
<1>4. TimersAreExclusive'
  <2> SUFFICES ASSUME ~misused', NEW q \in Object \ gone, id'[q] # 0
               PROVE  /\ allocated'[id'[q]]
                      /\ \A r \in Object \ gone : id'[r] = id'[q] => r = q
    BY <1>2 DEF TimersAreExclusive, IsAllocated
  <2>1. CASE q = o
    BY <1>2, <1>3, <2>1
  <2>2. CASE q # o
    BY <1>2, <1>3, <2>2
  <2> QED
    BY <2>1, <2>2
<1> QED
  BY <1>1, <1>4

\* An object is removed.  No other one that is left has its timer.
LEMMA Removing ==
    ASSUME ObjectsInv, NEW o \in Object, id[o] # 0, Remove(id[o]),
           gone' = gone \cup {o}, id' = id,
           misused \/ o \in gone => misused'
    PROVE  ObjectsInv'
<1> USE DEF ObjectsInv
<1>1. allocated' = [t \in Timer |-> allocated[t] /\ t # id[o]]
  BY DEF Remove, Removed
<1>2. allocated' \in [Timer -> BOOLEAN]
  BY <1>1
<1>3. TimersAreExclusive'
  <2> SUFFICES ASSUME ~misused', NEW q \in Object \ gone', id[q] # 0
               PROVE  /\ allocated'[id[q]]
                      /\ \A r \in Object \ gone' : id[r] = id[q] => r = q
    BY DEF TimersAreExclusive, IsAllocated
  <2>1. ~misused /\ o \in Object \ gone /\ q \in Object \ gone /\ q # o
    OBVIOUS
  <2>2. /\ id[q] \in Timer /\ allocated[id[q]]
        /\ \A r \in Object \ gone : id[r] = id[q] => r = q
    BY <2>1 DEF TimersAreExclusive, IsAllocated
  <2>3. id[q] # id[o]
    BY <2>1, <2>2
  <2> QED
    BY <1>1, <2>2, <2>3
<1> QED
  BY <1>2, <1>3

\* Every step keeps the invariant.
LEMMA ObjectSteps == ObjectsInv /\ [ObjectsNext]_objectVars => ObjectsInv'
<1> SUFFICES ASSUME ObjectsInv, [ObjectsNext]_objectVars PROVE ObjectsInv'
  OBVIOUS
<1>1. ASSUME NEW o \in Object, ObjectCall(o)
      PROVE  ObjectsInv'
  <2>1. misused' = (misused \/ o \in gone)
    BY <1>1 DEF ObjectCall
  <2>2. ASSUME NEW i \in Time, ObjectSet(o, i)
        PROVE  ObjectsInv'
    <3>1. CASE id[o] # 0
      BY <2>1, <2>2, <3>1, NothingGiven DEF ObjectSet, Set
    <3>2. CASE id[o] = 0
      BY <2>1, <2>2, <3>2, GivingATimer DEF ObjectSet, SetNew
    <3> QED
      BY <3>1, <3>2
  <2>3. CASE Through(o, Reset(id[o])) \/ Through(o, Restart(id[o]))
    BY <2>1, <2>3, NothingGiven DEF Through, Reset, Restart, Look, Looked
  <2>4. CASE ObjectRemove(o)
    BY <2>1, <2>4, Removing DEF ObjectRemove
  <2> QED
    BY <1>1, <2>2, <2>3, <2>4 DEF ObjectCall
<1>2. ASSUME NEW o \in Object, ObjectLook(o)
      PROVE  ObjectsInv'
  BY <1>2, NothingGiven DEF ObjectLook, Through, Look, Looked
<1>3. CASE (Sleepyhead \/ Tick) /\ UNCHANGED <<id, gone, misused>>
  BY <1>3, NothingGiven DEF Sleepyhead, Looked, Tick
<1>4. CASE UNCHANGED objectVars
  BY <1>4, NothingGiven DEF objectVars, vars
<1> QED
  BY <1>1, <1>2, <1>3, <1>4 DEF ObjectsNext

\* Timer.h: for any number of timers and of objects, objects that are not used
\* after their removal have a timer each.
THEOREM ExclusiveCorrect == ObjectsSpec => []TimersAreExclusive
<1>1. ObjectsInit => ObjectsInv
  BY DEF ObjectsInit, Init, ObjectsInv, TimersAreExclusive
<1>2. ObjectsInv /\ [ObjectsNext]_objectVars => ObjectsInv'
  BY ObjectSteps
<1>3. ObjectsInv => TimersAreExclusive
  BY DEF ObjectsInv
<1> QED
  BY <1>1, <1>2, <1>3, PTL DEF ObjectsSpec
=============================================================================

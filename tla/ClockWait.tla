------------------------------ MODULE ClockWait ------------------------------
(***************************************************************************)
(* The busy waits of xcontiki_arch_Clock.c, wait and delay_usec: a loop    *)
(* that reads a clock which wraps until it has come far enough.  Between   *)
(* two readings there may be interrupts of any length.                     *)
(***************************************************************************)
EXTENDS Integers

CONSTANTS
    ClockWrap,  \* 2 ^ the width of the clock
    Frequency,  \* XCONTIKI_ARCH_CLOCK__FREQUENCY
    Million,    \* the microseconds in a second
    MaxElapsed  \* bound: the real time that a wait is followed for

VARIABLES
    interval,   \* ticks to wait for
    prev_diff,
    waiting,
    elapsed,    \* history: the real time since the wait began
    seen        \* history: the real time at the last reading; -1 if a whole
                \* wrap has once hidden between two readings

waitVars == <<interval, prev_diff, waiting, elapsed, seen>>

\* delay_usec rounds microseconds to ticks.
Ticks(dt) == (dt * Frequency + Frequency \div 2) \div Million

\* A wait for no ticks returns at once; a delay always begins its loop.
WaitInit ==
    /\ interval \in (1..(ClockWrap - 1)) \cup {Ticks(dt) : dt \in 0..(ClockWrap - 1)}
    /\ prev_diff = 0
    /\ waiting = TRUE
    /\ elapsed = 0 /\ seen = 0

Diff == elapsed % ClockWrap

\* Fault: the clock is not expected to wrap.
DoneNoWrap == Diff >= interval

Done == Diff >= interval \/ Diff < prev_diff

\* A reading.  One that is the same as the last one is as good as none.
Read ==
    /\ waiting
    /\ Diff # prev_diff
    /\ waiting' = ~Done
    /\ prev_diff' = IF Done THEN prev_diff ELSE Diff
    /\ seen' = IF Done \/ seen = -1 THEN seen ELSE elapsed
    /\ UNCHANGED <<interval, elapsed>>

Pass ==
    /\ waiting
    /\ elapsed < MaxElapsed
    /\ elapsed' = elapsed + 1
    /\ seen' = IF seen = -1 \/ elapsed' - seen >= ClockWrap THEN -1 ELSE seen
    /\ UNCHANGED <<interval, prev_diff, waiting>>

WaitNext == Read \/ Pass

WaitSpec == WaitInit /\ [][WaitNext]_waitVars
-----------------------------------------------------------------------------
\* A wait is never too short, however the clock wraps meanwhile, and it ends at
\* the first reading at which it has been long enough, unless a whole wrap of the
\* clock has hidden between two readings.
WaitIsExact ==
    /\ ~waiting => elapsed >= interval
    /\ waiting => seen < interval \/ interval = 0
=============================================================================

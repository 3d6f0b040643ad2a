---------------------------- MODULE MCScheduler ----------------------------
EXTENDS SchedulerHistory

\* A task without an interval, and two whose intervals are less and more than half a wrap.
Intervals == [t \in 0..2 |-> t]
=============================================================================

------------------------------ MODULE MCTimers ------------------------------
(***************************************************************************)
(* The timers for TLC: a behaviour either follows the real time of every   *)
(* timer, or has the calls made through timer objects.                     *)
(***************************************************************************)
EXTENDS TimerHistory, TimerObjects

VARIABLE through    \* whether the calls are made through objects

TimersInit == HistoryInit /\ ObjectsInit /\ through \in BOOLEAN

TimersNext ==
    /\ UNCHANGED through
    /\ IF through THEN ObjectsNext /\ UNCHANGED history
                  ELSE HistoryNext /\ UNCHANGED <<id, gone, misused>>

TimersSpec ==
    /\ TimersInit
    /\ [][TimersNext]_<<vars, history, id, gone, misused, through>>
=============================================================================

----------------------------- MODULE TimerObjects -----------------------------
(***************************************************************************)
(* The timer objects that XCONTIKI_OS_SYS_TIMER__NEW_STATIC defines, over  *)
(* the timers of module Timer.  An object keeps the number of its timer,   *)
(* 0 until it is set.  remove frees the timer, but the number stays.       *)
(***************************************************************************)
EXTENDS Timer

CONSTANT Object

VARIABLES
    id,         \* _<timer>_id of an object
    gone,       \* history: the objects that have been removed
    misused     \* history: an object that had been removed was used again

objectVars == <<vars, id, gone, misused>>

\* A call other than set, which the library does not take for timer 0.
Through(o, A) == id[o] # 0 /\ A /\ UNCHANGED <<id, gone>>

ObjectSet(o, i) ==
    \/ id[o] # 0 /\ Set(id[o], i) /\ UNCHANGED <<id, gone>>
    \/ /\ id[o] = 0
       /\ \E t \in Timer : SetNew(t, i) /\ id' = [id EXCEPT ![o] = t]
       /\ UNCHANGED gone

ObjectRemove(o) ==
    /\ id[o] # 0
    /\ Remove(id[o])
    /\ gone' = gone \cup {o}
    /\ UNCHANGED id

ObjectCall(o) ==
    /\ \/ \E i \in Time : ObjectSet(o, i)
       \/ Through(o, Reset(id[o])) \/ Through(o, Restart(id[o]))
       \/ ObjectRemove(o)
    /\ misused' = (misused \/ o \in gone)

\* expired and remaining, which may be asked of a removed object as well.
ObjectLook(o) == Through(o, Look(id[o])) /\ UNCHANGED misused

\* What is_allocated answers.
IsAllocated(o) == id[o] # 0 /\ allocated[id[o]]

ObjectsInit ==
    /\ Init
    /\ id = [o \in Object |-> 0]
    /\ gone = {}
    /\ misused = FALSE

ObjectsNext ==
    \/ \E o \in Object : ObjectCall(o) \/ ObjectLook(o)
    \/ (Sleepyhead \/ Tick) /\ UNCHANGED <<id, gone, misused>>

ObjectsSpec == ObjectsInit /\ [][ObjectsNext]_objectVars
-----------------------------------------------------------------------------
\* An object has its timer for itself, although objects do not know of each
\* other and timers are given out again after a removal.  There is one way to
\* lose this: an object is used after it was removed.  Its calls then go to
\* whatever object has been given its timer since.
TimersAreExclusive ==
    ~misused =>
        \A o \in Object \ gone : id[o] # 0 =>
            /\ IsAllocated(o)
            /\ \A q \in Object \ gone : id[q] = id[o] => q = o
=============================================================================

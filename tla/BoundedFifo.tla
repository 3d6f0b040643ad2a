----------------------------- MODULE BoundedFifo -----------------------------
(***************************************************************************)
(* What the event queue of the process module and the ring buffers of      *)
(* os/lib promise: a first-in, first-out queue of at most Capacity items,  *)
(* whose put is refused when it is full and whose take when it is empty.   *)
(***************************************************************************)
EXTENDS Naturals, Sequences

CONSTANTS
    Item,       \* what is queued
    Capacity,   \* how many items fit
    Nothing     \* handed out before the first take

VARIABLES
    items,      \* the queued items, oldest first
    out         \* the item handed out last

Init == items = <<>> /\ out = Nothing

Put(x) == Len(items) < Capacity /\ items' = Append(items, x) /\ UNCHANGED out

Take == items # <<>> /\ items' = Tail(items) /\ out' = Head(items)

\* Initialising the queue again drops what it holds.
Clear == items' = <<>> /\ UNCHANGED out

Next == (\E x \in Item : Put(x)) \/ Take \/ Clear

Spec == Init /\ [][Next]_<<items, out>>
=============================================================================

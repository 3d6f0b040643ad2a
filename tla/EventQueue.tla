------------------------------ MODULE EventQueue ------------------------------
(***************************************************************************)
(* The queue of pending events, xcontiki_os_sys_Process_priv.h:58-61: a    *)
(* ring of NumEvents slots, the oldest event in slot fevent and nevents of *)
(* them pending.  Both counters are unsigned chars, and the slot of a new  *)
(* event is computed with a cast to that type.                             *)
(*                                                                         *)
(* The three arrays of a slot (event, data, destination) are always read   *)
(* and written together: an Event here is what they hold.                  *)
(***************************************************************************)
EXTENDS Integers, Sequences

CONSTANTS
    Event,      \* events with their data and destination
    NumEvents,  \* XCONTIKI_OS_SYS_PROCESS__CONF_NUMEVENTS
    Wrap,       \* 2 ^ the width of xcontiki_os_sys_Process__num_events_t
    Zero        \* what a slot holds before its first event

ASSUME NumEventsAssumption == NumEvents \in Nat \ {0}
ASSUME WrapAssumption      == Wrap \in Nat \ {0}

\* The configuration must keep the sum of the counters in their type: with
\* an unsigned char, at most 128 events.
ASSUME FitsAssumption == 2 * NumEvents - 2 < Wrap /\ NumEvents < Wrap

VARIABLES
    nevents, fevent,    \* the counters
    events,             \* events_ev, events_data, events_destination_process_ptr
    taken               \* ev, data and receiver: what do_event has read last

vars == <<nevents, fevent, events, taken>>

Slots == 0..(NumEvents - 1)

TypeOK ==
    /\ nevents \in 0..NumEvents
    /\ fevent \in Slots
    /\ events \in [Slots -> Event \cup {Zero}]
    /\ taken \in Event \cup {Zero}

\* The slot of a new event; the cast binds tighter than the remainder.
FreeSlot == ((fevent + nevents) % Wrap) % NumEvents

\* Fault: the test for a full queue is for one event more.
FullLate == nevents = NumEvents + 1

Full == nevents = NumEvents

Init ==
    /\ nevents = 0
    /\ fevent = 0
    /\ events = [i \in Slots |-> Zero]
    /\ taken = Zero

\* xcontiki_os_sys_Process__post_event_via_queue; a full queue is left alone.
Post(e) ==
    /\ ~Full
    /\ events' = [events EXCEPT ![FreeSlot] = e]
    /\ nevents' = (nevents + 1) % Wrap
    /\ UNCHANGED <<fevent, taken>>

\* do_event reads the oldest event, then moves the counters.
Take ==
    /\ nevents > 0
    /\ taken' = events[fevent]
    /\ fevent' = (fevent + 1) % NumEvents
    /\ nevents' = nevents - 1
    /\ UNCHANGED events

\* Fault: only the place of the oldest event is initialised again.
InitializeFirst ==
    /\ fevent' = 0
    /\ UNCHANGED <<nevents, events, taken>>

\* initialize_the_process_module, when the system is initialised again.
Initialize ==
    /\ nevents' = 0
    /\ fevent' = 0
    /\ UNCHANGED <<events, taken>>

Next == (\E e \in Event : Post(e)) \/ Take \/ Initialize

Spec == Init /\ [][Next]_vars
-----------------------------------------------------------------------------
\* The pending events, oldest first.
Pending == [i \in 1..nevents |-> events[(fevent + i - 1) % NumEvents]]

Fifo == INSTANCE BoundedFifo
            WITH Item <- Event, Capacity <- NumEvents, Nothing <- Zero,
                 items <- Pending, out <- taken

\* The ring is a first-in, first-out queue of NumEvents events: no pending
\* event is overwritten, lost, repeated or reordered when the counters wrap,
\* and do_event reads the oldest one, never what a slot held before.
IsFifo == Fifo!Spec
=============================================================================

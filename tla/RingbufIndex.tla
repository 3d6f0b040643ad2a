---------------------------- MODULE RingbufIndex ----------------------------
(***************************************************************************)
(* The ring of indices, xcontiki_os_lib_RingbufIndex.c, and the array that *)
(* its user keeps.  One user puts and one takes, and one of them may be an *)
(* interrupt: a step of either comes between any two steps of the other.   *)
(*                                                                         *)
(* A user asks for an index (peek_put, peek_get), uses the slot, and then  *)
(* moves the ring on (put, get), which check once more.  The user who      *)
(* takes may also call get at once and use the slot that it returns.  Only *)
(* one user writes a pointer, so that these are one step each.  The size   *)
(* is a power of two, so that x & mask is the remainder by the size.  RingInit *)
(* with another size makes a ring like any other of that size.             *)
(***************************************************************************)
EXTENDS Integers

CONSTANTS
    Item,   \* what the slots hold
    Blank,  \* what they hold at first
    Size    \* the size of the ring, a power of two up to 128

VARIABLES
    put_ptr, get_ptr,
    slots,      \* the array of the user
    putting,    \* where the user who puts is, and what it puts
    getting,    \* where the user who takes is, and what it has read
    last        \* what was taken last

producer == <<put_ptr, slots, putting>>
consumer == <<get_ptr, getting, last>>
ringVars == <<producer, consumer>>

Index == 0..(Size - 1)

User == [at : {"idle", "peeked", "used", "got"}, item : Item \cup {Blank}]

RingOK ==
    /\ put_ptr \in Index
    /\ get_ptr \in Index
    /\ slots \in [Index -> Item \cup {Blank}]
    /\ putting \in User
    /\ getting \in User
    /\ last \in Item \cup {Blank}
-----------------------------------------------------------------------------
Idle == [at |-> "idle", item |-> Blank]

After(p) == (p + 1) % Size

Elements == (put_ptr - get_ptr) % Size

\* Fault: the slot that tells a full ring from an empty one is given away.
RingFullLate == Elements = Size

RingFull == Elements = Size - 1

\* Fault: the test for an item is ">= 0" instead of "> 0".
EmptyLate == ~(Elements >= 0)

Empty == Elements = 0

\* peek_put finds room; when it finds none, the user does not go on.
PeekPut(c) ==
    /\ putting.at = "idle"
    /\ ~RingFull
    /\ putting' = [at |-> "peeked", item |-> c]
    /\ UNCHANGED <<put_ptr, slots, consumer>>

Store ==
    /\ putting.at = "peeked"
    /\ slots' = [slots EXCEPT ![put_ptr] = putting.item]
    /\ putting' = [putting EXCEPT !.at = "used"]
    /\ UNCHANGED <<put_ptr, consumer>>

\* xcontiki_os_lib_RingbufIndex__put: a full ring is left as it is.
Put ==
    /\ putting.at = "used"
    /\ put_ptr' = IF RingFull THEN put_ptr ELSE After(put_ptr)
    /\ putting' = Idle
    /\ UNCHANGED <<slots, consumer>>

\* peek_get finds an item.
PeekGet ==
    /\ getting.at = "idle"
    /\ ~Empty
    /\ getting' = [getting EXCEPT !.at = "peeked"]
    /\ UNCHANGED <<producer, get_ptr, last>>

Load ==
    /\ getting.at = "peeked"
    /\ getting' = [at |-> "used", item |-> slots[get_ptr]]
    /\ UNCHANGED <<producer, get_ptr, last>>

\* xcontiki_os_lib_RingbufIndex__get: an empty ring is left as it is.
Get ==
    /\ getting.at = "used"
    /\ get_ptr' = IF Empty THEN get_ptr ELSE After(get_ptr)
    /\ last' = getting.item
    /\ getting' = Idle
    /\ UNCHANGED producer

\* get without peek_get finds an item, and returns its index.
GetFirst ==
    /\ getting.at = "idle"
    /\ ~Empty
    /\ get_ptr' = After(get_ptr)
    /\ last' = slots[get_ptr]
    /\ getting' = [getting EXCEPT !.at = "got"]
    /\ UNCHANGED producer

\* The slot is read only now.
LoadLate ==
    /\ getting.at = "got"
    /\ getting' = Idle
    /\ UNCHANGED <<producer, get_ptr, last>>

\* xcontiki_os_lib_RingbufIndex__init, when nobody uses the ring.
InitializeIndex ==
    /\ putting = Idle /\ getting = Idle
    /\ put_ptr' = 0 /\ get_ptr' = 0
    /\ UNCHANGED <<slots, putting, getting, last>>

RingInit ==
    /\ put_ptr = 0 /\ get_ptr = 0
    /\ slots = [s \in Index |-> Blank]
    /\ putting = Idle /\ getting = Idle
    /\ last = Blank

IndexNext ==
    \/ \E c \in Item : PeekPut(c)
    \/ Store \/ Put
    \/ PeekGet \/ Load \/ Get \/ GetFirst \/ LoadLate
    \/ InitializeIndex

IndexSpec == RingInit /\ [][IndexNext]_ringVars
-----------------------------------------------------------------------------
\* What a user was told about the ring before it used the slot is still so when
\* it moves the ring on, whatever the other user has done meanwhile.  And a slot
\* that get has already given back still holds its item when the user reads it:
\* even a ring filled up meanwhile leaves that one slot alone.
PeekHolds ==
    /\ putting.at # "idle" => Elements < Size - 1
    /\ getting.at \in {"peeked", "used"} => Elements > 0
    /\ getting.at = "got" => slots[(get_ptr - 1) % Size] = last

\* The slots between the pointers, oldest first.
InRing == [k \in 1..Elements |-> slots[(get_ptr + k - 1) % Size]]

RingFifo == INSTANCE BoundedFifo
                WITH Capacity <- Size - 1, Nothing <- Blank,
                     items <- InRing, out <- last

\* The ring and its array are a first-in, first-out queue of Size - 1 items:
\* whatever the interleaving, no slot is read before it was written or written
\* before it was read.
RingIsFifo == RingFifo!Spec
=============================================================================

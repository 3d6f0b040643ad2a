------------------------------ MODULE Ringbuf ------------------------------
(***************************************************************************)
(* The ring of bytes, xcontiki_os_lib_Ringbuf.c.  It is the ring of module *)
(* RingbufIndex with an array of its own.  put and get check first, then   *)
(* access the slot and then move on, without another check; an interrupt   *)
(* that calls the other one comes between any of these.                    *)
(***************************************************************************)
EXTENDS RingbufIndex

\* xcontiki_os_lib_Ringbuf__put: the check, the byte, the pointer.  A full ring
\* is left as it is.
PutCheck(c) == PeekPut(c)

PutByte == Store

PutPointer ==
    /\ putting.at = "used"
    /\ put_ptr' = After(put_ptr)
    /\ putting' = Idle
    /\ UNCHANGED <<slots, consumer>>

\* xcontiki_os_lib_Ringbuf__get: the check, the byte, the pointer.  An empty
\* ring is left as it is.
GetCheck == PeekGet

GetByte == Load

GetPointer ==
    /\ getting.at = "used"
    /\ get_ptr' = After(get_ptr)
    /\ last' = getting.item
    /\ getting' = Idle
    /\ UNCHANGED producer

\* xcontiki_os_lib_Ringbuf__init, when nobody uses the ring.
InitializeRing == InitializeIndex

ByteNext ==
    \/ \E c \in Item : PutCheck(c)
    \/ PutByte \/ PutPointer
    \/ GetCheck \/ GetByte \/ GetPointer
    \/ InitializeRing

ByteSpec == RingInit /\ [][ByteNext]_ringVars
=============================================================================

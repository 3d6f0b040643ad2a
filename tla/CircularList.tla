---------------------------- MODULE CircularList ----------------------------
(***************************************************************************)
(* Circular, singly-linked lists, xcontiki_os_lib_CircularList.c.  The     *)
(* elements belong to the caller and hold the pointers; one that is taken  *)
(* out keeps its pointer.  The library is not for interrupts, so each call *)
(* is one step.                                                            *)
(***************************************************************************)
EXTENDS Integers, FiniteSets

CONSTANTS
    Element,
    NULL

VARIABLES
    head,   \* *cl
    next,   \* the next pointer of each element
    added   \* history: what was added and not removed since

list == <<head, next, added>>

ListInit ==
    /\ head = NULL
    /\ next = [e \in Element |-> NULL]
    /\ added = {}
-----------------------------------------------------------------------------
\* Where k turns of a loop over the list arrive.
Arrival[k \in Nat] == IF k = 0 THEN head ELSE next[Arrival[k - 1]]

\* What a loop over the list passes; no more turns than elements are needed.
Members == IF head = NULL THEN {} ELSE {Arrival[k] : k \in 1..Cardinality(Element)}

\* xcontiki_os_lib_CircularList__length answers n: its loop meets the head again
\* after n turns.
IsLength(n) ==
    IF head = NULL
    THEN n = 0
    ELSE n > 0 /\ Arrival[n] = head /\ \A k \in 1..(n - 1) : Arrival[k] # head

Previous(e) == CHOOSE p \in Members : next[p] = e

\* Fault: the head stays although it may be what was removed.
UnlinkedKeepsHead(e) ==
    IF e \in Members
    THEN [head |-> IF next[e] = e THEN NULL ELSE head,
          next |-> [next EXCEPT ![Previous(e)] = next[e]]]
    ELSE [head |-> head, next |-> next]

\* The list without e; the element before e becomes the head.
Unlinked(e) ==
    IF e \in Members
    THEN [head |-> IF next[e] = e THEN NULL ELSE Previous(e),
          next |-> [next EXCEPT ![Previous(e)] = next[e]]]
    ELSE [head |-> head, next |-> next]

RemoveElement(e) ==
    /\ head' = Unlinked(e).head
    /\ next' = Unlinked(e).next
    /\ added' = added \ {e}

\* An element is taken out before it is linked behind the head, and is the head
\* then.
AddElement(e) ==
    LET rest == Unlinked(e) IN
    /\ head' = e
    /\ next' = IF rest.head = NULL
               THEN [rest.next EXCEPT ![e] = e]
               ELSE [rest.next EXCEPT ![e] = rest.next[rest.head], ![rest.head] = e]
    /\ added' = added \cup {e}

InitializeList ==
    /\ head' = NULL
    /\ UNCHANGED next
    /\ added' = {}

ListNext ==
    \/ \E e \in Element : AddElement(e) \/ RemoveElement(e)
    \/ InitializeList

ListSpec == ListInit /\ [][ListNext]_list
-----------------------------------------------------------------------------
\* The elements that were added and not removed form one cycle through the head:
\* a loop from the head passes each of them once and ends, whatever pointers
\* other elements have kept from earlier lists.
IsCycle == Members = added /\ IsLength(Cardinality(added))
=============================================================================

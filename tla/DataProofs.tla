---------------------------- MODULE DataProofs -----------------------------
(***************************************************************************)
(* The data structures, for every size.  The rings of os/lib, whose users  *)
(* work in the slots in place and so must be told what holds until they    *)
(* move the ring on, and the ring of events of the kernel, whose sums of   *)
(* counters must fit the type of the counters, are first-in, first-out     *)
(* queues.  The elements of a circular list are one cycle.                 *)
(***************************************************************************)
EXTENDS EventQueue, Ringbuf, CircularList, SequenceTheorems, FiniteSetTheorems,
        WellFoundedInduction, TLAPS

\* Remainders of what is less than one divisor off.
LEMMA ModSmall == ASSUME NEW n \in Nat \ {0}, NEW x \in 0..(n - 1) PROVE x % n = x
  BY SMT
LEMMA ModOnce == ASSUME NEW n \in Nat \ {0}, NEW x \in n..(2 * n - 1) PROVE x % n = x - n
  BY SMT
LEMMA ModBelow == ASSUME NEW n \in Nat \ {0}, NEW x \in (-n)..(-1) PROVE x % n = x + n
  BY SMT

\* Slots counted round a ring of n from f.
LEMMA Round ==
    ASSUME NEW n \in Nat \ {0}, NEW f \in 0..(n - 1), NEW i \in 0..n
    PROVE  /\ (f + i) % n = IF f + i < n THEN f + i ELSE f + i - n
           /\ (f + i) % n \in 0..(n - 1)
<1>1. CASE f + i < n
  <2>1. f + i \in 0..(n - 1)
    BY <1>1
  <2>. QED
    BY <1>1, <2>1, ModSmall
<1>2. CASE ~(f + i < n)
  <2>1. PICK x \in n..(2 * n - 1) : x = f + i
    BY <1>2
  <2>2. x % n = x - n
    BY ModOnce
  <2>. QED
    BY <1>2, <2>1, <2>2
<1>. QED
  BY <1>1, <1>2

LEMMA FunctionIsSeq ==
    ASSUME NEW S, NEW n \in Nat, NEW f \in [1..n -> S]
    PROVE  f \in Seq(S) /\ Len(f) = n
  OBVIOUS
-----------------------------------------------------------------------------
(***************************************************************************)
(* The rings of os/lib.                                                    *)
(***************************************************************************)
SizeOK == Size \in Nat \ {0}

\* A slot in use holds what its user puts or has read.
SlotsHold ==
    /\ putting.at = "used" => slots[put_ptr] = putting.item
    /\ getting.at = "used" => getting.item = slots[get_ptr]
    /\ putting.at # "idle" => putting.item \in Item
    /\ putting.at # "got"

RingSlots == \A k \in 1..Elements : slots[(get_ptr + k - 1) % Size] \in Item

RingInv == RingOK /\ PeekHolds /\ SlotsHold /\ RingSlots
-----------------------------------------------------------------------------
LEMMA RoundRing ==
    ASSUME SizeOK, NEW f \in Index, NEW i \in 0..Size
    PROVE  /\ (f + i) % Size = IF f + i < Size THEN f + i ELSE f + i - Size
           /\ (f + i) % Size \in Index
  BY Round DEF Index, SizeOK

LEMMA AfterIs ==
    ASSUME SizeOK, NEW p \in Index
    PROVE  After(p) = (IF p + 1 < Size THEN p + 1 ELSE 0) /\ After(p) \in Index
<1>1. 1 \in 0..Size /\ p \in 0..(Size - 1)
  BY DEF SizeOK, Index
<1>2. (p + 1) % Size = (IF p + 1 < Size THEN p + 1 ELSE p + 1 - Size)
      /\ (p + 1) % Size \in Index
  BY <1>1, RoundRing
<1>. QED
  BY <1>1, <1>2 DEF After, SizeOK

\* The distance between two slots.
LEMMA Distance ==
    ASSUME SizeOK, NEW p \in Index, NEW g \in Index
    PROVE  /\ (p - g) % Size = IF g <= p THEN p - g ELSE p - g + Size
           /\ (p - g) % Size \in 0..(Size - 1)
<1>1. CASE g <= p
  <2>1. p - g \in 0..(Size - 1)
    BY <1>1 DEF Index, SizeOK
  <2>. QED
    BY <1>1, <2>1, ModSmall DEF SizeOK
<1>2. CASE ~(g <= p)
  <2>1. PICK x \in (-Size)..(-1) : x = p - g
    BY <1>2 DEF Index, SizeOK
  <2>2. x % Size = x + Size
    BY ModBelow DEF SizeOK
  <2>. QED
    BY <1>2, <2>1, <2>2 DEF Index, SizeOK
<1>. QED
  BY <1>1, <1>2

\* The slot before the first one, which get has given back.
LEMMA BehindIs ==
    ASSUME SizeOK, NEW g \in Index
    PROVE  /\ (g - 1) % Size = IF g = 0 THEN Size - 1 ELSE g - 1
           /\ (g - 1) % Size \in Index
           /\ (After(g) - 1) % Size = g
<1>1. ASSUME NEW h \in Index PROVE (h - 1) % Size = (IF h = 0 THEN Size - 1 ELSE h - 1)
  <2>1. CASE h = 0
    <3>1. -1 \in (-Size)..(-1) /\ h - 1 = -1
      BY <2>1 DEF SizeOK
    <3>. QED
      BY <2>1, <3>1, ModBelow DEF SizeOK
  <2>2. CASE h # 0
    <3>1. h - 1 \in 0..(Size - 1)
      BY <2>2 DEF Index, SizeOK
    <3>. QED
      BY <2>2, <3>1, ModSmall DEF SizeOK
  <2>. QED
    BY <2>1, <2>2
<1>2. After(g) = (IF g + 1 < Size THEN g + 1 ELSE 0) /\ After(g) \in Index
  BY AfterIs
<1>. QED
  BY <1>1, <1>2 DEF Index, SizeOK
-----------------------------------------------------------------------------
LEMMA ElementsAre ==
    ASSUME SizeOK, RingOK
    PROVE  /\ put_ptr \in Index /\ get_ptr \in Index
           /\ put_ptr \in 0..(Size - 1) /\ get_ptr \in 0..(Size - 1) /\ Size \in Nat \ {0}
           /\ Elements = IF get_ptr <= put_ptr THEN put_ptr - get_ptr
                                               ELSE put_ptr - get_ptr + Size
           /\ Elements \in 0..(Size - 1)
  BY Distance DEF RingOK, Elements, Index, SizeOK

\* The slot of the k-th pending item.
LEMMA RingSlotIs ==
    ASSUME SizeOK, RingOK, NEW k \in 1..Size
    PROVE  /\ (get_ptr + k - 1) % Size = IF get_ptr + k - 1 < Size THEN get_ptr + k - 1
                                         ELSE get_ptr + k - 1 - Size
           /\ (get_ptr + k - 1) % Size \in Index
<1>1. get_ptr \in Index /\ k - 1 \in 0..Size /\ get_ptr + k - 1 = get_ptr + (k - 1)
  BY ElementsAre DEF SizeOK
<1>. QED
  BY <1>1, RoundRing

LEMMA RingSeq ==
    ASSUME SizeOK, RingOK, RingSlots
    PROVE  /\ InRing \in Seq(Item) /\ Len(InRing) = Elements
           /\ \A k \in 1..Elements : InRing[k] = slots[(get_ptr + k - 1) % Size]
<1>1. Elements \in Nat
  BY ElementsAre
<1>2. InRing \in [1..Elements -> Item]
  BY DEF InRing, RingSlots
<1>3. \A k \in 1..Elements : InRing[k] = slots[(get_ptr + k - 1) % Size]
  BY DEF InRing
<1>. QED
  BY <1>1, <1>2, <1>3, FunctionIsSeq

\* Writing the free slot touches neither what is pending nor what was given back.
LEMMA StoreKeeps ==
    ASSUME SizeOK, RingInv, Store
    PROVE  /\ Elements' = Elements /\ InRing' = InRing
           /\ slots'[put_ptr] = putting.item
           /\ Elements > 0 => slots'[get_ptr] = slots[get_ptr]
           /\ slots'[(get_ptr - 1) % Size] = slots[(get_ptr - 1) % Size]
           /\ RingSlots' /\ RingOK'
<1>1. /\ RingOK /\ RingSlots /\ Elements < Size - 1
      /\ slots' = [slots EXCEPT ![put_ptr] = putting.item]
      /\ put_ptr' = put_ptr /\ get_ptr' = get_ptr /\ Elements' = Elements
      /\ putting' = [putting EXCEPT !.at = "used"] /\ putting.at = "peeked"
      /\ getting' = getting /\ last' = last
  BY DEF RingInv, PeekHolds, Store, consumer, Elements
<1>2. /\ put_ptr \in 0..(Size - 1) /\ get_ptr \in 0..(Size - 1) /\ Size \in Nat \ {0}
      /\ put_ptr \in Index /\ get_ptr \in Index
      /\ Elements = IF get_ptr <= put_ptr THEN put_ptr - get_ptr
                                          ELSE put_ptr - get_ptr + Size
      /\ Elements \in 0..(Size - 1)
  BY <1>1, ElementsAre
<1>3. slots \in [Index -> Item \cup {Blank}] /\ putting \in User
  BY <1>1 DEF RingOK
<1>4. ASSUME NEW k \in 1..Elements
      PROVE  (get_ptr + k - 1) % Size \in Index /\ (get_ptr + k - 1) % Size # put_ptr
  <2>1. k \in 1..Size
    BY <1>2
  <2>2. /\ (get_ptr + k - 1) % Size = IF get_ptr + k - 1 < Size THEN get_ptr + k - 1
                                      ELSE get_ptr + k - 1 - Size
        /\ (get_ptr + k - 1) % Size \in Index
    BY <1>1, <2>1, RingSlotIs
  <2>. QED
    BY <1>2, <2>1, <2>2
<1>5. \A k \in 1..Elements : slots'[(get_ptr + k - 1) % Size]
                               = slots[(get_ptr + k - 1) % Size]
  BY <1>1, <1>3, <1>4
<1>6. InRing' = InRing
  BY <1>1, <1>5 DEF InRing
<1>7. slots'[put_ptr] = putting.item
  BY <1>1, <1>2, <1>3
<1>8. Elements > 0 => slots'[get_ptr] = slots[get_ptr]
  BY <1>1, <1>2, <1>3
<1>9. slots'[(get_ptr - 1) % Size] = slots[(get_ptr - 1) % Size]
  <2>1. /\ (get_ptr - 1) % Size = IF get_ptr = 0 THEN Size - 1 ELSE get_ptr - 1
        /\ (get_ptr - 1) % Size \in Index
    BY <1>2, BehindIs
  <2>2. (get_ptr - 1) % Size # put_ptr
    BY <1>1, <1>2, <2>1
  <2>. QED
    BY <1>1, <1>3, <2>1, <2>2
<1>10. RingSlots'
  BY <1>1, <1>5 DEF RingSlots
<1>11. RingOK'
  <2>1. putting.item \in Item \cup {Blank} /\ putting' \in User
    BY <1>1, <1>3 DEF User
  <2>. QED
    BY <1>1, <1>2, <2>1 DEF RingOK
<1>. QED
  BY <1>1, <1>6, <1>7, <1>8, <1>9, <1>10, <1>11

\* Moving the pointer past the slot just written appends its item.
LEMMA PutAppends ==
    ASSUME SizeOK, RingInv, putting.at = "used",
           put_ptr' = After(put_ptr), get_ptr' = get_ptr, slots' = slots
    PROVE  /\ put_ptr' \in Index
           /\ Elements < Size - 1 /\ Elements' = Elements + 1
           /\ Len(InRing) < Size - 1
           /\ putting.item \in Item /\ InRing' = Append(InRing, putting.item)
           /\ RingSlots'
<1>1. /\ RingOK /\ RingSlots /\ Elements < Size - 1
      /\ slots[put_ptr] = putting.item /\ putting.item \in Item
  BY DEF RingInv, PeekHolds, SlotsHold
<1>2. /\ put_ptr \in 0..(Size - 1) /\ get_ptr \in 0..(Size - 1) /\ Size \in Nat \ {0}
      /\ put_ptr \in Index /\ get_ptr \in Index
      /\ Elements = IF get_ptr <= put_ptr THEN put_ptr - get_ptr
                                          ELSE put_ptr - get_ptr + Size
      /\ Elements \in 0..(Size - 1)
  BY <1>1, ElementsAre
<1>3. put_ptr' = (IF put_ptr + 1 < Size THEN put_ptr + 1 ELSE 0) /\ put_ptr' \in Index
  BY <1>2, AfterIs
<1>4. Elements' = Elements + 1
  <2>1. Elements' = IF get_ptr <= put_ptr' THEN put_ptr' - get_ptr
                                           ELSE put_ptr' - get_ptr + Size
    BY <1>2, <1>3, Distance DEF Elements
  <2>. QED
    BY <1>1, <1>2, <1>3, <2>1
<1>5. ASSUME NEW k \in 1..(Elements + 1)
      PROVE  slots[(get_ptr + k - 1) % Size]
               = IF k = Elements + 1 THEN putting.item ELSE slots[(get_ptr + k - 1) % Size]
  <2>1. k \in 1..Size
    BY <1>1, <1>2
  <2>2. (get_ptr + k - 1) % Size = IF get_ptr + k - 1 < Size THEN get_ptr + k - 1
                                   ELSE get_ptr + k - 1 - Size
    BY <1>1, <2>1, RingSlotIs
  <2>3. k = Elements + 1 => (get_ptr + k - 1) % Size = put_ptr
    BY <1>2, <2>1, <2>2
  <2>. QED
    BY <1>1, <2>3
<1>6. RingSlots'
  <2>1. ASSUME NEW k \in 1..(Elements + 1) PROVE slots[(get_ptr + k - 1) % Size] \in Item
    <3>1. k = Elements + 1 \/ k \in 1..Elements
      BY <1>2
    <3>. QED
      BY <1>1, <1>5, <3>1 DEF RingSlots
  <2>. QED
    BY <1>4, <2>1 DEF RingSlots
<1>7. /\ InRing \in Seq(Item) /\ Len(InRing) = Elements
      /\ \A k \in 1..Elements : InRing[k] = slots[(get_ptr + k - 1) % Size]
  BY <1>1, RingSeq
<1>8. /\ InRing' \in Seq(Item) /\ Len(InRing') = Elements + 1
      /\ \A k \in 1..(Elements + 1) : InRing'[k] = slots[(get_ptr + k - 1) % Size]
  <2>1. Elements + 1 \in Nat
    BY <1>2
  <2>2. InRing' = [k \in 1..(Elements + 1) |-> slots[(get_ptr + k - 1) % Size]]
    BY <1>4 DEF InRing
  <2>3. InRing' \in [1..(Elements + 1) -> Item]
    BY <1>4, <1>6, <2>2 DEF RingSlots
  <2>. QED
    BY <2>1, <2>2, <2>3, FunctionIsSeq
<1>9. /\ Append(InRing, putting.item) \in Seq(Item)
      /\ Len(Append(InRing, putting.item)) = Elements + 1
      /\ \A k \in 1..Elements : Append(InRing, putting.item)[k] = InRing[k]
      /\ Append(InRing, putting.item)[Elements + 1] = putting.item
  BY <1>1, <1>7, AppendProperties
<1>10. ASSUME NEW k \in 1..(Elements + 1)
       PROVE  InRing'[k] = Append(InRing, putting.item)[k]
  <2>1. CASE k = Elements + 1
    BY <1>5, <1>8, <1>9, <2>1
  <2>2. CASE k # Elements + 1
    <3>1. k \in 1..Elements
      BY <1>2, <2>2
    <3>. QED
      BY <1>7, <1>8, <1>9, <3>1
  <2>. QED
    BY <2>1, <2>2
<1>11. InRing' = Append(InRing, putting.item)
  BY <1>8, <1>9, <1>10, SeqEqual
<1>. QED
  BY <1>1, <1>3, <1>4, <1>6, <1>7, <1>11

\* Moving the pointer past the oldest item takes it.
LEMMA GetTakes ==
    ASSUME SizeOK, RingOK, RingSlots, Elements > 0,
           get_ptr' = After(get_ptr), put_ptr' = put_ptr, slots' = slots
    PROVE  /\ get_ptr' \in Index
           /\ Elements' = Elements - 1
           /\ InRing # <<>> /\ InRing' = Tail(InRing)
           /\ slots[get_ptr] = Head(InRing) /\ slots[get_ptr] \in Item
           /\ RingSlots'
<1>1. /\ put_ptr \in 0..(Size - 1) /\ get_ptr \in 0..(Size - 1) /\ Size \in Nat \ {0}
      /\ put_ptr \in Index /\ get_ptr \in Index
      /\ Elements = IF get_ptr <= put_ptr THEN put_ptr - get_ptr
                                          ELSE put_ptr - get_ptr + Size
      /\ Elements \in 1..(Size - 1)
  BY ElementsAre
<1>2. get_ptr' = (IF get_ptr + 1 < Size THEN get_ptr + 1 ELSE 0) /\ get_ptr' \in Index
  BY <1>1, AfterIs
<1>3. Elements' = Elements - 1
  <2>1. Elements' = IF get_ptr' <= put_ptr THEN put_ptr - get_ptr'
                                           ELSE put_ptr - get_ptr' + Size
    BY <1>1, <1>2, Distance DEF Elements
  <2>. QED
    BY <1>1, <1>2, <2>1
<1>4. ASSUME NEW k \in 1..(Elements - 1)
      PROVE  (get_ptr' + k - 1) % Size = (get_ptr + (k + 1) - 1) % Size
  <2>1. k - 1 \in 0..Size /\ k \in 0..Size
        /\ get_ptr' + k - 1 = get_ptr' + (k - 1) /\ get_ptr + (k + 1) - 1 = get_ptr + k
    BY <1>1, <1>2
  <2>2. (get_ptr' + (k - 1)) % Size = IF get_ptr' + (k - 1) < Size THEN get_ptr' + (k - 1)
                                      ELSE get_ptr' + (k - 1) - Size
    BY <1>2, <2>1, RoundRing
  <2>3. (get_ptr + k) % Size = IF get_ptr + k < Size THEN get_ptr + k ELSE get_ptr + k - Size
    BY <1>1, <2>1, RoundRing
  <2>. QED
    BY <1>1, <1>2, <2>1, <2>2, <2>3
<1>5. /\ InRing \in Seq(Item) /\ Len(InRing) = Elements
      /\ \A k \in 1..Elements : InRing[k] = slots[(get_ptr + k - 1) % Size]
  BY RingSeq
<1>6. InRing # <<>>
  BY <1>1, <1>5, EmptySeq
<1>7. slots[get_ptr] = Head(InRing) /\ slots[get_ptr] \in Item
  <2>1. 1 \in 1..Elements /\ get_ptr + 1 - 1 = get_ptr
    BY <1>1
  <2>2. get_ptr % Size = get_ptr
    BY <1>1, ModSmall
  <2>3. InRing[1] = slots[get_ptr] /\ slots[get_ptr] \in Item
    BY <1>5, <2>1, <2>2 DEF RingSlots
  <2>. QED
    BY <1>5, <1>6, <2>3
<1>8. ASSUME NEW k \in 1..(Elements - 1)
      PROVE  /\ slots[(get_ptr' + k - 1) % Size] = InRing[k + 1]
             /\ slots[(get_ptr' + k - 1) % Size] \in Item
  <2>1. k + 1 \in 1..Elements
    BY <1>1
  <2>. QED
    BY <1>4, <1>5, <2>1 DEF RingSlots
<1>9. RingSlots'
  BY <1>3, <1>8 DEF RingSlots
<1>10. /\ InRing' \in Seq(Item) /\ Len(InRing') = Elements - 1
       /\ \A k \in 1..(Elements - 1) : InRing'[k] = InRing[k + 1]
  <2>1. Elements - 1 \in Nat
    BY <1>1
  <2>2. InRing' = [k \in 1..(Elements - 1) |-> slots[(get_ptr' + k - 1) % Size]]
    BY <1>3 DEF InRing
  <2>3. InRing' \in [1..(Elements - 1) -> Item]
    BY <1>8, <2>2
  <2>. QED
    BY <1>8, <2>1, <2>2, <2>3, FunctionIsSeq
<1>11. /\ Tail(InRing) \in Seq(Item) /\ Len(Tail(InRing)) = Elements - 1
       /\ \A k \in 1..(Elements - 1) : Tail(InRing)[k] = InRing[k + 1]
  BY <1>5, <1>6, HeadTailProperties
<1>12. InRing' = Tail(InRing)
  BY <1>10, <1>11, SeqEqual
<1>. QED
  BY <1>2, <1>3, <1>6, <1>7, <1>9, <1>12
-----------------------------------------------------------------------------
\* A step leaves the items as they are.
Stutters == InRing' = InRing /\ last' = last

LEMMA PeekPutStep ==
    ASSUME SizeOK, RingInv, NEW c \in Item, PeekPut(c)
    PROVE  RingInv' /\ Stutters
<1>1. /\ RingOK /\ PeekHolds /\ SlotsHold /\ RingSlots
      /\ putting' = [at |-> "peeked", item |-> c] /\ Elements # Size - 1
      /\ put_ptr' = put_ptr /\ slots' = slots /\ get_ptr' = get_ptr
      /\ getting' = getting /\ last' = last
  BY DEF RingInv, PeekPut, consumer, RingFull
<1>2. Elements' = Elements /\ Elements < Size - 1
  BY <1>1, ElementsAre DEF Elements
<1>3. RingOK'
  BY <1>1 DEF RingOK, User
<1>4. PeekHolds' /\ SlotsHold' /\ RingSlots'
  BY <1>1, <1>2 DEF PeekHolds, SlotsHold, RingSlots
<1>. QED
  BY <1>1, <1>2, <1>3, <1>4 DEF RingInv, Stutters, InRing

LEMMA StoreStep ==
    ASSUME SizeOK, RingInv, Store
    PROVE  RingInv' /\ Stutters
<1>1. /\ PeekHolds /\ SlotsHold /\ putting.at = "peeked"
      /\ putting \in User /\ putting' = [putting EXCEPT !.at = "used"]
      /\ put_ptr' = put_ptr /\ get_ptr' = get_ptr
      /\ getting' = getting /\ last' = last
  BY DEF RingInv, RingOK, Store, consumer
<1>2. putting'.at = "used" /\ putting'.item = putting.item
  BY <1>1 DEF User
<1>3. PeekHolds' /\ SlotsHold'
  BY <1>1, <1>2, StoreKeeps DEF PeekHolds, SlotsHold
<1>. QED
  BY <1>1, <1>3, StoreKeeps DEF RingInv, Stutters

LEMMA PutStep ==
    ASSUME SizeOK, RingInv, Put \/ PutPointer
    PROVE  RingInv' /\ RingFifo!Put(putting.item) /\ putting.item \in Item
<1>1. /\ putting.at = "used" /\ ~RingFull
      /\ RingOK /\ PeekHolds /\ SlotsHold /\ Elements \in 0..(Size - 1)
  BY ElementsAre DEF RingInv, PeekHolds, Put, PutPointer, RingFull, SizeOK
<1>2. /\ put_ptr' = After(put_ptr) /\ get_ptr' = get_ptr /\ slots' = slots
      /\ putting' = Idle /\ getting' = getting /\ last' = last
  BY <1>1 DEF Put, PutPointer, consumer
<1>3. /\ put_ptr' \in Index /\ Elements < Size - 1 /\ Elements' = Elements + 1
      /\ Len(InRing) < Size - 1
      /\ putting.item \in Item /\ InRing' = Append(InRing, putting.item)
      /\ RingSlots'
  BY <1>1, <1>2, PutAppends
<1>4. RingOK'
  BY <1>1, <1>2, <1>3 DEF RingOK, User, Idle
<1>5. PeekHolds' /\ SlotsHold'
  BY <1>1, <1>2, <1>3 DEF PeekHolds, SlotsHold, Idle
<1>. QED
  BY <1>2, <1>3, <1>4, <1>5 DEF RingInv, RingFifo!Put

LEMMA PeekGetStep ==
    ASSUME SizeOK, RingInv, PeekGet
    PROVE  RingInv' /\ Stutters
<1>1. /\ RingOK /\ PeekHolds /\ SlotsHold /\ RingSlots /\ Elements # 0
      /\ getting \in User /\ getting' = [getting EXCEPT !.at = "peeked"]
      /\ put_ptr' = put_ptr /\ slots' = slots /\ putting' = putting
      /\ get_ptr' = get_ptr /\ last' = last
  BY DEF RingInv, RingOK, PeekGet, producer, Empty
<1>2. Elements' = Elements /\ Elements > 0 /\ getting'.at = "peeked" /\ getting' \in User
  BY <1>1, ElementsAre DEF Elements, User
<1>3. RingOK'
  BY <1>1, <1>2 DEF RingOK
<1>4. PeekHolds' /\ SlotsHold' /\ RingSlots'
  BY <1>1, <1>2 DEF PeekHolds, SlotsHold, RingSlots
<1>. QED
  BY <1>1, <1>2, <1>3, <1>4 DEF RingInv, Stutters, InRing

LEMMA LoadStep ==
    ASSUME SizeOK, RingInv, Load
    PROVE  RingInv' /\ Stutters
<1>1. /\ RingOK /\ PeekHolds /\ SlotsHold /\ RingSlots /\ getting.at = "peeked"
      /\ getting' = [at |-> "used", item |-> slots[get_ptr]]
      /\ put_ptr' = put_ptr /\ slots' = slots /\ putting' = putting
      /\ get_ptr' = get_ptr /\ last' = last
  BY DEF RingInv, Load, producer
<1>2. Elements' = Elements
  BY <1>1 DEF Elements
<1>3. RingOK'
  BY <1>1 DEF RingOK, User
<1>4. PeekHolds' /\ SlotsHold' /\ RingSlots'
  BY <1>1, <1>2 DEF PeekHolds, SlotsHold, RingSlots
<1>. QED
  BY <1>1, <1>2, <1>3, <1>4 DEF RingInv, Stutters, InRing

LEMMA GetStep ==
    ASSUME SizeOK, RingInv, Get \/ GetPointer
    PROVE  RingInv' /\ RingFifo!Take
<1>1. /\ getting.at = "used" /\ Elements > 0 /\ ~Empty
      /\ RingOK /\ PeekHolds /\ SlotsHold /\ RingSlots
  BY ElementsAre DEF RingInv, PeekHolds, Get, GetPointer, Empty
<1>2. /\ get_ptr' = After(get_ptr) /\ put_ptr' = put_ptr /\ slots' = slots
      /\ putting' = putting /\ getting' = Idle /\ last' = slots[get_ptr]
  BY <1>1 DEF Get, GetPointer, producer, SlotsHold
<1>3. /\ get_ptr' \in Index /\ Elements' = Elements - 1
      /\ InRing # <<>> /\ InRing' = Tail(InRing)
      /\ slots[get_ptr] = Head(InRing) /\ slots[get_ptr] \in Item
      /\ RingSlots'
  BY <1>1, <1>2, GetTakes
<1>4. RingOK'
  BY <1>1, <1>2, <1>3 DEF RingOK, User, Idle
<1>5. PeekHolds' /\ SlotsHold'
  <2>1. Elements \in 0..(Size - 1) /\ Size \in Nat
    BY <1>1, ElementsAre
  <2>. QED
    BY <1>1, <1>2, <1>3, <2>1 DEF PeekHolds, SlotsHold, Idle
<1>. QED
  BY <1>2, <1>3, <1>4, <1>5 DEF RingInv, RingFifo!Take

LEMMA GetFirstStep ==
    ASSUME SizeOK, RingInv, GetFirst
    PROVE  RingInv' /\ RingFifo!Take
<1>1. /\ RingOK /\ PeekHolds /\ SlotsHold /\ RingSlots
      /\ getting \in User /\ getting' = [getting EXCEPT !.at = "got"]
      /\ Elements # 0
      /\ get_ptr' = After(get_ptr) /\ put_ptr' = put_ptr /\ slots' = slots
      /\ putting' = putting /\ last' = slots[get_ptr]
  BY DEF RingInv, RingOK, GetFirst, producer, Empty
<1>2. /\ Elements \in 1..(Size - 1) /\ Size \in Nat /\ get_ptr \in Index
  BY <1>1, ElementsAre
<1>3. /\ get_ptr' \in Index /\ Elements' = Elements - 1
      /\ InRing # <<>> /\ InRing' = Tail(InRing)
      /\ slots[get_ptr] = Head(InRing) /\ slots[get_ptr] \in Item
      /\ RingSlots'
  BY <1>1, <1>2, GetTakes
<1>4. getting'.at = "got" /\ getting' \in User
  BY <1>1 DEF User
<1>5. RingOK'
  BY <1>1, <1>3, <1>4 DEF RingOK
<1>6. slots'[(get_ptr' - 1) % Size] = last'
  BY <1>1, <1>2, BehindIs
<1>7. PeekHolds' /\ SlotsHold'
  BY <1>1, <1>2, <1>3, <1>4, <1>6 DEF PeekHolds, SlotsHold
<1>. QED
  BY <1>1, <1>3, <1>5, <1>7 DEF RingInv, RingFifo!Take

LEMMA LoadLateStep ==
    ASSUME SizeOK, RingInv, LoadLate
    PROVE  RingInv' /\ Stutters
<1>1. /\ RingOK /\ PeekHolds /\ SlotsHold /\ RingSlots
      /\ getting' = Idle
      /\ put_ptr' = put_ptr /\ slots' = slots /\ putting' = putting
      /\ get_ptr' = get_ptr /\ last' = last
  BY DEF RingInv, LoadLate, producer
<1>2. Elements' = Elements
  BY <1>1 DEF Elements
<1>3. RingOK'
  BY <1>1 DEF RingOK, User, Idle
<1>4. PeekHolds' /\ SlotsHold' /\ RingSlots'
  BY <1>1, <1>2 DEF PeekHolds, SlotsHold, RingSlots, Idle
<1>. QED
  BY <1>1, <1>2, <1>3, <1>4 DEF RingInv, Stutters, InRing

\* An empty ring.
LEMMA Emptied ==
    ASSUME SizeOK, put_ptr = 0, get_ptr = 0
    PROVE  Elements = 0 /\ InRing = <<>> /\ RingSlots
<1>1. 0 \in 0..(Size - 1) /\ 0 \in Index
  BY DEF SizeOK, Index
<1>2. Elements = 0
  BY <1>1, Distance DEF Elements
<1>. QED
  BY <1>2 DEF InRing, RingSlots

LEMMA InitStep ==
    ASSUME SizeOK, RingInit
    PROVE  RingInv /\ RingFifo!Init
<1>1. RingOK
  BY DEF RingInit, RingOK, SizeOK, Index, User, Idle
<1>. QED
  BY <1>1, Emptied DEF RingInit, RingInv, PeekHolds, SlotsHold, Idle, RingFifo!Init

LEMMA InitializeStep ==
    ASSUME SizeOK, RingInv, InitializeIndex
    PROVE  RingInv' /\ RingFifo!Clear
<1>1. /\ RingOK /\ putting = Idle /\ getting = Idle
      /\ put_ptr' = 0 /\ get_ptr' = 0
      /\ slots' = slots /\ putting' = putting /\ getting' = getting /\ last' = last
  BY DEF RingInv, InitializeIndex
<1>2. 0 \in 0..(Size - 1) /\ 0 \in Index
  BY DEF SizeOK, Index
<1>3. Elements' = 0
  BY <1>1, <1>2, Distance DEF Elements
<1>4. RingOK'
  BY <1>1, <1>2 DEF RingOK
<1>5. PeekHolds' /\ SlotsHold' /\ RingSlots' /\ InRing' = <<>>
  BY <1>1, <1>3 DEF PeekHolds, SlotsHold, RingSlots, InRing, Idle
<1>. QED
  BY <1>1, <1>4, <1>5 DEF RingInv, RingFifo!Clear

LEMMA NextStep ==
    ASSUME SizeOK, RingInv, [IndexNext \/ ByteNext]_ringVars
    PROVE  RingInv' /\ [RingFifo!Next]_<<InRing, last>>
<1>1. CASE UNCHANGED ringVars
  BY <1>1 DEF ringVars, producer, consumer, RingInv, RingOK, PeekHolds, SlotsHold, RingSlots,
              Elements, InRing
<1>2. ASSUME NEW c \in Item, PeekPut(c) PROVE RingInv' /\ Stutters
  BY <1>2, PeekPutStep
<1>3. CASE Store
  BY <1>3, StoreStep DEF Stutters
<1>4. CASE Put \/ PutPointer
  BY <1>4, PutStep DEF RingFifo!Next
<1>5. CASE PeekGet
  BY <1>5, PeekGetStep DEF Stutters
<1>6. CASE Load
  BY <1>6, LoadStep DEF Stutters
<1>7. CASE Get \/ GetPointer
  BY <1>7, GetStep DEF RingFifo!Next
<1>8. CASE GetFirst
  BY <1>8, GetFirstStep DEF RingFifo!Next
<1>9. CASE LoadLate
  BY <1>9, LoadLateStep DEF Stutters
<1>10. CASE InitializeIndex
  BY <1>10, InitializeStep DEF RingFifo!Next
<1>. QED
  BY <1>1, <1>2, <1>3, <1>4, <1>5, <1>6, <1>7, <1>8, <1>9, <1>10
     DEF IndexNext, ByteNext, PutCheck, PutByte, GetCheck, GetByte, InitializeRing, Stutters
-----------------------------------------------------------------------------
LEMMA RingInvariant ==
    ASSUME SizeOK
    PROVE  (IndexSpec \/ ByteSpec) => []RingInv
<1>1. RingInit => RingInv
  BY InitStep
<1>2. RingInv /\ [IndexNext]_ringVars => RingInv'
  BY NextStep
<1>3. RingInv /\ [ByteNext]_ringVars => RingInv'
  BY NextStep
<1>. QED
  BY <1>1, <1>2, <1>3, PTL DEF IndexSpec, ByteSpec

\* RingbufIndex.c, Ringbuf.c: what one user was told holds until it moves the
\* ring on, for every size.
THEOREM PeekCorrect ==
    ASSUME SizeOK
    PROVE  (IndexSpec \/ ByteSpec) => []PeekHolds
<1>1. RingInv => PeekHolds
  BY DEF RingInv
<1>. QED
  BY <1>1, RingInvariant, PTL

\* RingbufIndex.c, Ringbuf.c: either ring is a first-in, first-out queue of one
\* item less than its size.
THEOREM RingCorrect ==
    ASSUME SizeOK
    PROVE  (IndexSpec \/ ByteSpec) => RingIsFifo
<1>1. RingInit => RingFifo!Init
  BY InitStep
<1>2. RingInv /\ [IndexNext]_ringVars => [RingFifo!Next]_<<InRing, last>>
  BY NextStep
<1>3. RingInv /\ [ByteNext]_ringVars => [RingFifo!Next]_<<InRing, last>>
  BY NextStep
<1>. QED
  BY <1>1, <1>2, <1>3, RingInvariant, PTL DEF IndexSpec, ByteSpec, RingIsFifo, RingFifo!Spec
-----------------------------------------------------------------------------
(***************************************************************************)
(* Induction over a loop.  The theorems of the library about recursive     *)
(* definitions take operators; a set of numbers does instead.              *)
(***************************************************************************)
\* A set of natural numbers has a least one.
LEMMA Least ==
    ASSUME NEW S \in SUBSET Nat, S # {}
    PROVE  \E m \in S : \A k \in S : m <= k
<1>. DEFINE R == OpToRel(<, Nat)
<1>1. IsWellFoundedOn(R, Nat)
  BY NatLessThanWellFounded
<1>2. \A x, y \in Nat : <<y, x>> \in R <=> y < x
  BY DEF OpToRel
<1>. HIDE DEF R
<1>3. PICK m \in S : \A k \in S : ~ (<<k, m>> \in R)
  BY <1>1, WFMin
<1>4. ASSUME NEW k \in S
      PROVE  m <= k
  <2>1. m \in Nat /\ k \in Nat /\ ~ (<<k, m>> \in R)
    BY <1>3
  <2>2. ~ (k < m)
    BY <1>2, <2>1
  <2> QED
    BY <2>1, <2>2
<1> QED
  BY <1>4

\* Induction, for a set of natural numbers.
LEMMA NatSet ==
    ASSUME NEW S \in SUBSET Nat, 0 \in S, \A n \in S : n + 1 \in S
    PROVE  S = Nat
<1> SUFFICES ASSUME Nat \ S # {} PROVE FALSE
  OBVIOUS
<1>1. PICK m \in Nat \ S : \A k \in Nat \ S : m <= k
  BY Least
<1>2. m # 0 /\ m - 1 \in Nat /\ m - 1 \in S
  BY <1>1
<1> QED
  BY <1>1, <1>2

\* The first n turns of a loop that begins at h and follows nx.
Path(n, A, h, nx) ==
    {g \in [0..n -> A] : g[0] = h /\ \A i \in 0..(n - 1) : g[i + 1] = nx[g[i]]}

\* There is one such path and no other.
LEMMA OnePath ==
    ASSUME NEW A, NEW h \in A, NEW nx, \A x \in A : nx[x] \in A, NEW n \in Nat
    PROVE  \E g \in Path(n, A, h, nx) : Path(n, A, h, nx) = {g}
<1>. DEFINE S == {k \in Nat : \E g \in Path(k, A, h, nx) : Path(k, A, h, nx) = {g}}
<1>1. 0 \in S
  <2>. DEFINE g == [i \in 0..0 |-> h]
  <2>1. g \in Path(0, A, h, nx)
    BY DEF Path
  <2>2. ASSUME NEW f \in Path(0, A, h, nx)
        PROVE  f = g
    BY DEF Path
  <2> QED
    BY <2>1, <2>2
<1>2. ASSUME NEW k \in S
      PROVE  k + 1 \in S
  <2>1. PICK g \in Path(k, A, h, nx) : Path(k, A, h, nx) = {g}
    OBVIOUS
  <2>. DEFINE f == [i \in 0..(k + 1) |-> IF i = k + 1 THEN nx[g[k]] ELSE g[i]]
  <2>2. /\ g \in [0..k -> A] /\ g[0] = h /\ k \in Nat
        /\ \A i \in 0..(k - 1) : g[i + 1] = nx[g[i]]
    BY <2>1 DEF Path
  <2>3. f \in Path(k + 1, A, h, nx)
    <3>1. f \in [0..(k + 1) -> A] /\ f[0] = h
      BY <2>2
    <3>2. ASSUME NEW i \in 0..(k + 1 - 1)
          PROVE  f[i + 1] = nx[f[i]]
      BY <2>2
    <3> QED
      BY <3>1, <3>2 DEF Path
  <2>4. ASSUME NEW d \in Path(k + 1, A, h, nx)
        PROVE  d = f
    <3>1. /\ d \in [0..(k + 1) -> A] /\ d[0] = h
          /\ \A i \in 0..k : d[i + 1] = nx[d[i]]
      BY <2>2 DEF Path
    <3>. DEFINE c == [i \in 0..k |-> d[i]]
    <3>2. c \in Path(k, A, h, nx)
      <4>1. c \in [0..k -> A] /\ c[0] = h
        BY <2>2, <3>1
      <4>2. ASSUME NEW i \in 0..(k - 1)
            PROVE  c[i + 1] = nx[c[i]]
        BY <2>2, <3>1
      <4> QED
        BY <4>1, <4>2 DEF Path
    <3>3. c = g
      BY <2>1, <3>2
    <3>4. ASSUME NEW i \in 0..(k + 1)
          PROVE  d[i] = f[i]
      <4>1. CASE i = k + 1
        <5>1. d[k + 1] = nx[d[k]] /\ d[k] = g[k]
          BY <2>2, <3>1, <3>3
        <5> QED
          BY <4>1, <5>1
      <4>2. CASE i # k + 1
        <5>1. i \in 0..k
          BY <2>2, <4>2
        <5> QED
          BY <3>3, <4>2, <5>1
      <4> QED
        BY <4>1, <4>2
    <3>. HIDE DEF c
    <3>5. f \in [0..(k + 1) -> A]
      BY <2>3 DEF Path
    <3>. HIDE DEF f
    <3> QED
      BY <3>1, <3>4, <3>5
  <2>. HIDE DEF f
  <2>5. k + 1 \in Nat /\ Path(k + 1, A, h, nx) = {f}
    BY <2>2, <2>3, <2>4
  <2> QED
    BY <2>5
<1>3. S = Nat
  <2>. HIDE DEF S
  <2>1. S \in SUBSET Nat
    BY DEF S
  <2> QED
    BY <1>1, <1>2, <2>1, NatSet
<1> QED
  BY <1>3

\* So the recursion of Arrival is one that a function solves.
LEMMA Loop ==
    ASSUME NEW A, NEW h \in A, NEW nx, \A x \in A : nx[x] \in A
    PROVE  \E f : f = [k \in Nat |-> IF k = 0 THEN h ELSE nx[f[k - 1]]]
<1>. DEFINE P(n) == Path(n, A, h, nx)
            g(n) == CHOOSE g \in P(n) : TRUE
            f == [k \in Nat |-> g(k)[k]]
<1>1. ASSUME NEW n \in Nat
      PROVE  P(n) = {g(n)}
  BY OnePath
<1>2. ASSUME NEW n \in Nat, n # 0
      PROVE  g(n)[n] = nx[g(n - 1)[n - 1]]
  <2>1. /\ g(n) \in [0..n -> A] /\ g(n)[0] = h
        /\ \A i \in 0..(n - 1) : g(n)[i + 1] = nx[g(n)[i]]
    <3>1. g(n) \in P(n)
      BY <1>1
    <3>. HIDE DEF g
    <3> QED
      BY <3>1 DEF Path
  <2>2. n - 1 \in Nat
    BY <1>2
  <2>. DEFINE c == [i \in 0..(n - 1) |-> g(n)[i]]
  <2>3. c \in P(n - 1)
    <3>. HIDE DEF g
    <3>1. c \in [0..(n - 1) -> A] /\ c[0] = h
      BY <2>1, <2>2
    <3>2. ASSUME NEW i \in 0..(n - 1 - 1)
          PROVE  c[i + 1] = nx[c[i]]
      BY <2>1, <2>2
    <3>. HIDE DEF c
    <3> QED
      BY <3>1, <3>2 DEF Path
  <2>4. c = g(n - 1)
    <3>. HIDE DEF g, P, c
    <3> QED
      BY <1>1, <2>2, <2>3
  <2>5. c[n - 1] = g(n)[n - 1]
    BY <2>2
  <2>6. g(n)[n] = nx[g(n)[n - 1]]
    <3>. HIDE DEF g
    <3>1. n - 1 \in 0..(n - 1) /\ n - 1 + 1 = n
      BY <2>2
    <3> QED
      BY <2>1, <3>1
  <2>. HIDE DEF g, c
  <2> QED
    BY <2>4, <2>5, <2>6
<1>3. g(0)[0] = h
  <2>1. g(0) \in P(0)
    BY <1>1
  <2>. HIDE DEF g
  <2> QED
    BY <2>1 DEF Path
<1>. HIDE DEF g
<1>4. f = [k \in Nat |-> IF k = 0 THEN h ELSE nx[f[k - 1]]]
  <2>1. ASSUME NEW k \in Nat
        PROVE  f[k] = IF k = 0 THEN h ELSE nx[f[k - 1]]
    BY <1>2, <1>3
  <2>2. f = [k \in Nat |-> f[k]]
    OBVIOUS
  <2>. HIDE DEF f
  <2> QED
    BY <2>1, <2>2
<1> QED
  BY <1>4

\* What Arrival is, on a set that the loop does not leave.
LEMMA ArrivalIs ==
    ASSUME NEW A, head \in A, \A x \in A : next[x] \in A
    PROVE  /\ Arrival[0] = head
           /\ \A k \in Nat : Arrival[k + 1] = next[Arrival[k]]
           /\ \A k \in Nat : Arrival[k] \in A
<1>1. \E f : f = [k \in Nat |-> IF k = 0 THEN head ELSE next[f[k - 1]]]
  BY Loop
<1>2. Arrival = [k \in Nat |-> IF k = 0 THEN head ELSE next[Arrival[k - 1]]]
  BY <1>1 DEF Arrival
<1>. HIDE DEF Arrival
<1>3. Arrival[0] = head /\ \A k \in Nat : Arrival[k + 1] = next[Arrival[k]]
  <2>1. ASSUME NEW k \in Nat
        PROVE  Arrival[k] = IF k = 0 THEN head ELSE next[Arrival[k - 1]]
    BY <1>2
  <2>2. \A k \in Nat : k + 1 # 0 /\ k + 1 \in Nat /\ k + 1 - 1 = k
    OBVIOUS
  <2> QED
    BY <2>1, <2>2
<1>. DEFINE S == {k \in Nat : Arrival[k] \in A}
<1>4. S = Nat
  <2>1. 0 \in S /\ S \in SUBSET Nat
    BY <1>3
  <2>2. ASSUME NEW k \in S
        PROVE  k + 1 \in S
    BY <1>3
  <2>. HIDE DEF S
  <2> QED
    BY <2>1, <2>2, NatSet
<1> QED
  BY <1>3, <1>4
-----------------------------------------------------------------------------
(***************************************************************************)
(* The circular list.                                                      *)
(***************************************************************************)
\* The elements of a list are finitely many objects; NULL is none.
ListOK == IsFiniteSet(Element) /\ NULL \notin Element

\* The pointers n lead from every element of S to one of S.
Closed(S, n) == \A x \in S : n[x] \in S

\* The elements of A are one cycle of the pointers n, of which h is the head: the
\* pointers lead from A to A, no two to the same element, and no part of A is
\* closed.
Cycle(h, n, A) ==
    /\ A \subseteq Element
    /\ n \in [Element -> Element \cup {NULL}]
    /\ IF A = {} THEN h = NULL ELSE h \in A
    /\ Closed(A, n)
    /\ \A x, y \in A : n[x] = n[y] => x = y
    /\ \A S \in SUBSET A : S # {} /\ Closed(S, n) => S = A

\* Every element of a cycle is behind one of the cycle.
LEMMA Before ==
    ASSUME NEW h, NEW n, NEW A, Cycle(h, n, A), NEW e \in A
    PROVE  \E p \in A : n[p] = e
<1>. DEFINE S == {n[x] : x \in A}
<1>1. S \in SUBSET A /\ S # {} /\ Closed(S, n)
  BY DEF Cycle, Closed
<1>2. S = A
  <2>. HIDE DEF S
  <2> QED
    BY <1>1 DEF Cycle
<1> QED
  BY <1>2

\* An element behind itself is the whole cycle.
LEMMA Alone ==
    ASSUME NEW h, NEW n, NEW A, Cycle(h, n, A), NEW e \in A
    PROVE  n[e] = e <=> A = {e}
<1>1. ASSUME n[e] = e
      PROVE  A = {e}
  <2>1. {e} \in SUBSET A /\ {e} # {} /\ Closed({e}, n)
    BY <1>1 DEF Closed
  <2> QED
    BY <2>1 DEF Cycle
<1>2. ASSUME A = {e}
      PROVE  n[e] = e
  BY <1>2 DEF Cycle, Closed
<1> QED
  BY <1>1, <1>2

\* A cycle without the element e behind p is one.
LEMMA Shorter ==
    ASSUME ListOK, NEW h, NEW n, NEW A, Cycle(h, n, A), NEW p \in A, NEW e \in A, n[p] = e
    PROVE  Cycle(IF n[e] = e THEN NULL ELSE p, [n EXCEPT ![p] = n[e]], A \ {e})
<1>. DEFINE m == [n EXCEPT ![p] = n[e]]
            B == A \ {e}
<1>1. /\ A \subseteq Element /\ n \in [Element -> Element \cup {NULL}]
      /\ \A x \in A : n[x] \in A
      /\ \A x, y \in A : n[x] = n[y] => x = y
      /\ \A S \in SUBSET A : S # {} /\ Closed(S, n) => S = A
  BY DEF Cycle, Closed
<1>2. m \in [Element -> Element \cup {NULL}]
  BY <1>1
<1>3. /\ m[p] = n[e] /\ \A x \in A : x # p => m[x] = n[x]
  BY <1>1
<1>4. n[e] = e <=> A = {e}
  BY Alone
<1>. HIDE DEF m
<1>5. IF B = {} THEN (IF n[e] = e THEN NULL ELSE p) = NULL
                ELSE (IF n[e] = e THEN NULL ELSE p) \in B
  <2>1. CASE n[e] = e
    BY <1>4, <2>1
  <2>2. CASE n[e] # e
    <3>1. p \in B
      BY <2>2
    <3> QED
      BY <2>2, <3>1
  <2> QED
    BY <2>1, <2>2
<1>6. ASSUME NEW x \in B
      PROVE  m[x] \in B
  <2>1. CASE x = p
    <3>1. n[e] # e
      BY <1>1, <1>4
    <3> QED
      BY <1>1, <1>3, <2>1, <3>1
  <2>2. CASE x # p
    <3>1. n[x] \in A /\ n[x] # e
      BY <1>1, <2>2
    <3> QED
      BY <1>3, <2>2, <3>1
  <2> QED
    BY <2>1, <2>2
<1>7. ASSUME NEW x \in B, NEW y \in B, m[x] = m[y]
      PROVE  x = y
  BY <1>1, <1>3, <1>7
<1>8. ASSUME NEW S \in SUBSET B, S # {}, Closed(S, m)
      PROVE  S = B
  <2>1. CASE p \in S
    <3>. DEFINE T == S \cup {e}
    <3>1. Closed(T, n)
      <4>1. n[e] \in T
        BY <1>3, <1>8, <2>1 DEF Closed
      <4>2. ASSUME NEW x \in S
            PROVE  n[x] \in T
        BY <1>3, <1>8 DEF Closed
      <4> QED
        BY <4>1, <4>2 DEF Closed
    <3>2. T \in SUBSET A /\ T # {}
      OBVIOUS
    <3>3. T = A
      <4>. HIDE DEF T
      <4> QED
        BY <1>1, <3>1, <3>2
    <3> QED
      BY <3>3
  <2>2. CASE p \notin S
    <3>1. Closed(S, n)
      BY <1>3, <1>8, <2>2 DEF Closed
    <3>2. S = A
      BY <1>1, <1>8, <3>1
    <3> QED
      BY <2>2, <3>2
  <2> QED
    BY <2>1, <2>2
<1> QED
  BY <1>1, <1>2, <1>5, <1>6, <1>7, <1>8 DEF Cycle, Closed, m

\* So is one with another element behind the head.
LEMMA Longer ==
    ASSUME ListOK, NEW h, NEW n, NEW A, Cycle(h, n, A), NEW e \in Element, e \notin A
    PROVE  Cycle(e, IF h = NULL THEN [n EXCEPT ![e] = e]
                                ELSE [n EXCEPT ![e] = n[h], ![h] = e], A \cup {e})
<1>. DEFINE B == A \cup {e}
<1>1. /\ A \subseteq Element /\ n \in [Element -> Element \cup {NULL}]
      /\ \A x \in A : n[x] \in A
      /\ \A x, y \in A : n[x] = n[y] => x = y
      /\ \A S \in SUBSET A : S # {} /\ Closed(S, n) => S = A
      /\ IF A = {} THEN h = NULL ELSE h \in A
  BY DEF Cycle, Closed
<1>2. CASE h = NULL
  <2>1. A = {}
    BY <1>1, <1>2 DEF ListOK
  <2>. DEFINE m == [n EXCEPT ![e] = e]
  <2>2. m \in [Element -> Element \cup {NULL}] /\ m[e] = e /\ B = {e}
    BY <1>1, <2>1
  <2>. HIDE DEF m
  <2>3. Cycle(e, m, B)
    BY <2>2 DEF Cycle, Closed
  <2> QED
    BY <1>2, <2>3 DEF m
<1>3. CASE h # NULL
  <2>1. h \in A
    BY <1>1, <1>3
  <2>. DEFINE m == [n EXCEPT ![e] = n[h], ![h] = e]
  <2>2. /\ m \in [Element -> Element \cup {NULL}]
        /\ m[e] = n[h] /\ m[h] = e
        /\ \A x \in A : x # h => m[x] = n[x]
    BY <1>1, <2>1
  <2>. HIDE DEF m
  <2>3. ASSUME NEW x \in B
        PROVE  m[x] \in B
    BY <1>1, <2>1, <2>2
  <2>4. ASSUME NEW x \in B, NEW y \in B, m[x] = m[y]
        PROVE  x = y
    <3>1. \A z \in A : z # h => m[z] # e /\ m[z] # n[h]
      BY <1>1, <2>1, <2>2
    <3>2. n[h] # e
      BY <1>1, <2>1
    <3>3. CASE x \in A \ {h} /\ y \in A \ {h}
      BY <1>1, <2>2, <2>4, <3>3
    <3>4. CASE ~(x \in A \ {h} /\ y \in A \ {h})
      BY <2>2, <2>4, <3>1, <3>2, <3>4
    <3> QED
      BY <3>3, <3>4
  <2>5. ASSUME NEW S \in SUBSET B, S # {}, Closed(S, m)
        PROVE  S = B
    <3>. DEFINE T == S \ {e}
    <3>1. T \in SUBSET A
      OBVIOUS
    <3>2. T # {}
      <4>1. m[e] # e
        BY <1>1, <2>1, <2>2
      <4> QED
        BY <2>5, <4>1 DEF Closed
    <3>3. Closed(T, n)
      <4> SUFFICES ASSUME NEW x \in T PROVE n[x] \in T
        BY DEF Closed
      <4>1. CASE x = h
        <5>1. m[h] \in S /\ m[e] \in S
          BY <2>2, <2>5, <4>1 DEF Closed
        <5> QED
          BY <1>1, <2>1, <2>2, <4>1, <5>1
      <4>2. CASE x # h
        BY <1>1, <2>2, <2>5, <4>2 DEF Closed
      <4> QED
        BY <4>1, <4>2
    <3>4. T = A
      <4>. HIDE DEF T
      <4> QED
        BY <1>1, <3>1, <3>2, <3>3
    <3>5. e \in S
      BY <2>1, <2>2, <2>5, <3>4 DEF Closed
    <3> QED
      BY <3>4, <3>5
  <2>6. Cycle(e, m, B)
    BY <1>1, <2>2, <2>3, <2>4, <2>5 DEF Cycle, Closed
  <2> QED
    BY <1>3, <2>6 DEF m
<1> QED
  BY <1>2, <1>3

\* A loop round a cycle passes each element once before it meets the head again:
\* what it passes is closed, so it is everything, and the first element that it
\* passed twice would be preceded by another one.
LEMMA PassesEach ==
    ASSUME ListOK, Cycle(head, next, added), added # {}
    PROVE  /\ Members = added
           /\ Cardinality(added) \in Nat /\ Cardinality(added) > 0
           /\ Arrival[Cardinality(added)] = head
           /\ \A k \in 1..(Cardinality(added) - 1) : Arrival[k] # head
<1>1. /\ added \subseteq Element /\ head \in added
      /\ \A x \in added : next[x] \in added
      /\ \A x, y \in added : next[x] = next[y] => x = y
      /\ \A S \in SUBSET added : S # {} /\ Closed(S, next) => S = added
  BY DEF Cycle, Closed
<1>2. /\ Arrival[0] = head
      /\ \A k \in Nat : Arrival[k + 1] = next[Arrival[k]]
      /\ \A k \in Nat : Arrival[k] \in added
  BY <1>1, ArrivalIs
<1>. HIDE DEF Arrival
<1>3. PICK m \in Nat \ {0} :
        Arrival[m] = head /\ \A k \in Nat \ {0} : Arrival[k] = head => m <= k
  <2>. DEFINE S == {Arrival[k] : k \in Nat \ {0}}
              R == {k \in Nat \ {0} : Arrival[k] = head}
  <2>1. S \in SUBSET added /\ Arrival[1] \in S
    BY <1>2
  <2>2. Closed(S, next)
    <3>1. \A k \in Nat \ {0} : next[Arrival[k]] = Arrival[k + 1] /\ k + 1 \in Nat \ {0}
      BY <1>2
    <3> QED
      BY <3>1 DEF Closed
  <2>3. S = added
    <3>. HIDE DEF S
    <3> QED
      BY <1>1, <2>1, <2>2
  <2>4. R # {} /\ R \in SUBSET Nat
    BY <1>1, <2>3
  <2>5. PICK m \in R : \A k \in R : m <= k
    <3>. HIDE DEF R
    <3> QED
      BY <2>4, Least
  <2> QED
    BY <2>5
<1>4. {Arrival[k] : k \in 1..m} = added
  <2>. DEFINE S == {Arrival[k] : k \in 1..m}
  <2>1. S \in SUBSET added /\ S # {}
    BY <1>2
  <2>2. ASSUME NEW k \in 1..m
        PROVE  next[Arrival[k]] \in S
    <3>1. next[Arrival[k]] = Arrival[k + 1]
      BY <1>2
    <3>2. CASE k < m
      <4>1. k + 1 \in 1..m
        BY <3>2
      <4> QED
        BY <3>1, <4>1
    <3>3. CASE k = m
      <4>1. Arrival[k + 1] = Arrival[0 + 1]
        BY <1>2, <1>3, <3>3
      <4>2. 1 \in 1..m
        OBVIOUS
      <4> QED
        BY <3>1, <4>1, <4>2
    <3> QED
      BY <3>2, <3>3
  <2>3. Closed(S, next)
    BY <2>2 DEF Closed
  <2>. HIDE DEF S
  <2>4. S = added
    BY <1>1, <2>1, <2>3
  <2> QED
    BY <2>4 DEF S
<1>5. ASSUME NEW i \in 1..m, NEW j \in 1..m, i < j
      PROVE  Arrival[i] # Arrival[j]
  <2>. DEFINE R == {k \in 1..m : \E l \in 1..m : k < l /\ Arrival[k] = Arrival[l]}
  <2> SUFFICES ASSUME R # {} PROVE FALSE
    BY <1>5
  <2>1. PICK k \in R : \A q \in R : k <= q
    <3>1. R \in SUBSET Nat
      OBVIOUS
    <3>. HIDE DEF R
    <3> QED
      BY <3>1, Least
  <2>2. PICK l \in 1..m : k < l /\ Arrival[k] = Arrival[l]
    OBVIOUS
  <2>3. /\ k \in 1..m /\ k - 1 \in Nat /\ l - 1 \in 1..m /\ k - 1 < l - 1
        /\ k - 1 + 1 = k /\ l - 1 + 1 = l
    BY <2>2
  <2>4. /\ next[Arrival[k - 1]] = next[Arrival[l - 1]]
        /\ Arrival[k - 1] \in added /\ Arrival[l - 1] \in added
    BY <1>2, <2>2, <2>3
  <2>5. Arrival[k - 1] = Arrival[l - 1]
    BY <1>1, <2>4
  <2>6. CASE k = 1
    <3>1. Arrival[l - 1] = head /\ l - 1 \in Nat \ {0} /\ l - 1 < m
      BY <1>2, <2>3, <2>5, <2>6
    <3> QED
      BY <1>3, <3>1
  <2>7. CASE k # 1
    <3>1. k - 1 \in R
      BY <2>3, <2>5, <2>7
    <3> QED
      BY <2>1, <2>3, <3>1
  <2> QED
    BY <2>6, <2>7
<1>6. Cardinality(added) = m
  <2>. DEFINE f == [k \in 1..m |-> Arrival[k]]
  <2>1. f \in [1..m -> added]
    BY <1>2
  <2>2. ASSUME NEW i \in 1..m, NEW j \in 1..m, f[i] = f[j]
        PROVE  i = j
    <3>1. ~(i < j) /\ ~(j < i)
      BY <1>5, <2>2
    <3> QED
      BY <3>1
  <2>3. \A x \in added : \E k \in 1..m : f[k] = x
    BY <1>4
  <2>. HIDE DEF f
  <2>4. f \in Bijection(1..m, added)
    BY <2>1, <2>2, <2>3 DEF Bijection, Injection, Surjection, IsInjective
  <2>5. ExistsBijection(1..m, added)
    BY <2>4 DEF ExistsBijection
  <2> QED
    BY <2>5, FS_CountingElements
<1>7. Members = added
  <2>1. Cardinality(Element) \in Nat /\ m <= Cardinality(Element)
    BY <1>1, <1>6, FS_Subset, FS_CardinalityType DEF ListOK
  <2>2. {Arrival[k] : k \in 1..m} \subseteq {Arrival[k] : k \in 1..Cardinality(Element)}
    BY <2>1
  <2>3. {Arrival[k] : k \in 1..Cardinality(Element)} \subseteq added
    BY <1>2
  <2>4. head # NULL
    BY <1>1 DEF ListOK
  <2> QED
    BY <1>4, <2>2, <2>3, <2>4 DEF Members
<1>8. \A k \in 1..(m - 1) : Arrival[k] # head
  BY <1>3
<1> QED
  BY <1>3, <1>6, <1>7, <1>8

\* A cycle is what is claimed of a list.
LEMMA CycleIs ==
    ASSUME ListOK, Cycle(head, next, added)
    PROVE  IsCycle /\ Members = added
<1>1. CASE added = {}
  <2>1. head = NULL /\ Cardinality(added) = 0
    BY <1>1, FS_EmptySet DEF Cycle
  <2> QED
    BY <1>1, <2>1 DEF IsCycle, Members, IsLength
<1>2. CASE added # {}
  <2>1. head # NULL
    BY <1>2 DEF Cycle, ListOK
  <2> QED
    BY <1>2, <2>1, PassesEach DEF IsCycle, IsLength
<1> QED
  BY <1>1, <1>2

\* Taking out an element that may be in the list.
LEMMA Unlinking ==
    ASSUME ListOK, Cycle(head, next, added), NEW e \in Element
    PROVE  Cycle(Unlinked(e).head, Unlinked(e).next, added \ {e})
<1>1. Members = added
  BY CycleIs
<1>2. CASE e \in added
  <2>1. \E p \in Members : next[p] = e
    BY <1>1, <1>2, Before
  <2>2. Previous(e) \in added /\ next[Previous(e)] = e
    BY <1>1, <2>1 DEF Previous
  <2>3. /\ Unlinked(e).head = IF next[e] = e THEN NULL ELSE Previous(e)
        /\ Unlinked(e).next = [next EXCEPT ![Previous(e)] = next[e]]
    BY <1>1, <1>2 DEF Unlinked
  <2> QED
    BY <1>2, <2>2, <2>3, Shorter
<1>3. CASE e \notin added
  <2>1. Unlinked(e).head = head /\ Unlinked(e).next = next /\ added \ {e} = added
    BY <1>1, <1>3 DEF Unlinked
  <2> QED
    BY <2>1
<1> QED
  BY <1>2, <1>3

\* Every call keeps the cycle.
LEMMA ListStep ==
    ASSUME ListOK, Cycle(head, next, added), [ListNext]_list
    PROVE  Cycle(head, next, added)'
<1>1. ASSUME NEW e \in Element, RemoveElement(e)
      PROVE  Cycle(head', next', added')
  BY <1>1, Unlinking DEF RemoveElement
<1>2. ASSUME NEW e \in Element, AddElement(e)
      PROVE  Cycle(head', next', added')
  <2>. DEFINE rest == Unlinked(e)
  <2>1. /\ head' = e
        /\ next' = IF rest.head = NULL
                   THEN [rest.next EXCEPT ![e] = e]
                   ELSE [rest.next EXCEPT ![e] = rest.next[rest.head],
                                          ![rest.head] = e]
        /\ added' = added \cup {e}
    BY <1>2 DEF AddElement
  <2>2. Cycle(rest.head, rest.next, added \ {e})
    BY Unlinking
  <2>. HIDE DEF rest
  <2>3. Cycle(head', next', (added \ {e}) \cup {e})
    BY <2>1, <2>2, Longer
  <2>4. (added \ {e}) \cup {e} = added'
    BY <2>1
  <2> QED
    BY <2>3, <2>4
<1>3. CASE InitializeList
  BY <1>3 DEF InitializeList, Cycle, Closed
<1>4. CASE UNCHANGED list
  BY <1>4 DEF list
<1>5. Cycle(head', next', added')
  BY <1>1, <1>2, <1>3, <1>4 DEF ListNext
<1> QED
  BY <1>5

\* CircularList.c: whatever is added and removed in whatever order, also twice or
\* with pointers from earlier lists, the list has no other elements than it should
\* and every loop over it ends.
THEOREM CycleCorrect ==
    ASSUME ListOK
    PROVE  ListSpec => []IsCycle
<1>1. ListInit => Cycle(head, next, added)
  BY DEF ListInit, Cycle, Closed
<1>2. Cycle(head, next, added) /\ [ListNext]_list => Cycle(head, next, added)'
  BY ListStep
<1>3. Cycle(head, next, added) => IsCycle
  BY CycleIs
<1> QED
  BY <1>1, <1>2, <1>3, PTL DEF ListSpec
-----------------------------------------------------------------------------
(***************************************************************************)
(* The ring of events of the kernel.                                       *)
(***************************************************************************)
USE NumEventsAssumption, WrapAssumption, FitsAssumption

LEMMA RoundSlots ==
    ASSUME NEW f \in Slots, NEW i \in 0..NumEvents
    PROVE  /\ (f + i) % NumEvents = IF f + i < NumEvents THEN f + i
                                                         ELSE f + i - NumEvents
           /\ (f + i) % NumEvents \in Slots
  BY Round DEF Slots

\* The cast of the sum of the counters does nothing.
LEMMA FreeSlotIsNext ==
    ASSUME TypeOK, ~Full
    PROVE  FreeSlot = (fevent + nevents) % NumEvents /\ nevents + 1 \in 1..NumEvents
           /\ (nevents + 1) % Wrap = nevents + 1
<1>1. fevent + nevents \in 0..(Wrap - 1) /\ nevents + 1 \in 0..(Wrap - 1)
  BY DEF TypeOK, Full, Slots
<1>2. nevents + 1 \in 1..NumEvents
  BY DEF TypeOK, Full
<1>. QED
  BY <1>1, <1>2, ModSmall DEF FreeSlot

\* The pending events are events that were posted.
PendingSlots ==
    \A i \in 1..nevents : events[(fevent + i - 1) % NumEvents] \in Event

QueueInv == TypeOK /\ PendingSlots

LEMMA PendingSeq ==
    ASSUME QueueInv
    PROVE  Pending \in Seq(Event) /\ Len(Pending) = nevents
<1>1. nevents \in Nat
  BY DEF QueueInv, TypeOK
<1>2. Pending \in [1..nevents -> Event]
  BY DEF QueueInv, PendingSlots, Pending
<1>. QED
  BY <1>1, <1>2 DEF Pending

\* What each operation does to the pending events.
LEMMA PostAppends ==
    ASSUME QueueInv, NEW e \in Event, Post(e)
    PROVE  QueueInv' /\ Len(Pending) < NumEvents /\ Pending' = Append(Pending, e)
<1>. USE DEF QueueInv
<1>1. /\ FreeSlot = (fevent + nevents) % NumEvents
      /\ nevents' = nevents + 1 /\ nevents + 1 \in 1..NumEvents
      /\ fevent' = fevent /\ taken' = taken
      /\ events' = [events EXCEPT ![FreeSlot] = e]
  BY FreeSlotIsNext DEF Post
<1>2. nevents \in 0..(NumEvents - 1) /\ fevent \in Slots /\ FreeSlot \in Slots
  <2>1. nevents \in 0..(NumEvents - 1)
    BY <1>1 DEF TypeOK
  <2>. QED
    BY <1>1, <2>1, RoundSlots DEF TypeOK
<1>3. ASSUME NEW i \in 1..nevents
      PROVE  /\ (fevent + i - 1) % NumEvents \in Slots
             /\ (fevent + i - 1) % NumEvents # FreeSlot
  <2>1. i - 1 \in 0..NumEvents /\ fevent + i - 1 = fevent + (i - 1)
    BY <1>2 DEF Slots
  <2>2. i - 1 < nevents /\ nevents \in 0..NumEvents
    BY <1>2
  <2>3. /\ (fevent + (i - 1)) % NumEvents =
             IF fevent + (i - 1) < NumEvents THEN fevent + (i - 1)
                                             ELSE fevent + (i - 1) - NumEvents
        /\ (fevent + (i - 1)) % NumEvents \in Slots
    BY <1>2, <2>1, RoundSlots
  <2>4. FreeSlot = IF fevent + nevents < NumEvents THEN fevent + nevents
                                                   ELSE fevent + nevents - NumEvents
    BY <1>1, <1>2, <2>2, RoundSlots
  <2>. QED
    BY <1>2, <2>1, <2>2, <2>3, <2>4 DEF Slots
<1>4. ASSUME NEW i \in 1..(nevents + 1)
      PROVE  events'[(fevent + i - 1) % NumEvents] =
               IF i = nevents + 1 THEN e ELSE events[(fevent + i - 1) % NumEvents]
  <2>1. CASE i = nevents + 1
    <3>1. fevent + i - 1 = fevent + nevents
      BY <1>2, <2>1 DEF Slots
    <3>. QED
      BY <1>1, <1>2, <2>1, <3>1 DEF TypeOK
  <2>2. CASE i # nevents + 1
    <3>1. i \in 1..nevents
      BY <1>2, <2>2
    <3>. QED
      BY <1>1, <1>3, <2>2, <3>1 DEF TypeOK
  <2>. QED
    BY <2>1, <2>2
<1>5. QueueInv'
  <2>1. TypeOK'
    BY <1>1, <1>2 DEF TypeOK
  <2>2. PendingSlots'
    <3>1. ASSUME NEW i \in 1..(nevents + 1)
          PROVE events'[(fevent + i - 1) % NumEvents] \in Event
      <4>1. i # nevents + 1 => i \in 1..nevents
        BY <1>2
      <4>. QED
        BY <1>4, <4>1 DEF PendingSlots
    <3>. QED
      BY <1>1, <3>1 DEF PendingSlots
  <2>. QED
    BY <2>1, <2>2
<1>6. Pending' = Append(Pending, e)
  <2>1. Pending \in Seq(Event) /\ Len(Pending) = nevents
    BY PendingSeq
  <2>2. Pending' \in Seq(Event) /\ Len(Pending') = nevents + 1
    <3>1. nevents' = nevents + 1 /\ nevents + 1 \in Nat
      BY <1>1
    <3>2. Pending' \in [1..nevents' -> Event]
      BY <1>5 DEF PendingSlots, Pending
    <3>. QED
      BY <3>1, <3>2, FunctionIsSeq
  <2>3. /\ Append(Pending, e) \in Seq(Event)
        /\ Len(Append(Pending, e)) = nevents + 1
        /\ \A i \in 1..nevents : Append(Pending, e)[i] = Pending[i]
        /\ Append(Pending, e)[nevents + 1] = e
    BY <2>1, AppendProperties
  <2>4. ASSUME NEW i \in 1..(nevents + 1)
        PROVE Pending'[i] = Append(Pending, e)[i]
    <3>1. Pending'[i] = events'[(fevent + i - 1) % NumEvents]
      BY <1>1 DEF Pending
    <3>2. CASE i = nevents + 1
      BY <1>4, <2>3, <3>1, <3>2
    <3>3. CASE i # nevents + 1
      <4>1. i \in 1..nevents
        BY <1>2, <3>3
      <4>2. Pending[i] = events[(fevent + i - 1) % NumEvents]
        BY <4>1 DEF Pending
      <4>. QED
        BY <1>4, <2>3, <3>1, <3>3, <4>1, <4>2
    <3>. QED
      BY <3>2, <3>3
  <2>. QED
    BY <2>2, <2>3, <2>4, SeqEqual
<1>7. Len(Pending) < NumEvents
  BY <1>2, PendingSeq
<1>. QED
  BY <1>5, <1>6, <1>7

LEMMA TakeDropsHead ==
    ASSUME QueueInv, Take
    PROVE  /\ QueueInv'
           /\ Pending # <<>>
           /\ Pending' = Tail(Pending)
           /\ taken' = Head(Pending)
<1>. USE DEF QueueInv
<1>1. /\ nevents \in 1..NumEvents /\ nevents' = nevents - 1
      /\ fevent \in Slots /\ fevent' = (fevent + 1) % NumEvents
      /\ events' = events /\ taken' = events[fevent]
  BY DEF Take, TypeOK
<1>2. fevent' \in Slots /\ fevent % NumEvents = fevent
  <2>1. 1 \in 0..NumEvents
    OBVIOUS
  <2>2. fevent \in 0..(NumEvents - 1) /\ NumEvents \in Nat \ {0}
    BY <1>1 DEF Slots
  <2>. QED
    BY <1>1, <2>1, <2>2, RoundSlots, ModSmall
<1>3. ASSUME NEW i \in 1..(nevents - 1)
      PROVE (fevent' + i - 1) % NumEvents = (fevent + (i + 1) - 1) % NumEvents
  <2>1. PICK x \in 0..NumEvents : x = i
    BY <1>1
  <2>2. PICK y \in 0..NumEvents : y = i - 1
    BY <1>1
  <2>3. 1 \in 0..NumEvents
    OBVIOUS
  <2>4. (fevent' + y) % NumEvents = IF fevent' + y < NumEvents THEN fevent' + y
                                    ELSE fevent' + y - NumEvents
    BY <1>2, RoundSlots
  <2>5. (fevent + x) % NumEvents = IF fevent + x < NumEvents THEN fevent + x
                                   ELSE fevent + x - NumEvents
    BY <1>1, RoundSlots
  <2>6. fevent' = IF fevent + 1 < NumEvents THEN fevent + 1 ELSE fevent + 1 - NumEvents
    BY <1>1, <2>3, RoundSlots
  <2>7. fevent' + i - 1 = fevent' + y /\ fevent + (i + 1) - 1 = fevent + x
    BY <1>1, <1>2, <2>1, <2>2 DEF Slots
  <2>. QED
    BY <1>1, <1>2, <2>1, <2>2, <2>4, <2>5, <2>6, <2>7 DEF Slots
<1>4. Pending \in Seq(Event) /\ Len(Pending) = nevents /\ Pending # <<>>
  <2>1. Pending \in Seq(Event) /\ Len(Pending) = nevents
    BY PendingSeq
  <2>. QED
    BY <1>1, <2>1, EmptySeq
<1>5. ASSUME NEW i \in 1..(nevents - 1)
      PROVE  events'[(fevent' + i - 1) % NumEvents] = Pending[i + 1]
  <2>1. i + 1 \in 1..nevents
    BY <1>1
  <2>. QED
    BY <1>1, <1>3, <2>1 DEF Pending
<1>6. taken' = Head(Pending) /\ taken' \in Event
  <2>1. 1 \in 1..nevents /\ fevent + 1 - 1 = fevent
    BY <1>1 DEF Slots
  <2>2. Pending[1] = events[fevent] /\ events[fevent] \in Event
    BY <1>2, <2>1 DEF Pending, PendingSlots
  <2>. QED
    BY <1>1, <1>4, <2>2
<1>7. QueueInv'
  <2>1. TypeOK'
    BY <1>1, <1>2, <1>6 DEF TypeOK
  <2>2. ASSUME NEW i \in 1..(nevents - 1)
        PROVE events'[(fevent' + i - 1) % NumEvents] \in Event
    <3>1. i + 1 \in 1..Len(Pending)
      BY <1>1, <1>4
    <3>. QED
      BY <1>4, <1>5, <3>1, ElementOfSeq
  <2>. QED
    BY <1>1, <2>1, <2>2 DEF PendingSlots
<1>8. Pending' = Tail(Pending)
  <2>1. Pending' \in Seq(Event) /\ Len(Pending') = nevents - 1
    <3>1. nevents' = nevents - 1 /\ nevents - 1 \in Nat
      BY <1>1
    <3>2. Pending' \in [1..nevents' -> Event]
      BY <1>7 DEF PendingSlots, Pending
    <3>. QED
      BY <3>1, <3>2, FunctionIsSeq
  <2>2. /\ Tail(Pending) \in Seq(Event) /\ Len(Tail(Pending)) = nevents - 1
        /\ \A i \in 1..(nevents - 1) : Tail(Pending)[i] = Pending[i + 1]
    BY <1>4, HeadTailProperties
  <2>3. ASSUME NEW i \in 1..(nevents - 1) PROVE Pending'[i] = Tail(Pending)[i]
    BY <1>1, <1>5, <2>2 DEF Pending
  <2>. QED
    BY <2>1, <2>2, <2>3, SeqEqual
<1>. QED
  BY <1>4, <1>6, <1>7, <1>8

LEMMA InitializeClears ==
    ASSUME QueueInv, Initialize
    PROVE  QueueInv' /\ Pending' = <<>>
  BY DEF QueueInv, TypeOK, PendingSlots, Pending, Initialize, Slots

LEMMA InitInv == Init => QueueInv /\ Pending = <<>>
  BY DEF Init, QueueInv, TypeOK, PendingSlots, Pending, Slots

LEMMA NextInv == QueueInv /\ [Next]_vars => QueueInv'
<1>1. QueueInv /\ UNCHANGED vars => QueueInv'
  BY DEF QueueInv, TypeOK, PendingSlots, vars
<1>. QED
  BY <1>1, PostAppends, TakeDropsHead, InitializeClears DEF Next

LEMMA NextRefines == QueueInv /\ [Next]_vars => [Fifo!Next]_<<Pending, taken>>
<1>1. ASSUME QueueInv, NEW e \in Event, Post(e) PROVE Fifo!Put(e)
  BY <1>1, PostAppends DEF Fifo!Put, Post
<1>2. ASSUME QueueInv, Take PROVE Fifo!Take
  BY <1>2, TakeDropsHead DEF Fifo!Take
<1>3. ASSUME QueueInv, Initialize PROVE Fifo!Clear
  BY <1>3, InitializeClears DEF Fifo!Clear, Initialize
<1>4. UNCHANGED vars => UNCHANGED <<Pending, taken>>
  BY DEF vars, Pending
<1>. QED
  BY <1>1, <1>2, <1>3, <1>4 DEF Next, Fifo!Next

\* The counters stay in range, so the casts of the code lose nothing.
THEOREM TypeCorrect == Spec => []TypeOK
<1>1. QueueInv => TypeOK
  BY DEF QueueInv
<1>. QED
  BY <1>1, InitInv, NextInv, PTL DEF Spec

\* The event queue implements a first-in, first-out queue.
THEOREM QueueIsFifo == Spec => IsFifo
<1>1. Init => Fifo!Init
  BY InitInv DEF Init, Fifo!Init
<1>. QED
  BY <1>1, InitInv, NextInv, NextRefines, PTL DEF Spec, IsFifo, Fifo!Spec
=============================================================================

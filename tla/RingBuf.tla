------------------------------ MODULE RingBuf ------------------------------
(***************************************************************************)
(* The circular queue of src/common/bufarray.c as operators on a record.   *)
(*                                                                         *)
(* A ring is [head, tail, num_item, data] exactly as struct array_buf keeps*)
(* it (len_item only sizes the buffers and is left out).  Items are the    *)
(* addresses of buffers, positive integers; NULL is 0.  One slot is never  *)
(* filled, so head = tail means empty and a ring holds num_item - 1 items. *)
(***************************************************************************)
EXTENDS Integers, Sequences

CONSTANT Granule    \* the rounding unit of init_buf; 4 in the source

ASSUME GranuleAssumption == Granule \in Nat \ {0}

NULL == 0

\* TO_MULTIPLE_OF: the least multiple of base that is not below num.
ToMultipleOf(num, base) == base * ((num + base - 1) \div base)

\* The number of slots init_buf gives a ring asked to hold numitem items.
Slots(numitem) == ToMultipleOf(numitem, Granule) + 1

\* How many of the slots init_buf fills with freshly allocated buffers.
Allocated(numitem, nmalloc) ==
    IF nmalloc < 0 \/ nmalloc >= numitem
    THEN Slots(numitem) - 1
    ELSE ToMultipleOf(nmalloc, Granule)

\* init_buf: the fresh buffers are numbered from 1.
InitBuf(numitem, nmalloc) ==
    [ head     |-> 0,
      tail     |-> Allocated(numitem, nmalloc),
      num_item |-> Slots(numitem),
      data     |-> [i \in 0 .. Slots(numitem) - 1 |->
                      IF i < Allocated(numitem, nmalloc) THEN i + 1 ELSE NULL] ]

\* The values a struct array_buf of n slots can have, over the addresses A.
Rings(n, A) == [ head : 0 .. n - 1, tail : 0 .. n - 1, num_item : {n},
                 data : [0 .. n - 1 -> A] ]

\* Mutant of After: the wrap comes one index late.
AfterLate(ring, i) == IF i = ring.num_item THEN 0 ELSE i + 1

\* The index after i, wrapped the way pull_item and push_item wrap it.
After(ring, i) == IF i + 1 = ring.num_item THEN 0 ELSE i + 1

\* Mutant of IsFull: the test forgets that the tail may wrap.
IsFullUnwrapped(ring) == ring.tail + 1 = ring.head

IsEmpty(ring) == ring.head = ring.tail
IsFull(ring)  == After(ring, ring.tail) = ring.head

\* pull_item on a ring that is not empty: the item and the ring it leaves.
PulledItem(ring) == ring.data[ring.head]
PullItem(ring)   == [ring EXCEPT !.head = After(ring, ring.head)]

\* push_item on a ring that is not full.
PushItem(ring, item) ==
    [ring EXCEPT !.data[ring.tail] = item, !.tail = After(ring, ring.tail)]

\* Mutant of GetNumContainedItems: the sum is never reduced.
CountUnreduced(ring) == ring.tail + ring.num_item - ring.head

\* get_num_contained_items: an empty ring counts as num_item items, because
\* the sum is reduced only when it is strictly above num_item.
GetNumContainedItems(ring) ==
    LET num == ring.tail + ring.num_item - ring.head
    IN  IF num > ring.num_item THEN num - ring.num_item ELSE num

\* How many items the walk from head to tail passes.
Length(ring) ==
    IF ring.head <= ring.tail
    THEN ring.tail - ring.head
    ELSE ring.tail + ring.num_item - ring.head

\* The k-th slot (from 1) of the walk from head to tail.
Slot(ring, k) ==
    IF ring.head + k - 1 < ring.num_item
    THEN ring.head + k - 1
    ELSE ring.head + k - 1 - ring.num_item

\* The items between head and tail, oldest first.
Contents(ring) == [k \in 1 .. Length(ring) |-> ring.data[Slot(ring, k)]]
=============================================================================

------------------------------ MODULE BufArray ------------------------------
(***************************************************************************)
(* One array_buf of src/common/bufarray.c and the callers that move        *)
(* buffers in and out of it.  The queue has no lock of its own: its users  *)
(* call it under the mutex of the pool, so an operation is one step.       *)
(***************************************************************************)
EXTENDS RingBuf

CONSTANTS NumItems,     \* the numitem arguments init_buf is tried with
          NMallocs,     \* the nmalloc arguments init_buf is tried with
          NumBuffers    \* how many buffers exist, foreign ones included

ASSUME BufArrayAssumption ==
    /\ NumItems \subseteq Nat \ {0}
    /\ NMallocs \subseteq Int
    /\ NumBuffers \in Nat
    /\ \A n \in NumItems, m \in NMallocs : Allocated(n, m) <= NumBuffers

Item == 1 .. NumBuffers

VARIABLES buf,      \* the ring
          held,     \* the buffers the callers hold
          freed,    \* the buffers clear_buf has freed
          open,     \* FALSE once clear_buf has been entered
          itrhead,  \* the index clear_buf's walk has reached
          ret       \* what the last push_item or pull_item returned

vars == <<buf, held, freed, open, itrhead, ret>>

ItemsOf(ring) == {ring.data[Slot(ring, k)] : k \in 1 .. Length(ring)}

\* Buffers beyond those init_buf allocates were allocated for another queue.
Init ==
    /\ \E n \in NumItems, m \in NMallocs : buf = InitBuf(n, m)
    /\ held = Item \ ItemsOf(buf)
    /\ freed = {}
    /\ open = TRUE
    /\ itrhead = 0
    /\ ret = NULL

Push(item) ==
    /\ open
    /\ item \in held
    /\ \/ /\ ~IsFull(buf)
          /\ buf' = PushItem(buf, item)
          /\ held' = held \ {item}
          /\ ret' = item
       \/ /\ IsFull(buf)
          /\ ret' = NULL
          /\ UNCHANGED <<buf, held>>
    /\ UNCHANGED <<freed, open, itrhead>>

Pull ==
    /\ open
    /\ \/ /\ ~IsEmpty(buf)
          /\ ret' = PulledItem(buf)
          /\ held' = held \union {PulledItem(buf)}
          /\ buf' = PullItem(buf)
       \/ /\ IsEmpty(buf)
          /\ ret' = NULL
          /\ UNCHANGED <<buf, held>>
    /\ UNCHANGED <<freed, open, itrhead>>

\* Mutant of ClearBuf: the walk starts at the first slot.
ClearBufFromZero ==
    /\ open
    /\ open' = FALSE
    /\ itrhead' = 0
    /\ UNCHANGED <<buf, held, freed, ret>>

\* clear_buf copies head and tail and walks from one to the other.
ClearBuf ==
    /\ open
    /\ open' = FALSE
    /\ itrhead' = buf.head
    /\ UNCHANGED <<buf, held, freed, ret>>

ClearStep ==
    /\ ~open
    /\ itrhead # buf.tail
    /\ freed' = freed \union {buf.data[itrhead]}
    /\ itrhead' = (itrhead + 1) % buf.num_item
    /\ UNCHANGED <<buf, held, open, ret>>

\* clear_buf has freed the slots too: the queue is gone.
Cleared ==
    /\ ~open
    /\ itrhead = buf.tail
    /\ UNCHANGED vars

Next == \/ \E item \in Item : Push(item)
        \/ Pull
        \/ ClearBuf
        \/ ClearStep
        \/ Cleared

Spec == Init /\ [][Next]_vars
-----------------------------------------------------------------------------
\* The part of the ring that still counts: clear_buf's walk eats it from the
\* head without moving the head.
Live == IF open THEN buf ELSE [buf EXCEPT !.head = itrhead]

\* The variables have their types, the indices of bufarray.c stay inside the
\* slots and every slot between them holds a buffer, never NULL.
TypeOK ==
    /\ buf.num_item \in Nat \ {0, 1}
    /\ buf \in Rings(buf.num_item, Item \union {NULL})
    /\ held \subseteq Item
    /\ freed \subseteq Item
    /\ open \in BOOLEAN
    /\ itrhead \in 0 .. buf.num_item - 1
    /\ ret \in Item \union {NULL}
    /\ \A k \in 1 .. Length(Live) : Live.data[Slot(Live, k)] \in Item

\* Every buffer is in one place: two slots between head and tail never hold the
\* same buffer, none of them is also with a caller or freed, and no buffer is
\* lost.  This is what pull_item, push_item and the walk of clear_buf together
\* keep, across the wrap of head and tail: no double free and no leak.
ItemsConserved ==
    /\ \A j, k \in 1 .. Length(Live) :
         Live.data[Slot(Live, j)] = Live.data[Slot(Live, k)] => j = k
    /\ ItemsOf(Live) \intersect (held \union freed) = {}
    /\ held \intersect freed = {}
    /\ held \union freed \union ItemsOf(Live) = Item

\* get_num_contained_items counts the items of a queue that holds some, however
\* head and tail have wrapped, and answers num_item for the empty one: the count
\* s_initpool takes of its new, empty queue.
CountOfContained ==
    GetNumContainedItems(buf) =
        IF IsEmpty(buf) THEN buf.num_item ELSE Length(buf)

-----------------------------------------------------------------------------
\* The ring implements the bounded queue its header describes ("works like
\* circle queue(tail-in head-out)"): in every interleaving of pushes and pulls,
\* wraps included, buffers come out in the order they went in, and an operation
\* is refused exactly when the queue is full or empty.
Fifo == INSTANCE BoundedFifo
            WITH capacity <- buf.num_item - 1, queue <- Contents(Live)

ImplementsFifo == Fifo!Spec
=============================================================================

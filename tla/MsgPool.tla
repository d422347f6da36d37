------------------------------ MODULE MsgPool ------------------------------
(***************************************************************************)
(* The buffers of one struct jxmsgpool (src/cs/common/msgpool.c): a queue  *)
(* of filled and a queue of empty buffers under one mutex, and a semaphore *)
(* for the filled ones.  The two queues are array_bufs; BufArray shows that*)
(* an array_buf is a bounded first-in first-out queue, so here each is a   *)
(* sequence with a capacity.  What s_initpool makes of the requested size  *)
(* is computed with the ring operators themselves.                         *)
(***************************************************************************)
EXTENDS RingBuf

CONSTANT ItemNum    \* the itemnum argument of jxpool_init; 64 in the source

ASSUME ItemNumAssumption == ItemNum \in Nat \ {0}

\* s_initpool: filled_buf starts without buffers ...
InitFilled == InitBuf(ItemNum, 0)

\* ... and empty_buf is asked for what filled_buf does not contain.  The count
\* of the empty filled_buf is num_item, so init_emptynum is -1, for which
\* init_buf allocates a buffer for every slot, rounded up once more.
InitEmptyNum == InitFilled.num_item - 1 - GetNumContainedItems(InitFilled)
InitEmpty == InitBuf(InitFilled.num_item, InitEmptyNum)

FilledCapacity == InitFilled.num_item - 1
EmptyCapacity  == InitEmpty.num_item - 1

\* The buffers of a pool.
Buffer == 1 .. Length(InitEmpty)

\* push_item on a queue of capacity cap: the queue it leaves.  A full queue is
\* left as it is and the call returns NULL.
Refused(queue, cap) == Len(queue) >= cap
Pushed(queue, cap, item) ==
    IF Refused(queue, cap) THEN queue ELSE Append(queue, item)

\* Mutant of Rest: the head does not move.
RestUnmoved(queue) == queue

\* pull_item: the item, NULL if there is none, and the queue it leaves.
Pulled(queue) == IF queue = <<>> THEN NULL ELSE Head(queue)
Rest(queue)   == IF queue = <<>> THEN queue ELSE Tail(queue)
=============================================================================

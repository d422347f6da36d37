---------------------------- MODULE BoundedFifo ----------------------------
(***************************************************************************)
(* What a buffer queue promises its callers: a first-in first-out queue of *)
(* buffers that refuses a push when it holds Capacity of them, answers     *)
(* NULL to a pull when it is empty, and on clear gives back to the         *)
(* allocator exactly the buffers it still holds.                           *)
(***************************************************************************)
EXTENDS Integers, Sequences

CONSTANTS Item,         \* the buffers
          NULL          \* what a refused operation returns

VARIABLES capacity,     \* how many buffers the queue may hold
          queue,        \* the buffers it holds, oldest first
          held,         \* the buffers its callers hold
          freed,        \* the buffers given back to the allocator
          open,         \* FALSE once the queue has been cleared
          ret           \* the result of the last operation

vars == <<capacity, queue, held, freed, open, ret>>

Init ==
    /\ capacity \in Nat
    /\ queue \in Seq(Item)
    /\ Len(queue) <= capacity
    /\ held = Item \ {queue[k] : k \in 1 .. Len(queue)}
    /\ freed = {}
    /\ open = TRUE
    /\ ret = NULL

\* A push appends, or is refused when the queue is at its capacity.
Push(item) ==
    /\ open
    /\ item \in held
    /\ \/ /\ Len(queue) < capacity
          /\ queue' = Append(queue, item)
          /\ held' = held \ {item}
          /\ ret' = item
       \/ /\ Len(queue) = capacity
          /\ ret' = NULL
          /\ UNCHANGED <<queue, held>>
    /\ UNCHANGED <<capacity, freed, open>>

\* A pull takes the oldest buffer, or is refused when there is none.
Pull ==
    /\ open
    /\ \/ /\ queue # <<>>
          /\ queue' = Tail(queue)
          /\ held' = held \union {Head(queue)}
          /\ ret' = Head(queue)
       \/ /\ queue = <<>>
          /\ ret' = NULL
          /\ UNCHANGED <<queue, held>>
    /\ UNCHANGED <<capacity, freed, open>>

\* Clearing closes the queue ...
Close ==
    /\ open
    /\ open' = FALSE
    /\ UNCHANGED <<capacity, queue, held, freed, ret>>

\* ... and then frees what it holds, one buffer at a time, and nothing else.
FreeOldest ==
    /\ ~open
    /\ queue # <<>>
    /\ freed' = freed \union {Head(queue)}
    /\ queue' = Tail(queue)
    /\ UNCHANGED <<capacity, held, open, ret>>

Next == \/ \E item \in Item : Push(item)
        \/ Pull
        \/ Close
        \/ FreeOldest

Spec == Init /\ [][Next]_vars
=============================================================================

----------------------------- MODULE ClearList ------------------------------
(***************************************************************************)
(* The list of the functions that run when a program ends                  *)
(* (src/common/clearlist.c), as the sequence of their names in the order   *)
(* they run in: list_add puts a node first and s_execute_clears walks the  *)
(* list backwards from its head, so the oldest runs first.                 *)
(***************************************************************************)
EXTENDS Naturals, Sequences

\* jxclearlist_add, when nobody else adds at the same time.
Added(clears, f) == Append(clears, f)

\* jxclearlist_add by a thread that had read head->next when the list was mark
\* long.  Its writes to the node that was first then take the nodes added since
\* out of the backward walk.
Linked(clears, mark, f) == Append(SubSeq(clears, 1, mark), f)

\* The function a walk that has run n functions runs next, and its end.
More(clears, n)    == n < Len(clears)
Current(clears, n) == clears[n + 1]
=============================================================================

----------------------------- MODULE MCBufArray -----------------------------
(* BufArray with three requested sizes and every rounding of nmalloc. *)
EXTENDS BufArray

MCNumItems == {1, 2, 3}
MCNMallocs == {-1, 0, 1, 2}
=============================================================================

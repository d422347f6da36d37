--------------------------- MODULE MCAccountFile ---------------------------
(***************************************************************************)
(* Constants of AccountFile for TLC: accounts 0 and 1 share a file, account*)
(* 2 has one of its own.                                                   *)
(***************************************************************************)
EXTENDS AccountFile

CONSTANTS v1, v2, s1

Values == {v1, v2}
OneReader == {s1}
NoReader == {}
Ids == 0 .. 2
=============================================================================

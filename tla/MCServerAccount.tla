-------------------------- MODULE MCServerAccount --------------------------
(***************************************************************************)
(* Constants of ServerAccount for TLC: the workers run the same code, and  *)
(* the addresses of the clients are only compared, so that exchanging      *)
(* either changes nothing that the properties tell apart.                  *)
(***************************************************************************)
EXTENDS ServerAccount, TLC

Symmetry == Permutations(Worker) \union Permutations(Host)
=============================================================================

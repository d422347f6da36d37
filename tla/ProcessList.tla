---------------------------- MODULE ProcessList -----------------------------
(***************************************************************************)
(* The process list (src/common/processlist.c): for each mflag a function  *)
(* that processes a message and one that processes its answer, either of   *)
(* which may be missing; and the lists src/common/msgprocess.c makes.      *)
(***************************************************************************)
EXTENDS Naturals, SequencesExt

None == "none"   \* a NULL function

\* What a call leaves of the function old when it gives the function new.
Replaced(old, new, force) == IF new # None THEN new ELSE IF force THEN None ELSE old

\* The walks of the list: the first entry of the mflag, 0 if it has none.
Place(list, mflag) == SelectInSeq(list, LAMBDA e : e.mflag = mflag)

\* jxprocesslist_set: the entry of the mflag is changed, or a new one put first.
Set(list, mflag, process, af, force) ==
    LET i == Place(list, mflag)
    IN  IF i # 0
        THEN [list EXCEPT ![i] = [mflag |-> mflag, process |-> Replaced(@.process, process, force),
                                  af |-> Replaced(@.af, af, force)]]
        ELSE <<[mflag |-> mflag, process |-> process, af |-> af]>> \o list

\* jxprocesslist_process_valid and jxprocesslist_process_af_valid
ProcessValid(list) == \E i \in DOMAIN list : list[i].process # None
AfValid(list)      == \E i \in DOMAIN list : list[i].af # None

\* jxprocesslist_process_get and jxprocesslist_process_af_get: what the entry of
\* the mflag has, or NULL.
ProcessGet(list, mflag) ==
    LET i == Place(list, mflag) IN IF i = 0 THEN None ELSE list[i].process
AfGet(list, mflag) ==
    LET i == Place(list, mflag) IN IF i = 0 THEN None ELSE list[i].af

\* s_processlist_client_init and s_processlist_server_init
ClientList(query) == Set(<<>>, query, "client_am", None, FALSE)
ServerList(query, port) ==
    Set(Set(<<>>, query, "server_am", "af_server_am", FALSE),
        port, "server_port", None, FALSE)
=============================================================================

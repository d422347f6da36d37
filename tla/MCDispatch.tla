----------------------------- MODULE MCDispatch -----------------------------
(***************************************************************************)
(* Dispatch with the server's process list: a query has both functions, a  *)
(* port registration has a process function only, and the mflag 0 of a     *)
(* zeroed buffer has none.                                                 *)
(***************************************************************************)
EXTENDS Dispatch, ProcessList, TLC

CONSTANTS m, w1, w2, s1, s2, query, port, zero

MCRegistered   == {f \in Flag : ProcessGet(ServerList(query, port), f) # None}
MCRegisteredAf == {f \in Flag : AfGet(ServerList(query, port), f) # None}

\* jxserver_msgpool_dispatch_init makes both pools for this list.
ASSUME BothPools == ProcessValid(ServerList(query, port)) /\ AfValid(ServerList(query, port))

\* The list against a function from mflags to pairs: after any two calls of
\* jxprocesslist_set the two getters return what the calls say.
ASSUME SetThenGet ==
    LET call == [flag : {query, port}, p : {None, "f", "g"}, q : {None, "f"}, force : BOOLEAN]
        after(pair, f, c) == IF f # c.flag THEN pair
                             ELSE <<Replaced(pair[1], c.p, c.force), Replaced(pair[2], c.q, c.force)>>
    IN  \A c, d \in call, f \in {query, port} :
            LET list == Set(Set(<<>>, c.flag, c.p, c.q, c.force), d.flag, d.p, d.q, d.force)
            IN  <<ProcessGet(list, f), AfGet(list, f)>>
                  = after(after(<<None, None>>, f, c), f, d)

MCSymmetry == Permutations(Worker) \union Permutations(Sender)
=============================================================================

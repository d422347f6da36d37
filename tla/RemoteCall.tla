----------------------------- MODULE RemoteCall -----------------------------
(***************************************************************************)
(* What jxclient_sendrecv promises of a request: it may be carried out     *)
(* several times, also after the client has given up, but the client is    *)
(* given an answer to it only when this very request has been carried out, *)
(* and every request has one outcome.  A request that is too long to send  *)
(* is not carried out; its caller is told of one byte received, and what   *)
(* it then finds is the answer to an earlier request, if there was one.    *)
(***************************************************************************)
EXTENDS Naturals

CONSTANTS MaxRequests, MaxTimes     \* how often one request is carried out

VARIABLES
    req,        \* the number of the last request
    fits,       \* it is not too long
    pending,    \* it has no outcome yet
    executed,   \* how often each request was carried out
    outcome,    \* of the last request
    given       \* the request whose answer the caller is given, 0 for none

Unanswered == {"sent", "timeout", "error"}

Init ==
    /\ req = 0 /\ fits = TRUE /\ pending = FALSE /\ outcome = "none" /\ given = 0
    /\ executed = [n \in 1 .. MaxRequests |-> 0]

Request ==
    /\ ~pending /\ req < MaxRequests
    /\ req' = req + 1 /\ fits' \in BOOLEAN
    /\ pending' = TRUE /\ outcome' = "none" /\ given' = 0
    /\ UNCHANGED executed

Execute(n) ==
    /\ n <= req /\ (n = req => fits) /\ executed[n] < MaxTimes
    /\ executed' = [executed EXCEPT ![n] = @ + 1]
    /\ UNCHANGED <<req, fits, pending, outcome, given>>

Finish(o, n) ==
    /\ pending /\ pending' = FALSE
    /\ outcome' = o /\ given' = n
    /\ UNCHANGED <<req, fits, executed>>

Answer  == fits /\ executed[req] > 0 /\ Finish("answer", req)
Fail(o) == fits /\ Finish(o, 0)
Stale   ==
    /\ ~fits
    /\ \/ Finish("stale", 0)
       \/ \E n \in 1 .. req - 1 : executed[n] > 0 /\ Finish("stale", n)

Next ==
    \/ Request
    \/ \E n \in 1 .. MaxRequests : Execute(n)
    \/ Answer \/ Stale
    \/ \E o \in Unanswered : Fail(o)

Spec == Init /\ [][Next]_<<req, fits, pending, executed, outcome, given>>
=============================================================================

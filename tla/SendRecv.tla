------------------------------ MODULE SendRecv ------------------------------
(***************************************************************************)
(* The reliable request of src/cs/client/client_sendrecv.c with the        *)
(* estimator of src/cs/common/rtt.c: a request is sent, polled for its     *)
(* answer and sent again when its timer runs out, until it is given up.    *)
(* The network loses, repeats, delays and reorders datagrams; the server   *)
(* answers every copy with the copy's own header (msgprocess.c).           *)
(*                                                                         *)
(* Time passes in seconds.  A datagram carries its age instead of its time *)
(* stamp; ages count up to MaxAge.  The floats of rtt.c are integers of    *)
(* 1 / Unit seconds, their rounding is left out.                           *)
(***************************************************************************)
EXTENDS Integers, FiniteSets

CONSTANTS
    Unit,               \* fractions of a second
    RTT_RXTMIN, RTT_RXTMAX, RTT_MAXNREXMT,
    MaxRequests, MaxAge, MaxCopies, MaxErrors   \* bounds

ASSUME SendRecvAssumption ==
    /\ Unit \in Nat \ {0} /\ RTT_RXTMIN \in Nat \ {0} /\ RTT_RXTMAX \in Nat
    /\ RTT_RXTMIN <= RTT_RXTMAX /\ RTT_MAXNREXMT \in Nat
    /\ MaxRequests \in Nat /\ MaxAge \in Nat \ {0} /\ MaxCopies \in Nat \ {0}
    /\ MaxErrors \in Nat

VARIABLES
    pc,         \* of jxclient_sendrecv
    seq,        \* s_sendhdr.seq
    kind,       \* what is requested: whether it waits, whether it fits
    rtt,        \* s_rttinfo: rtt, srtt, rttvar, rto, nrexmt
    rttinit,    \* s_rttinit
    timer,      \* s_recvtimer
    elapsed,    \* seconds since s_recvbegin
    recvbuf,    \* the seq of the answer in cli->recvbuf, 0 before the first
    outcome,    \* of the last request
    requests, answers,  \* datagrams on their way: [seq, k, age]
    copies,     \* history: times the network repeated a datagram of a request
    executed,   \* history: times the server carried out each request
    sent,       \* history: times the current request was sent
    since,      \* history: seconds since it was first sent
    errors,     \* socket errors so far
    erred       \* history: an error left the timeout as it was

client == <<pc, seq, kind, rtt, rttinit, timer, elapsed, recvbuf, outcome>>
net    == <<requests, answers, copies, executed>>
vars   == <<client, net, sent, since, errors, erred>>

Kind     == {"query", "other", "toolong"}    \* only JX_MFLAG_CLIENT_QUERY waits

-----------------------------------------------------------------------------
(* rtt.c *)

Bound(x, low, high) == IF x < low THEN low ELSE IF x > high THEN high ELSE x
RttMinMax(rto) == Bound(rto, RTT_RXTMIN * Unit, RTT_RXTMAX * Unit)
RtoCalc(srtt, rttvar) == srtt + 4 * rttvar

\* rtt_init
RttInit ==
    [rtt |-> 0, srtt |-> 0, rttvar |-> (3 * Unit) \div 4, nrexmt |-> 0,
     rto |-> RttMinMax(RtoCalc(0, (3 * Unit) \div 4))]

RttNewPack(r) == [r EXCEPT !.nrexmt = 0]

\* rtt_start rounds to seconds.
RttStart(r) == (2 * r.rto + Unit) \div (2 * Unit)

\* A mutant of RttStop: the estimate is not bounded.
RttStopUnbounded(r, ms) ==
    LET delta == ms - r.srtt
    IN  [r EXCEPT !.rtt = ms, !.srtt = @ + delta \div 8, !.rttvar = @ - @ \div 4,
                  !.rto = RtoCalc(r.srtt + delta \div 8, r.rttvar - r.rttvar \div 4)]

\* rtt_stop, with Jacobson's gains of 1/8 and 1/4.
RttStop(r, ms) ==
    LET delta  == ms - r.srtt
        srtt   == r.srtt + delta \div 8
        rttvar == r.rttvar + ((IF delta < 0 THEN -delta ELSE delta) - r.rttvar) \div 4
    IN  [r EXCEPT !.rtt = ms, !.srtt = srtt, !.rttvar = rttvar,
                  !.rto = RttMinMax(RtoCalc(srtt, rttvar))]

\* rtt_timeout doubles the timeout without a bound; giving up is tested apart.
RttTimeout(r) == [r EXCEPT !.rto = 2 * @, !.nrexmt = @ + 1]

GiveUp(r) == r.nrexmt > RTT_MAXNREXMT

-----------------------------------------------------------------------------
(* jxclient_sendrecv *)

Init ==
    /\ pc = "idle" /\ seq = 0 /\ kind = "query"
    /\ rtt = RttInit /\ rttinit = FALSE
    /\ timer = 0 /\ elapsed = 0 /\ recvbuf = 0 /\ outcome = "none"
    /\ requests = {} /\ answers = {}
    /\ copies = [n \in 1 .. MaxRequests |-> 0]
    /\ executed = [n \in 1 .. MaxRequests |-> 0]
    /\ sent = 0 /\ since = 0 /\ errors = 0 /\ erred = FALSE

Finish(o) == pc' = "idle" /\ outcome' = o

\* What is left of earlier requests has no age that matters any more.
Aged(datagrams) == {[d EXCEPT !.age = MaxAge] : d \in datagrams}

\* A mutant of Request: it keeps the number.
RequestSameSeq(what) ==
    /\ pc = "idle" /\ seq < MaxRequests
    /\ seq' = IF seq = 0 THEN 1 ELSE seq
    /\ kind' = what /\ rtt' = RttNewPack(rtt) /\ rttinit' = TRUE
    /\ pc' = "send" /\ outcome' = "none"
    /\ requests' = Aged(requests) /\ answers' = Aged(answers)
    /\ sent' = 0 /\ since' = 0
    /\ UNCHANGED <<timer, elapsed, recvbuf, copies, executed, errors, erred>>

\* A request gets the next number.
Request(what) ==
    /\ pc = "idle" /\ seq < MaxRequests
    /\ seq' = seq + 1 /\ kind' = what
    /\ rtt' = RttNewPack(IF rttinit THEN rtt ELSE RttInit)
    /\ rttinit' = TRUE
    /\ pc' = "send" /\ outcome' = "none"
    /\ requests' = Aged(requests) /\ answers' = Aged(answers)
    /\ sent' = 0 /\ since' = 0
    /\ UNCHANGED <<timer, elapsed, recvbuf, copies, executed, errors, erred>>

\* One that does not fit returns 1, which the caller takes for a byte of an
\* answer: it processes what recvbuf still holds.
TooLong ==
    /\ pc = "send" /\ kind = "toolong"
    /\ Finish("stale")
    /\ UNCHANGED <<seq, kind, rtt, rttinit, timer, elapsed, recvbuf, net, sent, since, errors, erred>>

\* sendto, and s_reset_recvtimer when the request waits for an answer.
Send ==
    /\ pc = "send" /\ kind # "toolong"
    /\ requests' = requests \union {[seq |-> seq, k |-> sent + 1, age |-> 0]}
    /\ sent' = sent + 1
    /\ IF kind = "query"
       THEN /\ pc' = "poll" /\ elapsed' = 0 /\ timer' = RttStart(rtt)
            /\ UNCHANGED outcome
       ELSE Finish("sent") /\ UNCHANGED <<elapsed, timer>>
    /\ UNCHANGED <<seq, kind, rtt, rttinit, recvbuf, answers, copies, executed, since, errors, erred>>

\* rtt_timeout decides whether the request is sent again or given up, after
\* which the estimator starts anew.
Resend ==
    /\ rtt' = RttTimeout(rtt)
    /\ IF GiveUp(rtt')
       THEN Finish("timeout") /\ rttinit' = FALSE /\ erred' = FALSE
       ELSE pc' = "send" /\ UNCHANGED <<rttinit, outcome, erred>>
    /\ UNCHANGED recvbuf

\* A mutant of Left: every poll starts the span anew.
LeftRestarted == timer
\* s_recv_elapsed takes the whole time since the start off at every poll.
Left == timer - elapsed

Timeout ==
    /\ pc = "poll" /\ Left <= 0
    /\ timer' = Left /\ seq' = seq
    /\ Resend
    /\ UNCHANGED <<kind, elapsed, net, sent, since, errors>>

\* recvfrom has nothing yet.
Poll ==
    /\ pc = "poll" /\ Left > 0
    /\ timer' = Left
    /\ UNCHANGED <<pc, seq, kind, rtt, rttinit, elapsed, recvbuf, outcome,
                   net, sent, since, errors, erred>>

\* A mutant of Accepts: any answer will do.
AcceptsAny(d) == d.age <= MaxAge

\* Every answer is longer than its header, as the test asks for as well: it
\* holds the number of the method at least (msgprocess.c:135).
Accepts(d) == d.seq = seq

\* It has an answer.  The buffer holds it even when it is not accepted.
Receive(d) ==
    /\ pc = "poll" /\ Left > 0 /\ d \in answers
    /\ timer' = Left /\ recvbuf' = d.seq
    /\ answers' = answers \ {d}
    /\ IF Accepts(d)
       THEN /\ Finish("answer") /\ erred' = FALSE
            /\ rtt' = RttStop(rtt, d.age * Unit)
       ELSE UNCHANGED <<pc, outcome, erred, rtt>>
    /\ UNCHANGED <<seq, kind, rttinit, elapsed, requests, copies, executed, sent, since, errors>>

\* sendto or recvfrom fails: the timeout stays as it is, also when doubled.
Fail ==
    /\ \/ pc = "send" /\ kind # "toolong" /\ timer' = timer
       \/ pc = "poll" /\ Left > 0 /\ timer' = Left
    /\ errors < MaxErrors /\ errors' = errors + 1 /\ erred' = TRUE
    /\ Finish("error")
    /\ UNCHANGED <<seq, kind, rtt, rttinit, elapsed, recvbuf, net, sent, since>>

-----------------------------------------------------------------------------
(* Time, the network and the server *)

Older(datagrams) ==
    {[d EXCEPT !.age = IF @ < MaxAge THEN @ + 1 ELSE @] : d \in datagrams}

Tick ==
    /\ pc = "poll"
    /\ elapsed' = Bound(elapsed + 1, 0, MaxAge) /\ since' = Bound(since + 1, 0, MaxAge)
    /\ requests' = Older(requests) /\ answers' = Older(answers)
    /\ UNCHANGED <<pc, seq, kind, rtt, rttinit, timer, recvbuf, outcome,
                   copies, executed, sent, errors, erred>>

Lose(d) ==
    /\ d \in requests \union answers
    /\ requests' = requests \ {d} /\ answers' = answers \ {d}
    /\ UNCHANGED <<client, copies, executed, sent, since, errors, erred>>

\* jxserver_send
ServerSend(d) == answers' = answers \union {d}

\* The server carries out a request and answers it; the network may keep a copy.
Serve(d, again) ==
    /\ d \in requests
    /\ again => copies[d.seq] < MaxCopies
    /\ executed' = [executed EXCEPT ![d.seq] = @ + 1]
    /\ copies' = IF again THEN [copies EXCEPT ![d.seq] = @ + 1] ELSE copies
    /\ requests' = IF again THEN requests ELSE requests \ {d}
    /\ ServerSend(d)
    /\ UNCHANGED <<client, sent, since, errors, erred>>

Next ==
    \/ \E what \in Kind : Request(what)
    \/ TooLong \/ Send \/ Timeout \/ Poll \/ Fail \/ Tick
    \/ \E d \in answers : Receive(d)
    \/ \E d \in requests \union answers : Lose(d)
    \/ \E d \in requests, again \in BOOLEAN : Serve(d, again)

Spec == Init /\ [][Next]_vars

\* The client runs and time passes; the network and the server owe nothing.
FairSpec ==
    /\ Spec
    /\ WF_vars(TooLong \/ Send) /\ WF_vars(Timeout \/ Poll) /\ WF_vars(Tick)

-----------------------------------------------------------------------------
(* Properties *)

\* The request whose answer the caller finds in recvbuf when it is told of one.
Given == IF pc = "idle" /\ outcome \in {"answer", "stale"} THEN recvbuf ELSE 0

\* A request answered was carried out, whatever late answers to earlier requests
\* or transmissions were on their way, and the answer is its own; a request too
\* long to send is never carried out, and its caller is given an old answer or
\* none: the loop implements RemoteCall.
Promise == INSTANCE RemoteCall WITH
    req      <- seq,
    fits     <- kind # "toolong",
    pending  <- pc # "idle",
    given    <- Given,
    MaxTimes <- RTT_MAXNREXMT + 1 + MaxCopies
ImplementsRemoteCall == Promise!Spec

\* The round trip that enters the estimate is one of the request answered: no
\* longer than the time since it was first sent.
RttOfThisRequest ==
    [][(outcome' = "answer" /\ pc # "idle") => rtt'.rtt <= since * Unit]_vars

\* Between requests the timeout is within its bounds again, however often it was
\* doubled, unless a socket error left it doubled.
RtoInRange ==
    pc = "idle" /\ ~erred /\ rttinit
    => rtt.rto \in RTT_RXTMIN * Unit .. RTT_RXTMAX * Unit

\* Whatever the network does, every request comes to an end.
RequestsEnd == pc # "idle" ~> pc = "idle"

\* "min retransmit timeout value, in seconds" (include/cs/unprtt.h:29).
WaitsBeforeResend ==
    [][pc = "poll" /\ pc' = "send" => elapsed >= RTT_RXTMIN]_vars
=============================================================================

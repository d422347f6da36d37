--------------------------- MODULE SendRecvProofs ---------------------------
(***************************************************************************)
(* The reliable request proved for every number of requests, of            *)
(* retransmissions and of repeated datagrams, and for every bound of the   *)
(* timeout: it keeps the promise of RemoteCall, times only its own answer  *)
(* and leaves the timeout in its bounds.                                   *)
(*                                                                         *)
(* The hard part of the promise is its bound on how often the server       *)
(* carries out one request.  Every transmission is carried out once, and   *)
(* once more for each copy the network keeps of it, so what was carried    *)
(* out and what is still on its way are together no more than what was     *)
(* sent and copied (Counted).  A transmission is told by its number k,     *)
(* which neither ageing nor loss changes.                                  *)
(***************************************************************************)
EXTENDS SendRecv, FiniteSetTheorems, TLAPS

Transmission == 1 .. RTT_MAXNREXMT + 1

Rtt == [rtt : Int, srtt : Int, rttvar : Int, rto : Int, nrexmt : Nat]

Datagram == [seq : 1 .. MaxRequests, k : Transmission, age : 0 .. MaxAge]

Low  == RTT_RXTMIN * Unit
High == RTT_RXTMAX * Unit

-----------------------------------------------------------------------------
(* The inductive invariant. *)

ClientOK ==
    /\ pc \in {"idle", "send", "poll"}
    /\ seq \in 0 .. MaxRequests
    /\ kind \in Kind
    /\ rtt \in Rtt
    /\ timer \in Int /\ elapsed \in 0 .. MaxAge /\ since \in 0 .. MaxAge
    /\ sent \in 0 .. RTT_MAXNREXMT + 1 /\ errors \in Nat

NetOK ==
    /\ requests \subseteq Datagram
    /\ answers \subseteq Datagram
    /\ copies \in [1 .. MaxRequests -> 0 .. MaxCopies]
    /\ executed \in [1 .. MaxRequests -> Nat]

\* How far the current request has come, by where the client is.
Sending ==
    /\ pc = "send" =>
         /\ sent = rtt.nrexmt /\ sent <= RTT_MAXNREXMT
         /\ kind # "query" => sent = 0
    /\ pc = "poll" =>
         /\ kind = "query" /\ sent = rtt.nrexmt + 1
    /\ pc # "idle" => outcome = "none" /\ seq \in 1 .. MaxRequests

\* The timeout is in its bounds whenever no timer of this request has run.
InRange ==
    rttinit /\ ~erred /\ (pc = "idle" \/ sent = 0) => rtt.rto \in Low .. High

\* Nothing on its way is of a request to come, or older than its request.
Fresh ==
    \A d \in requests \union answers :
        d.seq <= seq /\ (d.seq = seq => d.age <= since)

\* An answer is one to a request that was carried out.
Answered == \A d \in answers : executed[d.seq] > 0

\* What is in recvbuf is an answer to an earlier request, or to this one when
\* the loop has ended with it; a request too long to send is never on its way.
Buffered ==
    /\ recvbuf \in 0 .. seq
    /\ recvbuf > 0 => executed[recvbuf] > 0
    /\ pc # "idle" => recvbuf < seq
    /\ pc = "idle" /\ outcome = "answer" => recvbuf = seq
    /\ kind = "toolong" => \A d \in requests : d.seq # seq

\* Two transmissions of one request are told apart by their number.
Numbered ==
    /\ \A d, e \in requests : d.seq = e.seq /\ d.k = e.k => d = e
    /\ \A d \in requests : d.seq = seq => d.k <= sent

\* The transmissions of request n that are on their way, and how many there were.
NumbersOf(D, n) == {k \in Transmission : \E d \in D : d.seq = n /\ d.k = k}
Flying(n) == NumbersOf(requests, n)
Sends(n)  == IF n = seq THEN sent ELSE IF n < seq THEN RTT_MAXNREXMT + 1 ELSE 0

Counted ==
    \A n \in 1 .. MaxRequests :
        executed[n] + Cardinality(Flying(n)) <= copies[n] + Sends(n)

IInv ==
    /\ ClientOK /\ NetOK
    /\ Sending /\ InRange
    /\ Fresh /\ Answered
    /\ Numbered /\ Counted

-----------------------------------------------------------------------------
(* The estimator. *)

LEMMA ProductOrder ==
    ASSUME NEW a \in Nat, NEW b \in Nat, NEW c \in Nat, a <= b
    PROVE  a * c \in Nat /\ b * c \in Nat /\ a * c <= b * c
<1>1. b = a + (b - a) /\ b - a \in Nat
  OBVIOUS
<1>2. b * c = a * c + (b - a) * c
  BY <1>1, SMT
<1>3. (b - a) * c \in Nat /\ a * c \in Nat
  BY <1>1
<1> QED
  BY <1>2, <1>3

LEMMA Bounds == Low \in Nat /\ High \in Nat /\ Low <= High
  BY SendRecvAssumption, ProductOrder DEF Low, High

LEMMA Clamped == ASSUME NEW x \in Int PROVE RttMinMax(x) \in Low .. High
<1>1. RttMinMax(x) = Bound(x, Low, High)
  BY DEF RttMinMax, Low, High
<1> QED
  BY <1>1, Bounds DEF Bound

LEMMA InitialRtt == RttInit \in Rtt /\ RttInit.rto \in Low .. High
<1>1. (3 * Unit) \div 4 \in Int
  BY SendRecvAssumption
<1>2. RtoCalc(0, (3 * Unit) \div 4) \in Int
  BY <1>1 DEF RtoCalc
<1>3. RttMinMax(RtoCalc(0, (3 * Unit) \div 4)) \in Low .. High
  BY <1>2, Clamped
<1> QED
  BY <1>1, <1>3, Bounds DEF RttInit, Rtt

LEMMA StoppedRtt ==
    ASSUME NEW r \in Rtt, NEW ms \in Int
    PROVE  /\ RttStop(r, ms) \in Rtt
           /\ RttStop(r, ms).rto \in Low .. High
           /\ RttStop(r, ms).rtt = ms
           /\ RttStop(r, ms).nrexmt = r.nrexmt
<1> DEFINE delta  == ms - r.srtt
           srtt   == r.srtt + delta \div 8
           far    == IF delta < 0 THEN -delta ELSE delta
           rttvar == r.rttvar + (far - r.rttvar) \div 4
<1>1. r.srtt \in Int /\ r.rttvar \in Int /\ r.nrexmt \in Nat
  BY DEF Rtt
<1>2. delta \in Int /\ far \in Int
  BY <1>1
<1>3. srtt \in Int /\ rttvar \in Int
  <2> HIDE DEF delta, far
  <2> QED
    BY <1>1, <1>2
<1> HIDE DEF srtt, rttvar
<1>4. RtoCalc(srtt, rttvar) \in Int
  BY <1>3 DEF RtoCalc
<1>5. RttMinMax(RtoCalc(srtt, rttvar)) \in Low .. High
  BY <1>4, Clamped
<1> DEFINE rto == RttMinMax(RtoCalc(srtt, rttvar))
<1>6. RttStop(r, ms) = [r EXCEPT !.rtt = ms, !.srtt = srtt, !.rttvar = rttvar,
                                 !.rto = rto]
  BY DEF RttStop, srtt, rttvar
<1>7. rto \in Int /\ rto \in Low .. High
  BY <1>5, Bounds
<1> HIDE DEF rto
<1>8. RttStop(r, ms) = [rtt |-> ms, srtt |-> srtt, rttvar |-> rttvar, rto |-> rto,
                        nrexmt |-> r.nrexmt]
  BY <1>6 DEF Rtt
<1> QED
  BY <1>1, <1>3, <1>7, <1>8 DEF Rtt

LEMMA DoubledRtt ==
    ASSUME NEW r \in Rtt
    PROVE  RttTimeout(r) \in Rtt /\ RttTimeout(r).nrexmt = r.nrexmt + 1
<1> DEFINE double == 2 * r.rto
           count  == r.nrexmt + 1
<1>1. double \in Int /\ count \in Nat
  BY DEF Rtt
<1>2. RttTimeout(r) = [r EXCEPT !.rto = double, !.nrexmt = count]
  BY DEF RttTimeout
<1> HIDE DEF double
<1>3. RttTimeout(r) \in Rtt /\ RttTimeout(r).nrexmt = count
  <2> HIDE DEF count
  <2> QED
    BY <1>1, <1>2 DEF Rtt
<1> QED
  BY <1>3

LEMMA NewPackRtt ==
    ASSUME NEW r \in Rtt
    PROVE  /\ RttNewPack(r) \in Rtt
           /\ RttNewPack(r).nrexmt = 0 /\ RttNewPack(r).rto = r.rto
  BY DEF RttNewPack, Rtt

-----------------------------------------------------------------------------
(* Ageing changes no number. *)

\* E is D grown older, by at most one second where the age still matters.
Renewed(D, E) ==
    /\ E \subseteq Datagram
    /\ \A d \in D : \E e \in E : e.seq = d.seq /\ e.k = d.k
    /\ \A e \in E : \E d \in D : e.seq = d.seq /\ e.k = d.k

LEMMA AgedRenewed ==
    ASSUME NEW D \in SUBSET Datagram
    PROVE  /\ Renewed(D, Aged(D))
           /\ \A d, e \in Aged(D) : d.seq = e.seq /\ d.k = e.k => d = e
<1>1. MaxAge \in 0 .. MaxAge
  BY SendRecvAssumption
<1>2. \A d \in D : LET a == [d EXCEPT !.age = MaxAge]
                   IN  a \in Datagram /\ a.seq = d.seq /\ a.k = d.k /\ a.age = MaxAge
  BY <1>1 DEF Datagram
<1>3. \A e \in Aged(D) : e \in Datagram /\ e.age = MaxAge
  BY <1>2 DEF Aged
<1>4. \A d, e \in Aged(D) : d.seq = e.seq /\ d.k = e.k => d = e
  BY <1>3 DEF Datagram
<1>5. Renewed(D, Aged(D))
  BY <1>2 DEF Aged, Renewed
<1> QED
  BY <1>4, <1>5

LEMMA OlderRenewed ==
    ASSUME NEW D \in SUBSET Datagram
    PROVE  /\ Renewed(D, Older(D))
           /\ \A e \in Older(D) :
                \E d \in D : e.seq = d.seq /\ e.age <= Bound(d.age + 1, 0, MaxAge)
           /\ (\A d, e \in D : d.seq = e.seq /\ d.k = e.k => d = e)
              => \A d, e \in Older(D) : d.seq = e.seq /\ d.k = e.k => d = e
<1> DEFINE older(d) == [d EXCEPT !.age = IF @ < MaxAge THEN @ + 1 ELSE @]
<1>1. Older(D) = {older(d) : d \in D}
  BY DEF Older
<1>2. ASSUME NEW d \in D
      PROVE  /\ older(d) \in Datagram
             /\ older(d).seq = d.seq /\ older(d).k = d.k
             /\ older(d).age <= Bound(d.age + 1, 0, MaxAge)
  <2>1. d \in Datagram /\ d.age \in 0 .. MaxAge
    BY DEF Datagram
  <2>2. (IF d.age < MaxAge THEN d.age + 1 ELSE d.age) \in 0 .. MaxAge
    BY <2>1, SendRecvAssumption
  <2>3. older(d).age = IF d.age < MaxAge THEN d.age + 1 ELSE d.age
    BY <2>1 DEF Datagram
  <2>4. older(d).age <= Bound(d.age + 1, 0, MaxAge)
    BY <2>1, <2>3, SendRecvAssumption DEF Bound
  <2> QED
    BY <2>1, <2>2, <2>4 DEF Datagram
<1> HIDE DEF older
<1> QED
  BY <1>1, <1>2 DEF Renewed
-----------------------------------------------------------------------------
(* The transmissions on their way. *)

LEMMA NumbersFinite ==
    ASSUME NEW D, NEW n
    PROVE  /\ IsFiniteSet(NumbersOf(D, n))
           /\ Cardinality(NumbersOf(D, n)) \in Nat
<1>1. IsFiniteSet(Transmission)
  BY SendRecvAssumption, FS_Interval DEF Transmission
<1>2. NumbersOf(D, n) \in SUBSET Transmission
  BY DEF NumbersOf
<1> QED
  BY <1>1, <1>2, FS_Subset, FS_CardinalityType

LEMMA FewerNumbers ==
    ASSUME NEW E, NEW D \in SUBSET E, NEW n
    PROVE  Cardinality(NumbersOf(D, n)) <= Cardinality(NumbersOf(E, n))
<1>1. NumbersOf(D, n) \in SUBSET NumbersOf(E, n)
  BY DEF NumbersOf
<1> QED
  BY <1>1, NumbersFinite, FS_Subset

LEMMA SameNumbers ==
    ASSUME NEW D, NEW E, Renewed(D, E), NEW n
    PROVE  NumbersOf(E, n) = NumbersOf(D, n)
  BY DEF Renewed, NumbersOf

\* Sending adds a transmission to its own request alone.
LEMMA OneMoreNumber ==
    ASSUME NEW D, NEW d, NEW n
    PROVE  Cardinality(NumbersOf(D \union {d}, n))
             <= Cardinality(NumbersOf(D, n)) + (IF n = d.seq THEN 1 ELSE 0)
<1>1. CASE n = d.seq
  <2>1. NumbersOf(D \union {d}, n) \in SUBSET (NumbersOf(D, n) \union {d.k})
    BY DEF NumbersOf
  <2>2. /\ IsFiniteSet(NumbersOf(D, n) \union {d.k})
        /\ Cardinality(NumbersOf(D, n) \union {d.k}) <= Cardinality(NumbersOf(D, n)) + 1
    BY NumbersFinite, FS_AddElement
  <2>3. /\ Cardinality(NumbersOf(D \union {d}, n)) <= Cardinality(NumbersOf(D, n) \union {d.k})
        /\ Cardinality(NumbersOf(D \union {d}, n)) \in Nat
        /\ Cardinality(NumbersOf(D, n) \union {d.k}) \in Nat
    BY <2>1, <2>2, NumbersFinite, FS_Subset, FS_CardinalityType
  <2> QED
    BY <1>1, <2>2, <2>3, NumbersFinite
<1>2. CASE n # d.seq
  <2>1. NumbersOf(D \union {d}, n) = NumbersOf(D, n)
    BY <1>2 DEF NumbersOf
  <2> QED
    BY <1>2, <2>1, NumbersFinite
<1> QED
  BY <1>1, <1>2

\* A transmission that arrives is on its way no more.
LEMMA OneNumberLess ==
    ASSUME NEW D \in SUBSET Datagram, NEW d \in D,
           \A c, e \in D : c.seq = e.seq /\ c.k = e.k => c = e
    PROVE  Cardinality(NumbersOf(D \ {d}, d.seq)) + 1 = Cardinality(NumbersOf(D, d.seq))
<1>1. d.k \in NumbersOf(D, d.seq)
  BY DEF NumbersOf, Datagram
<1>2. NumbersOf(D \ {d}, d.seq) = NumbersOf(D, d.seq) \ {d.k}
  BY DEF NumbersOf
<1>3. /\ IsFiniteSet(NumbersOf(D, d.seq))
      /\ Cardinality(NumbersOf(D, d.seq)) \in Nat
  BY NumbersFinite
<1>4. Cardinality(NumbersOf(D, d.seq) \ {d.k}) = Cardinality(NumbersOf(D, d.seq)) - 1
  BY <1>1, <1>3, FS_RemoveElement
<1> QED
  <2> DEFINE c == Cardinality(NumbersOf(D, d.seq))
             m == Cardinality(NumbersOf(D \ {d}, d.seq))
  <2>1. c \in Nat /\ m = c - 1
    BY <1>2, <1>3, <1>4
  <2> HIDE DEF c, m
  <2>2. m + 1 = c
    BY <2>1
  <2> QED
    BY <2>2 DEF c, m

-----------------------------------------------------------------------------
(* The invariant holds at first and in every step. *)

LEMMA InvInit == Init => IInv
<1> SUFFICES ASSUME Init PROVE IInv
  OBVIOUS
<1> USE SendRecvAssumption DEF Init
<1>1. ClientOK
  BY InitialRtt DEF ClientOK, Kind
<1>2. NetOK
  BY DEF NetOK
<1>3. Sending /\ InRange /\ Fresh /\ Answered /\ Numbered
  BY DEF Sending, InRange, Fresh, Answered, Numbered
<1>4. Counted
  <2> SUFFICES ASSUME NEW n \in 1 .. MaxRequests
               PROVE  executed[n] + Cardinality(Flying(n)) <= copies[n] + Sends(n)
    BY DEF Counted
  <2>1. Flying(n) = {}
    BY DEF Flying, NumbersOf
  <2> QED
    BY <2>1, FS_EmptySet DEF Sends
<1> QED
  BY <1>1, <1>2, <1>3, <1>4 DEF IInv

\* What the client does by itself leaves the network as it is.
LEMMA NetAlone ==
    ASSUME IInv, UNCHANGED <<net, seq, sent, since>>
    PROVE  NetOK' /\ Fresh' /\ Answered' /\ Numbered' /\ Counted'
  BY DEF IInv, net, NetOK, Fresh, Answered, Numbered, Counted, Flying, Sends

LEMMA InvTooLong == IInv /\ TooLong => IInv'
<1> SUFFICES ASSUME IInv, TooLong PROVE IInv'
  OBVIOUS
<1>1. NetOK' /\ Fresh' /\ Answered' /\ Numbered' /\ Counted'
  BY NetAlone DEF TooLong
<1>2. ClientOK' /\ Sending' /\ InRange'
  BY DEF IInv, TooLong, Finish, ClientOK, Sending, InRange
<1> QED
  BY <1>1, <1>2 DEF IInv

LEMMA InvTimeout == IInv /\ Timeout => IInv'
<1> SUFFICES ASSUME IInv, Timeout PROVE IInv'
  OBVIOUS
<1>1. NetOK' /\ Fresh' /\ Answered' /\ Numbered' /\ Counted'
  BY NetAlone DEF Timeout
<1>2. rtt' \in Rtt /\ rtt'.nrexmt = rtt.nrexmt + 1
  BY DoubledRtt DEF IInv, ClientOK, Timeout, Resend
<1>3. ClientOK'
  BY <1>2 DEF IInv, Timeout, Resend, Finish, Left, ClientOK, Rtt
<1>4. Sending' /\ InRange'
  BY <1>2, SendRecvAssumption
     DEF IInv, Timeout, Resend, Finish, GiveUp, ClientOK, Sending, InRange, Rtt
<1> QED
  BY <1>1, <1>3, <1>4 DEF IInv

LEMMA InvPoll == IInv /\ Poll => IInv'
<1> SUFFICES ASSUME IInv, Poll PROVE IInv'
  OBVIOUS
<1>1. NetOK' /\ Fresh' /\ Answered' /\ Numbered' /\ Counted'
  BY NetAlone DEF Poll
<1>2. ClientOK' /\ Sending' /\ InRange'
  BY DEF IInv, Poll, Left, ClientOK, Sending, InRange
<1> QED
  BY <1>1, <1>2 DEF IInv

LEMMA InvFail == IInv /\ Fail => IInv'
<1> SUFFICES ASSUME IInv, Fail PROVE IInv'
  OBVIOUS
<1>1. NetOK' /\ Fresh' /\ Answered' /\ Numbered' /\ Counted'
  BY NetAlone DEF Fail
<1>2. ClientOK' /\ Sending' /\ InRange'
  BY DEF IInv, Fail, Finish, Left, ClientOK, Sending, InRange
<1> QED
  BY <1>1, <1>2 DEF IInv

\* The last request is over: its transmissions count among the earlier ones.
LEMMA InvRequest == IInv /\ (\E what \in Kind : Request(what)) => IInv'
<1> SUFFICES ASSUME IInv, NEW what \in Kind, Request(what) PROVE IInv'
  OBVIOUS
<1> USE DEF Request
<1>1. /\ seq \in 0 .. MaxRequests /\ seq < MaxRequests /\ sent \in 0 .. RTT_MAXNREXMT + 1
      /\ requests \in SUBSET Datagram /\ answers \in SUBSET Datagram
  BY DEF IInv, ClientOK, NetOK
<1>2. /\ rtt' \in Rtt /\ rtt'.nrexmt = 0
      /\ ~erred => rtt'.rto \in Low .. High
  BY NewPackRtt, InitialRtt DEF IInv, ClientOK, InRange
<1>3. /\ Renewed(requests, requests') /\ Renewed(answers, answers')
      /\ \A d, e \in requests' : d.seq = e.seq /\ d.k = e.k => d = e
  BY <1>1, AgedRenewed
<1>4. ClientOK' /\ Sending' /\ InRange'
  BY <1>1, <1>2, SendRecvAssumption DEF IInv, ClientOK, Sending, InRange
<1>5. NetOK'
  BY <1>3 DEF IInv, NetOK, Renewed
<1>6. \A d \in requests' \union answers' : d.seq <= seq /\ d.seq # seq'
  <2> SUFFICES ASSUME NEW d \in requests' \union answers'
               PROVE  d.seq <= seq /\ d.seq # seq'
    OBVIOUS
  <2>1. PICK c \in requests \union answers : c.seq = d.seq
    BY <1>3 DEF Renewed
  <2>2. c.seq <= seq /\ c.seq \in 1 .. MaxRequests
    BY <1>1 DEF IInv, Fresh, Datagram
  <2> QED
    BY <1>1, <2>1, <2>2, SendRecvAssumption
<1>7. Fresh'
  <2> SUFFICES ASSUME NEW d \in requests' \union answers'
               PROVE  d.seq <= seq' /\ d.seq # seq'
    BY DEF Fresh
  <2>1. d.seq \in 1 .. MaxRequests
    BY <1>5 DEF NetOK, Datagram
  <2> QED
    BY <1>1, <1>6, <2>1, SendRecvAssumption
<1>8. Answered'
  BY <1>3 DEF IInv, Answered, Renewed
<1>9. Numbered'
  BY <1>3, <1>6 DEF Numbered
<1>10. Counted'
  <2> SUFFICES ASSUME NEW n \in 1 .. MaxRequests
               PROVE  executed'[n] + Cardinality(Flying(n)') <= copies'[n] + Sends(n)'
    BY DEF Counted
  <2>1. Flying(n)' = Flying(n)
    BY <1>3, SameNumbers DEF Flying
  <2>2. Sends(n) \in Nat /\ Sends(n)' \in Nat /\ Sends(n) <= Sends(n)'
    BY <1>1, SendRecvAssumption DEF Sends
  <2>3. executed[n] + Cardinality(Flying(n)) <= copies[n] + Sends(n)
    BY DEF IInv, Counted
  <2>4. executed[n] \in Nat /\ copies[n] \in Nat /\ Cardinality(Flying(n)) \in Nat
    BY NumbersFinite, SendRecvAssumption DEF IInv, NetOK, Flying
  <2>5. executed'[n] = executed[n] /\ copies'[n] = copies[n]
    OBVIOUS
  <2> QED
    BY <2>1, <2>2, <2>3, <2>4, <2>5
<1> QED
  BY <1>4, <1>5, <1>7, <1>8, <1>9, <1>10 DEF IInv

LEMMA InvSend == IInv /\ Send => IInv'
<1> SUFFICES ASSUME IInv, Send PROVE IInv'
  OBVIOUS
<1> DEFINE new == [seq |-> seq, k |-> sent + 1, age |-> 0]
<1>1. /\ seq \in 1 .. MaxRequests /\ sent \in 0 .. RTT_MAXNREXMT
      /\ since \in 0 .. MaxAge
      /\ requests' = requests \union {new} /\ sent' = sent + 1
  BY SendRecvAssumption DEF IInv, ClientOK, Sending, Send
<1>2. new \in Datagram
  BY <1>1, SendRecvAssumption DEF Datagram, Transmission
<1>3. ClientOK'
  <2>1. RttStart(rtt) \in Int
    BY SendRecvAssumption DEF IInv, ClientOK, Rtt, RttStart
  <2> QED
    BY <1>1, <2>1, SendRecvAssumption DEF IInv, ClientOK, Send, Finish
<1>4. Sending' /\ InRange'
  BY <1>1 DEF IInv, ClientOK, Sending, InRange, Send, Finish, Kind, Rtt
<1>5. NetOK' /\ Answered'
  BY <1>1, <1>2 DEF IInv, NetOK, Answered, Send
<1>6. Fresh'
  BY <1>1 DEF IInv, Fresh, Send
<1>7. Numbered'
  <2>1. \A d \in requests : d.seq = seq => d.k <= sent /\ d.k \in Nat
    BY DEF IInv, Numbered, NetOK, Datagram, Transmission
  <2>2. new.seq = seq /\ new.k = sent + 1
    OBVIOUS
  <2> HIDE DEF new
  <2>3. \A d \in requests : d.seq = seq => d.k # new.k /\ d.k <= sent + 1
    BY <1>1, <2>1, <2>2
  <2>4. \A d, e \in requests : d.seq = e.seq /\ d.k = e.k => d = e
    BY DEF IInv, Numbered
  <2>5. \A d, e \in requests' : d.seq = e.seq /\ d.k = e.k => d = e
    BY <1>1, <2>2, <2>3, <2>4
  <2>6. \A d \in requests' : d.seq = seq => d.k <= sent'
    BY <1>1, <2>2, <2>3
  <2> QED
    BY <2>5, <2>6 DEF Numbered, Send
<1>8. Counted'
  <2> SUFFICES ASSUME NEW n \in 1 .. MaxRequests
               PROVE  executed'[n] + Cardinality(Flying(n)') <= copies'[n] + Sends(n)'
    BY DEF Counted
  <2> DEFINE one == IF n = seq THEN 1 ELSE 0
  <2>1. Cardinality(Flying(n)') <= Cardinality(Flying(n)) + one
    <3>1. new.seq = seq
      OBVIOUS
    <3> HIDE DEF new
    <3> QED
      BY <1>1, <3>1, OneMoreNumber DEF Flying
  <2>2. Sends(n) \in Nat /\ Sends(n)' = Sends(n) + one
    BY <1>1, SendRecvAssumption DEF Sends, Send
  <2>3. executed[n] + Cardinality(Flying(n)) <= copies[n] + Sends(n)
    BY DEF IInv, Counted
  <2>4. /\ executed[n] \in Nat /\ copies[n] \in Nat
        /\ Cardinality(Flying(n)) \in Nat /\ Cardinality(Flying(n)') \in Nat
    BY NumbersFinite, SendRecvAssumption DEF IInv, NetOK, Flying
  <2>5. executed'[n] = executed[n] /\ copies'[n] = copies[n]
    BY DEF Send
  <2> QED
    BY <2>1, <2>2, <2>3, <2>4, <2>5
<1> QED
  BY <1>3, <1>4, <1>5, <1>6, <1>7, <1>8 DEF IInv

\* Receiving takes an answer off the network and changes no request.
LEMMA InvReceive == IInv /\ (\E d \in answers : Receive(d)) => IInv'
<1> SUFFICES ASSUME IInv, NEW d \in answers, Receive(d) PROVE IInv'
  OBVIOUS
<1>1. d \in Datagram /\ d.age * Unit \in Int
  <2>1. d \in Datagram /\ d.age \in Nat /\ Unit \in Nat
    BY SendRecvAssumption DEF IInv, NetOK, Datagram
  <2>2. d.age * Unit \in Nat
    BY <2>1, ProductOrder
  <2> QED
    BY <2>1, <2>2
<1>2. rtt' \in Rtt /\ rtt'.nrexmt = rtt.nrexmt
  <2>1. rtt \in Rtt
    BY DEF IInv, ClientOK
  <2>2. CASE Accepts(d)
    <3>1. rtt' = RttStop(rtt, d.age * Unit)
      BY <2>2 DEF Receive
    <3> QED
      BY <1>1, <2>1, <3>1, StoppedRtt
  <2>3. CASE ~Accepts(d)
    BY <2>1, <2>3 DEF Receive
  <2> QED
    BY <2>2, <2>3
<1>3. Accepts(d) => rtt'.rto \in Low .. High
  BY <1>1, StoppedRtt DEF IInv, ClientOK, Receive
<1>4. ClientOK'
  BY <1>2 DEF IInv, ClientOK, Receive, Finish, Left
<1>5. Sending' /\ InRange'
  BY <1>2, <1>3 DEF IInv, Sending, InRange, ClientOK, Receive, Finish
<1>6. NetOK' /\ Fresh' /\ Answered' /\ Numbered' /\ Counted'
  BY DEF IInv, NetOK, Fresh, Answered, Numbered, Counted, Flying, Sends, Receive
<1> QED
  BY <1>4, <1>5, <1>6 DEF IInv

\* Time passes for the datagrams and for the request alike.
LEMMA InvTick == IInv /\ Tick => IInv'
<1> SUFFICES ASSUME IInv, Tick PROVE IInv'
  OBVIOUS
<1>1. /\ requests \in SUBSET Datagram /\ answers \in SUBSET Datagram
      /\ since \in 0 .. MaxAge /\ elapsed \in 0 .. MaxAge
  BY DEF IInv, ClientOK, NetOK
<1>2. /\ Renewed(requests, requests') /\ Renewed(answers, answers')
      /\ \A d, e \in requests' : d.seq = e.seq /\ d.k = e.k => d = e
  BY <1>1, OlderRenewed DEF IInv, Numbered, Tick
<1>3. /\ since' = Bound(since + 1, 0, MaxAge) /\ since' \in 0 .. MaxAge
      /\ elapsed' \in 0 .. MaxAge
  BY <1>1, SendRecvAssumption DEF Tick, Bound
<1>4. ClientOK' /\ Sending' /\ InRange'
  BY <1>3 DEF IInv, ClientOK, Sending, InRange, Tick
<1>5. NetOK' /\ Answered'
  BY <1>2 DEF IInv, NetOK, Answered, Renewed, Tick
<1>6. Fresh'
  <2> SUFFICES ASSUME NEW e \in requests' \union answers'
               PROVE  e.seq <= seq /\ (e.seq = seq => e.age <= since')
    BY DEF Fresh, Tick
  <2>1. PICK d \in requests \union answers :
               e.seq = d.seq /\ e.age <= Bound(d.age + 1, 0, MaxAge)
    BY <1>1, OlderRenewed DEF Tick
  <2>2. d.seq <= seq /\ (d.seq = seq => d.age <= since) /\ d.age \in 0 .. MaxAge
    BY <1>1 DEF IInv, Fresh, Datagram
  <2>3. e.age \in 0 .. MaxAge
    BY <1>5 DEF NetOK, Datagram
  <2>4. d.age <= since => Bound(d.age + 1, 0, MaxAge) <= Bound(since + 1, 0, MaxAge)
    BY <1>1, <2>2, SendRecvAssumption DEF Bound
  <2>5. Bound(d.age + 1, 0, MaxAge) \in Int /\ Bound(since + 1, 0, MaxAge) \in Int
    BY <1>1, <2>2, SendRecvAssumption DEF Bound
  <2> QED
    BY <1>3, <2>1, <2>2, <2>3, <2>4, <2>5
<1>7. Numbered'
  BY <1>2 DEF IInv, Numbered, Renewed, Tick
<1>8. Counted'
  <2>1. \A n : Flying(n)' = Flying(n)
    BY <1>2, SameNumbers DEF Flying
  <2> QED
    BY <2>1 DEF IInv, Counted, Sends, Tick
<1> QED
  BY <1>4, <1>5, <1>6, <1>7, <1>8 DEF IInv

\* What the network and the server do leaves the client as it is.
LEMMA ClientAlone ==
    ASSUME IInv, UNCHANGED <<client, sent, since, errors, erred>>
    PROVE  ClientOK' /\ Sending' /\ InRange' /\ \A n : Sends(n)' = Sends(n)
  BY DEF IInv, client, ClientOK, Sending, InRange, Sends

LEMMA InvLose == IInv /\ (\E d \in requests \union answers : Lose(d)) => IInv'
<1> SUFFICES ASSUME IInv, NEW d, Lose(d) PROVE IInv'
  OBVIOUS
<1>1. ClientOK' /\ Sending' /\ InRange' /\ \A n : Sends(n)' = Sends(n)
  BY ClientAlone DEF Lose
<1>2. NetOK' /\ Fresh' /\ Answered' /\ Numbered'
  BY DEF IInv, NetOK, Fresh, Answered, Numbered, Lose, client
<1>3. Counted'
  <2> SUFFICES ASSUME NEW n \in 1 .. MaxRequests
               PROVE  executed'[n] + Cardinality(Flying(n)') <= copies'[n] + Sends(n)'
    BY DEF Counted
  <2>1. Cardinality(Flying(n)') <= Cardinality(Flying(n))
    BY FewerNumbers DEF Flying, Lose
  <2>2. executed[n] + Cardinality(Flying(n)) <= copies[n] + Sends(n)
    BY DEF IInv, Counted
  <2>3. Sends(n) \in Nat
    BY SendRecvAssumption DEF IInv, ClientOK, Sends
  <2>4. /\ executed[n] \in Nat /\ copies[n] \in Nat
        /\ Cardinality(Flying(n)) \in Nat /\ Cardinality(Flying(n)') \in Nat
    BY NumbersFinite, SendRecvAssumption DEF IInv, NetOK, Flying
  <2>5. executed'[n] = executed[n] /\ copies'[n] = copies[n] /\ Sends(n)' = Sends(n)
    BY <1>1 DEF Lose
  <2> QED
    BY <2>1, <2>2, <2>3, <2>4, <2>5
<1> QED
  BY <1>1, <1>2, <1>3 DEF IInv

\* A transmission is carried out: it is on its way no more, or the network kept
\* a copy of it.
LEMMA InvServe ==
    IInv /\ (\E d \in requests, again \in BOOLEAN : Serve(d, again)) => IInv'
<1> SUFFICES ASSUME IInv, NEW d \in requests, NEW again \in BOOLEAN, Serve(d, again)
             PROVE  IInv'
  OBVIOUS
<1>1. /\ requests \in SUBSET Datagram /\ d \in Datagram /\ d.seq \in 1 .. MaxRequests
      /\ executed \in [1 .. MaxRequests -> Nat]
      /\ copies \in [1 .. MaxRequests -> 0 .. MaxCopies]
      /\ executed' = [executed EXCEPT ![d.seq] = @ + 1]
      /\ requests' \in SUBSET requests /\ answers' = answers \union {d}
  BY DEF IInv, NetOK, Datagram, Serve, ServerSend
<1>2. ClientOK' /\ Sending' /\ InRange' /\ \A n : Sends(n)' = Sends(n)
  BY ClientAlone DEF Serve
<1>3. copies' \in [1 .. MaxRequests -> 0 .. MaxCopies]
  <2>1. CASE again
    <3>1. copies[d.seq] + 1 \in 0 .. MaxCopies
      BY <1>1, <2>1, SendRecvAssumption DEF Serve
    <3> QED
      BY <1>1, <2>1, <3>1 DEF Serve
  <2>2. CASE ~again
    BY <1>1, <2>2 DEF Serve
  <2> QED
    BY <2>1, <2>2
<1>4. NetOK'
  BY <1>1, <1>3 DEF IInv, NetOK
<1>5. Fresh' /\ Numbered'
  BY <1>1 DEF IInv, Fresh, Numbered, Serve, client
<1>6. Answered'
  <2> SUFFICES ASSUME NEW e \in answers' PROVE executed'[e.seq] > 0
    BY DEF Answered
  <2>1. e \in Datagram /\ e.seq \in 1 .. MaxRequests
    BY <1>1 DEF IInv, NetOK, Datagram
  <2>2. CASE e.seq = d.seq
    BY <1>1, <2>1, <2>2
  <2>3. CASE e.seq # d.seq
    BY <1>1, <2>1, <2>3 DEF IInv, Answered
  <2> QED
    BY <2>2, <2>3
<1>7. Counted'
  <2> SUFFICES ASSUME NEW n \in 1 .. MaxRequests
               PROVE  executed'[n] + Cardinality(Flying(n)') <= copies'[n] + Sends(n)'
    BY DEF Counted
  <2>1. executed[n] + Cardinality(Flying(n)) <= copies[n] + Sends(n)
    BY DEF IInv, Counted
  <2>2. Sends(n) \in Nat /\ Sends(n)' = Sends(n)
    <3>1. Sends(n) \in Nat
      BY SendRecvAssumption DEF IInv, ClientOK, Sends
    <3> QED
      BY <1>2, <3>1
  <2>3. /\ executed[n] \in Nat /\ copies[n] \in Nat /\ copies'[n] \in Nat
        /\ Cardinality(Flying(n)) \in Nat /\ Cardinality(Flying(n)') \in Nat
    BY <1>1, <1>3, NumbersFinite, SendRecvAssumption DEF Flying
  <2>4. Cardinality(Flying(n)') <= Cardinality(Flying(n))
    BY <1>1, FewerNumbers DEF Flying
  <2>5. CASE n # d.seq
    <3>1. executed'[n] = executed[n]
      BY <1>1, <2>5
    <3>2. copies'[n] = copies[n]
      BY <1>1, <2>5 DEF Serve
    <3> QED
      BY <2>1, <2>2, <2>3, <2>4, <3>1, <3>2
  <2>6. CASE n = d.seq
    <3>1. executed'[n] = executed[n] + 1
      BY <1>1, <2>6
    <3>2. CASE again
      <4>1. copies'[n] = copies[n] + 1
        BY <1>1, <2>6, <3>2 DEF Serve
      <4> QED
        BY <2>1, <2>2, <2>3, <2>4, <3>1, <4>1
    <3>3. CASE ~again
      <4>1. copies'[n] = copies[n] /\ requests' = requests \ {d}
        BY <3>3 DEF Serve
      <4>2. Cardinality(Flying(n)') + 1 = Cardinality(Flying(n))
        BY <1>1, <2>6, <4>1, OneNumberLess DEF IInv, Numbered, Flying
      <4> QED
        BY <2>1, <2>2, <2>3, <3>1, <4>1, <4>2
    <3> QED
      BY <3>2, <3>3
  <2> QED
    BY <2>5, <2>6
<1> QED
  BY <1>2, <1>4, <1>5, <1>6, <1>7 DEF IInv

LEMMA InvStutter == IInv /\ UNCHANGED vars => IInv'
<1> SUFFICES ASSUME IInv, UNCHANGED vars PROVE IInv'
  OBVIOUS
<1>1. ClientOK' /\ Sending' /\ InRange'
  BY ClientAlone DEF vars
<1>2. NetOK' /\ Fresh' /\ Answered' /\ Numbered' /\ Counted'
  BY NetAlone DEF vars, client
<1> QED
  BY <1>1, <1>2 DEF IInv

LEMMA InvNext == IInv /\ [Next]_vars => IInv'
  BY InvRequest, InvTooLong, InvSend, InvTimeout, InvPoll, InvFail, InvTick,
     InvReceive, InvLose, InvServe, InvStutter DEF Next

LEMMA InvBuffered == IInv /\ Buffered /\ [Next]_vars => Buffered'
<1> SUFFICES ASSUME IInv, Buffered, [Next]_vars PROVE Buffered'
  OBVIOUS
<1> USE DEF Buffered, IInv, ClientOK, NetOK, Sending
<1>1. CASE \E what \in Kind : Request(what)
  <2>1. \A d \in requests' : d.seq # seq'
    BY <1>1 DEF Request, Fresh, Aged, Datagram
  <2> QED
    BY <1>1, <2>1 DEF Request
<1>2. CASE TooLong \/ Poll \/ Fail \/ UNCHANGED vars
  BY <1>2 DEF TooLong, Poll, Fail, Finish, vars, client, net
<1>3. CASE Send
  BY <1>3 DEF Send, Finish
<1>4. CASE Timeout
  BY <1>4 DEF Timeout, Resend, Finish, net
<1>5. CASE Tick
  <2>1. \A d \in requests' : \E e \in requests : d.seq = e.seq
    BY <1>5 DEF Tick, Older, Datagram
  <2> QED
    BY <1>5, <2>1 DEF Tick
<1>6. ASSUME NEW d \in answers, Receive(d) PROVE Buffered'
  <2>1. d.seq \in 1 .. seq /\ executed[d.seq] > 0
    BY DEF Fresh, Answered, Datagram
  <2>2. /\ recvbuf' = d.seq
        /\ UNCHANGED <<seq, kind, executed, requests>>
        /\ pc = "poll" /\ outcome = "none"
    BY <1>6 DEF Receive
  <2>3. CASE Accepts(d)
    BY <1>6, <2>1, <2>2, <2>3 DEF Receive, Finish, Accepts
  <2>4. CASE ~Accepts(d)
    <3>1. UNCHANGED <<pc, outcome>> /\ d.seq # seq
      BY <1>6, <2>4 DEF Receive, Accepts
    <3> QED
      BY <2>1, <2>2, <3>1
  <2> QED
    BY <2>3, <2>4
<1>7. ASSUME NEW d, Lose(d) PROVE Buffered'
  BY <1>7 DEF Lose, client
<1>8. ASSUME NEW d \in requests, NEW again \in BOOLEAN, Serve(d, again) PROVE Buffered'
  <2>1. /\ requests' \subseteq requests
        /\ UNCHANGED <<seq, kind, pc, outcome, recvbuf>>
    BY <1>8 DEF Serve, client
  <2>2. recvbuf > 0 => recvbuf \in 1 .. MaxRequests /\ executed'[recvbuf] > 0
    <3>1. /\ executed \in [1 .. MaxRequests -> Nat] /\ d.seq \in 1 .. MaxRequests
          /\ executed' = [executed EXCEPT ![d.seq] = @ + 1]
      BY <1>8 DEF Serve, Datagram
    <3>2. recvbuf > 0 => recvbuf \in 1 .. MaxRequests /\ executed[recvbuf] > 0
      BY SendRecvAssumption
    <3> QED
      BY ONLY <3>1, <3>2
  <2>3. \A d1 \in requests' : d1 \in requests
    BY <2>1
  <2> QED
    BY ONLY <2>1, <2>2, <2>3, Buffered DEF Buffered
<1> QED
  BY <1>1, <1>2, <1>3, <1>4, <1>5, <1>6, <1>7, <1>8 DEF Next

LEMMA Invariant == Spec => []IInv
  BY InvInit, InvNext, PTL DEF Spec
-----------------------------------------------------------------------------
(* What the invariant gives. *)

\* Between requests the timeout is within its bounds, unless a socket error left
\* it doubled: whatever round trips were measured, and however often the timeout
\* was doubled on the way (rtt_minmax in rtt_stop, and rtt_init after giving up).
THEOREM RtoStaysInRange == Spec => []RtoInRange
<1>1. IInv => RtoInRange
  BY DEF IInv, InRange, RtoInRange, Low, High
<1> QED
  BY <1>1, Invariant, PTL

\* jxclient_sendrecv times no answer but its own: the round trip it hands to
\* rtt_stop is no longer than the time since the request was first sent.
THEOREM TimesItsOwnAnswer == Spec => RttOfThisRequest
<1> DEFINE Timed == outcome' = "answer" /\ pc # "idle" => rtt'.rtt <= since * Unit
<1>1. IInv /\ [Next]_vars => [Timed]_vars
  <2> SUFFICES ASSUME IInv, Next, outcome' = "answer", pc # "idle"
               PROVE  rtt'.rtt <= since * Unit
    OBVIOUS
  <2>1. PICK d \in answers : Receive(d)
    <3>1. outcome = "none"
      BY DEF IInv, Sending
    <3>2. UNCHANGED outcome => FALSE
      BY <3>1
    <3> QED
      BY <3>1, <3>2
         DEF Next, Request, TooLong, Send, Timeout, Resend, Poll, Fail, Tick, Lose, Serve,
             client, Finish
  <2>2. Accepts(d)
    BY <2>1 DEF Receive, IInv, Sending
  <2>3. d.age \in Nat /\ since \in Nat /\ d.age <= since /\ Unit \in Nat
    BY <2>2, SendRecvAssumption
       DEF IInv, ClientOK, NetOK, Datagram, Fresh, Accepts
  <2>4. d.age * Unit \in Int /\ d.age * Unit <= since * Unit
    BY <2>3, ProductOrder
  <2>5. rtt'.rtt = d.age * Unit
    BY <2>1, <2>2, <2>4, StoppedRtt DEF Receive, IInv, ClientOK
  <2> QED
    BY <2>4, <2>5
<1> QED
  BY <1>1, Invariant, PTL DEF Spec, RttOfThisRequest

-----------------------------------------------------------------------------
(* The refinement, one step of the loop at a time. *)

fits    == kind # "toolong"
pending == pc # "idle"
given   == Given
pvars   == <<seq, fits, pending, executed, outcome, given>>

LEMMA PromiseRequest ==
    ASSUME IInv, NEW what \in Kind, Request(what) PROVE Promise!Request
  BY DEF IInv, Request, Promise!Request, Given

\* The bound on how often a request is carried out.
LEMMA PromiseExecute ==
    ASSUME IInv, Buffered, NEW d \in requests, NEW again \in BOOLEAN, Serve(d, again)
    PROVE  \E n \in 1 .. MaxRequests : Promise!Execute(n)
<1> DEFINE n == d.seq
<1>1. /\ d \in Datagram /\ n \in 1 .. MaxRequests /\ n <= seq
      /\ seq \in 0 .. MaxRequests /\ sent \in 0 .. RTT_MAXNREXMT + 1
  BY DEF IInv, ClientOK, NetOK, Fresh, Datagram
<1>2. executed[n] + Cardinality(Flying(n)) <= copies[n] + Sends(n)
  BY <1>1 DEF IInv, Counted
<1>3. /\ executed[n] \in Nat /\ copies[n] \in 0 .. MaxCopies
      /\ Cardinality(Flying(n)) \in Nat /\ IsFiniteSet(Flying(n))
  BY <1>1, NumbersFinite DEF IInv, NetOK, Flying
<1>4. Cardinality(Flying(n)) >= 1
  <2>1. d.k \in Flying(n)
    BY <1>1 DEF Flying, NumbersOf, Datagram
  <2>2. Cardinality(Flying(n)) # 0
    BY <1>3, <2>1, FS_EmptySet
  <2> QED
    BY <1>3, <2>2
<1>5. Sends(n) \in Nat /\ Sends(n) <= RTT_MAXNREXMT + 1
  BY <1>1, SendRecvAssumption DEF Sends
<1>6. executed[n] < RTT_MAXNREXMT + 1 + MaxCopies
  BY <1>2, <1>3, <1>4, <1>5, SendRecvAssumption
<1>7. n = seq => kind # "toolong"
  BY DEF Buffered
<1>8. UNCHANGED <<seq, kind, pc, outcome, recvbuf>>
  BY DEF Serve, client
<1> QED
  BY <1>1, <1>6, <1>7, <1>8 DEF Serve, Promise!Execute, Given

\* Every way the loop ends is an outcome: "answer" only for a request carried
\* out, and then recvbuf holds its answer.
LEMMA PromiseReceive ==
    ASSUME IInv, NEW d \in answers, Receive(d)
    PROVE  Promise!Answer \/ UNCHANGED pvars
<1>1. CASE Accepts(d)
  <2>1. executed[seq] > 0
    BY <1>1 DEF IInv, Answered, Accepts
  <2>2. pc = "poll" /\ kind = "query" /\ pc' = "idle" /\ outcome' = "answer" /\ recvbuf' = seq
        /\ UNCHANGED <<seq, kind, executed>>
    BY <1>1 DEF Receive, Finish, Accepts, IInv, Sending
  <2> QED
    BY <2>1, <2>2 DEF Promise!Answer, Promise!Finish, Given
<1>2. CASE ~Accepts(d)
  BY <1>2 DEF Receive, pvars, pending, fits, given, Given
<1> QED
  BY <1>1, <1>2

\* A request too long to send ends with what recvbuf holds.
LEMMA PromiseTooLong == ASSUME IInv, Buffered, TooLong PROVE Promise!Stale
<1>1. /\ pc = "send" /\ kind = "toolong" /\ pc' = "idle" /\ outcome' = "stale"
      /\ UNCHANGED <<seq, kind, executed, recvbuf>>
  BY DEF TooLong, Finish, net
<1>2. recvbuf \in 0 .. seq - 1 /\ (recvbuf > 0 => executed[recvbuf] > 0)
  BY <1>1 DEF Buffered, IInv, ClientOK
<1>3. Given' = recvbuf
  BY <1>1 DEF Given
<1>4. CASE recvbuf = 0
  <2>1. Promise!Finish("stale", 0)
    BY <1>1, <1>3, <1>4 DEF Promise!Finish
  <2> QED
    BY <1>1, <2>1 DEF Promise!Stale
<1>5. CASE recvbuf # 0
  <2>1. Promise!Finish("stale", recvbuf)
    BY <1>1, <1>3 DEF Promise!Finish
  <2>2. recvbuf \in 1 .. seq - 1 /\ executed[recvbuf] > 0
    BY <1>2, <1>5 DEF IInv, ClientOK
  <2> QED
    BY <1>1, <2>1, <2>2 DEF Promise!Stale
<1> QED
  BY <1>4, <1>5

LEMMA PromiseFail ==
    ASSUME IInv, NEW o \in Promise!Unanswered, pending, Finish(o), fits,
           UNCHANGED <<seq, kind, executed>>
    PROVE  Promise!Fail(o)
  BY DEF Promise!Fail, Promise!Finish, Promise!Unanswered, Finish, pending, fits, Given

LEMMA PromiseStep == IInv /\ Buffered /\ [Next]_vars => [Promise!Next]_pvars
<1> SUFFICES ASSUME IInv, Buffered, [Next]_vars PROVE Promise!Next \/ UNCHANGED pvars
  OBVIOUS
<1> USE DEF pvars, pending, fits, given, Given
<1>1. ASSUME NEW what \in Kind, Request(what) PROVE Promise!Next
  BY <1>1, PromiseRequest DEF Promise!Next
<1>2. ASSUME TooLong PROVE Promise!Next
  BY <1>2, PromiseTooLong DEF Promise!Next
<1>3. ASSUME Send PROVE Promise!Next \/ UNCHANGED pvars
  <2>1. CASE kind = "query"
    BY <1>3, <2>1 DEF Send
  <2>2. CASE kind # "query"
    <3>1. Promise!Fail("sent")
      BY <1>3, <2>2, PromiseFail DEF Send, Promise!Unanswered
    <3> QED
      BY <3>1 DEF Promise!Next, Promise!Unanswered
  <2> QED
    BY <2>1, <2>2
<1>4. ASSUME Timeout PROVE Promise!Next \/ UNCHANGED pvars
  <2>1. CASE GiveUp(rtt')
    <3>1. Promise!Fail("timeout")
      BY <1>4, <2>1, PromiseFail
         DEF Timeout, Resend, GiveUp, net, Promise!Unanswered, IInv, Sending
    <3> QED
      BY <3>1 DEF Promise!Next, Promise!Unanswered
  <2>2. CASE ~GiveUp(rtt')
    BY <1>4, <2>2 DEF Timeout, Resend, GiveUp, net
  <2> QED
    BY <2>1, <2>2
<1>5. ASSUME Poll \/ Tick \/ UNCHANGED vars PROVE UNCHANGED pvars
  BY <1>5 DEF Poll, Tick, vars, client, net
<1>6. ASSUME Fail PROVE Promise!Next
  <2>1. Promise!Fail("error")
    BY <1>6, PromiseFail DEF Fail, net, Promise!Unanswered, IInv, Sending
  <2> QED
    BY <2>1 DEF Promise!Next, Promise!Unanswered
<1>7. ASSUME NEW d \in answers, Receive(d) PROVE Promise!Next \/ UNCHANGED pvars
  BY <1>7, PromiseReceive DEF Promise!Next
<1>8. ASSUME NEW d, Lose(d) PROVE UNCHANGED pvars
  BY <1>8 DEF Lose, client
<1>9. ASSUME NEW d \in requests, NEW again \in BOOLEAN, Serve(d, again) PROVE Promise!Next
  BY <1>9, PromiseExecute DEF Promise!Next
<1> QED
  BY <1>1, <1>2, <1>3, <1>4, <1>5, <1>6, <1>7, <1>8, <1>9 DEF Next

\* jxclient_sendrecv implements RemoteCall: it reports an answer only when this
\* very request was carried out, whatever late answers to earlier ones or to
\* earlier transmissions were on their way, and the caller then finds its own;
\* it gives every request one outcome, has a request too long to send never
\* carried out, and makes the server carry a request out no more often than it
\* was sent and copied.
THEOREM SendRecvImplementsRemoteCall == Spec => ImplementsRemoteCall
<1>1. Init => Promise!Init
  BY DEF Init, Promise!Init, Given
<1>2. Init => Buffered
  BY SendRecvAssumption DEF Init, Buffered
<1>3. Spec => []Buffered
  BY <1>2, Invariant, InvBuffered, PTL DEF Spec
<1> QED
  BY <1>1, <1>3, Invariant, PromiseStep, PTL
     DEF Spec, ImplementsRemoteCall, Promise!Spec, pvars, fits, pending, given
=============================================================================

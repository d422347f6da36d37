---------------------------- MODULE ClientProofs ----------------------------
(***************************************************************************)
(* The client program proved for every pool size, number of requests and   *)
(* number of datagrams, then its accounts and its windows, whose modules   *)
(* share no variable with it: the types of the program, the order of its   *)
(* messages, that the copies of an account agree, and that a window shows  *)
(* the verdict on its own request.                                         *)
(*                                                                         *)
(* The order holds because no buffer has two owners: an appending thread   *)
(* writes its message into a buffer that no queue holds and the worker     *)
(* does not read (OneOwner).  The types depend on the clear list, to which *)
(* two threads may add at a time (MarksOK): a thread that ends the program *)
(* must not find itself among the threads it joins (RecvUnlisted).         *)
(*                                                                         *)
(* The copies agree because, while nothing is in doubt, there is one thing *)
(* on its way: the last request, which asks for what the client will take  *)
(* a yes for, or its answer, after which they will agree (Trust).          *)
(*                                                                         *)
(* The verdict is the request's because all that can still set the status  *)
(* the windows share is of this request, once nothing else was on its way  *)
(* as the button was pressed (Alone).                                      *)
(*                                                                         *)
(* The process list, which the client asks for the function of a message,  *)
(* has its own theorem, for every list (GettersFollowSet).                 *)
(***************************************************************************)
EXTENDS Client, ClientAccount, GuiClient, SequenceTheorems, WellFoundedInduction, TLAPS

-----------------------------------------------------------------------------
(* The inductive invariant.                                                *)

MainPcs == AppendPcs \union ClearPcs \union
           {"init", "connect", "ask", "link", "request", "joinrecv"}
RecvPcs == AppendPcs \union ClearPcs \union
           {"none", "open", "link", "port", "test", "recvfrom", "exited"}
WorkPcs == {"none", "wait", "check", "take", "process", "return", "exited", "dead"}

PcOK ==
    /\ pc \in [Thread -> MainPcs \union RecvPcs \union WorkPcs]
    /\ pc[Main] \in MainPcs /\ pc[Recv] \in RecvPcs /\ pc[Work] \in WorkPcs
    /\ pc[Main] = "init" => pc[Recv] = "none" /\ pc[Work] = "none"

Function == {"plist", "pool", "recv", "request"}

\* The variables but the queues and the places.
StateOK ==
    /\ data \in [Appender -> Message]
    /\ sem \in Nat /\ threadexit \in BOOLEAN /\ live \in BOOLEAN
    /\ plist \in BOOLEAN /\ isRecvEnd \in BOOLEAN
    /\ clears \in Seq(Function)
    /\ mark \in [Appender -> Nat] /\ run \in [Appender -> Nat]
    /\ crash \in {"none", "null message", "no process function", "freed node", "freed pool",
                  "double free"}
    /\ asked \in 0 .. MaxAsked /\ received \in 0 .. MaxReceived
    /\ refused \in BOOLEAN

\* A thread that has read the first node of the clear list finds the list as
\* long as it was, while the other has not added its function; each adds one.
MarksOK ==
    /\ pc[Main] = "link" =>
          /\ asked # 0 /\ mark[Main] <= Len(clears)
          /\ pc[Recv] \in {"none", "open", "link"} => mark[Main] = Len(clears)
    /\ pc[Recv] = "link" =>
          /\ mark[Recv] <= Len(clears)
          /\ asked = 0 \/ pc[Main] = "link" => mark[Recv] = Len(clears)

\* The receiving thread has not registered its clear function when it ends the
\* program itself: it does not join itself.
RecvUnlisted ==
    pc[Recv] \in {"none", "open", "link"} \union ClearPcs =>
        \A i \in DOMAIN clears : clears[i] # "recv"

ControlInv == PcOK /\ StateOK /\ (Ended \/ MarksOK) /\ RecvUnlisted

QueuesOK ==
    /\ filled \in Seq(Buffer) /\ empty \in Seq(Buffer)
    /\ hand \in [Thread -> Buffer \union {NULL}]
    /\ content \in [Buffer -> Message]
    /\ appended \in Seq(Message) /\ processed \in Seq(Message)

\* A push never pushes NULL.
HandsOK ==
    /\ \A t \in Appender : pc[t] = "push" => hand[t] # NULL
    /\ pc[Work] = "return" => hand[Work] # NULL

\* No buffer is in a queue twice, in both, in a queue and a hand, or in two hands.
OneOwner ==
    /\ \A i, j \in DOMAIN filled : filled[i] = filled[j] => i = j
    /\ \A i, j \in DOMAIN empty : empty[i] = empty[j] => i = j
    /\ \A i \in DOMAIN filled, j \in DOMAIN empty : filled[i] # empty[j]
    /\ \A t \in Thread : hand[t] # NULL =>
          /\ \A i \in DOMAIN filled : filled[i] # hand[t]
          /\ \A i \in DOMAIN empty : empty[i] # hand[t]
          /\ \A u \in Thread : hand[u] = hand[t] => u = t

DataInv == QueuesOK /\ HandsOK /\ OneOwner /\ InOrder

IInv == ControlInv /\ DataInv

-----------------------------------------------------------------------------
(* The places and the clear list.                                          *)

LEMMA ThreadFacts ==
    /\ Main \in Thread /\ Recv \in Thread /\ Work \in Thread
    /\ Main \in Appender /\ Recv \in Appender /\ Work \notin Appender
    /\ Main # Recv /\ Main # Work /\ Recv # Work
    /\ Appender \subseteq Thread
  BY ClientAssumption DEF Thread, Appender

\* What one step of one thread does to the places.
LEMMA Moved ==
    ASSUME PcOK, NEW t \in Thread, NEW from, NEW to, Goto(t, from, to),
           from # "none", to # "init",
           t = Main => to \in MainPcs, t = Recv => to \in RecvPcs, t = Work => to \in WorkPcs
    PROVE  /\ PcOK' /\ crash = "none" /\ ~Ended
           /\ pc[t] = from /\ pc'[t] = to
           /\ \A u \in Thread \ {t} : pc'[u] = pc[u]
<1>1. /\ pc' = [pc EXCEPT ![t] = to] /\ pc[t] = from /\ crash = "none" /\ ~Ended
  BY DEF Goto
<1>2. to \in MainPcs \union RecvPcs \union WorkPcs
  BY DEF Thread
<1>3. pc' \in [Thread -> MainPcs \union RecvPcs \union WorkPcs]
  BY <1>1, <1>2 DEF PcOK
<1>4. pc'[t] = to /\ \A u \in Thread \ {t} : pc'[u] = pc[u]
  BY <1>1 DEF PcOK
<1>5. pc'[Main] \in MainPcs /\ pc'[Recv] \in RecvPcs /\ pc'[Work] \in WorkPcs
  BY <1>4, ThreadFacts DEF PcOK
<1>6. pc'[Main] = "init" => pc'[Recv] = "none" /\ pc'[Work] = "none"
  BY <1>1, <1>4, ThreadFacts DEF PcOK
<1> QED
  BY <1>1, <1>3, <1>4, <1>5, <1>6 DEF PcOK

\* A step that leaves the clear list and the marks alone.
LEMMA ControlQuiet ==
    ASSUME ControlInv, NEW t \in Thread, NEW from, NEW to, Goto(t, from, to),
           from # "none", to \notin {"init", "none", "open", "link"},
           t = Main => to \in MainPcs, t = Recv => to \in RecvPcs, t = Work => to \in WorkPcs,
           t = Recv /\ to \in ClearPcs => from \in ClearPcs \union {"open", "joinrecv"},
           UNCHANGED <<clears, mark>>, asked' = asked \/ asked' # 0,
           StateOK'
    PROVE  ControlInv'
<1>1. /\ PcOK' /\ ~Ended /\ pc[t] = from /\ pc'[t] = to
      /\ \A u \in Thread \ {t} : pc'[u] = pc[u]
  BY Moved DEF ControlInv
<1>2. MarksOK
  BY <1>1 DEF ControlInv
<1>3. pc'[Main] = "link" => pc[Main] = "link" /\ (t = Main => FALSE)
  BY <1>1, ThreadFacts
<1>4. pc'[Recv] \in {"none", "open", "link"} => pc'[Recv] = pc[Recv]
  BY <1>1, ThreadFacts
<1>5. (asked # 0 => asked' # 0) /\ (asked' = 0 => asked = 0)
  OBVIOUS
<1>6. MarksOK'
  <2>1. pc'[Main] = "link" =>
          /\ asked' # 0 /\ mark'[Main] <= Len(clears')
          /\ pc'[Recv] \in {"none", "open", "link"} => mark'[Main] = Len(clears')
    BY <1>2, <1>3, <1>4, <1>5 DEF MarksOK
  <2>2. pc'[Recv] = "link" =>
          /\ mark'[Recv] <= Len(clears')
          /\ asked' = 0 \/ pc'[Main] = "link" => mark'[Recv] = Len(clears')
    BY <1>2, <1>3, <1>4, <1>5 DEF MarksOK
  <2> QED
    BY <2>1, <2>2 DEF MarksOK
<1>7. RecvUnlisted'
  <2>1. pc[Recv] # "joinrecv"
    BY DEF ControlInv, PcOK, RecvPcs, AppendPcs, ClearPcs
  <2>2. pc'[Recv] \in ClearPcs => pc[Recv] \in ClearPcs \union {"open"}
    BY <1>1, <2>1, ThreadFacts
  <2> QED
    BY <1>4, <2>2 DEF ControlInv, RecvUnlisted
<1> QED
  BY <1>1, <1>6, <1>7 DEF ControlInv

\* The clear list after list_add by a thread that had read the first node.
LEMMA LinkedFacts ==
    ASSUME NEW S, NEW q \in Seq(S), NEW m \in 0 .. Len(q), NEW f \in S
    PROVE  /\ Linked(q, m, f) \in Seq(S)
           /\ Len(Linked(q, m, f)) = m + 1
           /\ \A i \in DOMAIN Linked(q, m, f) :
                 Linked(q, m, f)[i] = f \/ \E j \in DOMAIN q : Linked(q, m, f)[i] = q[j]
<1> DEFINE s == SubSeq(q, 1, m)
<1>1. s \in Seq(S) /\ Len(s) = m /\ \A i \in 1 .. m : s[i] = q[i]
  OBVIOUS
<1>2. \A i \in 1 .. m : i \in DOMAIN q
  OBVIOUS
<1> HIDE DEF s
<1>3. /\ Append(s, f) \in Seq(S) /\ Len(Append(s, f)) = m + 1
      /\ DOMAIN Append(s, f) = 1 .. m + 1
      /\ \A i \in 1 .. m + 1 : Append(s, f)[i] = IF i = m + 1 THEN f ELSE s[i]
  BY <1>1
<1>4. \A i \in 1 .. m + 1 : i = m + 1 \/ i \in 1 .. m
  OBVIOUS
<1>5. \A i \in DOMAIN Append(s, f) :
         Append(s, f)[i] = f \/ \E j \in DOMAIN q : Append(s, f)[i] = q[j]
  BY <1>1, <1>2, <1>3, <1>4
<1> QED
  BY <1>3, <1>5 DEF Linked, s

\* The start, which is the first step of the main thread.
LEMMA ControlStart ==
    ASSUME ControlInv, InitFails \/ \E receiving \in BOOLEAN : Start(receiving)
    PROVE  ControlInv'
<1>1. CASE InitFails
  <2> USE <1>1 DEF InitFails
  <2>1. StateOK'
    BY DEF ControlInv, StateOK, exits, ending, hist
  <2> QED
    BY <2>1, ControlQuiet, ThreadFacts DEF MainPcs, ClearPcs, ending, hist
<1>2. ASSUME NEW receiving \in BOOLEAN, Start(receiving) PROVE ControlInv'
  <2> USE <1>2 DEF Start
  <2>1. pc[Main] = "init" /\ pc[Recv] = "none"
    BY DEF ControlInv, PcOK
  <2>2. pc' = [pc EXCEPT ![Main] = "connect", ![Work] = "wait",
                         ![Recv] = IF receiving THEN "open" ELSE "exited"]
    OBVIOUS
  <2>3. PcOK'
    BY <2>2, ClientAssumption DEF PcOK, ControlInv, Thread, MainPcs, RecvPcs, WorkPcs
  <2>4. /\ pc'[Main] = "connect" /\ pc'[Recv] \in {"open", "exited"}
    BY <2>2, ClientAssumption DEF ControlInv, PcOK, Thread
  <2>5. MarksOK'
    BY <2>4 DEF MarksOK
  <2>6. /\ clears \in Seq(Function) /\ \A i \in DOMAIN clears : clears[i] # "recv"
    BY <2>1 DEF ControlInv, StateOK, RecvUnlisted
  <2> DEFINE c == Append(clears, "plist")
             d == Append(c, "pool")
  <2>7. /\ c \in Seq(Function) /\ \A i \in DOMAIN c : c[i] # "recv"
    BY <2>6 DEF Function
  <2>8. d \in Seq(Function) /\ \A i \in DOMAIN d : d[i] # "recv"
    <3> HIDE DEF c
    <3> QED
      BY <2>7 DEF Function
  <2>9. clears' = d
    BY DEF Added
  <2>10. StateOK'
    BY <2>8, <2>9 DEF ControlInv, StateOK, hist
  <2> QED
    BY <2>3, <2>5, <2>8, <2>9, <2>10 DEF ControlInv, RecvUnlisted
<1> QED
  BY <1>1, <1>2

\* Reading the first node of the clear list, and putting one before it.
LEMMA ControlMark ==
    ASSUME ControlInv,
           Ask \/ OpenRecv \/ Link(Main, "request", "request") \/ Link(Recv, "recv", "port")
    PROVE  ControlInv'
<1> USE ThreadFacts
<1>t. PcOK /\ StateOK /\ Len(clears) \in Nat
  <2>1. clears \in Seq(Function)
    BY DEF ControlInv, StateOK
  <2> QED
    BY <2>1 DEF ControlInv
<1>1. ASSUME asked = 0, Goto(Main, "ask", "link"), Mark(Main), Ask PROVE ControlInv'
  <2> USE <1>1
  <2>1. /\ PcOK' /\ ~Ended /\ pc[Main] = "ask" /\ pc'[Main] = "link" /\ pc'[Recv] = pc[Recv]
    BY <1>t, Moved DEF MainPcs
  <2>2. /\ mark' = [mark EXCEPT ![Main] = Len(clears)] /\ clears' = clears
        /\ asked' = 1 /\ asked < MaxAsked
    BY DEF Mark, Ask
  <2>3. /\ mark'[Main] = Len(clears) /\ mark'[Recv] = mark[Recv]
        /\ mark' \in [Appender -> Nat]
    BY <1>t, <2>2 DEF StateOK
  <2>4. 1 \in 0 .. MaxAsked
    BY <1>1, <2>2, ClientAssumption
  <2>5. StateOK'
    BY <1>t, <2>2, <2>3, <2>4 DEF StateOK, Ask, exits
  <2>6. MarksOK'
    <3>1. pc[Recv] = "link" => mark[Recv] = Len(clears)
      BY <2>1 DEF ControlInv, MarksOK
    <3> QED
      BY <1>t, <2>1, <2>2, <2>3, <3>1 DEF MarksOK
  <2>7. RecvUnlisted'
    BY <2>1, <2>2 DEF ControlInv, RecvUnlisted
  <2> QED
    BY <2>1, <2>5, <2>6, <2>7 DEF ControlInv
<1>2. ASSUME asked > 0, Goto(Main, "ask", "request"), UNCHANGED mark, Ask PROVE ControlInv'
  <2> USE <1>2
  <2>1. clears' = clears /\ asked' = asked + 1 /\ asked < MaxAsked
    BY DEF Ask
  <2>2. asked' \in 0 .. MaxAsked /\ asked' # 0
    <3>1. asked \in 0 .. MaxAsked /\ asked > 0
      BY <1>t DEF StateOK
    <3> QED
      BY ONLY <3>1, <2>1, ClientAssumption
  <2>3. StateOK'
    BY <1>t, <2>1, <2>2 DEF StateOK, Ask, exits
  <2> QED
    BY <2>1, <2>2, <2>3, ControlQuiet DEF MainPcs
<1>3. ASSUME OpenRecv PROVE ControlInv'
  <2> USE <1>3 DEF OpenRecv
  <2>1. /\ PcOK' /\ ~Ended /\ pc[Recv] = "open" /\ pc'[Recv] = "link" /\ pc'[Main] = pc[Main]
    BY <1>t, Moved DEF RecvPcs
  <2>2. mark' = [mark EXCEPT ![Recv] = Len(clears)] /\ clears' = clears /\ asked' = asked
    BY DEF Mark, hist
  <2>3. /\ mark'[Recv] = Len(clears) /\ mark'[Main] = mark[Main]
        /\ mark' \in [Appender -> Nat]
    BY <1>t, <2>2 DEF StateOK
  <2>4. StateOK'
    BY <1>t, <2>2, <2>3 DEF StateOK, exits, hist
  <2>5. MarksOK'
    <3>1. pc[Main] = "link" => asked # 0 /\ mark[Main] = Len(clears)
      BY <2>1 DEF ControlInv, MarksOK
    <3> QED
      BY <1>t, <2>1, <2>2, <2>3, <3>1 DEF MarksOK
  <2>6. RecvUnlisted'
    BY <2>1, <2>2 DEF ControlInv, RecvUnlisted
  <2> QED
    BY <2>1, <2>4, <2>5, <2>6 DEF ControlInv
<1>4. ASSUME NEW t \in Appender, NEW f \in Function, NEW to, Link(t, f, to), ~Ended, MarksOK,
             pc[t] = "link"
      PROVE  /\ StateOK' /\ Len(clears') = mark[t] + 1
             /\ mark' = [mark EXCEPT ![t] = 0] /\ asked' = asked
             /\ \A i \in DOMAIN clears' :
                   clears'[i] = f \/ \E j \in DOMAIN clears : clears'[i] = clears[j]
  <2> USE <1>4 DEF Link
  <2>1. mark[t] \in 0 .. Len(clears)
    <3>1. mark[t] \in Nat /\ mark[t] <= Len(clears)
      BY <1>t DEF StateOK, MarksOK, Appender
    <3> QED
      BY ONLY <1>t, <3>1
  <2>2. /\ Linked(clears, mark[t], f) \in Seq(Function)
        /\ Len(Linked(clears, mark[t], f)) = mark[t] + 1
        /\ \A i \in DOMAIN Linked(clears, mark[t], f) :
                 \/ Linked(clears, mark[t], f)[i] = f
                 \/ \E j \in DOMAIN clears : Linked(clears, mark[t], f)[i] = clears[j]
    <3>1. clears \in Seq(Function) /\ f \in Function
      BY <1>t DEF StateOK
    <3> QED
      BY ONLY <2>1, <3>1, LinkedFacts
  <2>3. clears' = Linked(clears, mark[t], f) /\ mark' = [mark EXCEPT ![t] = 0] /\ asked' = asked
    BY ONLY <1>4 DEF Link, hist
  <2>4. mark' \in [Appender -> Nat] /\ clears' \in Seq(Function)
    <3>1. mark \in [Appender -> Nat]
      BY <1>t DEF StateOK
    <3> QED
      BY ONLY <2>2, <2>3, <3>1
  <2>5. StateOK'
    BY <1>t, <2>4 DEF StateOK, exits, hist
  <2> QED
    BY <2>2, <2>3, <2>5
<1>5. ASSUME Link(Main, "request", "request") PROVE ControlInv'
  <2> USE <1>5
  <2>1. /\ PcOK' /\ ~Ended /\ pc[Main] = "link" /\ pc'[Main] = "request" /\ pc'[Recv] = pc[Recv]
    BY <1>t, Moved DEF MainPcs, Link
  <2>2. MarksOK
    BY <2>1 DEF ControlInv
  <2>3. /\ StateOK' /\ Len(clears') = mark[Main] + 1
        /\ mark' = [mark EXCEPT ![Main] = 0] /\ asked' = asked
        /\ \A i \in DOMAIN clears' :
              clears'[i] = "request" \/ \E j \in DOMAIN clears : clears'[i] = clears[j]
    BY <2>1, <2>2, <1>4 DEF Function
  <2>4. mark'[Recv] = mark[Recv] /\ mark[Recv] \in Nat /\ mark[Main] \in Nat
    BY <1>t, <2>3 DEF StateOK
  <2>5. pc[Recv] = "link" => mark[Recv] = mark[Main]
    BY <2>1, <2>2 DEF MarksOK
  <2>6. pc[Recv] = "link" => mark'[Recv] <= Len(clears')
    BY <2>3, <2>4, <2>5
  <2>7. MarksOK'
    BY <2>1, <2>2, <2>3, <2>6 DEF MarksOK
  <2>8. RecvUnlisted'
    BY <2>1, <2>3 DEF ControlInv, RecvUnlisted
  <2> QED
    BY <2>1, <2>3, <2>7, <2>8 DEF ControlInv
<1>6. ASSUME Link(Recv, "recv", "port") PROVE ControlInv'
  <2> USE <1>6
  <2>1. /\ PcOK' /\ ~Ended /\ pc[Recv] = "link" /\ pc'[Recv] = "port" /\ pc'[Main] = pc[Main]
    BY <1>t, Moved DEF RecvPcs, Link
  <2>2. MarksOK
    BY <2>1 DEF ControlInv
  <2>3. /\ StateOK' /\ Len(clears') = mark[Recv] + 1
        /\ mark' = [mark EXCEPT ![Recv] = 0] /\ asked' = asked
    BY <2>1, <2>2, <1>4 DEF Function
  <2>4. mark'[Main] = mark[Main] /\ mark[Recv] \in Nat /\ mark[Main] \in Nat
    BY <1>t, <2>3 DEF StateOK
  <2>5. pc[Main] = "link" => mark[Recv] = mark[Main] /\ asked # 0
    BY <2>1, <2>2 DEF MarksOK
  <2>6. pc[Main] = "link" => mark'[Main] <= Len(clears')
    BY <2>3, <2>4, <2>5
  <2>7. MarksOK'
    BY <2>1, <2>3, <2>5, <2>6 DEF MarksOK
  <2>8. RecvUnlisted'
    BY <2>1 DEF RecvUnlisted, ClearPcs
  <2> QED
    BY <2>1, <2>3, <2>7, <2>8 DEF ControlInv
<1> QED
  BY <1>1, <1>2, <1>3, <1>5, <1>6 DEF Ask

LEMMA PostType ==
    ASSUME StateOK, Post
    PROVE  sem' \in Nat
<1>1. sem \in Nat
  BY DEF StateOK
<1> QED
  BY <1>1 DEF Post

\* s_msgpool_append, on either thread.
LEMMA ControlAppend ==
    ASSUME ControlInv, NEW t \in Appender, AppendStep(t)
    PROVE  ControlInv'
<1> USE ThreadFacts
<1>t. StateOK
  BY DEF ControlInv
<1>1. CASE AppendPull(t)
  <2> USE <1>1 DEF AppendPull
  <2>1. StateOK' /\ UNCHANGED <<clears, mark, asked>>
    BY <1>t DEF StateOK, exits, ending, hist
  <2> QED
    BY <2>1, ControlQuiet DEF MainPcs, RecvPcs, AppendPcs, ClearPcs
<1>2. CASE AppendDies(t)
  <2> USE <1>2 DEF AppendDies, Die
  <2>1. StateOK' /\ UNCHANGED <<clears, mark, asked>>
    BY <1>t DEF StateOK, exits, ending, hist
  <2> QED
    BY <2>1, ControlQuiet DEF MainPcs, RecvPcs, AppendPcs, ClearPcs
<1>3. CASE AppendPush(t)
  <2> USE <1>3 DEF AppendPush
  <2>1. UNCHANGED <<clears, mark, asked>>
    BY DEF ending
  <2>2. (refused \/ Refused(filled, FilledCapacity)) \in BOOLEAN
    OBVIOUS
  <2>3. StateOK'
    BY <1>t, <2>2 DEF StateOK, exits, ending
  <2> QED
    BY <2>1, <2>3, ControlQuiet DEF MainPcs, RecvPcs, AppendPcs, ClearPcs
<1>4. CASE PushDies(t)
  <2> USE <1>4 DEF PushDies, Die
  <2>1. StateOK' /\ UNCHANGED <<clears, mark, asked>>
    BY <1>t DEF StateOK, exits, ending, hist
  <2> QED
    BY <2>1, ControlQuiet DEF MainPcs, RecvPcs, AppendPcs, ClearPcs
<1>5. CASE AppendPost(t)
  <2> USE <1>5 DEF AppendPost
  <2>1. StateOK' /\ UNCHANGED <<clears, mark, asked>>
    BY <1>t, PostType DEF StateOK, exits, ending, hist
  <2> DEFINE to == IF t = Main THEN "ask" ELSE "test"
  <2>2. /\ Goto(t, "post", to) /\ to \notin {"init", "none", "open", "link"} \union ClearPcs
        /\ (t = Main => to \in MainPcs) /\ (t = Recv => to \in RecvPcs) /\ t # Work
    BY DEF MainPcs, RecvPcs, ClearPcs
  <2> HIDE DEF to
  <2> QED
    BY ONLY <2>1, <2>2, ControlInv, ControlQuiet, t \in Thread
<1> QED
  BY <1>1, <1>2, <1>3, <1>4, <1>5 DEF AppendStep

\* jxclearlist_clear, on the thread that ends the program.
LEMMA ControlClear ==
    ASSUME ControlInv, NEW t \in Appender, ClearStep(t)
    PROVE  ControlInv'
<1> USE ThreadFacts
<1>t. StateOK
  BY DEF ControlInv
<1>r. ASSUME run' = [run EXCEPT ![t] = run[t] + 1] PROVE run' \in [Appender -> Nat]
  <2>1. run \in [Appender -> Nat]
    BY <1>t DEF StateOK
  <2> QED
    BY ONLY <1>r, <2>1
<1>1. CASE ClearProcesses(t)
  <2> USE <1>1 DEF ClearProcesses, Clears
  <2>1. StateOK' /\ UNCHANGED <<clears, mark, asked>>
    BY <1>t, <1>r DEF StateOK, hist
  <2> QED
    BY <2>1, ControlQuiet DEF MainPcs, RecvPcs, ClearPcs
<1>2. CASE SetExit(t)
  <2> USE <1>2 DEF SetExit, Clears
  <2>1. StateOK' /\ UNCHANGED <<clears, mark, asked>>
    BY <1>t, PostType DEF StateOK, hist
  <2> QED
    BY <2>1, ControlQuiet DEF MainPcs, RecvPcs, ClearPcs
<1>3. CASE JoinWorker(t)
  <2> USE <1>3 DEF JoinWorker, Leaves
  <2>1. StateOK' /\ UNCHANGED <<clears, mark, asked>>
    BY <1>t, <1>r DEF StateOK, hist
  <2> QED
    BY <2>1, ControlQuiet DEF MainPcs, RecvPcs, ClearPcs
<1>4. CASE JoinDies(t)
  <2> USE <1>4 DEF JoinDies, Die
  <2>1. StateOK' /\ UNCHANGED <<clears, mark, asked>>
    BY <1>t DEF StateOK, exits, ending, hist
  <2> QED
    BY <2>1, ControlQuiet DEF MainPcs, RecvPcs, AppendPcs, ClearPcs
<1>5. CASE EndRecv(t)
  <2> USE <1>5 DEF EndRecv, Clears
  <2>1. StateOK' /\ UNCHANGED <<clears, mark, asked>>
    BY <1>t DEF StateOK, hist
  <2>2. t # Recv
    <3>1. pc[t] = "clear" /\ run[t] < Len(clears) /\ clears[run[t] + 1] = "recv"
      BY DEF More, Current, Goto
    <3>2. clears \in Seq(Function) /\ run[t] \in Nat
      BY <1>t DEF StateOK
    <3>3. run[t] + 1 \in DOMAIN clears
      BY ONLY <3>1, <3>2
    <3> QED
      BY <3>1, <3>3 DEF ControlInv, RecvUnlisted, ClearPcs
  <2> QED
    BY <2>1, <2>2, ControlQuiet DEF MainPcs
<1>6. CASE JoinRecv(t)
  <2> USE <1>6 DEF JoinRecv, Leaves
  <2>1. StateOK' /\ UNCHANGED <<clears, mark, asked>>
    BY <1>t, <1>r DEF StateOK, exits, hist
  <2> QED
    BY <2>1, ControlQuiet DEF MainPcs, RecvPcs, ClearPcs
<1>7. CASE ClearRequests(t)
  <2> USE <1>7 DEF ClearRequests, Clears
  <2>1. StateOK' /\ UNCHANGED <<clears, mark, asked>>
    BY <1>t, <1>r DEF StateOK, exits, hist
  <2> QED
    BY <2>1, ControlQuiet DEF MainPcs, RecvPcs, ClearPcs
<1>8. CASE ClearsEnd(t)
  <2> USE <1>8 DEF ClearsEnd
  <2>1. StateOK' /\ UNCHANGED <<clears, mark, asked>>
    BY <1>t DEF StateOK, exits, ending, hist
  <2> QED
    BY <2>1, ControlQuiet DEF MainPcs, RecvPcs, ClearPcs
<1>9. CASE FreeList(t)
  <2> USE <1>9 DEF FreeList
  <2>1. PcOK' /\ pc'[t] = "done"
    BY Moved DEF ControlInv, MainPcs, RecvPcs, ClearPcs
  <2>2. <<>> \in Seq(Function) /\ DOMAIN <<>> = {}
    OBVIOUS
  <2>3. StateOK' /\ RecvUnlisted'
    BY <1>t, <2>2 DEF StateOK, RecvUnlisted, exits, hist
  <2>4. Ended'
    BY <2>1 DEF Ended
  <2> QED
    BY <2>1, <2>3, <2>4 DEF ControlInv
<1> QED
  BY <1>1, <1>2, <1>3, <1>4, <1>5, <1>6, <1>7, <1>8, <1>9 DEF ClearStep

\* What else the main thread does.
LEMMA ControlMain ==
    ASSUME ControlInv, Connect \/ ConnectFails \/ EndInput \/ LinkDies(Main) \/ Request
    PROVE  ControlInv'
<1> USE ThreadFacts
<1>t. StateOK
  BY DEF ControlInv
<1>1. CASE Connect \/ ConnectFails \/ EndInput
  <2> USE <1>1 DEF Connect, ConnectFails, EndInput
  <2>1. StateOK' /\ UNCHANGED <<clears, mark, asked>>
    BY <1>t DEF StateOK, exits, ending, hist
  <2> QED
    BY <2>1, ControlQuiet DEF MainPcs, ClearPcs
<1>2. CASE LinkDies(Main)
  <2> USE <1>2 DEF LinkDies, Die
  <2>1. StateOK' /\ UNCHANGED <<clears, mark, asked>>
    BY <1>t DEF StateOK, exits, ending, hist
  <2> QED
    BY <2>1, ControlQuiet DEF MainPcs, AppendPcs
<1>3. CASE Request
  <2> USE <1>3 DEF Request
  <2>1. [src |-> Main, n |-> asked, known |-> TRUE] \in Message
    <3>1. asked \in 0 .. MaxAsked
      BY <1>t DEF StateOK
    <3> QED
      BY ONLY <3>1, ThreadFacts DEF Message
  <2>2. data' \in [Appender -> Message]
    BY <1>t, <2>1 DEF StateOK
  <2>3. StateOK' /\ UNCHANGED <<clears, mark, asked>>
    BY <1>t, <2>2 DEF StateOK, exits, ending, hist
  <2> QED
    BY <2>3, ControlQuiet DEF MainPcs, AppendPcs
<1> QED
  BY <1>1, <1>2, <1>3

\* What else the receiving thread does.
LEMMA ControlRecv ==
    ASSUME ControlInv,
           \/ BlockFails \/ OpenFails \/ LinkDies(Recv) \/ SendPort \/ TestEnd \/ ReceiveFails
           \/ \E known \in BOOLEAN : Receive(known)
    PROVE  ControlInv'
<1> USE ThreadFacts
<1>t. StateOK
  BY DEF ControlInv
<1>1. CASE BlockFails \/ OpenFails \/ SendPort \/ ReceiveFails
  <2> USE <1>1 DEF BlockFails, OpenFails, SendPort, ReceiveFails
  <2>1. StateOK' /\ UNCHANGED <<clears, mark, asked>>
    BY <1>t DEF StateOK, exits, ending, hist
  <2> QED
    BY <2>1, ControlQuiet DEF RecvPcs, ClearPcs
<1>2. CASE TestEnd
  <2> USE <1>2 DEF TestEnd
  <2>1. StateOK' /\ UNCHANGED <<clears, mark, asked>>
    BY <1>t DEF StateOK, exits, ending, hist
  <2>2. Goto(Recv, "test", "exited") \/ Goto(Recv, "test", "recvfrom")
    OBVIOUS
  <2> QED
    BY <2>1, <2>2, ControlQuiet DEF RecvPcs, ClearPcs
<1>3. CASE LinkDies(Recv)
  <2> USE <1>3 DEF LinkDies, Die
  <2>1. StateOK' /\ UNCHANGED <<clears, mark, asked>>
    BY <1>t DEF StateOK, exits, ending, hist
  <2> QED
    BY <2>1, ControlQuiet DEF RecvPcs, AppendPcs, ClearPcs
<1>4. ASSUME NEW known \in BOOLEAN, Receive(known) PROVE ControlInv'
  <2> USE <1>4 DEF Receive
  <2>1. received' \in 0 .. MaxReceived /\ received' \in Nat
    <3>1. received \in 0 .. MaxReceived /\ received < MaxReceived /\ received' = received + 1
      BY <1>t DEF StateOK
    <3> QED
      BY ONLY <3>1, ClientAssumption
  <2>2. [src |-> Recv, n |-> received', known |-> known] \in Message
    BY <2>1 DEF Message
  <2>3. data' \in [Appender -> Message]
    BY <1>t, <2>2 DEF StateOK
  <2>4. StateOK' /\ UNCHANGED <<clears, mark, asked>>
    BY <1>t, <2>1, <2>3 DEF StateOK, exits, ending
  <2> QED
    BY <2>4, ControlQuiet DEF RecvPcs, AppendPcs, ClearPcs
<1> QED
  BY <1>1, <1>2, <1>3, <1>4

\* The worker.
LEMMA ControlWork ==
    ASSUME ControlInv, WorkStep
    PROVE  ControlInv'
<1> USE ThreadFacts
<1>t. StateOK
  BY DEF ControlInv
<1>1. CASE Wait
  <2> USE <1>1 DEF Wait
  <2>1. sem' \in Nat
    <3>1. sem \in Nat /\ sem > 0 /\ sem' = sem - 1
      BY <1>t DEF StateOK
    <3> QED
      BY ONLY <3>1
  <2>2. StateOK' /\ UNCHANGED <<clears, mark, asked>>
    BY <1>t, <2>1 DEF StateOK, exits, ending, hist
  <2> QED
    BY <2>2, ControlQuiet DEF WorkPcs
<1>2. CASE CheckExit
  <2> USE <1>2 DEF CheckExit
  <2>1. StateOK' /\ UNCHANGED <<clears, mark, asked>>
    BY <1>t DEF StateOK, exits, ending, hist
  <2>2. Goto(Work, "check", "exited") \/ Goto(Work, "check", "take")
    OBVIOUS
  <2> QED
    BY <2>1, <2>2, ControlQuiet DEF WorkPcs
<1>3. CASE Take \/ Return
  <2> USE <1>3 DEF Take, Return
  <2>1. StateOK' /\ UNCHANGED <<clears, mark, asked>>
    BY <1>t DEF StateOK, exits, ending, hist
  <2> QED
    BY <2>1, ControlQuiet DEF WorkPcs
<1>4. CASE Process
  <2> USE <1>4 DEF Process
  <2>1. StateOK' /\ UNCHANGED <<clears, mark, asked>>
    BY <1>t DEF StateOK, exits, ending
  <2> QED
    BY <2>1, ControlQuiet DEF WorkPcs
<1>5. CASE ProcessDies
  <2> USE <1>5 DEF ProcessDies, Die
  <2>1. StateOK' /\ UNCHANGED <<clears, mark, asked>>
    BY <1>t DEF StateOK, exits, ending, hist
  <2>2. Goto(Work, "process", "dead")
    OBVIOUS
  <2> QED
    BY <2>1, <2>2, ControlQuiet DEF WorkPcs
<1> QED
  BY <1>1, <1>2, <1>3, <1>4, <1>5 DEF WorkStep

LEMMA ControlNext == ControlInv /\ [Next]_vars => ControlInv'
<1>1. ASSUME ControlInv, UNCHANGED vars PROVE ControlInv'
  <2>1. UNCHANGED <<data, sem, threadexit, live, plist, isRecvEnd, clears, mark, run, pc, crash,
                    asked, received, refused>>
    BY <1>1 DEF vars, exits, ending, hist
  <2>2. PcOK' /\ StateOK' /\ RecvUnlisted'
    BY <1>1, <2>1 DEF ControlInv, PcOK, StateOK, RecvUnlisted
  <2>3. Ended' \/ MarksOK'
    BY <1>1, <2>1 DEF ControlInv, Ended, MarksOK
  <2> QED
    BY <2>2, <2>3 DEF ControlInv
<1> QED
  BY <1>1, ControlStart, ControlMark, ControlAppend, ControlClear, ControlMain, ControlRecv,
     ControlWork, ThreadFacts
  DEF Next, MainStep, RecvStep

-----------------------------------------------------------------------------
(* The buffers, and what pulls and pushes do to sequences.                 *)

LEMMA MultipleNat ==
    ASSUME NEW size \in Nat
    PROVE  ToMultipleOf(size, Granule) \in Nat
<1>1. size + Granule - 1 \in Nat /\ Granule \in Nat \ {0}
  BY GranuleAssumption
<1>2. (size + Granule - 1) \div Granule \in Nat
  BY <1>1
<1> QED
  BY <1>1, <1>2 DEF ToMultipleOf

\* s_initpool allocates a number of buffers.
LEMMA BuffersCounted == Length(InitEmpty) \in Nat
<1> DEFINE k == Slots(ItemNum)
<1>1. k \in Nat
  BY MultipleNat, ItemNumAssumption DEF Slots
<1>2. /\ InitFilled.head = 0 /\ InitFilled.num_item = k
      /\ InitFilled.tail = Allocated(ItemNum, 0)
  BY DEF InitFilled, InitBuf
<1>3. \A size \in Nat, m \in Int : Allocated(size, m) \in Nat
  <2> SUFFICES ASSUME NEW size \in Nat, NEW m \in Int PROVE Allocated(size, m) \in Nat
    OBVIOUS
  <2>1. CASE m < 0 \/ m >= size
    <3>1. Slots(size) - 1 = ToMultipleOf(size, Granule)
      BY MultipleNat DEF Slots
    <3> QED
      BY <2>1, <3>1, MultipleNat DEF Allocated
  <2>2. CASE ~(m < 0 \/ m >= size)
    <3>1. m \in Nat
      BY <2>2
    <3> QED
      BY <2>2, <3>1, MultipleNat DEF Allocated
  <2> QED
    BY <2>1, <2>2
<1> HIDE DEF k
<1>4. InitFilled.tail \in Nat
  BY <1>2, <1>3, ItemNumAssumption
<1>5. InitEmptyNum \in Int
  BY <1>1, <1>2, <1>4 DEF InitEmptyNum, GetNumContainedItems
<1>6. InitEmpty.head = 0 /\ InitEmpty.tail = Allocated(k, InitEmptyNum)
  BY <1>2 DEF InitEmpty, InitBuf
<1>7. InitEmpty.tail \in Nat
  BY <1>1, <1>3, <1>5, <1>6
<1> QED
  BY <1>6, <1>7 DEF Length

LEMMA BufferFacts == NULL \notin Buffer
  BY BuffersCounted DEF Buffer, NULL

LEMMA PulledFacts ==
    ASSUME NEW S, NEW q \in Seq(S), q # <<>>
    PROVE  /\ Len(q) \in Nat \ {0} /\ Pulled(q) = q[1] /\ q[1] \in S
           /\ Rest(q) \in Seq(S) /\ Len(Rest(q)) = Len(q) - 1
           /\ \A i \in 1 .. Len(q) - 1 : i + 1 \in 1 .. Len(q) /\ Rest(q)[i] = q[i + 1]
<1>1. Pulled(q) = Head(q) /\ Rest(q) = Tail(q)
  BY DEF Pulled, Rest
<1> QED
  BY <1>1

LEMMA AppendedFacts ==
    ASSUME NEW S, NEW q \in Seq(S), NEW x \in S
    PROVE  /\ Append(q, x) \in Seq(S) /\ Len(q) \in Nat /\ Len(Append(q, x)) = Len(q) + 1
           /\ \A i \in 1 .. Len(q) + 1 :
                 /\ Append(q, x)[i] = IF i = Len(q) + 1 THEN x ELSE q[i]
                 /\ i = Len(q) + 1 \/ i \in 1 .. Len(q)
  OBVIOUS

\* Moving a message from one part of a row of three to the next.
LEMMA RowPush ==
    ASSUME NEW p \in Seq(Message), NEW m \in Seq(Message), NEW w \in Seq(Message), NEW x \in Message
    PROVE  Append(p \o m \o w, x) = p \o m \o Append(w, x)
<1> DEFINE a == p \o m
<1>1. a \in Seq(Message) /\ <<x>> \in Seq(Message)
  OBVIOUS
<1> HIDE DEF a
<1>2. a \o w \in Seq(Message)
  BY <1>1
<1>3. Append(a \o w, x) = (a \o w) \o <<x>>
  BY <1>2
<1>4. Append(w, x) = w \o <<x>>
  OBVIOUS
<1>5. (a \o w) \o <<x>> = a \o (w \o <<x>>)
  BY <1>1, ConcatAssociative
<1> QED
  BY <1>3, <1>4, <1>5 DEF a

LEMMA RowPull ==
    ASSUME NEW S, NEW p \in Seq(S), NEW w \in Seq(S), NEW x \in S
    PROVE  p \o <<>> \o (<<x>> \o w) = p \o <<x>> \o w
<1> DEFINE l == p \o <<>> \o (<<x>> \o w)
           r == p \o <<x>> \o w
<1>1. p \o <<>> = p
  OBVIOUS
<1>2. l = p \o (<<x>> \o w)
  BY <1>1
<1>3. <<x>> \in Seq(S)
  OBVIOUS
<1>4. p \o (<<x>> \o w) = (p \o <<x>>) \o w
  BY <1>3, ConcatAssociative
<1> QED
  BY <1>2, <1>4

LEMMA RowDone ==
    ASSUME NEW S, NEW p \in Seq(S), NEW w \in Seq(S), NEW x \in S
    PROVE  p \o <<x>> \o w = Append(p, x) \o <<>> \o w
<1>1. Append(p, x) \in Seq(S) /\ Append(p, x) = p \o <<x>>
  OBVIOUS
<1>2. Append(p, x) \o <<>> = Append(p, x)
  BY <1>1
<1> QED
  BY <1>1, <1>2

-----------------------------------------------------------------------------
(* The order of the messages.                                              *)

\* The message the worker holds, and those that wait.
Working == IF pc[Work] \in {"process", "dead"} /\ hand[Work] # NULL
           THEN <<content[hand[Work]]>> ELSE <<>>
Waiting == [i \in 1 .. Len(filled) |-> content[filled[i]]]

LEMMA OrderParts == InOrder <=> appended = processed \o Working \o Waiting
  BY DEF InOrder, Working, Waiting

LEMMA PartsType ==
    ASSUME QueuesOK
    PROVE  Working \in Seq(Message) /\ Waiting \in Seq(Message) /\ Len(Waiting) = Len(filled)
<1> USE ThreadFacts, BufferFacts
<1>1. Len(filled) \in Nat /\ \A i \in 1 .. Len(filled) : filled[i] \in Buffer
  BY DEF QueuesOK
<1>2. \A b \in Buffer : content[b] \in Message
  BY DEF QueuesOK
<1>3. Waiting \in Seq(Message) /\ Len(Waiting) = Len(filled)
  BY ONLY <1>1, <1>2 DEF Waiting
<1>4. hand[Work] # NULL => hand[Work] \in Buffer
  BY DEF QueuesOK
<1>5. Working \in Seq(Message)
  BY <1>2, <1>4 DEF Working
<1> QED
  BY <1>3, <1>5

\* A step that touches neither the queues nor the messages.
LEMMA DataQuiet ==
    ASSUME DataInv, UNCHANGED <<queues, appended, processed>>,
           \A t \in Appender : pc'[t] = "push" => pc[t] = "push",
           pc'[Work] = "return" => pc[Work] = "return",
           pc'[Work] \in {"process", "dead"} <=> pc[Work] \in {"process", "dead"}
    PROVE  DataInv'
<1>1. UNCHANGED <<filled, empty, hand, content, appended, processed>>
  BY DEF queues
<1>2. QueuesOK' /\ HandsOK' /\ OneOwner'
  BY <1>1 DEF DataInv, QueuesOK, HandsOK, OneOwner
<1>3. Working' = Working /\ Waiting' = Waiting
  BY <1>1 DEF Working, Waiting
<1> QED
  BY <1>1, <1>2, <1>3, OrderParts DEF DataInv, InOrder, Working, Waiting

LEMMA AppenderQuiet ==
    ASSUME PcOK, DataInv, NEW t \in Appender, NEW from, NEW to, Goto(t, from, to),
           to # "push", UNCHANGED <<queues, appended, processed>>
    PROVE  DataInv'
<1>1. pc' = [pc EXCEPT ![t] = to]
  BY DEF Goto
<1>2. pc'[t] = to /\ \A u \in Thread \ {t} : pc'[u] = pc[u]
  BY <1>1, ThreadFacts DEF PcOK
<1>3. pc'[Work] = pc[Work] /\ \A u \in Appender : pc'[u] = "push" => pc[u] = "push"
  BY <1>2, ThreadFacts
<1> QED
  BY <1>3, DataQuiet

\* A buffer that was empty holds no message that waits or is being processed.
LEMMA DataPull ==
    ASSUME ControlInv, DataInv, NEW t \in Appender, AppendPull(t)
    PROVE  DataInv'
<1> USE ThreadFacts, BufferFacts DEF AppendPull
<1> DEFINE b == empty[1]
<1>t. QueuesOK
  BY DEF DataInv
<1>1. /\ pc[t] = "pull" /\ pc'[t] = "push"
      /\ \A u \in Thread \ {t} : pc'[u] = pc[u]
  BY Moved DEF ControlInv, MainPcs, RecvPcs, AppendPcs
<1>2. /\ Pulled(empty) = b /\ b \in Buffer /\ Len(empty) \in Nat \ {0}
      /\ empty' \in Seq(Buffer) /\ Len(empty') = Len(empty) - 1
      /\ \A i \in 1 .. Len(empty) - 1 : i + 1 \in 1 .. Len(empty) /\ empty'[i] = empty[i + 1]
  BY <1>t, PulledFacts DEF QueuesOK
<1> HIDE DEF b
<1>3. /\ hand' = [hand EXCEPT ![t] = b] /\ content' = [content EXCEPT ![b] = data[t]]
      /\ UNCHANGED <<filled, appended, processed>>
  BY <1>2 DEF hist
<1>4. data[t] \in Message
  BY DEF ControlInv, StateOK
<1>5. /\ hand' \in [Thread -> Buffer \union {NULL}] /\ content' \in [Buffer -> Message]
      /\ hand'[t] = b /\ \A u \in Thread \ {t} : hand'[u] = hand[u]
      /\ \A c \in Buffer \ {b} : content'[c] = content[c]
  BY <1>t, <1>2, <1>3, <1>4 DEF QueuesOK
<1>6. QueuesOK'
  BY <1>t, <1>2, <1>3, <1>5 DEF QueuesOK
<1>7. HandsOK'
  BY <1>1, <1>2, <1>5 DEF DataInv, HandsOK
<1>8. /\ 1 \in DOMAIN empty /\ DOMAIN empty = 1 .. Len(empty) /\ b = empty[1]
      /\ DOMAIN empty' = 1 .. Len(empty) - 1
      /\ \A j \in DOMAIN empty' : j + 1 \in DOMAIN empty /\ empty'[j] = empty[j + 1]
  BY <1>t, <1>2 DEF QueuesOK, b
<1>9. \A j \in DOMAIN empty' : empty'[j] # b
  <2> SUFFICES ASSUME NEW j \in DOMAIN empty', empty[j + 1] = empty[1] PROVE FALSE
    BY <1>8
  <2>1. j + 1 = 1
    BY <1>8 DEF DataInv, OneOwner
  <2> QED
    BY <1>2, <1>8, <2>1
<1>10. /\ \A i \in DOMAIN filled : filled[i] # b
       /\ \A u \in Thread : hand[u] # b
  BY <1>2, <1>8 DEF DataInv, OneOwner
<1>11. OneOwner'
  <2>1. \A i, j \in DOMAIN empty' : empty'[i] = empty'[j] => i = j
    <3> SUFFICES ASSUME NEW i \in DOMAIN empty', NEW j \in DOMAIN empty',
                        empty[i + 1] = empty[j + 1]
                 PROVE  i = j
      BY <1>8
    <3>1. i + 1 = j + 1
      BY <1>8 DEF DataInv, OneOwner
    <3> QED
      BY <1>2, <1>8, <3>1
  <2>2. \A i \in DOMAIN filled, j \in DOMAIN empty' : filled[i] # empty'[j]
    BY <1>8 DEF DataInv, OneOwner
  <2>3. ASSUME NEW u \in Thread, hand'[u] # NULL
        PROVE  /\ \A i \in DOMAIN filled : filled[i] # hand'[u]
               /\ \A i \in DOMAIN empty' : empty'[i] # hand'[u]
               /\ \A v \in Thread : hand'[v] = hand'[u] => v = u
    <3>1. CASE u = t
      BY <1>5, <1>9, <1>10, <3>1
    <3>2. CASE u # t
      <4>1. hand'[u] = hand[u] /\ hand[u] # b
        BY <1>5, <1>10, <3>2
      <4>2. \A v \in Thread : hand'[v] = hand'[u] => v = u
        BY <1>5, <2>3, <4>1 DEF DataInv, OneOwner
      <4> QED
        BY <1>8, <2>3, <4>1, <4>2 DEF DataInv, OneOwner
    <3> QED
      BY <3>1, <3>2
  <2> QED
    BY <1>3, <2>1, <2>2, <2>3 DEF DataInv, OneOwner
<1>12. Working' = Working
  <2>1. pc'[Work] = pc[Work] /\ hand'[Work] = hand[Work]
    BY <1>1, <1>5
  <2>2. hand[Work] # NULL => content'[hand[Work]] = content[hand[Work]]
    BY <1>t, <1>5, <1>10 DEF QueuesOK
  <2> QED
    BY <2>1, <2>2 DEF Working
<1>13. Waiting' = Waiting
  <2>1. \A i \in 1 .. Len(filled) : i \in DOMAIN filled /\ filled[i] \in Buffer
    BY <1>t DEF QueuesOK
  <2>2. \A i \in 1 .. Len(filled) : content'[filled[i]] = content[filled[i]]
    BY <1>5, <1>10, <2>1
  <2> QED
    BY <1>3, <2>2 DEF Waiting
<1>14. InOrder'
  BY <1>3, <1>12, <1>13, OrderParts DEF DataInv, InOrder, Working, Waiting
<1> QED
  BY <1>6, <1>7, <1>11, <1>14 DEF DataInv

\* Giving a buffer away keeps the others apart.
LEMMA OwnerDropped ==
    ASSUME OneOwner, hand \in [Thread -> Buffer \union {NULL}], NEW t \in Thread,
           hand' = [hand EXCEPT ![t] = NULL], UNCHANGED <<filled, empty>>
    PROVE  OneOwner'
<1>1. hand'[t] = NULL /\ \A u \in Thread \ {t} : hand'[u] = hand[u]
  OBVIOUS
<1> QED
  BY <1>1 DEF OneOwner

\* The message is put behind those that wait, or not at all.
LEMMA DataPush ==
    ASSUME ControlInv, DataInv, NEW t \in Appender, AppendPush(t)
    PROVE  DataInv'
<1> USE ThreadFacts, BufferFacts DEF AppendPush
<1> DEFINE b == hand[t]
<1>t. QueuesOK /\ HandsOK /\ OneOwner
  BY DEF DataInv
<1>1. /\ pc[t] = "push" /\ pc'[t] = "post"
      /\ \A u \in Thread \ {t} : pc'[u] = pc[u]
  BY Moved DEF ControlInv, MainPcs, RecvPcs, AppendPcs
<1>2. b \in Buffer /\ content[b] \in Message
  BY <1>t, <1>1 DEF QueuesOK, HandsOK
<1>3. hand' = [hand EXCEPT ![t] = NULL] /\ UNCHANGED <<empty, content, processed>>
  OBVIOUS
<1>4. /\ hand' \in [Thread -> Buffer \union {NULL}]
      /\ hand'[t] = NULL /\ \A u \in Thread \ {t} : hand'[u] = hand[u]
  BY <1>t, <1>3 DEF QueuesOK
<1>5. HandsOK'
  BY <1>t, <1>1, <1>4 DEF HandsOK
<1>6. Working' = Working
  BY <1>1, <1>3, <1>4 DEF Working
<1>7. CASE Refused(filled, FilledCapacity)
  <2>1. filled' = filled /\ appended' = appended
    BY <1>7 DEF Pushed
  <2>2. QueuesOK' /\ OneOwner'
    BY <1>t, <1>3, <1>4, <2>1, OwnerDropped DEF QueuesOK
  <2>3. Waiting' = Waiting
    BY <1>3, <2>1 DEF Waiting
  <2>4. InOrder'
    BY <1>3, <1>6, <2>1, <2>3, OrderParts DEF DataInv, InOrder, Working, Waiting
  <2> QED
    BY <1>5, <2>2, <2>4 DEF DataInv
<1>8. CASE ~Refused(filled, FilledCapacity)
  <2>1. filled' = Append(filled, b) /\ appended' = Append(appended, content[b])
    BY <1>8 DEF Pushed
  <2> HIDE DEF b
  <2>2. /\ filled' \in Seq(Buffer) /\ Len(filled) \in Nat /\ Len(filled') = Len(filled) + 1
        /\ \A i \in 1 .. Len(filled) + 1 :
              /\ filled'[i] = IF i = Len(filled) + 1 THEN b ELSE filled[i]
              /\ i = Len(filled) + 1 \/ i \in 1 .. Len(filled)
    BY <1>t, <1>2, <2>1, AppendedFacts DEF QueuesOK
  <2>3. /\ DOMAIN filled = 1 .. Len(filled) /\ DOMAIN filled' = 1 .. Len(filled) + 1
    BY <1>t, <2>2 DEF QueuesOK
  <2>4. appended' \in Seq(Message)
    BY <1>t, <1>2, <2>1, AppendedFacts DEF QueuesOK
  <2>5. QueuesOK'
    BY <1>t, <1>3, <1>4, <2>2, <2>4 DEF QueuesOK
  <2>6. /\ \A i \in DOMAIN filled : filled[i] # b
        /\ \A i \in DOMAIN empty : empty[i] # b
        /\ \A u \in Thread \ {t} : hand[u] # b
    BY <1>t, <1>2 DEF OneOwner, b
  <2>7. OneOwner'
    <3>1. \A i, j \in DOMAIN filled' : filled'[i] = filled'[j] => i = j
      <4> SUFFICES ASSUME NEW i \in DOMAIN filled', NEW j \in DOMAIN filled',
                          filled'[i] = filled'[j]
                   PROVE  i = j
        OBVIOUS
      <4>1. /\ i = Len(filled) + 1 \/ (i \in DOMAIN filled /\ filled'[i] = filled[i])
            /\ j = Len(filled) + 1 \/ (j \in DOMAIN filled /\ filled'[j] = filled[j])
            /\ i = Len(filled) + 1 => filled'[i] = b
            /\ j = Len(filled) + 1 => filled'[j] = b
        BY <2>2, <2>3
      <4> QED
        BY <1>t, <2>6, <4>1 DEF OneOwner
    <3>2. \A i \in DOMAIN filled' : filled'[i] = b \/ \E j \in DOMAIN filled : filled'[i] = filled[j]
      BY <2>2, <2>3
    <3>3. \A i \in DOMAIN filled', j \in DOMAIN empty : filled'[i] # empty[j]
      BY <1>t, <2>6, <3>2 DEF OneOwner
    <3>4. ASSUME NEW u \in Thread, hand'[u] # NULL
          PROVE  /\ \A i \in DOMAIN filled' : filled'[i] # hand'[u]
                 /\ \A i \in DOMAIN empty : empty[i] # hand'[u]
                 /\ \A v \in Thread : hand'[v] = hand'[u] => v = u
      <4>1. u # t /\ hand'[u] = hand[u]
        BY <1>4, <3>4
      <4> QED
        BY <1>t, <1>4, <2>6, <3>2, <3>4, <4>1 DEF OneOwner
    <3> QED
      BY <1>t, <1>3, <3>1, <3>3, <3>4 DEF OneOwner
  <2>8. Waiting' = Append(Waiting, content[b])
    <3>1. Waiting' = [i \in 1 .. Len(filled) + 1 |-> content[filled'[i]]]
      BY <1>3, <2>2 DEF Waiting
    <3>2. Waiting \in Seq(Message) /\ Len(Waiting) = Len(filled)
      BY <1>t, PartsType
    <3>3. \A i \in 1 .. Len(filled) : Waiting[i] = content[filled[i]]
      BY DEF Waiting
    <3>4. /\ Append(Waiting, content[b]) \in Seq(Message)
          /\ Len(Append(Waiting, content[b])) = Len(filled) + 1
          /\ \A i \in 1 .. Len(filled) + 1 :
                Append(Waiting, content[b])[i] = IF i = Len(filled) + 1 THEN content[b]
                                                 ELSE Waiting[i]
      BY <1>2, <3>2, AppendedFacts
    <3>5. \A i \in 1 .. Len(filled) + 1 : Append(Waiting, content[b])[i] = content[filled'[i]]
      BY <2>2, <3>3, <3>4
    <3>6. Append(Waiting, content[b])
            = [i \in 1 .. Len(filled) + 1 |-> Append(Waiting, content[b])[i]]
      BY <3>4
    <3> QED
      BY <3>1, <3>5, <3>6
  <2>9. appended' = processed' \o Working' \o Waiting'
    <3>1. appended = processed \o Working \o Waiting
      BY OrderParts DEF DataInv
    <3>2. Append(processed \o Working \o Waiting, content[b])
            = processed \o Working \o Append(Waiting, content[b])
      <4>1. processed \in Seq(Message)
        BY <1>t DEF QueuesOK
      <4>2. Working \in Seq(Message) /\ Waiting \in Seq(Message)
        BY <1>t, PartsType
      <4>3. content[b] \in Message
        BY <1>2
      <4> QED
        BY ONLY <4>1, <4>2, <4>3, RowPush
    <3> QED
      BY <1>3, <1>6, <2>1, <2>8, <3>1, <3>2
  <2>10. InOrder'
    BY <2>9 DEF InOrder, Working, Waiting
  <2> QED
    BY <1>5, <2>5, <2>7, <2>10 DEF DataInv
<1> QED
  BY <1>7, <1>8

\* The worker takes the oldest message that waits.
LEMMA DataTake ==
    ASSUME ControlInv, DataInv, Take
    PROVE  DataInv'
<1> USE ThreadFacts, BufferFacts DEF Take
<1>t. QueuesOK /\ HandsOK /\ OneOwner
  BY DEF DataInv
<1>1. /\ pc[Work] = "take" /\ pc'[Work] = "process"
      /\ \A u \in Thread \ {Work} : pc'[u] = pc[u]
  BY Moved DEF ControlInv, WorkPcs
<1>2. UNCHANGED <<empty, content, appended, processed>>
  BY DEF hist
<1>3. Working = <<>>
  BY <1>1 DEF Working
<1>4. CASE filled = <<>>
  <2>1. hand' = [hand EXCEPT ![Work] = NULL] /\ filled' = filled
    BY <1>4 DEF Pulled, Rest
  <2>2. hand' \in [Thread -> Buffer \union {NULL}] /\ hand'[Work] = NULL
        /\ \A u \in Thread \ {Work} : hand'[u] = hand[u]
    BY <1>t, <2>1 DEF QueuesOK
  <2>3. QueuesOK' /\ OneOwner' /\ HandsOK'
    <3>1. hand \in [Thread -> Buffer \union {NULL}] /\ OneOwner /\ UNCHANGED <<filled, empty>>
      BY <1>t, <1>2, <2>1 DEF QueuesOK
    <3>2. OneOwner'
      BY ONLY <2>1, <3>1, ThreadFacts, OwnerDropped
    <3>3. QueuesOK'
      BY <1>t, <1>2, <2>1, <2>2 DEF QueuesOK
    <3>4. HandsOK'
      BY <1>t, <1>1, <2>2 DEF HandsOK
    <3> QED
      BY <3>2, <3>3, <3>4
  <2>4. Working' = <<>> /\ Waiting' = Waiting
    BY <1>2, <2>1, <2>2 DEF Working, Waiting
  <2>5. InOrder'
    BY <1>2, <1>3, <2>4, OrderParts DEF DataInv, InOrder, Working, Waiting
  <2> QED
    BY <2>3, <2>5 DEF DataInv
<1>5. CASE filled # <<>>
  <2> DEFINE b == filled[1]
  <2>1. /\ Pulled(filled) = b /\ b \in Buffer /\ Len(filled) \in Nat \ {0}
        /\ filled' \in Seq(Buffer) /\ Len(filled') = Len(filled) - 1
        /\ \A i \in 1 .. Len(filled) - 1 :
              i + 1 \in 1 .. Len(filled) /\ filled'[i] = filled[i + 1]
    BY <1>t, <1>5, PulledFacts DEF QueuesOK
  <2>2. /\ 1 \in DOMAIN filled /\ DOMAIN filled = 1 .. Len(filled) /\ b = filled[1]
        /\ DOMAIN filled' = 1 .. Len(filled) - 1
        /\ \A j \in DOMAIN filled' : j + 1 \in DOMAIN filled /\ filled'[j] = filled[j + 1]
    <3>1. DOMAIN filled = 1 .. Len(filled)
      BY <1>t DEF QueuesOK
    <3>2. DOMAIN filled' = 1 .. Len(filled) - 1
      BY <2>1
    <3>3. 1 \in 1 .. Len(filled)
      BY ONLY <2>1
    <3> QED
      BY ONLY <2>1, <3>1, <3>2, <3>3
  <2> HIDE DEF b
  <2>3. hand' = [hand EXCEPT ![Work] = b]
    BY <2>1
  <2>4. /\ hand' \in [Thread -> Buffer \union {NULL}] /\ hand'[Work] = b
        /\ \A u \in Thread \ {Work} : hand'[u] = hand[u]
    BY <1>t, <2>1, <2>3 DEF QueuesOK
  <2>5. QueuesOK' /\ HandsOK'
    BY <1>t, <1>1, <1>2, <2>1, <2>4 DEF QueuesOK, HandsOK
  <2>6. \A j \in DOMAIN filled' : filled'[j] # b
    <3> SUFFICES ASSUME NEW j \in DOMAIN filled', filled[j + 1] = filled[1] PROVE FALSE
      BY <2>2
    <3>1. j + 1 = 1
      BY <1>t, <2>2 DEF OneOwner
    <3> QED
      BY <2>1, <2>2, <3>1
  <2>7. /\ \A i \in DOMAIN empty : empty[i] # b
        /\ \A u \in Thread : hand[u] # b
    BY <1>t, <2>1, <2>2 DEF OneOwner
  <2>8. OneOwner'
    <3>1. \A i, j \in DOMAIN filled' : filled'[i] = filled'[j] => i = j
      <4> SUFFICES ASSUME NEW i \in DOMAIN filled', NEW j \in DOMAIN filled',
                          filled[i + 1] = filled[j + 1]
                   PROVE  i = j
        BY <2>2
      <4>1. i + 1 = j + 1
        BY <1>t, <2>2 DEF OneOwner
      <4> QED
        BY <2>1, <2>2, <4>1
    <3>2. \A i \in DOMAIN filled', j \in DOMAIN empty : filled'[i] # empty[j]
      BY <1>t, <2>2 DEF OneOwner
    <3>3. ASSUME NEW u \in Thread, hand'[u] # NULL
          PROVE  /\ \A i \in DOMAIN filled' : filled'[i] # hand'[u]
                 /\ \A i \in DOMAIN empty : empty[i] # hand'[u]
                 /\ \A v \in Thread : hand'[v] = hand'[u] => v = u
      <4>1. CASE u = Work
        BY <2>4, <2>6, <2>7, <4>1
      <4>2. CASE u # Work
        <5>1. hand'[u] = hand[u] /\ hand[u] # b
          BY <2>4, <2>7, <4>2
        <5>2. \A v \in Thread : hand'[v] = hand'[u] => v = u
          BY <1>t, <2>4, <3>3, <5>1 DEF OneOwner
        <5> QED
          BY <1>t, <2>2, <3>3, <5>1, <5>2 DEF OneOwner
      <4> QED
        BY <4>1, <4>2
    <3> QED
      BY <1>t, <1>2, <3>1, <3>2, <3>3 DEF OneOwner
  <2>9. Working' = <<content[b]>> /\ content[b] \in Message
    BY <1>t, <1>1, <1>2, <2>1, <2>4 DEF Working, QueuesOK
  <2>10. Waiting = <<content[b]>> \o Waiting'
    <3>1. Waiting' \in Seq(Message) /\ Len(Waiting') = Len(filled) - 1
      <4>1. \A i \in 1 .. Len(filled) - 1 : content[filled'[i]] \in Message
        BY <1>t, <2>1 DEF QueuesOK
      <4>2. Waiting' = [i \in 1 .. Len(filled) - 1 |-> content[filled'[i]]]
        BY <1>2, <2>1 DEF Waiting
      <4> QED
        BY ONLY <2>1, <4>1, <4>2
    <3>2. \A i \in 1 .. Len(filled) - 1 : Waiting'[i] = content[filled[i + 1]]
      BY <1>2, <2>1 DEF Waiting
    <3>3. \A i \in 1 .. Len(filled) : Waiting[i] = content[filled[i]]
      BY DEF Waiting
    <3>4. Waiting \in Seq(Message) /\ Len(Waiting) = Len(filled)
      BY <1>t, PartsType
    <3> DEFINE w == Waiting
               x == Waiting'
               l == <<content[b]>> \o x
    <3> HIDE DEF w, x
    <3>5. /\ l \in Seq(Message) /\ Len(l) = Len(filled)
          /\ \A i \in 1 .. Len(filled) : l[i] = IF i = 1 THEN content[b] ELSE x[i - 1]
      BY <2>1, <2>9, <3>1 DEF x
    <3>6. \A i \in 1 .. Len(filled) : i = 1 \/ i - 1 \in 1 .. Len(filled) - 1
      BY <2>1
    <3>7. \A i \in 1 .. Len(filled) : i # 1 => x[i - 1] = content[filled[i]]
      <4> SUFFICES ASSUME NEW i \in 1 .. Len(filled), i # 1 PROVE x[i - 1] = content[filled[i]]
        OBVIOUS
      <4>1. i - 1 \in 1 .. Len(filled) - 1 /\ (i - 1) + 1 = i
        BY <2>1
      <4> QED
        BY <3>2, <4>1 DEF x
    <3>8. \A i \in 1 .. Len(filled) : l[i] = w[i]
      BY <2>2, <3>3, <3>5, <3>7 DEF w
    <3>9. w \in Seq(Message) /\ Len(w) = Len(filled)
      BY <3>4 DEF w
    <3> HIDE DEF l
    <3>10. w = l
      BY <3>5, <3>8, <3>9, SeqEqual
    <3> QED
      BY <3>10 DEF w, l, x
  <2>11. appended' = processed' \o Working' \o Waiting'
    <3>1. appended = processed \o <<>> \o Waiting
      BY <1>3, OrderParts DEF DataInv
    <3>2. Waiting' \in Seq(Message)
      <4>1. \A i \in 1 .. Len(filled) - 1 : content[filled'[i]] \in Message
        BY <1>t, <2>1 DEF QueuesOK
      <4>2. Waiting' = [i \in 1 .. Len(filled) - 1 |-> content[filled'[i]]]
        BY <1>2, <2>1 DEF Waiting
      <4> QED
        BY ONLY <2>1, <4>1, <4>2
    <3>3. processed \in Seq(Message)
      BY <1>t DEF QueuesOK
    <3>4. processed \o <<>> \o (<<content[b]>> \o Waiting')
            = processed \o <<content[b]>> \o Waiting'
      BY <2>9, <3>2, <3>3, RowPull
    <3> QED
      BY <1>2, <2>9, <2>10, <3>1, <3>4
  <2>12. InOrder'
    BY <2>11 DEF InOrder, Working, Waiting
  <2> QED
    BY <2>5, <2>8, <2>12 DEF DataInv
<1> QED
  BY <1>4, <1>5

\* The function of CLIENT_QUERY has run on the message the worker holds.
LEMMA DataProcess ==
    ASSUME ControlInv, DataInv, Process
    PROVE  DataInv'
<1> USE ThreadFacts, BufferFacts DEF Process
<1>t. QueuesOK /\ HandsOK /\ OneOwner
  BY DEF DataInv
<1> DEFINE x == content[hand[Work]]
<1>1. /\ pc[Work] = "process" /\ pc'[Work] = "return"
      /\ \A u \in Thread \ {Work} : pc'[u] = pc[u]
  BY Moved DEF ControlInv, WorkPcs
<1>2. UNCHANGED <<filled, empty, hand, content, appended>> /\ processed' = Append(processed, x)
  BY DEF queues
<1>3. hand[Work] # NULL /\ x \in Message
  BY <1>t DEF QueuesOK
<1>4. Working = <<x>> /\ Working' = <<>> /\ Waiting' = Waiting
  BY <1>1, <1>2, <1>3 DEF Working, Waiting
<1> HIDE DEF x
<1>5. processed \in Seq(Message) /\ processed' \in Seq(Message)
  BY <1>t, <1>2, <1>3, AppendedFacts DEF QueuesOK
<1>6. QueuesOK' /\ HandsOK' /\ OneOwner'
  BY <1>t, <1>1, <1>2, <1>3, <1>5 DEF QueuesOK, HandsOK, OneOwner
<1>7. appended' = processed' \o Working' \o Waiting'
  <2>1. appended = processed \o <<x>> \o Waiting
    BY <1>4, OrderParts DEF DataInv
  <2>2. processed \o <<x>> \o Waiting = Append(processed, x) \o <<>> \o Waiting
    BY <1>t, <1>3, <1>5, PartsType, RowDone
  <2> QED
    BY <1>2, <1>4, <2>1, <2>2
<1>8. InOrder'
  BY <1>7 DEF InOrder, Working, Waiting
<1> QED
  BY <1>6, <1>8 DEF DataInv

\* The worker gives its buffer back.
LEMMA DataReturn ==
    ASSUME ControlInv, DataInv, Return
    PROVE  DataInv'
<1> USE ThreadFacts, BufferFacts DEF Return
<1> DEFINE b == hand[Work]
<1>t. QueuesOK /\ HandsOK /\ OneOwner
  BY DEF DataInv
<1>1. /\ pc[Work] = "return" /\ pc'[Work] = "wait"
      /\ \A u \in Thread \ {Work} : pc'[u] = pc[u]
  BY Moved DEF ControlInv, WorkPcs
<1>2. UNCHANGED <<filled, content, appended, processed>> /\ b \in Buffer
  BY <1>t, <1>1 DEF hist, QueuesOK, HandsOK
<1>3. hand' = [hand EXCEPT ![Work] = NULL]
  OBVIOUS
<1>4. /\ hand' \in [Thread -> Buffer \union {NULL}]
      /\ hand'[Work] = NULL /\ \A u \in Thread \ {Work} : hand'[u] = hand[u]
  BY <1>t, <1>3 DEF QueuesOK
<1>5. HandsOK'
  BY <1>t, <1>1, <1>4 DEF HandsOK
<1>6. Working = <<>> /\ Working' = <<>> /\ Waiting' = Waiting
  BY <1>1, <1>2 DEF Working, Waiting
<1>7. InOrder'
  BY <1>2, <1>6, OrderParts DEF DataInv, InOrder, Working, Waiting
<1>8. CASE Refused(empty, EmptyCapacity)
  <2>1. empty' = empty
    BY <1>8 DEF Pushed
  <2>2. QueuesOK' /\ OneOwner'
    BY <1>t, <1>2, <1>3, <1>4, <2>1, OwnerDropped DEF QueuesOK
  <2> QED
    BY <1>5, <1>7, <2>2 DEF DataInv
<1>9. CASE ~Refused(empty, EmptyCapacity)
  <2>1. empty' = Append(empty, b)
    BY <1>9 DEF Pushed
  <2> HIDE DEF b
  <2>2. /\ empty' \in Seq(Buffer) /\ Len(empty) \in Nat /\ Len(empty') = Len(empty) + 1
        /\ \A i \in 1 .. Len(empty) + 1 :
              /\ empty'[i] = IF i = Len(empty) + 1 THEN b ELSE empty[i]
              /\ i = Len(empty) + 1 \/ i \in 1 .. Len(empty)
    BY <1>t, <1>2, <2>1, AppendedFacts DEF QueuesOK
  <2>3. /\ DOMAIN empty = 1 .. Len(empty) /\ DOMAIN empty' = 1 .. Len(empty) + 1
    BY <1>t, <2>2 DEF QueuesOK
  <2>4. QueuesOK'
    BY <1>t, <1>2, <1>4, <2>2 DEF QueuesOK
  <2>5. /\ \A i \in DOMAIN filled : filled[i] # b
        /\ \A i \in DOMAIN empty : empty[i] # b
        /\ \A u \in Thread \ {Work} : hand[u] # b
    BY <1>t, <1>2 DEF OneOwner, b
  <2>6. OneOwner'
    <3>1. \A i, j \in DOMAIN empty' : empty'[i] = empty'[j] => i = j
      <4> SUFFICES ASSUME NEW i \in DOMAIN empty', NEW j \in DOMAIN empty',
                          empty'[i] = empty'[j]
                   PROVE  i = j
        OBVIOUS
      <4>1. /\ i = Len(empty) + 1 \/ (i \in DOMAIN empty /\ empty'[i] = empty[i])
            /\ j = Len(empty) + 1 \/ (j \in DOMAIN empty /\ empty'[j] = empty[j])
            /\ i = Len(empty) + 1 => empty'[i] = b
            /\ j = Len(empty) + 1 => empty'[j] = b
        BY <2>2, <2>3
      <4> QED
        BY <1>t, <2>5, <4>1 DEF OneOwner
    <3>2. \A i \in DOMAIN empty' : empty'[i] = b \/ \E j \in DOMAIN empty : empty'[i] = empty[j]
      BY <2>2, <2>3
    <3>3. \A i \in DOMAIN filled, j \in DOMAIN empty' : filled[i] # empty'[j]
      BY <1>t, <2>5, <3>2 DEF OneOwner
    <3>4. ASSUME NEW u \in Thread, hand'[u] # NULL
          PROVE  /\ \A i \in DOMAIN filled : filled[i] # hand'[u]
                 /\ \A i \in DOMAIN empty' : empty'[i] # hand'[u]
                 /\ \A v \in Thread : hand'[v] = hand'[u] => v = u
      <4>1. u # Work /\ hand'[u] = hand[u]
        BY <1>4, <3>4
      <4> QED
        BY <1>t, <1>4, <2>5, <3>2, <3>4, <4>1 DEF OneOwner
    <3> QED
      BY <1>t, <1>2, <3>1, <3>3, <3>4 DEF OneOwner
  <2> QED
    BY <1>5, <1>7, <2>4, <2>6 DEF DataInv
<1> QED
  BY <1>8, <1>9

\* The steps that touch no queue and no message.
LEMMA DataRest ==
    ASSUME ControlInv, DataInv,
           \/ InitFails \/ (\E receiving \in BOOLEAN : Start(receiving))
           \/ Connect \/ ConnectFails \/ Ask \/ EndInput
           \/ Link(Main, "request", "request") \/ LinkDies(Main) \/ Request
           \/ OpenRecv \/ BlockFails \/ OpenFails \/ Link(Recv, "recv", "port") \/ LinkDies(Recv)
           \/ SendPort \/ TestEnd
           \/ (\E known \in BOOLEAN : Receive(known)) \/ ReceiveFails
    PROVE  DataInv'
<1> USE ThreadFacts DEF hist
<1>p. PcOK
  BY DEF ControlInv
<1>1. ASSUME NEW receiving \in BOOLEAN, Start(receiving) PROVE DataInv'
  <2> USE <1>1 DEF Start
  <2>1. pc' = [pc EXCEPT ![Main] = "connect", ![Work] = "wait",
                         ![Recv] = IF receiving THEN "open" ELSE "exited"]
    OBVIOUS
  <2>2. /\ pc[Work] = "none" /\ pc'[Work] = "wait"
        /\ \A t \in Appender : pc'[t] \in {"connect", "open", "exited"}
    BY <1>p, <2>1 DEF PcOK, Appender
  <2> QED
    BY <2>2, DataQuiet
<1>2. CASE InitFails \/ Connect \/ ConnectFails \/ Ask \/ EndInput
  BY <1>p, <1>2, AppenderQuiet DEF InitFails, Connect, ConnectFails, Ask, EndInput
<1>3. CASE Link(Main, "request", "request") \/ Link(Recv, "recv", "port")
  BY <1>p, <1>3, AppenderQuiet DEF Link
<1>4. CASE LinkDies(Main) \/ LinkDies(Recv)
  BY <1>p, <1>4, AppenderQuiet DEF LinkDies, Die
<1>5. CASE Request
  BY <1>p, <1>5, AppenderQuiet DEF Request
<1>6. CASE OpenRecv \/ BlockFails \/ OpenFails \/ SendPort \/ ReceiveFails
  BY <1>p, <1>6, AppenderQuiet DEF OpenRecv, BlockFails, OpenFails, SendPort, ReceiveFails
<1>7. CASE TestEnd
  <2>1. Goto(Recv, "test", "exited") \/ Goto(Recv, "test", "recvfrom")
    BY <1>7 DEF TestEnd
  <2> QED
    BY <1>p, <1>7, <2>1, AppenderQuiet DEF TestEnd
<1>8. ASSUME NEW known \in BOOLEAN, Receive(known) PROVE DataInv'
  BY <1>p, <1>8, AppenderQuiet DEF Receive
<1> QED
  BY <1>1, <1>2, <1>3, <1>4, <1>5, <1>6, <1>7, <1>8

\* The rest of s_msgpool_append, and jxclearlist_clear.
LEMMA DataEnd ==
    ASSUME ControlInv, DataInv, NEW t \in Appender,
           AppendDies(t) \/ PushDies(t) \/ AppendPost(t) \/ ClearStep(t)
    PROVE  DataInv'
<1> USE ThreadFacts DEF hist
<1>p. PcOK
  BY DEF ControlInv
<1>1. CASE AppendDies(t) \/ PushDies(t)
  BY <1>p, <1>1, AppenderQuiet DEF AppendDies, PushDies, Die
<1>2. CASE AppendPost(t)
  <2>1. Goto(t, "post", "ask") \/ Goto(t, "post", "test")
    BY <1>2 DEF AppendPost
  <2> QED
    BY <1>p, <1>2, <2>1, AppenderQuiet DEF AppendPost
<1>3. CASE ClearProcesses(t) \/ SetExit(t) \/ EndRecv(t) \/ ClearRequests(t)
  <2>1. Goto(t, "clear", "clear") \/ Goto(t, "clear", "join") \/ Goto(t, "clear", "joinrecv")
    BY <1>3 DEF ClearProcesses, SetExit, EndRecv, ClearRequests, Clears
  <2>2. UNCHANGED <<queues, appended, processed>>
    BY <1>3 DEF ClearProcesses, SetExit, EndRecv, ClearRequests
  <2> QED
    BY <1>p, <2>1, <2>2, AppenderQuiet
<1>4. CASE JoinWorker(t) \/ JoinDies(t) \/ JoinRecv(t)
  BY <1>p, <1>4, AppenderQuiet DEF JoinWorker, JoinDies, JoinRecv, Leaves, Die
<1>5. CASE ClearsEnd(t) \/ FreeList(t)
  BY <1>p, <1>5, AppenderQuiet DEF ClearsEnd, FreeList
<1> QED
  BY <1>1, <1>2, <1>3, <1>4, <1>5 DEF ClearStep

\* The rest of the worker: its steps touch none of the data.
LEMMA WorkMoves ==
    ASSUME PcOK, NEW from, NEW to, Goto(Work, from, to)
    PROVE  /\ pc[Work] = from /\ pc'[Work] = to
           /\ \A u \in Appender : pc'[u] = pc[u]
<1>1. pc' = [pc EXCEPT ![Work] = to] /\ pc[Work] = from
  BY DEF Goto
<1>2. pc'[Work] = to /\ \A u \in Thread \ {Work} : pc'[u] = pc[u]
  BY <1>1, ThreadFacts DEF PcOK
<1> QED
  BY <1>1, <1>2, ThreadFacts

LEMMA DataWork ==
    ASSUME ControlInv, DataInv, Wait \/ CheckExit \/ ProcessDies
    PROVE  DataInv'
<1>p. PcOK
  BY DEF ControlInv
<1>1. CASE Wait
  <2>1. pc[Work] = "wait" /\ pc'[Work] = "check" /\ \A u \in Appender : pc'[u] = pc[u]
    BY <1>p, <1>1, WorkMoves DEF Wait
  <2>2. UNCHANGED <<queues, appended, processed>>
    BY <1>1 DEF Wait, hist
  <2> QED
    BY <2>1, <2>2, DataQuiet
<1>2. CASE CheckExit
  <2>1. /\ pc[Work] = "check"
        /\ pc'[Work] = IF threadexit THEN "exited" ELSE "take"
        /\ \A u \in Appender : pc'[u] = pc[u]
    BY <1>p, <1>2, WorkMoves DEF CheckExit
  <2>2. UNCHANGED <<queues, appended, processed>>
    BY <1>2 DEF CheckExit, hist
  <2> QED
    BY <2>1, <2>2, DataQuiet
<1>3. CASE ProcessDies
  <2>1. Goto(Work, "process", "dead")
    BY <1>3 DEF ProcessDies, Die
  <2>2. /\ pc[Work] = "process" /\ pc'[Work] = "dead"
        /\ \A u \in Appender : pc'[u] = pc[u]
    BY <1>p, <2>1, WorkMoves
  <2>3. UNCHANGED <<queues, appended, processed>>
    BY <1>3 DEF ProcessDies, hist
  <2> QED
    BY <2>2, <2>3, DataQuiet
<1> QED
  BY <1>1, <1>2, <1>3

LEMMA DataNext == ControlInv /\ DataInv /\ [Next]_vars => DataInv'
<1>1. ASSUME DataInv, UNCHANGED vars PROVE DataInv'
  BY <1>1, DataQuiet DEF vars, hist
<1> QED
  BY <1>1, DataPull, DataPush, DataTake, DataProcess, DataReturn, DataRest, DataEnd, DataWork,
     ThreadFacts
  DEF Next, MainStep, RecvStep, WorkStep, AppendStep

LEMMA InitIInv == Init => IInv
<1> SUFFICES ASSUME Init PROVE IInv
  OBVIOUS
<1> USE ThreadFacts, BufferFacts DEF Init
<1>1. PcOK
  <2>1. pc[Main] = "init" /\ pc[Recv] = "none" /\ pc[Work] = "none"
    OBVIOUS
  <2> QED
    BY <2>1 DEF PcOK, MainPcs, RecvPcs, WorkPcs
<1>2. pc[Main] = "init" /\ pc[Recv] = "none" /\ pc[Work] = "none"
  OBVIOUS
<1>3. Blank \in Message
  BY DEF Blank, Message
<1>4. StateOK
  <2>1. /\ data \in [Appender -> Message] /\ mark \in [Appender -> Nat] /\ run \in [Appender -> Nat]
    BY <1>3
  <2>2. clears \in Seq(Function)
    OBVIOUS
  <2>3. asked \in 0 .. MaxAsked /\ received \in 0 .. MaxReceived /\ sem \in Nat
    BY ClientAssumption
  <2> QED
    BY <2>1, <2>2, <2>3 DEF StateOK
<1>5. MarksOK /\ RecvUnlisted
  BY <1>2 DEF MarksOK, RecvUnlisted
<1>6. QueuesOK
  <2>1. [i \in Buffer |-> i] \in Seq(Buffer)
    BY BuffersCounted DEF Buffer
  <2>2. <<>> \in Seq(Buffer) /\ <<>> \in Seq(Message)
    OBVIOUS
  <2> QED
    BY <1>3, <2>1, <2>2 DEF QueuesOK
<1>7. HandsOK /\ OneOwner
  <2>1. \A t \in Thread : hand[t] = NULL
    OBVIOUS
  <2>2. DOMAIN filled = {}
    OBVIOUS
  <2>3. \A i, j \in DOMAIN empty : empty[i] = empty[j] => i = j
    OBVIOUS
  <2> QED
    BY <1>2, <2>1, <2>2, <2>3 DEF HandsOK, OneOwner, Appender
<1>8. appended = processed \o Working \o Waiting
  <2>1. Working = <<>>
    BY <1>2 DEF Working
  <2>2. Waiting = <<>>
    BY DEF Waiting
  <2> QED
    BY <2>1, <2>2
<1> QED
  BY <1>1, <1>4, <1>5, <1>6, <1>7, <1>8, OrderParts DEF IInv, ControlInv, DataInv

LEMMA Invariant == Spec => []IInv
<1>1. IInv /\ [Next]_vars => IInv'
  BY ControlNext, DataNext DEF IInv
<1> QED
  BY InitIInv, <1>1, PTL DEF Spec

-----------------------------------------------------------------------------
(* The theorems.                                                           *)

\* The state of the client is always of its type, however its two appending
\* threads and its worker come between each other and whichever of them ends the
\* program: in particular no thread pushes NULL, and the receiving thread never
\* comes to join itself (s_thread_recv_clear).
THEOREM ClientTypes == Spec => []TypeOK
<1>1. IInv => TypeOK
  BY DEF IInv, ControlInv, DataInv, PcOK, StateOK, QueuesOK, TypeOK, MainPcs, RecvPcs, WorkPcs,
     Function
<1> QED
  BY <1>1, Invariant, PTL

\* The answers and the messages of the server reach their functions in the order
\* s_msgpool_append put them into the pool, each once and unchanged, for every
\* size of the pool and every number of messages: no buffer that is written into
\* is one that waits or is being processed.
THEOREM MessagesInOrder == Spec => []InOrder
<1>1. IInv => InOrder
  BY DEF IInv, DataInv
<1> QED
  BY <1>1, Invariant, PTL

-----------------------------------------------------------------------------
(* The accounts: what is on its way, and what it will do to the copies.    *)

\* The methods requests are made for, and their ids.
Requested == {"create", "verify", "login", "logout", "changeusername", "changepasswd"}
FieldValues == [Field -> Value]

AccountRequest ==
    [n : Nat, method : {GetId(name) : name \in Requested}, id : Acct, passwd : Value,
     new : Value \union {TooLong}, times : Nat]
AccountAnswer ==
    [n : Nat, method : Requested, ok : BOOLEAN, id : Acct, val : FieldValues,
     new : Value \union {TooLong}]

AccountTypes ==
    /\ client \in [id : Acct, val : FieldValues] /\ tmp \in FieldValues
    /\ caller \in {"idle", "sent"} /\ seq \in Nat
    /\ net \subseteq AccountRequest /\ answers \subseteq AccountAnswer
    /\ recvbuf \in AccountAnswer \union {Nil} /\ pool \in Seq(AccountAnswer)
    /\ node \in [Acct -> FieldValues \union {Nil}] /\ file \in [Acct -> FieldValues \union {Nil}]
    /\ sure \subseteq Field /\ resync \in BOOLEAN

\* The last request is on its way at most once, and no later one is.
Numbered ==
    /\ \A r \in net : r.n <= seq
    /\ \A r, q \in net : r.n = seq /\ q.n = seq => r = q

\* There is something the client may rely on, or will when its answer has come.
Trusted == sure # {} \/ resync

\* The copies agree when the client holds this.
AgreeAs(val) == node[client.id] # Nil => \A f \in sure : val[f] = node[client.id][f]
Agree == AgreeAs(client.val)

FieldOf == [changeusername |-> "username", changepasswd |-> "passwd"]
Changes == DOMAIN FieldOf

\* What a request that nobody has carried out asks for is what the client will
\* take a yes for.
Asked(r) ==
    LET name == MethodGet(r.method)
    IN  /\ name = "login" => r.passwd = client.val["passwd"]
        /\ name \in Changes \union {"logout"} => r.id = client.id
        /\ name \in Changes =>
              (FieldOf[name] \in sure => r.new # TooLong /\ tmp[FieldOf[name]] = r.new)

\* The copies agree when the answer has been reacted to.
Account(a, fields) ==
    node[a.id] # Nil =>
        \A f \in fields : [a.val EXCEPT !["passwd"] = client.val["passwd"]][f] = node[a.id][f]
Due(a) ==
    /\ ~a.ok \/ a.method \in {"create", "logout"} => Agree
    /\ a.ok /\ a.method = "verify" => Account(a, {"username", "grade"})
    /\ a.ok /\ a.method = "login" => Account(a, Field)
    /\ a.ok /\ a.method \in Changes =>
          AgreeAs([client.val EXCEPT ![FieldOf[a.method]] = tmp[FieldOf[a.method]]])

Repeated == \A r \in net : r.n = seq => r.times # 0
Asking   == answers = {} /\ Agree /\ \A r \in net : r.n = seq => r.times = 0 /\ Asked(r)
Served   == Repeated /\ \A a \in answers : Due(a)

\* While there is no doubt, what is on its way is the last request, then its
\* answer, then nothing.
Trust ==
    Trusted =>
        \/ caller = "sent" /\ pool = <<>> /\ (Asking \/ Served)
        \/ caller = "idle" /\ Repeated /\ pool = <<>> /\ Agree
        \/ caller = "idle" /\ Repeated /\ Len(pool) = 1 /\ Due(pool[1])

AccountInv == AccountTypes /\ Numbered /\ Trust

-----------------------------------------------------------------------------
(* The ids of the methods.                                                 *)

\* am_method_get gives the name back whose id am_method_getid has found.
LEMMA MethodIds ==
    ASSUME NEW name \in Requested
    PROVE  MethodGet(GetId(name)) = name
<1>1. PICK i \in 1 .. 7 : /\ MethodTable[i] = name
                          /\ \A j \in 1 .. 7 : MethodTable[j] = name => j = i
  BY DEF Requested, MethodTable
<1> DEFINE places == {j \in 1 .. Len(MethodTable) : MethodTable[j] = name}
<1>2. Len(MethodTable) = 7
  BY DEF MethodTable
<1>3. places = {i}
  BY <1>1, <1>2
<1>4. Min(places) = i
  <2> HIDE DEF places
  <2> QED
    BY <1>3 DEF Min
<1>5. SelectInSeq(MethodTable, LAMBDA m : m = name) = i
  BY <1>3, <1>4 DEF SelectInSeq
<1>6. GetId(name) = i - 1
  BY <1>5 DEF GetId, FindUnsorted
<1>7. (i - 1) + 1 = i
  OBVIOUS
<1> QED
  BY <1>1, <1>6, <1>7 DEF MethodGet

LEMMA MethodOf == \A r \in AccountRequest : MethodGet(r.method) \in Requested
  BY MethodIds DEF AccountRequest

LEMMA CreatedValues == Created \in FieldValues
  BY ClientAccountAssumption DEF Created, FieldValues

LEMMA SetFieldValues ==
    ASSUME NEW val \in FieldValues, NEW field \in Field, NEW new \in Value \union {TooLong}
    PROVE  SetField(val, field, new) \in FieldValues
  BY DEF SetField, FieldValues

-----------------------------------------------------------------------------
(* Requests.                                                               *)

\* The new request is the last one, and alone under its number.
LEMMA SendFacts ==
    ASSUME AccountTypes, Numbered, NEW name \in Requested, NEW id \in Acct,
           NEW passwd \in Value, NEW new \in Value \union {TooLong}, Send(name, id, passwd, new)
    PROVE  /\ caller' = "sent" /\ seq' \in Nat /\ net' \subseteq AccountRequest
           /\ Numbered' /\ answers' = {}
           /\ \A r \in net' : r.n = seq' =>
                 /\ r.times = 0 /\ MethodGet(r.method) = name
                 /\ r.id = id /\ r.passwd = passwd /\ r.new = new
<1> DEFINE req == [n |-> seq + 1, method |-> GetId(name), id |-> id,
                   passwd |-> passwd, new |-> new, times |-> 0]
<1>1. /\ seq \in Nat /\ seq' = seq + 1 /\ caller' = "sent" /\ answers' = {}
      /\ net' = net \union {req} /\ net \subseteq AccountRequest
  BY DEF Send, AccountTypes
<1>2. req \in AccountRequest
  BY <1>1 DEF AccountRequest
<1>3. /\ req.n = seq + 1 /\ req.times = 0 /\ req.method = GetId(name)
      /\ req.id = id /\ req.passwd = passwd /\ req.new = new
  OBVIOUS
<1> HIDE DEF req
<1>4. \A r \in net : r.n \in Nat /\ r.n <= seq
  BY <1>1 DEF Numbered, AccountRequest
<1>5. \A r \in net' : r.n = seq' => r = req
  BY <1>1, <1>4
<1>6. Numbered'
  BY <1>1, <1>3, <1>4, <1>5 DEF Numbered
<1> QED
  BY <1>1, <1>2, <1>3, <1>5, <1>6, MethodIds

\* With nothing in doubt, what the client relies on agrees, and will be relied on
\* no more where the request puts it in doubt.
CanRely(doubtful) ==
    /\ sure' \subseteq Field /\ resync' \in BOOLEAN
    /\ Trusted' => /\ pool = <<>> /\ Agree
                   /\ sure' \subseteq sure /\ sure' \cap doubtful = {}

LEMMA IdleAgree ==
    ASSUME AccountInv, caller = "idle", pool = <<>>
    PROVE  Agree
<1>1. CASE Trusted
  <2>1. Len(pool) = 0
    OBVIOUS
  <2> QED
    BY <1>1, <2>1 DEF AccountInv, Trust
<1>2. CASE ~Trusted
  BY <1>2 DEF Trusted, Agree, AgreeAs
<1> QED
  BY <1>1, <1>2

LEMMA PromptRelies ==
    ASSUME AccountInv, caller = "idle", NEW doubtful, Prompt(doubtful) \/ Anew(doubtful)
    PROVE  CanRely(doubtful)
<1>1. sure \subseteq Field /\ resync \in BOOLEAN
  BY DEF AccountInv, AccountTypes
<1>2. CASE pool # <<>>
  <2>1. sure' = {} /\ resync' = FALSE
    BY <1>2 DEF Prompt, Anew, Doubt
  <2> QED
    BY <2>1 DEF CanRely, Trusted
<1>3. CASE pool = <<>>
  <2>1. sure' = sure \ doubtful /\ resync' \in BOOLEAN
    BY <1>1, <1>3 DEF Prompt, Anew
  <2> QED
    BY <1>1, <1>3, <2>1, IdleAgree DEF CanRely
<1> QED
  BY <1>2, <1>3

\* A request the client may rely on is one that waits to be carried out.
LEMMA RequestInv ==
    ASSUME AccountInv, NEW name \in Requested, NEW id \in Acct,
           NEW passwd \in Value, NEW new \in Value \union {TooLong}, Send(name, id, passwd, new),
           client' \in [id : Acct, val : FieldValues], tmp' \in FieldValues,
           NEW doubtful, CanRely(doubtful),
           client'.id = client.id,
           \A f \in Field \ doubtful : client'.val[f] = client.val[f],
           name = "login" => passwd = client'.val["passwd"],
           name \in Changes \union {"logout"} => id = client'.id,
           name \in Changes =>
              (FieldOf[name] \notin doubtful => new # TooLong /\ tmp'[FieldOf[name]] = new)
    PROVE  AccountInv'
<1>1. AccountTypes /\ Numbered
  BY DEF AccountInv
<1>2. /\ caller' = "sent" /\ seq' \in Nat /\ net' \subseteq AccountRequest
      /\ Numbered' /\ answers' = {}
      /\ \A r \in net' : r.n = seq' =>
            /\ r.times = 0 /\ MethodGet(r.method) = name
            /\ r.id = id /\ r.passwd = passwd /\ r.new = new
  BY <1>1, SendFacts
<1>3. UNCHANGED <<recvbuf, pool, node, file>>
  BY DEF Send, server
<1>4. AccountTypes'
  BY <1>1, <1>2, <1>3 DEF AccountTypes, CanRely
<1>5. ASSUME Trusted' PROVE pool' = <<>> /\ Asking'
  <2>1. /\ pool = <<>> /\ Agree
        /\ sure' \subseteq sure /\ sure' \cap doubtful = {} /\ sure' \subseteq Field
    BY <1>5 DEF CanRely
  <2>2. Agree'
    BY <1>3, <2>1 DEF Agree, AgreeAs
  <2>3. ASSUME NEW r \in net', r.n = seq' PROVE r.times = 0 /\ Asked(r)'
    <3>1. /\ r.times = 0 /\ MethodGet(r.method) = name
          /\ r.id = id /\ r.passwd = passwd /\ r.new = new
      BY <1>2, <2>3
    <3> QED
      BY <2>1, <3>1 DEF Asked
  <2> QED
    BY <1>2, <1>3, <2>1, <2>2, <2>3 DEF Asking
<1>6. Trust'
  BY <1>2, <1>5 DEF Trust
<1> QED
  BY <1>2, <1>4, <1>6 DEF AccountInv

LEMMA AccountConstants ==
    /\ 0 \in Acct /\ First \in Value /\ Garbage \in Value /\ TooLong \notin Value
    /\ New \subseteq Value \union {TooLong}
    /\ "username" \in Field /\ "passwd" \in Field /\ "grade" \in Field
    /\ Changes = {"changeusername", "changepasswd"}
    /\ FieldOf["changeusername"] = "username" /\ FieldOf["changepasswd"] = "passwd"
  BY ClientAccountAssumption DEF Field, Changes, FieldOf

LEMMA CreateRequestInv == ASSUME AccountInv, CreateRequest PROVE AccountInv'
<1> USE DEF CreateRequest, mine
<1>1. Send("create", 0, First, First) /\ Prompt({}) /\ caller = "idle"
  BY DEF Send
<1>2. CanRely({})
  BY <1>1, PromptRelies
<1>3. /\ client' = client /\ client \in [id : Acct, val : FieldValues]
      /\ tmp' = tmp /\ tmp \in FieldValues
  BY DEF AccountInv, AccountTypes
<1>4. "create" \in Requested
  BY DEF Requested
<1> QED
  BY <1>1, <1>2, <1>3, <1>4, AccountConstants, RequestInv

LEMMA VerifyRequestInv ==
    ASSUME AccountInv, NEW a \in Acct, VerifyRequest(a)
    PROVE  AccountInv'
<1> USE DEF VerifyRequest, mine
<1>1. Send("verify", a, First, First) /\ Anew({}) /\ caller = "idle"
  BY DEF Send
<1>2. CanRely({})
  BY <1>1, PromptRelies
<1>3. /\ client' = client /\ client \in [id : Acct, val : FieldValues]
      /\ tmp' = tmp /\ tmp \in FieldValues
  BY DEF AccountInv, AccountTypes
<1>4. "verify" \in Requested
  BY DEF Requested
<1> QED
  BY <1>1, <1>2, <1>3, <1>4, AccountConstants, RequestInv

\* The password of a login is in the copy already, and not relied on until the
\* answer comes.
LEMMA LoginRequestInv ==
    ASSUME AccountInv, NEW a \in Acct, NEW passwd \in Value, LoginRequest(a, passwd)
    PROVE  AccountInv'
<1> USE DEF LoginRequest
<1>1. Send("login", a, passwd, First) /\ Anew({"passwd"}) /\ caller = "idle"
  BY DEF Send
<1>2. CanRely({"passwd"})
  BY <1>1, PromptRelies
<1>3. client \in [id : Acct, val : FieldValues] /\ tmp \in FieldValues /\ tmp' = tmp
  BY DEF AccountInv, AccountTypes
<1>4. /\ client' \in [id : Acct, val : FieldValues] /\ client'.id = client.id
      /\ client'.val["passwd"] = passwd
      /\ \A f \in Field \ {"passwd"} : client'.val[f] = client.val[f]
  BY <1>3, AccountConstants DEF FieldValues
<1>5. "login" \in Requested
  BY DEF Requested
<1> QED
  BY <1>1, <1>2, <1>3, <1>4, <1>5, AccountConstants, RequestInv

LEMMA LogoutRequestInv == ASSUME AccountInv, LogoutRequest PROVE AccountInv'
<1> USE DEF LogoutRequest, mine
<1>1. Send("logout", client.id, First, First) /\ Prompt({}) /\ caller = "idle"
  BY DEF Send
<1>2. CanRely({})
  BY <1>1, PromptRelies
<1>3. /\ client' = client /\ client \in [id : Acct, val : FieldValues]
      /\ tmp' = tmp /\ tmp \in FieldValues
  BY DEF AccountInv, AccountTypes
<1>4. "logout" \in Requested /\ client.id \in Acct
  BY <1>3 DEF Requested
<1> QED
  BY <1>1, <1>2, <1>3, <1>4, AccountConstants, RequestInv

LEMMA ChangeRequestInv ==
    ASSUME AccountInv, NEW field \in {"username", "passwd"}, NEW passwd \in Value, NEW new \in New,
           ChangeRequest(field, passwd, new)
    PROVE  AccountInv'
<1> USE DEF ChangeRequest
<1> DEFINE doubtful == IF new = TooLong THEN {field} ELSE {}
           name     == ChangeOf[field]
<1>1. Send(name, client.id, passwd, new) /\ Prompt(doubtful) /\ caller = "idle"
  BY DEF Send
<1>2. CanRely(doubtful)
  BY <1>1, PromptRelies
<1>3. name \in Requested /\ name \in Changes /\ FieldOf[name] = field
  BY AccountConstants DEF ChangeOf, Requested
<1>4. client \in [id : Acct, val : FieldValues] /\ client' = client /\ tmp \in FieldValues
  BY DEF AccountInv, AccountTypes
<1>5. new \in Value \union {TooLong} /\ field \in Field /\ client.id \in Acct
  BY <1>4, AccountConstants
<1>6. tmp' \in FieldValues
  BY <1>4, <1>5, SetFieldValues
<1>7. field \notin doubtful => new # TooLong /\ tmp'[field] = new
  BY <1>4, <1>5 DEF SetField, FieldValues
<1>8. name # "login"
  BY <1>3, AccountConstants
<1> HIDE DEF doubtful, name
<1> QED
  BY <1>1, <1>2, <1>3, <1>4, <1>5, <1>6, <1>7, <1>8, RequestInv

\* The request changes the password instead, which is relied on no more.
LEMMA ChangeGradeRequestInv ==
    ASSUME AccountInv, NEW passwd \in Value, NEW grade \in New, grade # TooLong,
           ChangeGradeRequest(passwd, grade)
    PROVE  AccountInv'
<1> USE DEF ChangeGradeRequest
<1>1. PICK string \in {Garbage, TooLong} : Send("changepasswd", client.id, passwd, string)
  OBVIOUS
<1>2. CanRely({"passwd"})
  BY <1>1, PromptRelies DEF Send
<1>3. client \in [id : Acct, val : FieldValues] /\ client' = client /\ tmp \in FieldValues
  BY DEF AccountInv, AccountTypes
<1>4. tmp' \in FieldValues
  BY <1>3, AccountConstants DEF FieldValues
<1>5. string \in Value \union {TooLong} /\ client.id \in Acct /\ "changepasswd" \in Requested
  BY <1>3, AccountConstants DEF Requested
<1> QED
  BY <1>1, <1>2, <1>3, <1>4, <1>5, AccountConstants, RequestInv

-----------------------------------------------------------------------------
(* The server.                                                             *)

\* Carrying a request out counts it, or drops it at the bound.
LEMMA CountFacts ==
    ASSUME AccountTypes, Numbered, NEW r \in net, seq' = seq,
           net' = (net \ {r}) \union {[q EXCEPT !.times = @ + 1] : q \in {r} \ Spent}
    PROVE  /\ net' \subseteq AccountRequest /\ Numbered'
           /\ \A q \in net' : q.n = seq /\ r.n = seq => q.times # 0
<1> DEFINE again == [r EXCEPT !.times = @ + 1]
<1>1. r \in AccountRequest /\ net \subseteq AccountRequest
  BY DEF AccountTypes
<1>2. again \in AccountRequest /\ again.n = r.n /\ again.times # 0
  BY <1>1 DEF AccountRequest
<1>3. \A q \in net' : q = again \/ (q \in net /\ q # r)
  OBVIOUS
<1> HIDE DEF again
<1>4. net' \subseteq AccountRequest
  BY <1>1, <1>2, <1>3
<1>5. \A q \in net' : q.n <= seq
  BY <1>2, <1>3 DEF Numbered
<1>6. \A p, q \in net' : p.n = seq /\ q.n = seq => p = q
  <2> SUFFICES ASSUME NEW p \in net', NEW q \in net', p.n = seq, q.n = seq PROVE p = q
    OBVIOUS
  <2>1. CASE r.n = seq
    <3>1. p = again /\ q = again
      BY <1>3, <2>1 DEF Numbered
    <3> QED
      BY <3>1
  <2>2. CASE r.n # seq
    <3>1. p \in net /\ q \in net
      BY <1>2, <1>3, <2>2
    <3> QED
      BY <3>1 DEF Numbered
  <2> QED
    BY <2>1, <2>2
<1>7. Numbered'
  BY <1>5, <1>6 DEF Numbered
<1>8. ASSUME NEW q \in net', q.n = seq, r.n = seq PROVE q.times # 0
  <2>1. q = again
    BY <1>3, <1>8 DEF Numbered
  <2> QED
    BY <1>2, <2>1
<1> QED
  BY <1>4, <1>7, <1>8

LEMMA ReplyFacts ==
    ASSUME AccountTypes, NEW r \in net, NEW ok \in BOOLEAN, NEW id \in Acct,
           NEW val \in FieldValues, Reply(r, ok, id, val)
    PROVE  /\ answers' \subseteq AccountAnswer
           /\ answers = {} =>
                 \A a \in answers' :
                    a.method = MethodGet(r.method) /\ a.ok = ok /\ a.id = id /\ a.val = val
<1> DEFINE a == [n |-> r.n, method |-> MethodGet(r.method), ok |-> ok, id |-> id,
                 val |-> val, new |-> r.new]
<1>1. r \in AccountRequest /\ answers \subseteq AccountAnswer
  BY DEF AccountTypes
<1>2. a \in AccountAnswer
  BY <1>1, MethodOf DEF AccountRequest, AccountAnswer
<1>3. a.method = MethodGet(r.method) /\ a.ok = ok /\ a.id = id /\ a.val = val
  OBVIOUS
<1>4. answers' = answers \/ answers' = answers \union {a}
  BY DEF Reply
<1> HIDE DEF a
<1> QED
  BY <1>1, <1>2, <1>3, <1>4

\* The handler of a method.
Handler(r) ==
    LET name == MethodGet(r.method)
    IN  \/ name = "create" /\ ServeCreate(r)
        \/ name = "verify" /\ ServeVerify(r)
        \/ name = "login" /\ ServeLogin(r)
        \/ name = "logout" /\ ServeLogout(r)
        \/ name \in Changes /\ ServeChange(r, FieldOf[name])

LEMMA ServeHandler ==
    ASSUME AccountTypes, NEW r \in net, Serve(r)
    PROVE  Handler(r)
<1>1. MethodGet(r.method) \in Requested
  BY MethodOf DEF AccountTypes
<1> QED
  BY <1>1, AccountConstants DEF Serve, Handler, Requested

\* A handler either refuses, or does what its method is for: what it answers and
\* what its login nodes and files become.
LEMMA RefuseFacts ==
    ASSUME AccountTypes, NEW r \in net, Refuse(r)
    PROVE  /\ answers' \subseteq AccountAnswer /\ node' = node /\ file' = file
           /\ answers = {} => \A a \in answers' : a.ok = FALSE
  BY ReplyFacts, AccountConstants, CreatedValues DEF Refuse, server

LEMMA CreateFacts ==
    ASSUME AccountTypes, NEW r \in net, ServeCreate(r)
    PROVE  /\ answers' \subseteq AccountAnswer /\ node' = node /\ file' = file
           /\ answers = {} => \A a \in answers' : a.method = MethodGet(r.method)
<1>1. PICK ok \in BOOLEAN : Reply(r, ok, 0, Created) /\ UNCHANGED server
  BY DEF ServeCreate
<1> QED
  BY <1>1, ReplyFacts, AccountConstants, CreatedValues DEF server

LEMMA VerifyFacts ==
    ASSUME AccountTypes, NEW r \in net, ServeVerify(r), ~Refuse(r)
    PROVE  /\ answers' \subseteq AccountAnswer /\ file' = file
           /\ node' \in [Acct -> FieldValues \union {Nil}] /\ node'[r.id] = Created /\ r.id \in Acct
           /\ answers = {} =>
                 \A a \in answers' : /\ a.method = MethodGet(r.method) /\ a.ok = TRUE
                                     /\ a.id = r.id /\ a.val = Created
<1>1. r.id \in Acct
  BY DEF AccountTypes, AccountRequest
<1>2. node' = [node EXCEPT ![r.id] = Created] /\ file' = file /\ Reply(r, TRUE, r.id, Created)
  BY DEF ServeVerify
<1>3. node' \in [Acct -> FieldValues \union {Nil}] /\ node'[r.id] = Created
  BY <1>1, <1>2, CreatedValues DEF AccountTypes
<1>4. /\ answers' \subseteq AccountAnswer
      /\ answers = {} =>
            \A a \in answers' : /\ a.method = MethodGet(r.method) /\ a.ok = TRUE
                                /\ a.id = r.id /\ a.val = Created
  <2>1. PICK ok \in BOOLEAN, val \in FieldValues :
            ok = TRUE /\ val = Created /\ Reply(r, ok, r.id, val)
    BY <1>2, CreatedValues
  <2>2. Reply(r, ok, r.id, val)
    BY <2>1
  <2>3. /\ answers' \subseteq AccountAnswer
        /\ answers = {} =>
              \A a \in answers' : /\ a.method = MethodGet(r.method) /\ a.ok = ok
                                  /\ a.id = r.id /\ a.val = val
    BY <1>1, <2>2, ReplyFacts
  <2> QED
    BY <2>1, <2>3
<1> QED
  BY <1>1, <1>2, <1>3, <1>4

LEMMA LoginFacts ==
    ASSUME AccountTypes, NEW r \in net, ServeLogin(r), ~Refuse(r)
    PROVE  /\ answers' \subseteq AccountAnswer /\ file' = file /\ r.id \in Acct
           /\ file[r.id] \in FieldValues /\ file[r.id]["passwd"] = r.passwd
           /\ node' \in [Acct -> FieldValues \union {Nil}]
           /\ node[r.id] = Nil => node'[r.id] \in {Nil, file[r.id]}
           /\ answers = {} =>
                 \A a \in answers' : /\ a.method = MethodGet(r.method) /\ a.ok = TRUE
                                     /\ a.id = r.id /\ a.val = file[r.id]
<1>1. r.id \in Acct
  BY DEF AccountTypes, AccountRequest
<1>2. /\ file[r.id] # Nil /\ file[r.id]["passwd"] = r.passwd /\ file' = file
      /\ Reply(r, TRUE, r.id, file[r.id])
      /\ node' = IF node[r.id] = Nil /\ r.id \notin Elsewhere
                 THEN [node EXCEPT ![r.id] = file[r.id]] ELSE node
  BY DEF ServeLogin
<1>3. file[r.id] \in FieldValues /\ node \in [Acct -> FieldValues \union {Nil}]
  BY <1>1, <1>2 DEF AccountTypes
<1>4. /\ node' \in [Acct -> FieldValues \union {Nil}]
      /\ node[r.id] = Nil => node'[r.id] \in {Nil, file[r.id]}
  BY <1>1, <1>2, <1>3
<1>5. /\ answers' \subseteq AccountAnswer
      /\ answers = {} =>
            \A a \in answers' : /\ a.method = MethodGet(r.method) /\ a.ok = TRUE
                                /\ a.id = r.id /\ a.val = file[r.id]
  <2>1. PICK ok \in BOOLEAN, val \in FieldValues :
            ok = TRUE /\ val = file[r.id] /\ Reply(r, ok, r.id, val)
    BY <1>2, <1>3
  <2>2. Reply(r, ok, r.id, val)
    BY <2>1
  <2>3. /\ answers' \subseteq AccountAnswer
        /\ answers = {} =>
              \A a \in answers' : /\ a.method = MethodGet(r.method) /\ a.ok = ok
                                  /\ a.id = r.id /\ a.val = val
    BY <1>1, <2>2, ReplyFacts
  <2> QED
    BY <2>1, <2>3
<1> QED
  BY <1>1, <1>2, <1>3, <1>4, <1>5

LEMMA LogoutFacts ==
    ASSUME AccountTypes, NEW r \in net, ServeLogout(r), ~Refuse(r)
    PROVE  /\ answers' \subseteq AccountAnswer /\ r.id \in Acct
           /\ file' \in [Acct -> FieldValues \union {Nil}]
           /\ node' = node \/ node' = [node EXCEPT ![r.id] = Nil]
           /\ answers = {} => \A a \in answers' : a.method = MethodGet(r.method)
<1>1. r.id \in Acct
  BY DEF AccountTypes, AccountRequest
<1>2. /\ node[r.id] # Nil /\ Reply(r, TRUE, 0, Created)
      /\ \/ node' = node /\ file' = file
         \/ file' = [file EXCEPT ![r.id] = node[r.id]] /\ node' = [node EXCEPT ![r.id] = Nil]
  BY DEF ServeLogout, server
<1>3. file' \in [Acct -> FieldValues \union {Nil}]
  BY <1>1, <1>2 DEF AccountTypes
<1> QED
  BY <1>1, <1>2, <1>3, ReplyFacts, CreatedValues, AccountConstants

LEMMA ChangeFacts ==
    ASSUME AccountTypes, NEW r \in net, NEW field \in Field, ServeChange(r, field), ~Refuse(r)
    PROVE  /\ answers' \subseteq AccountAnswer /\ file' = file /\ r.id \in Acct
           /\ node[r.id] # Nil /\ node[r.id] \in FieldValues
           /\ node' = [node EXCEPT ![r.id] = SetField(@, field, r.new)]
           /\ node' \in [Acct -> FieldValues \union {Nil}]
           /\ answers = {} =>
                 \A a \in answers' : a.method = MethodGet(r.method) /\ a.ok = TRUE
<1>1. r.id \in Acct /\ r.new \in Value \union {TooLong}
  BY DEF AccountTypes, AccountRequest
<1>2. /\ node[r.id] # Nil /\ file' = file /\ Reply(r, TRUE, 0, Created)
      /\ node' = [node EXCEPT ![r.id] = SetField(@, field, r.new)]
  BY DEF ServeChange
<1>3. node[r.id] \in FieldValues
  BY <1>1, <1>2 DEF AccountTypes
<1>4. node' \in [Acct -> FieldValues \union {Nil}]
  BY <1>1, <1>2, <1>3, SetFieldValues DEF AccountTypes
<1> QED
  BY <1>1, <1>2, <1>3, <1>4, ReplyFacts, CreatedValues, AccountConstants

LEMMA HandlerTypes ==
    ASSUME AccountTypes, NEW r \in net, Handler(r)
    PROVE  /\ answers' \subseteq AccountAnswer
           /\ node' \in [Acct -> FieldValues \union {Nil}]
           /\ file' \in [Acct -> FieldValues \union {Nil}]
<1>1. node \in [Acct -> FieldValues \union {Nil}] /\ file \in [Acct -> FieldValues \union {Nil}]
  BY DEF AccountTypes
<1>2. CASE Refuse(r)
  BY <1>1, <1>2, RefuseFacts
<1>3. CASE ServeCreate(r)
  BY <1>1, <1>3, CreateFacts
<1>4. CASE ServeVerify(r) /\ ~Refuse(r)
  BY <1>1, <1>4, VerifyFacts
<1>5. CASE ServeLogin(r) /\ ~Refuse(r)
  BY <1>1, <1>5, LoginFacts
<1>6. CASE ServeLogout(r) /\ ~Refuse(r)
  BY <1>1, <1>6, LogoutFacts
<1>7. ASSUME NEW field \in Field, ServeChange(r, field) /\ ~Refuse(r)
      PROVE  /\ answers' \subseteq AccountAnswer
             /\ node' \in [Acct -> FieldValues \union {Nil}] /\ file' = file
  BY <1>7, ChangeFacts
<1> QED
  BY <1>1, <1>2, <1>3, <1>4, <1>5, <1>6, <1>7, AccountConstants DEF Handler

\* What the client may rely on is answered in time: after the request is carried
\* out for the first time the copies agree when its answer is reacted to.
LEMMA HandlerDue ==
    ASSUME AccountTypes, NEW r \in net, Handler(r), Asking, Asked(r),
           MethodGet(r.method) = "login" => node[r.id] = Nil,
           client' = client, tmp' = tmp, sure' = sure
    PROVE  \A a \in answers' : Due(a)'
<1> SUFFICES ASSUME NEW a \in answers' PROVE Due(a)'
  OBVIOUS
<1>1. answers = {} /\ Agree
  BY DEF Asking
<1>2. node' = node => Agree'
  BY <1>1 DEF Agree, AgreeAs
<1>3. client \in [id : Acct, val : FieldValues] /\ sure \subseteq Field
      /\ node \in [Acct -> FieldValues \union {Nil}]
  BY DEF AccountTypes
<1>4. CASE Refuse(r)
  BY <1>1, <1>2, <1>4, RefuseFacts DEF Due
<1>5. CASE MethodGet(r.method) = "create" /\ ServeCreate(r)
  BY <1>1, <1>2, <1>5, CreateFacts, AccountConstants DEF Due
<1>6. CASE MethodGet(r.method) = "verify" /\ ServeVerify(r) /\ ~Refuse(r)
  <2>1. /\ node'[r.id] = Created /\ a.method = "verify" /\ a.ok = TRUE
        /\ a.id = r.id /\ a.val = Created
    BY <1>1, <1>6, VerifyFacts
  <2>2. Account(a, {"username", "grade"})'
    BY <2>1 DEF Account, Created, Field
  <2> QED
    BY <2>1, <2>2, AccountConstants DEF Due
<1>7. CASE MethodGet(r.method) = "login" /\ ServeLogin(r) /\ ~Refuse(r)
  <2>1. /\ file[r.id] \in FieldValues /\ file[r.id]["passwd"] = r.passwd
        /\ node'[r.id] \in {Nil, file[r.id]} /\ a.method = "login" /\ a.ok = TRUE
        /\ a.id = r.id /\ a.val = file[r.id]
    BY <1>1, <1>7, LoginFacts
  <2>2. r.passwd = client.val["passwd"]
    BY <1>7 DEF Asked
  <2>3. [file[r.id] EXCEPT !["passwd"] = client.val["passwd"]] = file[r.id]
    BY <2>1, <2>2 DEF FieldValues
  <2>4. Account(a, Field)'
    BY <2>1, <2>3 DEF Account
  <2> QED
    BY <2>1, <2>4, AccountConstants DEF Due
<1>8. CASE MethodGet(r.method) = "logout" /\ ServeLogout(r) /\ ~Refuse(r)
  <2>1. /\ node' = node \/ node' = [node EXCEPT ![r.id] = Nil]
        /\ a.method = "logout" /\ r.id = client.id
    BY <1>1, <1>8, LogoutFacts DEF Asked
  <2>2. node' = node \/ node'[client.id] = Nil
    BY <1>3, <2>1
  <2>3. Agree'
    BY <1>2, <2>2 DEF Agree, AgreeAs
  <2> QED
    BY <2>1, <2>3, AccountConstants DEF Due
<1>9. CASE MethodGet(r.method) \in Changes
  <2> DEFINE name  == MethodGet(r.method)
             field == FieldOf[name]
  <2>1. field \in Field
    BY <1>9, AccountConstants
  <2>2. CASE ServeChange(r, field) /\ ~Refuse(r)
    <3>1. r.id = client.id
      BY <1>9 DEF Asked
    <3>2. /\ node[r.id] # Nil /\ node[r.id] \in FieldValues
          /\ node' = [node EXCEPT ![r.id] = SetField(@, field, r.new)]
          /\ a.method = name /\ a.ok = TRUE
      BY <1>1, <2>1, <2>2, ChangeFacts
    <3>3. node'[client.id] = SetField(node[client.id], field, r.new)
      BY <1>3, <3>1, <3>2
    <3>4. field \in sure => r.new # TooLong /\ tmp[field] = r.new
      BY <1>9 DEF Asked
    <3> DEFINE val == [client.val EXCEPT ![field] = tmp[field]]
    <3>5. client.val \in FieldValues /\ node[client.id] \in FieldValues
      BY <1>3, <3>1, <3>2
    <3>6. ASSUME NEW f \in sure PROVE val[f] = node'[client.id][f]
      <4>1. client.val[f] = node[client.id][f] /\ f \in Field
        BY <1>1, <1>3, <3>1, <3>2 DEF Agree, AgreeAs
      <4>2. CASE f = field
        BY <2>1, <3>3, <3>4, <3>5, <4>2 DEF SetField, FieldValues
      <4>3. CASE f # field
        BY <2>1, <3>3, <3>5, <4>1, <4>3 DEF SetField, FieldValues
      <4> QED
        BY <4>2, <4>3
    <3>7. a.method \in Changes /\ FieldOf[a.method] = field
      BY <1>9, <3>2
    <3> QED
      BY <3>2, <3>6, <3>7, AccountConstants DEF Due, AgreeAs
  <2>3. Refuse(r) \/ ServeChange(r, field)
    BY <1>9, <1>4, AccountConstants DEF Handler
  <2> QED
    BY <1>4, <2>2, <2>3
<1> QED
  BY <1>4, <1>5, <1>6, <1>7, <1>8, <1>9 DEF Handler

\* What puts the copies in doubt leaves nothing to rely on.
LEMMA DoubtTrust == ASSUME ~Trusted' PROVE Trust'
  BY DEF Trust

LEMMA ServeInv ==
    ASSUME AccountInv, NEW r \in net, Serve(r)
    PROVE  AccountInv'
<1>1. AccountTypes /\ Numbered /\ Trust
  BY DEF AccountInv
<1>2. /\ UNCHANGED <<client, tmp, caller, seq, recvbuf, pool>>
      /\ net' = (net \ {r}) \union {[q EXCEPT !.times = @ + 1] : q \in {r} \ Spent}
  BY DEF Serve, mine
<1>3. Handler(r)
  BY <1>1, ServeHandler
<1>4. /\ net' \subseteq AccountRequest /\ Numbered'
      /\ \A q \in net' : q.n = seq /\ r.n = seq => q.times # 0
  BY <1>1, <1>2, CountFacts
<1>5. /\ answers' \subseteq AccountAnswer
      /\ node' \in [Acct -> FieldValues \union {Nil}]
      /\ file' \in [Acct -> FieldValues \union {Nil}]
  BY <1>1, <1>3, HandlerTypes
<1>6. CASE Doubt
  <2>1. sure' = {} /\ resync' = FALSE
    BY <1>6 DEF Doubt
  <2>2. AccountTypes'
    BY <1>1, <1>2, <1>4, <1>5, <2>1 DEF AccountTypes
  <2>3. Trust'
    BY <2>1, DoubtTrust DEF Trusted
  <2> QED
    BY <1>4, <2>2, <2>3 DEF AccountInv
<1>7. CASE /\ Certain /\ r.n = seq /\ ~(r.times > 0)
           /\ MethodGet(r.method) = "login" => node[r.id] = Nil
  <2>1. sure' = sure /\ resync' = resync
    BY <1>7 DEF Certain, certainty
  <2>2. AccountTypes'
    BY <1>1, <1>2, <1>4, <1>5, <2>1 DEF AccountTypes
  <2>3. ASSUME Trusted' PROVE Trust'
    <3>1. Trusted
      BY <2>1, <2>3 DEF Trusted
    <3>2. r.times = 0
      BY <1>1, <1>7 DEF AccountTypes, AccountRequest
    <3>3. ~Repeated
      BY <1>7, <3>2 DEF Repeated
    <3>4. caller = "sent" /\ pool = <<>> /\ Asking
      BY <1>1, <3>1, <3>3 DEF Trust, Served
    <3>5. Asked(r)
      BY <1>7, <3>4 DEF Asking
    <3>6. \A a \in answers' : Due(a)'
      BY <1>1, <1>2, <1>3, <1>7, <2>1, <3>4, <3>5, HandlerDue
    <3>7. Repeated'
      BY <1>2, <1>4, <1>7 DEF Repeated
    <3> QED
      BY <1>2, <3>4, <3>6, <3>7 DEF Trust, Served
  <2>4. Trust'
    BY <2>3, DoubtTrust
  <2> QED
    BY <1>4, <2>2, <2>4 DEF AccountInv
<1> QED
  BY <1>6, <1>7 DEF Serve

-----------------------------------------------------------------------------
(* The end of a call.                                                      *)

LEMMA AnsweredInv ==
    ASSUME AccountInv, NEW a \in answers, Answered(a)
    PROVE  AccountInv'
<1>1. AccountTypes /\ Numbered /\ Trust
  BY DEF AccountInv
<1>2. /\ caller = "sent" /\ caller' = "idle" /\ recvbuf' = a /\ pool' = Append(pool, a)
      /\ answers' = {}
      /\ UNCHANGED <<client, tmp, seq, net, node, file, sure, resync>>
  BY DEF Answered, mine, server, certainty
<1>3. a \in AccountAnswer /\ pool' \in Seq(AccountAnswer)
  BY <1>1, <1>2 DEF AccountTypes
<1>4. AccountTypes'
  BY <1>1, <1>2, <1>3 DEF AccountTypes
<1>5. Numbered'
  BY <1>1, <1>2 DEF Numbered
<1>6. ASSUME Trusted' PROVE Trust'
  <2>1. Trusted
    BY <1>2, <1>6 DEF Trusted
  <2>2. pool = <<>> /\ Served
    BY <1>1, <1>2, <2>1 DEF Trust, Asking
  <2>3. Len(pool') = 1 /\ pool'[1] = a
    BY <1>2, <2>2
  <2>4. Due(a)
    BY <2>2 DEF Served
  <2>5. Due(a)'
    BY <1>2, <2>4 DEF Due, Agree, AgreeAs, Account
  <2>6. Due(pool[1])'
    BY <2>3, <2>5 DEF Due, Agree, AgreeAs, Account
  <2>7. Repeated'
    BY <1>2, <2>2 DEF Served, Repeated
  <2> QED
    BY <1>2, <2>3, <2>6, <2>7 DEF Trust
<1>7. Trust'
  BY <1>6, DoubtTrust
<1> QED
  BY <1>4, <1>5, <1>7 DEF AccountInv

\* An answer that is there from a call before puts the copies in doubt.
LEMMA StaleInv == ASSUME AccountInv, Stale PROVE AccountInv'
<1>1. AccountTypes /\ Numbered
  BY DEF AccountInv
<1>2. PICK r \in net : r.n = seq /\ r.times = 0 /\ net' = net \ {r}
  BY DEF Stale
<1>3. /\ recvbuf # Nil /\ caller' = "idle" /\ pool' = Append(pool, recvbuf)
      /\ UNCHANGED <<client, tmp, seq, answers, recvbuf, node, file>>
      /\ sure' = {} /\ resync' = FALSE
  BY DEF Stale, mine, server, Doubt
<1>4. pool' \in Seq(AccountAnswer)
  BY <1>1, <1>3 DEF AccountTypes
<1>5. AccountTypes'
  BY <1>1, <1>2, <1>3, <1>4 DEF AccountTypes
<1>6. Numbered'
  BY <1>1, <1>2, <1>3 DEF Numbered
<1>7. Trust'
  BY <1>3, DoubtTrust DEF Trusted
<1> QED
  BY <1>5, <1>6, <1>7 DEF AccountInv

LEMMA GiveUpInv == ASSUME AccountInv, GiveUp PROVE AccountInv'
<1>1. AccountTypes /\ Numbered
  BY DEF AccountInv
<1>2. /\ caller' = "idle" /\ answers' = {}
      /\ UNCHANGED <<client, tmp, seq, net, recvbuf, pool, node, file>>
      /\ sure' = {} /\ resync' = FALSE
  BY DEF GiveUp, mine, server, Doubt
<1>3. AccountTypes'
  BY <1>1, <1>2 DEF AccountTypes
<1>4. Numbered'
  BY <1>1, <1>2 DEF Numbered
<1>5. Trust'
  BY <1>2, DoubtTrust DEF Trusted
<1> QED
  BY <1>3, <1>4, <1>5 DEF AccountInv

-----------------------------------------------------------------------------
(* Reacts.                                                                 *)

\* The four ways a react goes.
LEMMA ReactCases ==
    ASSUME React
    PROVE  LET a == Head(pool)
           IN  \/ /\ ~a.ok \/ a.method \in {"create", "logout"}
                  /\ client' = client /\ sure' = sure
               \/ a.ok /\ a.method = "verify" /\ TakeAccount(a, {"username", "grade"})
               \/ a.ok /\ a.method = "login" /\ TakeAccount(a, Field)
               \/ a.ok /\ a.method \in Changes /\ TakeField(FieldOf[a.method])
  BY AccountConstants DEF React, CreateReact, LogoutReact, VerifyReact, LoginReact,
     ChangeusernameReact, ChangepasswdReact, Ignored

LEMMA ReactTypes ==
    ASSUME AccountTypes, React, NEW a \in AccountAnswer, a = Head(pool)
    PROVE  client' \in [id : Acct, val : FieldValues] /\ sure' \subseteq Field
<1>1. client \in [id : Acct, val : FieldValues] /\ tmp \in FieldValues /\ sure \subseteq Field
  BY DEF AccountTypes
<1>2. CASE client' = client /\ sure' = sure
  BY <1>1, <1>2
<1>3. ASSUME NEW fields \in SUBSET Field, TakeAccount(a, fields)
      PROVE  client' \in [id : Acct, val : FieldValues] /\ sure' \subseteq Field
  <2>1. a.id \in Acct /\ a.val \in FieldValues /\ client.val["passwd"] \in Value
    BY <1>1, AccountConstants DEF AccountAnswer, FieldValues
  <2>2. [a.val EXCEPT !["passwd"] = client.val["passwd"]] \in FieldValues
    BY <2>1 DEF FieldValues
  <2> QED
    BY <1>3, <2>1, <2>2 DEF TakeAccount
<1>4. ASSUME NEW field \in Field, TakeField(field)
      PROVE  client' \in [id : Acct, val : FieldValues] /\ sure' \subseteq Field
  <2>1. tmp[field] \in Value
    BY <1>1, <1>4 DEF FieldValues
  <2>2. [client.val EXCEPT ![field] = tmp[field]] \in FieldValues
    BY <1>1, <2>1 DEF FieldValues
  <2>3. client' = [client EXCEPT !.val = [client.val EXCEPT ![field] = tmp[field]]] /\ sure' = sure
    BY <1>1, <1>4 DEF TakeField
  <2> QED
    BY <1>1, <2>2, <2>3
<1>5. {"username", "grade"} \subseteq Field
  BY AccountConstants
<1> QED
  BY <1>2, <1>3, <1>4, <1>5, ReactCases, AccountConstants

\* The reaction to the one answer makes the copies agree.
LEMMA ReactAgree ==
    ASSUME AccountTypes, React, NEW a \in AccountAnswer, a = Head(pool), Due(a)
    PROVE  Agree'
<1>1. /\ client \in [id : Acct, val : FieldValues] /\ sure \subseteq Field
      /\ node' = node /\ tmp' = tmp
  BY DEF AccountTypes, React, server
<1>2. CASE /\ ~a.ok \/ a.method \in {"create", "logout"}
           /\ client' = client /\ sure' = sure
  BY <1>1, <1>2 DEF Due, Agree, AgreeAs
<1>3. ASSUME NEW fields \in SUBSET Field, TakeAccount(a, fields), Account(a, fields)
      PROVE  Agree'
  <2>1. /\ client'.id = a.id
        /\ client'.val = [a.val EXCEPT !["passwd"] = client.val["passwd"]]
        /\ sure' \subseteq fields
    BY <1>3 DEF TakeAccount
  <2> QED
    BY <1>1, <1>3, <2>1 DEF Account, Agree, AgreeAs
<1>4. CASE a.ok /\ a.method \in Changes /\ TakeField(FieldOf[a.method])
  <2> DEFINE field == FieldOf[a.method]
             val   == [client.val EXCEPT ![field] = tmp[field]]
  <2>1. client'.id = client.id /\ client'.val = val /\ sure' = sure
    BY <1>1, <1>4 DEF TakeField
  <2>2. AgreeAs(val)
    BY <1>4 DEF Due
  <2> HIDE DEF val
  <2> QED
    BY <1>1, <2>1, <2>2 DEF Agree, AgreeAs
<1>5. {"username", "grade"} \in SUBSET Field
  BY AccountConstants
<1> QED
  BY <1>2, <1>3, <1>4, <1>5, ReactCases DEF Due

LEMMA ReactInv == ASSUME AccountInv, React PROVE AccountInv'
<1>1. AccountTypes /\ Numbered /\ Trust
  BY DEF AccountInv
<1>2. /\ pool # <<>> /\ pool' = Tail(pool)
      /\ UNCHANGED <<tmp, caller, seq, net, answers, recvbuf, node, file, resync>>
  BY DEF React, call, server
<1>3. /\ Head(pool) \in AccountAnswer /\ Head(pool) = pool[1] /\ Len(pool) # 0
      /\ pool' \in Seq(AccountAnswer)
      /\ Len(pool) = 1 => pool' = <<>>
  BY <1>1, <1>2 DEF AccountTypes
<1>4. AccountTypes'
  BY <1>1, <1>2, <1>3, ReactTypes DEF AccountTypes
<1>5. Numbered'
  BY <1>1, <1>2 DEF Numbered
<1>6. ASSUME Trusted' PROVE Trusted
  <2>1. sure' = sure \/ resync \/ sure' = {}
    BY ReactCases DEF TakeAccount, TakeField
  <2> QED
    BY <1>2, <1>6, <2>1 DEF Trusted
<1>7. ASSUME Trusted' PROVE Trust'
  <2>1. caller = "idle" /\ Repeated /\ Len(pool) = 1 /\ Due(pool[1])
    BY <1>1, <1>2, <1>6, <1>7 DEF Trust
  <2>2. Agree'
    BY <1>1, <1>3, <2>1, ReactAgree
  <2>3. Repeated'
    BY <1>2, <2>1 DEF Repeated
  <2> QED
    BY <1>2, <1>3, <2>1, <2>2, <2>3 DEF Trust
<1>8. Trust'
  BY <1>7, DoubtTrust
<1> QED
  BY <1>4, <1>5, <1>8 DEF AccountInv

-----------------------------------------------------------------------------
LEMMA AccountInitInv == AccountInit => AccountInv
<1> SUFFICES ASSUME AccountInit PROVE AccountInv
  OBVIOUS
<1> USE DEF AccountInit
<1>1. AccountTypes
  <2>1. client \in [id : Acct, val : FieldValues] /\ tmp \in FieldValues
    BY CreatedValues, AccountConstants
  <2>2. node \in [Acct -> FieldValues \union {Nil}] /\ file \in [Acct -> FieldValues \union {Nil}]
    BY CreatedValues
  <2>3. pool \in Seq(AccountAnswer) /\ seq \in Nat /\ sure \subseteq Field
    OBVIOUS
  <2> QED
    BY <2>1, <2>2, <2>3 DEF AccountTypes
<1>2. Numbered
  BY DEF Numbered
<1>3. Trust
  BY DEF Trust, Trusted
<1> QED
  BY <1>1, <1>2, <1>3 DEF AccountInv

LEMMA AccountNextInv == AccountInv /\ [AccountNext]_accountVars => AccountInv'
<1> SUFFICES ASSUME AccountInv, [AccountNext]_accountVars PROVE AccountInv'
  OBVIOUS
<1>1. CASE UNCHANGED accountVars
  <2> USE <1>1 DEF accountVars, mine, call, server, certainty
  <2>1. AccountTypes'
    BY DEF AccountInv, AccountTypes
  <2>2. Numbered'
    BY DEF AccountInv, Numbered
  <2>3. Trust'
    BY DEF AccountInv, Trust, Trusted, Asking, Asked, Served, Repeated, Due, Agree, AgreeAs, Account
  <2> QED
    BY <2>1, <2>2, <2>3 DEF AccountInv
<1> QED
  BY <1>1, CreateRequestInv, LogoutRequestInv, VerifyRequestInv, LoginRequestInv,
     ChangeRequestInv, ChangeGradeRequestInv, ServeInv, AnsweredInv, StaleInv, GiveUpInv, ReactInv
  DEF AccountNext

LEMMA AccountInvariant == AccountSpec => []AccountInv
  BY AccountInitInv, AccountNextInv, PTL DEF AccountSpec

\* The account the client keeps is the one the server has logged in, field by
\* field, wherever nothing put the copy in doubt and no answer is on its way: for
\* every set of accounts and of field contents, and any number of requests, each
\* carried out any number of times.
THEOREM CopiesStayAlike == AccountSpec => []CopiesAgree
<1>1. ASSUME AccountInv PROVE CopiesAgree
  <2> SUFFICES ASSUME caller = "idle", pool = <<>>, sure # {} PROVE Agree
    BY DEF CopiesAgree, Agree, AgreeAs
  <2> QED
    BY <1>1, IdleAgree
<1> QED
  BY <1>1, AccountInvariant, PTL

-----------------------------------------------------------------------------
(* The windows: what is on its way, and whose verdict it will be.          *)

GuiAnswer == [n : 0 .. MaxNumber, says : Says \union {"nothing"}]
Setting   == {"first", "second", "func", "start"}
Sending   == Setting \union {"begin"}
Judging   == {"expire", "eTimeout", "eFail", "eSucceed"}

\* The windows and the slots: a slot of a request, or of its end, runs while its
\* window waits; a function is called when there is one.
GuiTypes ==
    /\ screen \in Form \union Waits \union {"Main", "none"}
    /\ gui \in Sending \union Judging \union {"loop", "closed"}
    /\ form \in Form /\ n \in 0 .. MaxNumber
    /\ status \in {"eRequesting", "eSucceed", "eFail", "eTimeout"}
    /\ thread \in {"off", "test", "none", "one", "two", "send", "reset", "clear"}
    /\ func \in 0 .. MaxNumber /\ args \in Seq(Numbers)
    /\ thread \in {"none", "one", "two"} => func # 0
    /\ thread = "send" => sending \in 0 .. MaxNumber
    /\ arrived \in Seq(GuiAnswer) /\ remains \subseteq Says
    /\ answered \in [0 .. MaxNumber -> SUBSET Says]
    /\ gui \in Sending \union Judging => screen \in Waits
    /\ screen \in Waits => n # 0

\* What arrives has been said, unless its request was too long.
Heard ==
    \A i \in DOMAIN arrived :
        arrived[i].n \in toolong \/ arrived[i].says \in answered[arrived[i].n]

\* A status and what the server said to the request that has it.
Said(s, i) ==
    /\ s = "eSucceed" => {"yes", "noted"} \cap answered[i] # {}
    /\ s = "eFail"    => {"no", "noted"} \cap answered[i] # {}

\* Nothing but the request that is waited for is on its way, from the button to
\* the verdict.
Alone ==
    alone /\ screen \in Waits /\ n \notin toolong =>
        /\ gui \in Setting => thread = "off"
        /\ gui \notin {"first", "second", "func"} => func \in {0, n}
        /\ \A i \in DOMAIN args : args[i] = n
        /\ thread = "send" => sending = n
        /\ \A i \in DOMAIN arrived : arrived[i].n = n
        /\ gui \in Judging \union {"loop"} => Said(status, n)

\* The last verdict was one of this kind.
Judged ==
    verdict.alone /\ verdict.n \notin toolong =>
        verdict.n \in Numbers /\ Said(verdict.status, verdict.n)

\* As long as every button finds the send thread at rest, a slot fills what the
\* thread has cleared, and the thread starts when it is filled.
Whole ==
    ~hasty =>
        /\ gui \in Setting => thread = "off"
        /\ gui = "second" => args = <<n>>
        /\ gui \in {"func", "start"} => args = <<n, n>>
        /\ gui = "start" => func = n
        /\ thread = "off" /\ gui \notin Setting \ {"first"} => args = <<>>
        /\ thread \in {"test", "none", "one", "two"} => func # 0 /\ args = <<func, func>>

GuiInv == GuiTypes /\ Heard /\ Alone /\ Judged /\ Whole

-----------------------------------------------------------------------------
(* What the windows are, and how the pool of answers changes.              *)

LEMMA WindowFacts ==
    /\ Waits = {"Logining", "Registering", "Verifying"}
    /\ \A f \in Form : WaitingWindow[f] \in Waits /\ Succeeds[f] \in Form \union {"Main"}
    /\ "Main" \notin Waits /\ "none" \notin Waits
    /\ \A f \in Form : f \notin Waits
  BY DEF Waits, WaitingWindow, Succeeds, Form

LEMMA TwoStrings == ASSUME NEW x \in Numbers PROVE Append(<<x>>, x) = <<x, x>>
<1> DEFINE two == Append(<<x>>, x)
<1>1. two \in Seq(Numbers) /\ Len(two) = 2 /\ two[1] = x /\ two[2] = x
  OBVIOUS
<1>2. <<x, x>> \in Seq(Numbers) /\ Len(<<x, x>>) = 2
  OBVIOUS
<1> HIDE DEF two
<1>3. /\ two = [i \in 1 .. 2 |-> two[i]]
      /\ <<x, x>> = [i \in 1 .. 2 |-> <<x, x>>[i]]
  BY <1>1, <1>2
<1>4. \A i \in 1 .. 2 : two[i] = <<x, x>>[i]
  BY <1>1
<1> QED
  BY <1>3, <1>4 DEF two

LEMMA SaidGrows ==
    ASSUME NEW s, NEW i \in Numbers, Said(s, i), answered[i] \subseteq answered'[i]
    PROVE  Said(s, i)'
  BY DEF Said

\* A request that is carried out adds what the server says, and at most an
\* answer that says it; or it adds an answer and was too long.
LEMMA CarryFacts ==
    ASSUME GuiTypes, Heard, NEW i \in 0 .. MaxNumber, Carry(i)
    PROVE  /\ arrived' \in Seq(GuiAnswer) /\ answered' \in [0 .. MaxNumber -> SUBSET Says]
           /\ remains' \subseteq Says /\ toolong \subseteq toolong'
           /\ Heard'
           /\ \A j \in 0 .. MaxNumber : answered[j] \subseteq answered'[j]
           /\ \A j \in DOMAIN arrived' :
                 arrived'[j].n = i \/ (j \in DOMAIN arrived /\ arrived'[j] = arrived[j])
<1> USE DEF GuiTypes
<1>1. ASSUME NEW a \in GuiAnswer, a.n = i, toolong \subseteq toolong',
             a.n \in toolong' \/ a.says \in answered'[a.n],
             answered' \in [0 .. MaxNumber -> SUBSET Says],
             \A j \in 0 .. MaxNumber : answered[j] \subseteq answered'[j],
             arrived' \in {arrived, Append(arrived, a)}
      PROVE  /\ arrived' \in Seq(GuiAnswer) /\ Heard'
             /\ \A j \in DOMAIN arrived' :
                   arrived'[j].n = i \/ (j \in DOMAIN arrived /\ arrived'[j] = arrived[j])
  <2>1. \A b \in GuiAnswer : b.n \in 0 .. MaxNumber
    BY DEF GuiAnswer
  <2>2. \A j \in DOMAIN arrived : arrived[j] \in GuiAnswer
    OBVIOUS
  <2>3. \A j \in DOMAIN arrived :
            arrived[j].n \in toolong' \/ arrived[j].says \in answered'[arrived[j].n]
    BY <1>1, <2>1, <2>2 DEF Heard
  <2>4. CASE arrived' = arrived
    BY <2>3, <2>4 DEF Heard
  <2>5. CASE arrived' = Append(arrived, a)
    <3>1. /\ arrived' \in Seq(GuiAnswer) /\ DOMAIN arrived' = 1 .. Len(arrived) + 1
          /\ DOMAIN arrived = 1 .. Len(arrived) /\ Len(arrived) \in Nat
          /\ \A j \in 1 .. Len(arrived) : arrived'[j] = arrived[j]
          /\ arrived'[Len(arrived) + 1] = a
      BY <2>5
    <3>2. \A j \in DOMAIN arrived' :
              arrived'[j] = a \/ (j \in DOMAIN arrived /\ arrived'[j] = arrived[j])
      BY <3>1
    <3>3. Heard'
      BY <1>1, <2>3, <3>2 DEF Heard
    <3> QED
      BY <1>1, <3>1, <3>2, <3>3
  <2> QED
    BY <1>1, <2>4, <2>5
<1>2. CASE UNCHANGED <<replies, told>>
  BY <1>2 DEF Heard, replies, told
<1>3. ASSUME NEW says \in Says, answered' = [answered EXCEPT ![i] = @ \union {says}],
             \/ UNCHANGED replies
             \/ /\ arrived' = Append(arrived, [n |-> i, says |-> says])
                /\ remains' = remains \union {says},
             UNCHANGED toolong
      PROVE  /\ arrived' \in Seq(GuiAnswer) /\ answered' \in [0 .. MaxNumber -> SUBSET Says]
             /\ remains' \subseteq Says /\ toolong \subseteq toolong'
             /\ Heard'
             /\ \A j \in 0 .. MaxNumber : answered[j] \subseteq answered'[j]
             /\ \A j \in DOMAIN arrived' :
                   arrived'[j].n = i \/ (j \in DOMAIN arrived /\ arrived'[j] = arrived[j])
  <2> DEFINE a == [n |-> i, says |-> says]
  <2>1. a \in GuiAnswer /\ a.n = i /\ a.says = says
    BY DEF GuiAnswer
  <2>2. /\ answered' \in [0 .. MaxNumber -> SUBSET Says]
        /\ \A j \in 0 .. MaxNumber : answered[j] \subseteq answered'[j]
        /\ says \in answered'[i]
    BY <1>3
  <2>3. remains' \subseteq Says /\ toolong \subseteq toolong'
    BY <1>3 DEF replies
  <2>4. arrived' \in {arrived, Append(arrived, a)}
    BY <1>3 DEF replies
  <2> HIDE DEF a
  <2> QED
    BY <1>1, <2>1, <2>2, <2>3, <2>4
<1>4. ASSUME NEW says \in remains \union {"nothing"},
             arrived' = Append(arrived, [n |-> i, says |-> says]),
             toolong' = toolong \union {i}, UNCHANGED <<remains, answered>>
      PROVE  /\ arrived' \in Seq(GuiAnswer) /\ answered' \in [0 .. MaxNumber -> SUBSET Says]
             /\ remains' \subseteq Says /\ toolong \subseteq toolong'
             /\ Heard'
             /\ \A j \in 0 .. MaxNumber : answered[j] \subseteq answered'[j]
             /\ \A j \in DOMAIN arrived' :
                   arrived'[j].n = i \/ (j \in DOMAIN arrived /\ arrived'[j] = arrived[j])
  <2> DEFINE a == [n |-> i, says |-> says]
  <2>1. a \in GuiAnswer /\ a.n = i
    BY DEF GuiAnswer
  <2>2. i \in toolong' /\ toolong \subseteq toolong'
    BY <1>4
  <2>3. arrived' \in {arrived, Append(arrived, a)}
    BY <1>4
  <2> HIDE DEF a
  <2> QED
    BY <1>1, <1>4, <2>1, <2>2, <2>3
<1> QED
  BY <1>2, <1>3, <1>4 DEF Carry

-----------------------------------------------------------------------------
(* The slots of the controller.                                            *)

\* A step that leaves the answers and the last verdict alone keeps what was said
\* true of them.
LEMMA NothingSaid ==
    ASSUME Heard, Judged, UNCHANGED <<arrived, told, verdict>>
    PROVE  Heard' /\ Judged'
<1>1. Heard'
  BY DEF Heard, told
<1>2. Judged'
  BY DEF Judged, Said, told
<1> QED
  BY <1>1, <1>2

LEMMA ShowInv == ASSUME GuiInv, NEW to \in Form, Show(to) PROVE GuiInv'
<1> USE DEF GuiInv, Show, InSlot
<1>1. GuiTypes'
  BY WindowFacts DEF GuiTypes, waiter, sender, replies, history, told, Sending, Setting, Judging
<1>2. Heard' /\ Judged'
  BY NothingSaid DEF history, replies
<1>3. Alone'
  BY WindowFacts DEF Alone
<1>4. Whole'
  BY DEF Whole, sender, history, press
<1> QED
  BY <1>1, <1>2, <1>3, <1>4

LEMMA ClickInv == ASSUME GuiInv, Click PROVE GuiInv'
<1> USE DEF GuiInv, Click, InSlot
<1>1. GuiTypes'
  <2>1. n' \in 0 .. MaxNumber /\ n' # 0
    BY GuiAssumption DEF GuiTypes
  <2>2. screen' \in Waits
    BY WindowFacts DEF GuiTypes
  <2> QED
    BY <2>1, <2>2, WindowFacts
    DEF GuiTypes, waiter, sender, replies, told, Sending, Setting, Judging
<1>2. Heard' /\ Judged'
  BY NothingSaid DEF replies
<1>3. Alone'
  <2>1. alone' => arrived' = <<>> /\ thread' = "off" /\ args' = <<>> /\ gui' = "first"
    BY DEF sender, replies
  <2> QED
    BY <2>1 DEF Alone, Judging
<1>4. Whole'
  BY DEF Whole, sender, Setting
<1> QED
  BY <1>1, <1>2, <1>3, <1>4

LEMMA PushInv ==
    ASSUME GuiInv, NEW from, NEW to, Push(from, to),
           <<from, to>> \in {<<"first", "second">>, <<"second", "func">>}
    PROVE  GuiInv'
<1> USE DEF GuiInv, Push, InSlot
<1>1. screen \in Waits /\ n \in Numbers
  BY GuiAssumption DEF GuiTypes, Sending, Setting, Numbers
<1>2. /\ args' \in Seq(Numbers)
      /\ \A i \in DOMAIN args' : args'[i] = n \/ (i \in DOMAIN args /\ args'[i] = args[i])
  BY <1>1 DEF GuiTypes
<1>3. from \in Setting /\ to \in Setting /\ to \notin Judging \union {"loop"}
  BY DEF Setting, Judging
<1>4. GuiTypes'
  <2>1. gui' \in Sending
    BY <1>3 DEF Sending
  <2> QED
    BY <1>1, <1>2, <2>1 DEF GuiTypes, waiter, replies, history, told
<1>5. Heard' /\ Judged'
  BY NothingSaid DEF history, replies
<1>6. Alone'
  <2> SUFFICES ASSUME alone, n \notin toolong PROVE Alone'
    BY DEF Alone, history, told, press
  <2>1. thread = "off" /\ (\A i \in DOMAIN args : args[i] = n)
        /\ (\A i \in DOMAIN arrived : arrived[i].n = n)
    BY <1>1, <1>3 DEF Alone
  <2> QED
    BY <1>2, <1>3, <2>1 DEF Alone, replies
<1>7. Whole'
  <2> SUFFICES ASSUME ~hasty PROVE Whole'
    BY DEF Whole, history, press
  <2>1. thread' = "off"
    BY <1>3 DEF Whole
  <2>2. CASE from = "first"
    BY <2>1, <2>2 DEF Whole, Setting
  <2>3. CASE from = "second"
    <3>1. args' = Append(<<n>>, n)
      BY <2>3 DEF Whole
    <3>2. args' = <<n, n>>
      BY <1>1, <3>1, TwoStrings
    <3> QED
      BY <2>1, <2>3, <3>2 DEF Whole, Setting
  <2> QED
    BY <2>2, <2>3
<1> QED
  BY <1>4, <1>5, <1>6, <1>7

LEMMA SetFuncInv == ASSUME GuiInv, SetFunc PROVE GuiInv'
<1> USE DEF GuiInv, SetFunc, InSlot
<1>1. screen \in Waits /\ n \in Numbers /\ n # 0
  BY GuiAssumption DEF GuiTypes, Sending, Setting, Numbers
<1>2. GuiTypes'
  BY <1>1 DEF GuiTypes, waiter, replies, history, told, Sending, Setting
<1>3. Heard' /\ Judged'
  BY NothingSaid DEF history, replies
<1>4. Alone'
  BY <1>1 DEF Alone, replies, history, told, press, Setting, Judging
<1>5. Whole'
  BY DEF Whole, Setting, history, press
<1> QED
  BY <1>2, <1>3, <1>4, <1>5

LEMMA StartThreadInv == ASSUME GuiInv, StartThread PROVE GuiInv'
<1> USE DEF GuiInv, StartThread, InSlot
<1>1. thread' \notin {"none", "one", "two", "send"} \/ thread' = thread
  OBVIOUS
<1>2. GuiTypes'
  BY <1>1 DEF GuiTypes, waiter, replies, history, told, Sending, Setting
<1>3. Heard' /\ Judged'
  BY NothingSaid DEF history, replies
<1>4. Alone'
  BY <1>1 DEF Alone, waiter, replies, history, told, press, Setting, Judging
<1>5. Whole'
  <2>1. n # 0
    BY DEF GuiTypes, Sending, Setting
  <2> QED
    BY <2>1 DEF Whole, Setting, history, press
<1> QED
  BY <1>2, <1>3, <1>4, <1>5

\* The window forgets the verdict on the request before.
LEMMA BeginRequestInv == ASSUME GuiInv, BeginRequest PROVE GuiInv'
<1> USE DEF GuiInv, BeginRequest, InSlot
<1>1. GuiTypes'
  BY DEF GuiTypes, sender, replies, history, told, Sending
<1>2. Heard' /\ Judged'
  BY NothingSaid DEF history, replies
<1>3. Said(status, n)'
  BY DEF Said
<1>4. Alone'
  BY <1>3 DEF Alone, sender, replies, history, told, press, Setting
<1>5. Whole'
  BY DEF Whole, sender, history, press, Setting
<1> QED
  BY <1>1, <1>2, <1>4, <1>5

\* A slot that ends a request does not change what is on its way.
LEMMA JudgingSlot ==
    ASSUME GuiInv, gui \in Judging \union {"loop"}, gui' \in Judging \union {"loop"},
           status' \in {status, "eTimeout"},
           UNCHANGED <<screen, form, n, sender, replies, history>>, screen \in Waits
    PROVE  GuiInv'
<1> USE DEF GuiInv
<1>1. GuiTypes'
  BY DEF GuiTypes, sender, replies, history, told
<1>2. Heard' /\ Judged'
  BY NothingSaid DEF history, replies
<1>3. gui' \notin Setting /\ gui \notin Setting
  BY DEF Judging, Setting
<1>4. alone /\ n \notin toolong => Said(status, n)'
  BY DEF Alone, Said, history, told
<1>5. Alone'
  BY <1>3, <1>4 DEF Alone, sender, replies, history, told, press, Setting
<1>6. Whole'
  BY <1>3 DEF Whole, sender, history, press, Setting
<1> QED
  BY <1>1, <1>2, <1>5, <1>6

LEMMA TickInv == ASSUME GuiInv, Tick PROVE GuiInv'
<1>1. gui = "loop" /\ gui' \in {"loop", "eTimeout", "expire"}
  BY DEF Tick, InSlot
<1> QED
  BY <1>1, JudgingSlot DEF Tick, Judging

LEMMA ExpireInv == ASSUME GuiInv, Expire PROVE GuiInv'
<1>1. gui = "expire" /\ gui' = "loop"
  BY DEF Expire, InSlot
<1>2. screen \in Waits
  BY <1>1 DEF GuiInv, GuiTypes, Judging
<1> QED
  BY <1>1, <1>2, JudgingSlot DEF Expire, Judging

LEMMA FailsInv ==
    ASSUME GuiInv, NEW test \in Judging, NEW next \in Judging, Fails(test, next)
    PROVE  GuiInv'
<1>1. gui = test /\ gui' = next
  BY DEF Fails, InSlot
<1>2. screen \in Waits
  BY <1>1 DEF GuiInv, GuiTypes
<1>3. status' = status
  BY DEF Fails, waiter
<1> QED
  BY <1>1, <1>2, <1>3, JudgingSlot DEF Fails

\* The verdict a window shows is the status it read, and that is what the server
\* said when nothing else was on its way.
LEMMA LeaveInv ==
    ASSUME GuiInv, NEW test \in Judging, NEW s, NEW to \in Form \union {"Main", "none"},
           Leave(test, s, to), s \in {status, "none"}
    PROVE  GuiInv'
<1> USE DEF GuiInv, Leave, InSlot
<1>1. screen' \notin Waits /\ screen' \in Form \union {"Main", "none"}
  BY WindowFacts
<1>2. GuiTypes'
  BY <1>1 DEF GuiTypes, waiter, sender, replies, told, Sending, Setting, Judging
<1>3. Heard'
  BY DEF Heard, replies, told
<1>4. Alone'
  BY <1>1 DEF Alone
<1>5. n \in Numbers
  BY GuiAssumption DEF GuiTypes, Numbers
<1>6. alone /\ n \notin toolong => Said(s, n)'
  BY DEF Alone, Said, GuiTypes, told
<1>7. verdict'.n = n /\ verdict'.status = s /\ verdict'.alone = alone /\ UNCHANGED toolong
  BY DEF told
<1>8. Judged'
  BY <1>5, <1>6, <1>7 DEF Judged, Said
<1>9. Whole'
  BY DEF Whole, sender, press, Setting, Judging
<1> QED
  BY <1>2, <1>3, <1>4, <1>8, <1>9

LEMMA EndInv == ASSUME GuiInv, End PROVE GuiInv'
<1>1. /\ form \in Form \union {"Main", "none"}
      /\ Succeeds[form] \in Form \union {"Main", "none"}
  BY WindowFacts DEF GuiInv, GuiTypes
<1> HIDE DEF Form, Succeeds
<1>2. {"eTimeout", "eFail", "eSucceed"} \subseteq Judging
  BY DEF Judging
<1> QED
  BY <1>1, <1>2, FailsInv, LeaveInv DEF End, Meets

LEMMA LogoutInv == ASSUME GuiInv, Logout PROVE GuiInv'
<1> USE DEF GuiInv, Logout, InSlot
<1>1. n + 1 \in 0 .. MaxNumber
  BY GuiAssumption DEF GuiTypes
<1>2. GuiTypes'
  BY <1>1, CarryFacts, WindowFacts DEF GuiTypes, waiter, sender, Sending, Setting, Judging, Form
<1>3. Alone'
  BY WindowFacts DEF Alone, Form
<1>4. Judged'
  <2> SUFFICES ASSUME verdict.alone, verdict.n \notin toolong' PROVE Judged'
    BY DEF Judged
  <2>1. verdict.n \in Numbers /\ Said(verdict.status, verdict.n)
    BY <1>1, CarryFacts DEF Judged
  <2>2. answered[verdict.n] \subseteq answered'[verdict.n]
    BY <1>1, <2>1, CarryFacts DEF Numbers
  <2> QED
    BY <2>1, <2>2, SaidGrows DEF Judged, Said
<1>5. Whole'
  BY DEF Whole, sender, press, Setting
<1> QED
  BY <1>1, <1>2, <1>3, <1>4, <1>5, CarryFacts

LEMMA CloseInv == ASSUME GuiInv, Close PROVE GuiInv'
<1> USE DEF GuiInv, Close, InSlot
<1>1. GuiTypes'
  BY DEF GuiTypes, waiter, sender, replies, history, told, Sending, Setting, Judging
<1>2. Heard' /\ Judged'
  BY NothingSaid DEF history, replies
<1>3. Alone'
  BY DEF Alone, waiter, sender, replies, history, told, press, Setting, Judging
<1>4. Whole'
  BY DEF Whole, sender, history, press, Setting
<1> QED
  BY <1>1, <1>2, <1>3, <1>4

-----------------------------------------------------------------------------
(* The other threads.                                                      *)

\* A step of the send thread that changes neither what is to be sent nor what
\* has come back.
LEMMA ThreadStep ==
    ASSUME GuiInv, UNCHANGED <<window, waiter, replies, history>>,
           thread # "off", thread' \in {"off", "none", "one", "two", "reset", "clear"},
           func' \in {func, 0}, args' \in {args, <<>>},
           thread' \in {"none", "one", "two"} => func' # 0,
           ~hasty /\ thread' = "off" => args' = <<>>,
           ~hasty /\ thread' \in {"none", "one", "two"} => args' = <<func', func'>>
    PROVE  GuiInv'
<1> USE DEF GuiInv, window, waiter, replies, history, told, press
<1>1. args' \in Seq(Numbers) /\ \A i \in DOMAIN args' : i \in DOMAIN args /\ args'[i] = args[i]
  <2>1. CASE args' = args
    BY <2>1 DEF GuiTypes
  <2>2. CASE args' = <<>>
    <3>1. DOMAIN args' = {}
      BY <2>2
    <3> QED
      BY <2>2, <3>1
  <2> QED
    BY <2>1, <2>2
<1>2. GuiTypes'
  BY <1>1, GuiAssumption DEF GuiTypes
<1>3. Heard' /\ Judged'
  BY NothingSaid
<1>4. Alone'
  BY <1>1 DEF Alone, Said
<1>5. Whole'
  BY DEF Whole, Setting
<1> QED
  BY <1>2, <1>3, <1>4, <1>5

LEMMA CheckInv == ASSUME GuiInv, Check PROVE GuiInv'
<1>1. ~hasty => func # 0 /\ args = <<func, func>>
  BY DEF GuiInv, Whole, Check, Run
<1> QED
  BY <1>1, ThreadStep DEF Check, Run

LEMMA MiscallInv ==
    ASSUME GuiInv, NEW from, NEW size, NEW to, Miscall(from, size, to),
           <<from, to>> \in {<<"none", "one">>, <<"one", "two">>}
    PROVE  GuiInv'
<1>1. /\ thread \in {"none", "one"} /\ thread' \in {"one", "two"}
      /\ UNCHANGED <<window, waiter, func, args, replies, history>>
  BY DEF Miscall, Run
<1>2. func # 0 /\ (~hasty => args = <<func, func>>)
  BY <1>1 DEF GuiInv, GuiTypes, Whole
<1> QED
  BY <1>1, <1>2, ThreadStep

\* The thread takes the one request it finds.
LEMMA CallInv == ASSUME GuiInv, Call PROVE GuiInv'
<1> USE DEF Call, Run
<1>1. CASE Len(args) # 2
  <2>1. thread = "two" /\ thread' = "reset" /\ func' = func /\ args' = args
    BY <1>1
  <2>2. UNCHANGED <<window, waiter, replies, history>>
    OBVIOUS
  <2> QED
    BY <2>1, <2>2, ThreadStep
<1>2. CASE Len(args) = 2
  <2> USE DEF GuiInv
  <2>1. GuiTypes'
    <3>1. thread' = "send" /\ sending' \in {0, func}
      BY <1>2
    <3>2. sending' \in 0 .. MaxNumber
      BY <3>1, GuiAssumption DEF GuiTypes
    <3> HIDE DEF Call
    <3>3. UNCHANGED <<screen, gui, form, n, status, func, args, arrived, remains, answered>>
      BY DEF Call, window, waiter, replies, history, told
    <3> QED
      BY <3>1, <3>2, <3>3 DEF GuiTypes
  <2>2. Heard' /\ Judged'
    BY NothingSaid DEF history, replies
  <2>3. Alone'
    <3> SUFFICES ASSUME alone, screen \in Waits, n \notin toolong PROVE Alone'
      BY DEF Alone, window, history, told, press
    <3>1. gui \notin Setting /\ func = n /\ \A i \in DOMAIN args : args[i] = n
      BY DEF Alone, GuiTypes, Setting
    <3>2. args = <<n, n>>
      BY <1>2, <3>1 DEF GuiTypes
    <3>3. sending' = n
      BY <3>1, <3>2
    <3> QED
      BY <3>1, <3>3 DEF Alone, Said, window, waiter, replies, history, told, press
  <2>4. Whole'
    BY <1>2 DEF Whole, window, history, press, Setting
  <2> QED
    BY <2>1, <2>2, <2>3, <2>4
<1> QED
  BY <1>1, <1>2

LEMMA SendRequestInv == ASSUME GuiInv, SendRequest PROVE GuiInv'
<1> USE DEF GuiInv, SendRequest, Run
<1>1. sending \in 0 .. MaxNumber
  BY DEF GuiTypes
<1>2. GuiTypes'
  BY <1>1, CarryFacts DEF GuiTypes, window, waiter
<1>3. Judged'
  <2> SUFFICES ASSUME verdict.alone, verdict.n \notin toolong' PROVE Judged'
    BY DEF Judged
  <2>1. verdict.n \in Numbers /\ Said(verdict.status, verdict.n)
    BY <1>1, CarryFacts DEF Judged
  <2>2. answered[verdict.n] \subseteq answered'[verdict.n]
    BY <1>1, <2>1, CarryFacts DEF Numbers
  <2> QED
    BY <2>1, <2>2, SaidGrows DEF Judged, Said
<1>4. Alone'
  <2> SUFFICES ASSUME alone, screen \in Waits, n \notin toolong' PROVE Alone'
    BY DEF Alone, window, press
  <2>1. n \notin toolong /\ n \in Numbers
    BY <1>1, CarryFacts, GuiAssumption DEF GuiTypes, Numbers
  <2>2. /\ gui \notin Setting /\ func \in {0, n} /\ sending = n
        /\ \A i \in DOMAIN args : args[i] = n
    BY <2>1 DEF Alone, Setting
  <2>3. \A i \in DOMAIN arrived' : arrived'[i].n = n
    BY <1>1, <2>1, <2>2, CarryFacts DEF Alone
  <2>4. answered[n] \subseteq answered'[n]
    BY <1>1, <2>1, CarryFacts DEF Numbers
  <2>5. gui \in Judging \union {"loop"} => Said(status, n)'
    BY <2>1, <2>4, SaidGrows DEF Alone, waiter, window, Said
  <2> QED
    BY <2>2, <2>3, <2>5 DEF Alone, window, waiter
<1>5. Whole'
  BY DEF Whole, window, press, Setting
<1> QED
  BY <1>1, <1>2, <1>3, <1>4, <1>5, CarryFacts

LEMMA ResetInv == ASSUME GuiInv, Reset PROVE GuiInv'
  BY ThreadStep DEF Reset, Run

LEMMA ClearArgsInv == ASSUME GuiInv, ClearArgs PROVE GuiInv'
  BY ThreadStep DEF ClearArgs, Run

\* The status is what the first answer says, which the server has said.
LEMMA DispatchAnswerInv == ASSUME GuiInv, DispatchAnswer PROVE GuiInv'
<1> USE DEF GuiInv, DispatchAnswer
<1>1. /\ Head(arrived) = arrived[1] /\ 1 \in DOMAIN arrived /\ arrived[1] \in GuiAnswer
      /\ arrived' \in Seq(GuiAnswer)
      /\ \A i \in DOMAIN arrived' : i + 1 \in DOMAIN arrived /\ arrived'[i] = arrived[i + 1]
  BY DEF GuiTypes
<1>2. /\ arrived[1].says \in Says \union {"nothing"}
      /\ arrived[1].n \in toolong \/ arrived[1].says \in answered[arrived[1].n]
  BY <1>1 DEF GuiAnswer, Heard
<1>3. \/ arrived[1].says = "yes" /\ status' = "eSucceed"
      \/ arrived[1].says = "no" /\ status' = "eFail"
      \/ arrived[1].says = "noted" /\ status' \in {status, "eSucceed", "eFail"}
      \/ arrived[1].says = "nothing" /\ status' = status
  BY <1>1, <1>2 DEF Says
<1>4. GuiTypes'
  BY <1>1, <1>3 DEF GuiTypes, window, sender, history, told
<1>5. Heard'
  BY <1>1 DEF Heard, history, told
<1>6. Judged'
  BY DEF Judged, Said, history, told
<1>7. arrived[1].n = n /\ n \notin toolong /\ Said(status, n) => Said(status, n)'
  BY <1>2, <1>3 DEF Said, history, window, told
<1>8. Alone'
  BY <1>1, <1>7 DEF Alone, window, sender, history, told, press
<1>9. Whole'
  BY DEF Whole, window, sender, history, press
<1> QED
  BY <1>4, <1>5, <1>6, <1>8, <1>9

-----------------------------------------------------------------------------
LEMMA GuiInitInv == GuiInit => GuiInv
<1> SUFFICES ASSUME GuiInit PROVE GuiInv
  OBVIOUS
<1> USE DEF GuiInit
<1>1. GuiTypes
  BY GuiAssumption, WindowFacts DEF GuiTypes, Form, Sending, Setting, Judging
<1>2. Whole
  BY DEF Whole, Setting
<1> QED
  BY <1>1, <1>2 DEF GuiInv, Heard, Alone, Judged, Form, Waits, WaitingWindow

LEMMA GuiNextInv == GuiInv /\ [GuiNext]_guiVars => GuiInv'
<1> SUFFICES ASSUME GuiInv, [GuiNext]_guiVars PROVE GuiInv'
  OBVIOUS
<1>1. CASE UNCHANGED guiVars
  <2> USE <1>1 DEF GuiInv, guiVars, window, waiter, sender, replies, history, told, press
  <2>1. GuiTypes'
    BY DEF GuiTypes
  <2>2. Heard' /\ Judged'
    BY NothingSaid
  <2>3. Alone'
    BY DEF Alone, Said
  <2>4. Whole'
    BY DEF Whole
  <2> QED
    BY <2>1, <2>2, <2>3, <2>4
<1>2. CASE GuiStep
  BY <1>2, PushInv, SetFuncInv, StartThreadInv, BeginRequestInv, ExpireInv, EndInv
  DEF GuiStep, SetArgs
<1>3. CASE Miscall("none", 0, "one") \/ Miscall("one", 1, "two")
  BY <1>3, MiscallInv
<1> QED
  BY <1>1, <1>2, <1>3, ShowInv, ClickInv, TickInv, LogoutInv, CloseInv, CheckInv, CallInv,
     SendRequestInv, ResetInv, ClearArgsInv, DispatchAnswerInv
  DEF GuiNext

LEMMA GuiInvariant == GuiSpec => []GuiInv
  BY GuiInitInv, GuiNextInv, PTL DEF GuiSpec

\* When nothing of an earlier request was on its way as its button was pressed, a
\* request that can be sent ends with the verdict the server gave on it, for every
\* number of requests and every timeout: the status all waiting windows share is
\* forgotten before it is polled, every answer that can still set it is the
\* request's, and whichever of its tests the end of a request meets reads it.
THEOREM VerdictIsOwn == GuiSpec => []OwnVerdict
<1>1. GuiInv => OwnVerdict
  BY DEF GuiInv, Judged, Said, OwnVerdict
<1> QED
  BY <1>1, GuiInvariant, PTL

\* As long as every button finds the send thread at rest, the thread calls a
\* function with the two strings of the request the function is of, for every
\* number of requests: setArgs fills what the last run has cleared, and a run
\* finds it filled.
THEOREM CallsAsMeant == GuiSpec => []CalledAsMeant
<1>1. GuiInv => CalledAsMeant
  BY DEF GuiInv, Whole, CalledAsMeant
<1> QED
  BY <1>1, GuiInvariant, PTL

-----------------------------------------------------------------------------
(* The process list.                                                       *)

\* A set of numbers that is not empty has a least one.
LEMMA LeastNumber ==
    ASSUME NEW S \in SUBSET Nat, S # {}
    PROVE  Min(S) \in S /\ \A y \in S : Min(S) <= y
<1>1. \E x \in S : \A y \in S : ~(<<y, x>> \in OpToRel(<, Nat))
  BY NatLessThanWellFounded, WFMin
<1>2. PICK x \in S : \A y \in S : ~(<<y, x>> \in OpToRel(<, Nat))
  BY <1>1
<1>3. \A y \in S : ~(y < x)
  BY <1>2 DEF OpToRel
<1>4. \A y \in S : x <= y
  BY <1>3
<1> QED
  BY <1>4 DEF Min

\* The place of an mflag is that of its first entry.
LEMMA PlaceFacts ==
    ASSUME NEW E, NEW list \in Seq(E), NEW mflag, NEW i, i = Place(list, mflag)
    PROVE  /\ i = 0 => \A j \in 1 .. Len(list) : list[j].mflag # mflag
           /\ i # 0 => /\ i \in 1 .. Len(list) /\ list[i].mflag = mflag
                       /\ \A j \in 1 .. Len(list) : list[j].mflag = mflag => i <= j
<1> DEFINE places == {j \in 1 .. Len(list) : list[j].mflag = mflag}
<1>1. i = IF places # {} THEN Min(places) ELSE 0
  BY DEF Place, SelectInSeq
<1>2. Len(list) \in Nat /\ places \in SUBSET Nat
  OBVIOUS
<1>3. CASE places = {}
  BY <1>1, <1>3
<1>4. CASE places # {}
  <2>1. Min(places) \in places /\ \A j \in places : Min(places) <= j
    <3> HIDE DEF places
    <3> QED
      BY <1>2, <1>4, LeastNumber
  <2>2. i = Min(places)
    BY <1>1, <1>4
  <2>3. i \in places /\ \A j \in places : i <= j
    BY <2>1, <2>2
  <2>4. i \in 1 .. Len(list) /\ i # 0
    BY <1>2, <2>3
  <2> QED
    BY <2>3, <2>4
<1> QED
  BY <1>3, <1>4

\* There is one first entry.
LEMMA PlaceIs ==
    ASSUME NEW E, NEW list \in Seq(E), NEW mflag, NEW i \in 1 .. Len(list),
           list[i].mflag = mflag, \A j \in 1 .. Len(list) : list[j].mflag = mflag => i <= j
    PROVE  Place(list, mflag) = i
<1> DEFINE p == Place(list, mflag)
<1>1. p # 0 => /\ p \in 1 .. Len(list) /\ list[p].mflag = mflag
               /\ \A j \in 1 .. Len(list) : list[j].mflag = mflag => p <= j
  BY PlaceFacts
<1>2. p # 0
  BY PlaceFacts
<1> HIDE DEF p
<1>3. p \in 1 .. Len(list) /\ p <= i /\ i <= p
  BY <1>1, <1>2
<1>4. p = i
  BY <1>3
<1> QED
  BY <1>4 DEF p

\* What a call of jxprocesslist_set says is what the getters return from then on,
\* for every list of entries; what they return for other mflags stays.
THEOREM GettersFollowSet ==
    ASSUME NEW Flags, NEW Functions, None \in Functions,
           NEW list \in Seq([mflag : Flags, process : Functions, af : Functions]),
           NEW mflag \in Flags, NEW process \in Functions, NEW af \in Functions,
           NEW force \in BOOLEAN, NEW after, after = Set(list, mflag, process, af, force),
           NEW other, other # mflag
    PROVE  /\ after \in Seq([mflag : Flags, process : Functions, af : Functions])
           /\ ProcessGet(after, mflag) = Replaced(ProcessGet(list, mflag), process, force)
           /\ AfGet(after, mflag) = Replaced(AfGet(list, mflag), af, force)
           /\ ProcessGet(after, other) = ProcessGet(list, other)
           /\ AfGet(after, other) = AfGet(list, other)
<1> DEFINE Entry == [mflag : Flags, process : Functions, af : Functions]
           p == Place(list, mflag)
           q == Place(list, other)
<1>1. \A e \in Entry : e.mflag \in Flags /\ e.process \in Functions /\ e.af \in Functions
  OBVIOUS
<1>2. \A old, new \in Functions : Replaced(old, new, force) \in Functions
  BY DEF Replaced
<1>3. /\ list \in Seq(Entry) /\ Len(list) \in Nat
      /\ \A i \in 1 .. Len(list) : list[i] \in Entry
  <2>1. list \in Seq(Entry)
    OBVIOUS
  <2> HIDE DEF Entry
  <2> QED
    BY <2>1
<1>4. /\ p = 0 => \A j \in 1 .. Len(list) : list[j].mflag # mflag
      /\ p # 0 => /\ p \in 1 .. Len(list) /\ list[p].mflag = mflag
                  /\ \A j \in 1 .. Len(list) : list[j].mflag = mflag => p <= j
  BY <1>3, PlaceFacts
<1>5. /\ q = 0 => \A j \in 1 .. Len(list) : list[j].mflag # other
      /\ q # 0 => /\ q \in 1 .. Len(list) /\ list[q].mflag = other
                  /\ \A j \in 1 .. Len(list) : list[j].mflag = other => q <= j
  BY <1>3, PlaceFacts
<1> HIDE DEF Entry
<1>6. CASE p # 0
  <2> DEFINE e == [mflag |-> mflag, process |-> Replaced(list[p].process, process, force),
                   af |-> Replaced(list[p].af, af, force)]
  <2>1. after = [list EXCEPT ![p] = e]
    BY <1>6 DEF Set
  <2>2. e \in Entry
    BY <1>1, <1>2, <1>3, <1>4, <1>6 DEF Entry
  <2>3. e.mflag = mflag /\ e.process = Replaced(list[p].process, process, force)
        /\ e.af = Replaced(list[p].af, af, force)
    BY <1>4, <1>6
  <2> HIDE DEF e, p, q
  <2>4. /\ after \in Seq(Entry) /\ Len(after) = Len(list) /\ after[p] = e
        /\ \A i \in 1 .. Len(list) : i # p => after[i] = list[i]
    BY <1>3, <1>4, <1>6, <2>1, <2>2
  <2>5. \A i \in 1 .. Len(list) : after[i].mflag = list[i].mflag
    BY <1>4, <1>6, <2>3, <2>4
  <2>6. Place(after, mflag) = p
    <3>1. p \in 1 .. Len(after) /\ after[p].mflag = mflag
          /\ \A j \in 1 .. Len(after) : after[j].mflag = mflag => p <= j
      BY <1>4, <1>6, <2>4, <2>5
    <3>2. after \in Seq(Entry)
      BY <2>4
    <3> QED
      BY ONLY <3>1, <3>2, PlaceIs
  <2>7. Place(after, other) = q
    <3>1. CASE q = 0
      BY <1>5, <2>4, <2>5, <3>1, PlaceFacts
    <3>2. CASE q # 0
      <4>1. q \in 1 .. Len(after) /\ after[q].mflag = other
            /\ \A j \in 1 .. Len(after) : after[j].mflag = other => q <= j
        BY <1>5, <2>4, <2>5, <3>2
      <4>2. after \in Seq(Entry)
        BY <2>4
      <4> QED
        BY ONLY <4>1, <4>2, PlaceIs
    <3> QED
      BY <3>1, <3>2
  <2>8. q # 0 => after[q] = list[q]
    BY <1>4, <1>5, <1>6, <2>4
  <2>9. /\ ProcessGet(after, mflag) = Replaced(ProcessGet(list, mflag), process, force)
        /\ AfGet(after, mflag) = Replaced(AfGet(list, mflag), af, force)
    BY <1>6, <2>3, <2>4, <2>6 DEF ProcessGet, AfGet, p
  <2>10. /\ ProcessGet(after, other) = ProcessGet(list, other)
         /\ AfGet(after, other) = AfGet(list, other)
    BY <2>7, <2>8 DEF ProcessGet, AfGet, q
  <2> QED
    BY <2>4, <2>9, <2>10 DEF Entry
<1>7. CASE p = 0
  <2> DEFINE e == [mflag |-> mflag, process |-> process, af |-> af]
  <2>1. after = <<e>> \o list
    BY <1>7 DEF Set
  <2>2. e \in Entry /\ e.mflag = mflag /\ e.process = process /\ e.af = af
    BY DEF Entry
  <2> HIDE DEF e, p, q
  <2>3. /\ after \in Seq(Entry) /\ Len(after) = Len(list) + 1 /\ after[1] = e
        /\ \A i \in 1 .. Len(list) : after[i + 1] = list[i]
    BY <1>3, <2>1, <2>2
  <2>4. \A i \in 1 .. Len(after) : i = 1 \/ (i - 1 \in 1 .. Len(list) /\ after[i] = list[i - 1])
    <3> SUFFICES ASSUME NEW i \in 1 .. Len(after), i # 1
                 PROVE  i - 1 \in 1 .. Len(list) /\ after[i] = list[i - 1]
      OBVIOUS
    <3>1. i - 1 \in 1 .. Len(list) /\ (i - 1) + 1 = i
      BY <1>3, <2>3
    <3> QED
      BY <2>3, <3>1
  <2>5. Place(after, mflag) = 1
    <3>1. 1 \in 1 .. Len(after) /\ after[1].mflag = mflag
      BY <1>3, <2>2, <2>3
    <3>2. after \in Seq(Entry)
      BY <2>3
    <3>3. \A j \in 1 .. Len(after) : after[j].mflag = mflag => 1 <= j
      OBVIOUS
    <3> QED
      BY ONLY <3>1, <3>2, <3>3, PlaceIs
  <2>6. (q = 0 => Place(after, other) = 0) /\ (q # 0 => Place(after, other) = q + 1)
    <3>1. ASSUME q = 0 PROVE Place(after, other) = 0
      <4>1. \A i \in 1 .. Len(after) : after[i].mflag # other
        <5> SUFFICES ASSUME NEW i \in 1 .. Len(after) PROVE after[i].mflag # other
          OBVIOUS
        <5>1. CASE i = 1
          BY <2>2, <2>3, <5>1
        <5>2. CASE i # 1
          <6>1. i - 1 \in 1 .. Len(list) /\ after[i] = list[i - 1]
            BY <2>4, <5>2
          <6> QED
            BY <1>5, <3>1, <6>1
        <5> QED
          BY <5>1, <5>2
      <4> QED
        BY <2>3, <3>1, <4>1, PlaceFacts
    <3>2. ASSUME q # 0 PROVE Place(after, other) = q + 1
      <4>1. q + 1 \in 1 .. Len(after) /\ after[q + 1].mflag = other
        BY <1>3, <1>5, <2>3, <3>2
      <4>2. ASSUME NEW i \in 1 .. Len(after), after[i].mflag = other PROVE q + 1 <= i
        <5>1. i - 1 \in 1 .. Len(list) /\ list[i - 1].mflag = other
          BY <2>2, <2>3, <2>4, <4>2
        <5>2. q <= i - 1
          BY <1>5, <3>2, <5>1
        <5> QED
          BY <1>3, <1>5, <2>3, <3>2, <5>1, <5>2
      <4>3. after \in Seq(Entry)
        BY <2>3
      <4> QED
        BY ONLY <4>1, <4>2, <4>3, PlaceIs
    <3> QED
      BY <3>1, <3>2
  <2>7. q # 0 => after[q + 1] = list[q] /\ q + 1 # 0
    BY <1>3, <1>5, <2>3
  <2>8. /\ ProcessGet(after, mflag) = Replaced(ProcessGet(list, mflag), process, force)
        /\ AfGet(after, mflag) = Replaced(AfGet(list, mflag), af, force)
    BY <1>7, <2>2, <2>3, <2>5 DEF ProcessGet, AfGet, Replaced, p
  <2>9. /\ ProcessGet(after, other) = ProcessGet(list, other)
        /\ AfGet(after, other) = AfGet(list, other)
    BY <2>6, <2>7 DEF ProcessGet, AfGet, q
  <2> QED
    BY <2>3, <2>8, <2>9 DEF Entry
<1> QED
  BY <1>6, <1>7
=============================================================================

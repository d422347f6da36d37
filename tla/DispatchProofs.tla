--------------------------- MODULE DispatchProofs ---------------------------
(***************************************************************************)
(* Dispatch proved for every pool size, every number of threads and every  *)
(* number of datagrams: type correctness, that every buffer has one owner, *)
(* that nothing freed is used, that the semaphores account for the filled  *)
(* buffers, and how often a message is processed.  Type correctness is not *)
(* inductive by itself: a push needs to know that its thread holds a       *)
(* buffer, and a pull that its thread holds none.  HandsOK says which      *)
(* threads do, by where they are.                                          *)
(***************************************************************************)
EXTENDS Dispatch, SequenceTheorems, FiniteSetTheorems, TLAPS

USE DEF NULL

-----------------------------------------------------------------------------
(* The sizes of a pool.                                                    *)

\* Rounding up to a multiple of a positive base keeps order and sign.
LEMMA Rounding ==
    ASSUME NEW base \in Nat \ {0}, NEW x \in Nat, NEW y \in Nat, x <= y
    PROVE  /\ ToMultipleOf(x, base) \in Nat
           /\ ToMultipleOf(x, base) <= ToMultipleOf(y, base)
           /\ x <= ToMultipleOf(x, base)
<1> DEFINE p == x + base - 1
           q == y + base - 1
           P == p \div base
           Q == q \div base
<1>1. p \in Nat /\ q \in Nat /\ p <= q
  OBVIOUS
<1>2. P \in Nat /\ p = base * P + (p % base) /\ p % base \in 0 .. base - 1
  BY <1>1
<1>3. Q \in Nat /\ q = base * Q + (q % base) /\ q % base \in 0 .. base - 1
  BY <1>1
<1>4. base * P \in Nat /\ x <= base * P
  BY <1>2
<1>5. P <= Q
  BY <1>1, <1>2, <1>3
<1>6. base * P <= base * Q
  BY <1>2, <1>3, <1>5
<1> QED
  BY <1>4, <1>6 DEF ToMultipleOf

LEMMA PoolSizes ==
    /\ FilledCapacity \in Nat \ {0}
    /\ EmptyCapacity \in Nat
    /\ InitEmptyNum = -1
    /\ Length(InitEmpty) = EmptyCapacity
    /\ EmptyCapacity > FilledCapacity
<1> DEFINE k == Slots(ItemNum)
<1>1. ItemNum \in Nat \ {0} /\ Granule \in Nat \ {0}
  BY ItemNumAssumption, GranuleAssumption
<1>2. k \in Nat \ {0, 1}
  <2>1. ToMultipleOf(ItemNum, Granule) \in Nat /\ ItemNum <= ToMultipleOf(ItemNum, Granule)
    BY <1>1, Rounding
  <2> QED
    BY <1>1, <2>1 DEF Slots
<1>3. ToMultipleOf(0, Granule) = 0
  <2>1. (0 + Granule - 1) \div Granule = 0
    BY <1>1
  <2> QED
    BY <1>1, <2>1 DEF ToMultipleOf
<1>4. InitFilled.head = 0 /\ InitFilled.tail = 0 /\ InitFilled.num_item = k
  BY <1>1, <1>3 DEF InitFilled, InitBuf, Allocated
<1> HIDE DEF k
<1>5. InitEmptyNum = -1
  BY <1>2, <1>4 DEF InitEmptyNum, GetNumContainedItems
<1>6. /\ InitEmpty.head = 0 /\ InitEmpty.tail = Slots(k) - 1
      /\ InitEmpty.num_item = Slots(k)
  BY <1>4, <1>5 DEF InitEmpty, InitBuf, Allocated
<1>7. Slots(k) - 1 \in Nat /\ Slots(k) \in Nat /\ Slots(k) - 1 >= k
  <2>1. ToMultipleOf(k, Granule) \in Nat /\ k <= ToMultipleOf(k, Granule)
    BY <1>1, <1>2, Rounding
  <2> QED
    BY <1>2, <2>1 DEF Slots
<1> QED
  BY <1>2, <1>4, <1>5, <1>6, <1>7 DEF FilledCapacity, EmptyCapacity, Length

\* s_initpool gives every pool more buffers than its filled queue can take,
\* whatever size is asked for: the count of the new filled queue is wrong.
THEOREM PoolOvercommitted ==
    /\ Buffer = 1 .. EmptyCapacity
    /\ FilledCapacity \in Nat \ {0}
    /\ EmptyCapacity > FilledCapacity
  BY PoolSizes DEF Buffer

LEMMA BufferFacts == Buffer \subseteq Nat \ {0} /\ NULL \notin Buffer
  BY PoolSizes DEF Buffer

-----------------------------------------------------------------------------
(* What pulls and pushes do to sequences.                                  *)

LEMMA PulledType ==
    ASSUME NEW S, NEW q \in Seq(S)
    PROVE  Rest(q) \in Seq(S) /\ Pulled(q) \in S \union {NULL}
  BY DEF Rest, Pulled

LEMMA PushedType ==
    ASSUME NEW S, NEW q \in Seq(S), NEW x \in S, NEW cap
    PROVE  Pushed(q, cap, x) \in Seq(S)
  BY DEF Pushed

-----------------------------------------------------------------------------
(* The parts of TypeOK.                                                    *)

QueuesOK ==
    /\ filled \in [Pool -> Seq(Buffer)]
    /\ empty \in [Pool -> Seq(Buffer)]
    /\ lost \in [Pool -> SUBSET Buffer]
    /\ hand \in [Pool -> [Thread -> Buffer \union {NULL}]]

PcsOK ==
    /\ pc \in [Thread -> Receiving \union Clearing \union WorkerPcs]
    /\ pc[Main] \in Receiving \union Clearing
    /\ \A w \in Worker : pc[w] \in WorkerPcs
    /\ \A s \in Sender : pc[s] \in Common

RestOK ==
    /\ content \in [Pool -> [Buffer -> Message]]
    /\ sem \in [Pool -> Nat]
    /\ threadexit \in [Pool -> BOOLEAN]
    /\ posted \in Nat
    /\ live \in [Pool -> BOOLEAN]
    /\ plist \in {"set", "clearing", "empty"}
    /\ af \in [Worker -> BOOLEAN]
    /\ silent \in [Worker -> BOOLEAN]
    /\ crash \in Crashes
    /\ received \in Nat /\ accepted \in Nat
    /\ received <= accepted /\ accepted <= MaxRecv
    /\ handled \in [Id -> Nat]
    /\ sent \in [Id -> Nat]

LEMMA TypeParts == TypeOK <=> QueuesOK /\ PcsOK /\ RestOK
  BY DEF TypeOK, QueuesOK, PcsOK, RestOK

Holds(p, t) == hand[p][t] \in Buffer
Bare(p, t)  == hand[p][t] = NULL

\* What the main thread, a worker and a sender have in hand where they are.
MainHand ==
    /\ pc[Main] \in {"recv", "pushbuf"} => Holds(Unproc, Main)
    /\ pc[Main] \in {"pullbuf", "postbuf"} => Bare(Unproc, Main)

WorkerHand(w) ==
    /\ pc[w] \in {"lookup_af", "pullout", "process", "putback"} => Holds(Unproc, w)
    /\ pc[w] \in {"wait", "check", "pull", "answer", "post"} => Bare(Unproc, w)
    /\ pc[w] = "pullout" => af[w]
    /\ pc[w] \in {"process", "putback"} /\ af[w] => Holds(Proced, w)
    /\ pc[w] \in {"process", "putback"} /\ ~af[w] => Bare(Proced, w)
    /\ pc[w] = "answer" => Holds(Proced, w)
    /\ pc[w] \in {"wait", "check", "pull", "lookup", "lookup_af", "pullout", "post"}
         => Bare(Proced, w)

SenderHand(s) ==
    /\ pc[s] = "putback" => Holds(Proced, s)
    /\ pc[s] \in {"wait", "check", "pull"} => Bare(Proced, s)

HandsOK ==
    /\ MainHand
    /\ \A w \in Worker : WorkerHand(w)
    /\ \A s \in Sender : SenderHand(s)

-----------------------------------------------------------------------------
(* One step of one thread, seen by the others.                             *)

LEMMA ThreadFacts ==
    /\ Main \in Thread /\ Main \notin Worker /\ Main \notin Sender
    /\ Worker \subseteq Thread /\ Sender \subseteq Thread
    /\ Worker \intersect Sender = {}
    /\ Unproc \in Pool /\ Proced \in Pool /\ Unproc # Proced
    /\ \A t \in Thread : PoolOf(t) \in Pool
    /\ \A w \in Worker : PoolOf(w) = Unproc
    /\ \A s \in Sender : PoolOf(s) = Proced
  BY ThreadAssumption DEF Thread, Pool, Unproc, Proced, PoolOf

LEMMA GotoType ==
    ASSUME PcsOK, NEW t \in Thread, NEW from, NEW to, Goto(t, from, to),
           \/ t = Main /\ to \in Receiving \union Clearing
           \/ t \in Worker /\ to \in WorkerPcs
           \/ t \in Sender /\ to \in Common
    PROVE  /\ PcsOK'
           /\ pc[t] = from
           /\ pc'[t] = to
           /\ \A u \in Thread \ {t} : pc'[u] = pc[u]
<1>1. /\ pc \in [Thread -> Receiving \union Clearing \union WorkerPcs]
      /\ pc' = [pc EXCEPT ![t] = to] /\ pc[t] = from
  BY DEF PcsOK, Goto
<1>2. to \in Receiving \union Clearing \union WorkerPcs
  BY DEF WorkerPcs
<1>3. pc' \in [Thread -> Receiving \union Clearing \union WorkerPcs]
  BY <1>1, <1>2
<1>4. pc'[t] = to /\ \A u \in Thread \ {t} : pc'[u] = pc[u]
  BY <1>1
<1>5. pc'[Main] \in Receiving \union Clearing
  BY <1>4, ThreadFacts DEF PcsOK
<1>6. \A w \in Worker : pc'[w] \in WorkerPcs
  BY <1>4, ThreadFacts DEF PcsOK
<1>7. \A s \in Sender : pc'[s] \in Common
  BY <1>4, ThreadFacts DEF PcsOK
<1> QED
  BY <1>1, <1>3, <1>4, <1>5, <1>6, <1>7 DEF PcsOK

\* The hands thread t leaves alone: those of the other threads, and its own
\* into the other pool.
HandOnly(p, t) ==
    /\ \A r \in Pool, u \in Thread : r # p \/ u # t => hand'[r][u] = hand[r][u]

LEMMA PullFilledType ==
    ASSUME QueuesOK, NEW p \in Pool, NEW t \in Thread, PullFilled(p, t)
    PROVE  QueuesOK' /\ HandOnly(p, t) /\ hand'[p][t] = Pulled(filled[p])
<1>1. Rest(filled[p]) \in Seq(Buffer) /\ Pulled(filled[p]) \in Buffer \union {NULL}
  BY PulledType DEF QueuesOK
<1>2. /\ hand' = [hand EXCEPT ![p][t] = Pulled(filled[p])]
      /\ filled' = [filled EXCEPT ![p] = Rest(filled[p])]
      /\ UNCHANGED <<empty, lost>>
  BY DEF PullFilled
<1> QED
  BY <1>1, <1>2 DEF QueuesOK, HandOnly

LEMMA PullEmptyType ==
    ASSUME QueuesOK, NEW p \in Pool, NEW t \in Thread, PullEmpty(p, t)
    PROVE  QueuesOK' /\ HandOnly(p, t) /\ hand'[p][t] = Pulled(empty[p])
<1>1. Rest(empty[p]) \in Seq(Buffer) /\ Pulled(empty[p]) \in Buffer \union {NULL}
  BY PulledType DEF QueuesOK
<1>2. /\ hand' = [hand EXCEPT ![p][t] = Pulled(empty[p])]
      /\ empty' = [empty EXCEPT ![p] = Rest(empty[p])]
      /\ UNCHANGED <<filled, lost>>
  BY DEF PullEmpty
<1> QED
  BY <1>1, <1>2 DEF QueuesOK, HandOnly

LEMMA DropType ==
    ASSUME QueuesOK, NEW p \in Pool, NEW t \in Thread, Holds(p, t),
           NEW refused \in BOOLEAN, Drop(p, t, refused)
    PROVE  /\ lost' \in [Pool -> SUBSET Buffer]
           /\ hand' \in [Pool -> [Thread -> Buffer \union {NULL}]]
           /\ HandOnly(p, t) /\ hand'[p][t] = NULL
<1>1. /\ hand' = [hand EXCEPT ![p][t] = NULL]
      /\ lost' = IF refused THEN [lost EXCEPT ![p] = lost[p] \union {hand[p][t]}]
                 ELSE lost
  BY DEF Drop
<1> QED
  BY <1>1 DEF QueuesOK, HandOnly, Holds

LEMMA PushFilledType ==
    ASSUME QueuesOK, NEW p \in Pool, NEW t \in Thread, Holds(p, t), PushFilled(p, t)
    PROVE  QueuesOK' /\ HandOnly(p, t) /\ hand'[p][t] = NULL
<1>1. Pushed(filled[p], FilledCapacity, hand[p][t]) \in Seq(Buffer)
  BY PushedType DEF QueuesOK, Holds
<1>2. /\ filled' = [filled EXCEPT ![p] = Pushed(filled[p], FilledCapacity, hand[p][t])]
      /\ Drop(p, t, Refused(filled[p], FilledCapacity))
      /\ UNCHANGED empty
  BY DEF PushFilled
<1>3. Refused(filled[p], FilledCapacity) \in BOOLEAN
  BY DEF Refused
<1> QED
  BY <1>1, <1>2, <1>3, DropType DEF QueuesOK

LEMMA PushEmptyType ==
    ASSUME QueuesOK, NEW p \in Pool, NEW t \in Thread, Holds(p, t), PushEmpty(p, t)
    PROVE  QueuesOK' /\ HandOnly(p, t) /\ hand'[p][t] = NULL
<1>1. Pushed(empty[p], EmptyCapacity, hand[p][t]) \in Seq(Buffer)
  BY PushedType DEF QueuesOK, Holds
<1>2. /\ empty' = [empty EXCEPT ![p] = Pushed(empty[p], EmptyCapacity, hand[p][t])]
      /\ Drop(p, t, Refused(empty[p], EmptyCapacity))
      /\ UNCHANGED filled
  BY DEF PushEmpty
<1>3. Refused(empty[p], EmptyCapacity) \in BOOLEAN
  BY DEF Refused
<1> QED
  BY <1>1, <1>2, <1>3, DropType DEF QueuesOK

LEMMA QueuesUnchanged ==
    ASSUME QueuesOK, UNCHANGED queues
    PROVE  QueuesOK' /\ UNCHANGED <<filled, empty, lost, hand>>
  BY DEF QueuesOK, queues

\* A step of thread t that leaves the other threads alone keeps their hands.
LEMMA OthersKeep ==
    ASSUME NEW t \in Thread, HandsOK,
           \A u \in Thread \ {t} : pc'[u] = pc[u],
           \A r \in Pool, u \in Thread \ {t} : hand'[r][u] = hand[r][u],
           \A w \in Worker \ {t} : af'[w] = af[w]
    PROVE  /\ t # Main => MainHand'
           /\ \A w \in Worker \ {t} : WorkerHand(w)'
           /\ \A s \in Sender \ {t} : SenderHand(s)'
<1>1. t # Main => MainHand'
  BY ThreadFacts DEF HandsOK, MainHand, Holds, Bare
<1>2. ASSUME NEW w \in Worker \ {t}
      PROVE  WorkerHand(w)'
  <2>1. WorkerHand(w) /\ pc'[w] = pc[w] /\ af'[w] = af[w]
        /\ hand'[Unproc][w] = hand[Unproc][w] /\ hand'[Proced][w] = hand[Proced][w]
    BY ThreadFacts DEF HandsOK
  <2> QED
    BY <2>1 DEF WorkerHand, Holds, Bare
<1>3. ASSUME NEW s \in Sender \ {t}
      PROVE  SenderHand(s)'
  <2>1. SenderHand(s) /\ pc'[s] = pc[s] /\ hand'[Proced][s] = hand[Proced][s]
    BY ThreadFacts DEF HandsOK
  <2> QED
    BY <2>1 DEF SenderHand, Holds, Bare
<1> QED
  BY <1>1, <1>2, <1>3

IInv == QueuesOK /\ PcsOK /\ RestOK /\ HandsOK

\* What is left to show of a step of thread t.
LEMMA ThreadKeeps ==
    ASSUME IInv, NEW t \in Thread, NEW p \in Pool, NEW from, NEW to, Goto(t, from, to),
           \/ t = Main /\ to \in Receiving \union Clearing
           \/ t \in Worker /\ to \in WorkerPcs
           \/ t \in Sender /\ to \in Common,
           QueuesOK', HandOnly(p, t), RestOK',
           \A w \in Worker \ {t} : af'[w] = af[w],
           t = Main => MainHand',
           t \in Worker => WorkerHand(t)',
           t \in Sender => SenderHand(t)'
    PROVE  IInv'
<1>1. PcsOK' /\ \A u \in Thread \ {t} : pc'[u] = pc[u]
  BY GotoType DEF IInv
<1>2. \A r \in Pool, u \in Thread \ {t} : hand'[r][u] = hand[r][u]
  BY DEF HandOnly
<1>3. HandsOK'
  BY <1>1, <1>2, OthersKeep, ThreadFacts DEF IInv, HandsOK
<1> QED
  BY <1>1, <1>3 DEF IInv

LEMMA InitIInv == Init => IInv
<1> SUFFICES ASSUME Init PROVE IInv
  OBVIOUS
<1>1. QueuesOK
  <2>1. [i \in Buffer |-> i] \in Seq(Buffer)
    BY PoolSizes DEF Buffer
  <2> QED
    BY <2>1 DEF Init, QueuesOK
<1>2. PcsOK
  <2>1. /\ pc = [t \in Thread |-> IF t = Main THEN "pullbuf" ELSE "wait"]
        /\ "pullbuf" \in Receiving /\ "wait" \in Common
    BY DEF Init, Receiving, Common
  <2> QED
    BY <2>1, ThreadFacts DEF PcsOK, WorkerPcs
<1>3. RestOK
  <2>1. Blank \in Message /\ 0 \in Id
    BY FlagAssumption DEF Blank, Message, Id
  <2> QED
    BY <2>1, FlagAssumption DEF Init, RestOK, Crashes
<1>4. HandsOK
  BY ThreadFacts DEF Init, HandsOK, MainHand, WorkerHand, SenderHand, Bare
<1> QED
  BY <1>1, <1>2, <1>3, <1>4 DEF IInv

-----------------------------------------------------------------------------
(* The main thread keeps the types and the hands.                          *)

LEMMA MainKeeps ==
    ASSUME IInv, Recv \/ MainStep
    PROVE  IInv'
<1> USE ThreadFacts
<1>1. QueuesOK /\ PcsOK /\ RestOK /\ HandsOK
  BY DEF IInv
<1>2. ASSUME NEW flag \in Flag, RecvMessage(flag)
      PROVE  IInv'
  <2>1. Goto(Main, "recv", "pushbuf") /\ UNCHANGED queues /\ UNCHANGED <<af, silent>>
    BY <1>2 DEF RecvMessage, locals
  <2>2. pc[Main] = "recv" /\ pc'[Main] = "pushbuf"
    BY <1>1, <2>1, GotoType DEF Receiving
  <2>3. QueuesOK' /\ HandOnly(Unproc, Main) /\ hand' = hand
    BY <1>1, <2>1, QueuesUnchanged DEF HandOnly
  <2>4. RestOK'
    <3>1. [id |-> received + 1, flag |-> flag] \in Message
      BY <1>1, <1>2, FlagAssumption DEF RestOK, Message, Id, RecvMessage
    <3>2. /\ content' = [content EXCEPT ![Unproc][hand[Unproc][Main]] =
                           [id |-> received + 1, flag |-> flag]]
          /\ accepted < MaxRecv /\ accepted' = accepted + 1
          /\ received' = received + 1
          /\ UNCHANGED <<sem, exits, locals, crash, hist>>
      BY <1>2 DEF RecvMessage
    <3>3. content' \in [Pool -> [Buffer -> Message]]
      BY <1>1, <3>1, <3>2 DEF RestOK
    <3> QED
      BY <1>1, <3>2, <3>3, FlagAssumption DEF RestOK, exits, locals, hist
  <2>5. MainHand'
    BY <1>1, <2>2, <2>3 DEF HandsOK, MainHand, Holds, Bare
  <2> QED
    BY <2>1, <2>3, <2>4, <2>5, ThreadKeeps DEF Receiving
<1>3. ASSUME RecvNothing
      PROVE  IInv'
  <2>1. Goto(Main, "recv", "pushbuf") /\ UNCHANGED queues /\ UNCHANGED <<af, silent>>
    BY <1>3 DEF RecvNothing, locals
  <2>2. pc[Main] = "recv" /\ pc'[Main] = "pushbuf"
    BY <1>1, <2>1, GotoType DEF Receiving
  <2>3. QueuesOK' /\ HandOnly(Unproc, Main) /\ hand' = hand
    BY <1>1, <2>1, QueuesUnchanged DEF HandOnly
  <2>4. RestOK'
    BY <1>1, <1>3, FlagAssumption DEF RecvNothing, RestOK, exits, locals, hist
  <2>5. MainHand'
    BY <1>1, <2>2, <2>3 DEF HandsOK, MainHand, Holds, Bare
  <2> QED
    BY <2>1, <2>3, <2>4, <2>5, ThreadKeeps DEF Receiving
<1>4. ASSUME RecvFails
      PROVE  IInv'
  <2>1. Goto(Main, "recv", "unlist") /\ UNCHANGED queues /\ UNCHANGED <<af, silent>>
    BY <1>4 DEF RecvFails, locals
  <2>2. pc[Main] = "recv" /\ pc'[Main] = "unlist"
    BY <1>1, <2>1, GotoType DEF Clearing
  <2>3. QueuesOK' /\ HandOnly(Unproc, Main) /\ hand' = hand
    BY <1>1, <2>1, QueuesUnchanged DEF HandOnly
  <2>4. RestOK'
    BY <1>1, <1>4 DEF RecvFails, RestOK, exits, locals, counts, hist
  <2>5. MainHand'
    BY <2>2 DEF MainHand
  <2> QED
    BY <2>1, <2>3, <2>4, <2>5, ThreadKeeps DEF Clearing
<1>5. ASSUME MainPull
      PROVE  IInv'
  <2>1. /\ Goto(Main, "pullbuf", "recv") /\ PullEmpty(Unproc, Main)
        /\ empty[Unproc] # <<>> /\ UNCHANGED <<af, silent>>
    BY <1>5 DEF MainPull, locals
  <2>2. pc'[Main] = "recv"
    BY <1>1, <2>1, GotoType DEF Receiving
  <2>3. QueuesOK' /\ HandOnly(Unproc, Main) /\ hand'[Unproc][Main] = Pulled(empty[Unproc])
    BY <1>1, <2>1, PullEmptyType
  <2>4. RestOK'
    BY <1>1, <1>5 DEF MainPull, RestOK, exits, locals, counts, hist
  <2>5. MainHand'
    <3>1. Pulled(empty[Unproc]) \in Buffer
      BY <1>1, <2>1 DEF QueuesOK, Pulled
    <3> QED
      BY <2>2, <2>3, <3>1 DEF MainHand, Holds
  <2> QED
    BY <2>1, <2>3, <2>4, <2>5, ThreadKeeps DEF Receiving
<1>6. ASSUME MainPush
      PROVE  IInv'
  <2>1. /\ Goto(Main, "pushbuf", "postbuf") /\ PushFilled(Unproc, Main)
        /\ UNCHANGED <<af, silent>>
    BY <1>6 DEF MainPush, locals
  <2>2. pc[Main] = "pushbuf" /\ pc'[Main] = "postbuf"
    BY <1>1, <2>1, GotoType DEF Receiving
  <2>3. Holds(Unproc, Main)
    BY <1>1, <2>2 DEF HandsOK, MainHand
  <2>4. QueuesOK' /\ HandOnly(Unproc, Main) /\ hand'[Unproc][Main] = NULL
    BY <1>1, <2>1, <2>3, PushFilledType
  <2>5. RestOK'
    BY <1>1, <1>6 DEF MainPush, RestOK, exits, locals, counts, hist
  <2>6. MainHand'
    BY <2>2, <2>4 DEF MainHand, Bare
  <2> QED
    BY <2>1, <2>4, <2>5, <2>6, ThreadKeeps DEF Receiving
<1>7. ASSUME MainPost
      PROVE  IInv'
  <2>1. /\ Goto(Main, "postbuf", "pullbuf") /\ UNCHANGED queues
        /\ UNCHANGED <<af, silent>>
    BY <1>7 DEF MainPost, locals
  <2>2. pc[Main] = "postbuf" /\ pc'[Main] = "pullbuf"
    BY <1>1, <2>1, GotoType DEF Receiving
  <2>3. QueuesOK' /\ HandOnly(Unproc, Main) /\ hand' = hand
    BY <1>1, <2>1, QueuesUnchanged DEF HandOnly
  <2>4. RestOK'
    BY <1>1, <1>7 DEF MainPost, Post, RestOK, exits, locals, counts, hist
  <2>5. MainHand'
    BY <1>1, <2>2, <2>3 DEF HandsOK, MainHand, Holds, Bare
  <2> QED
    BY <2>1, <2>3, <2>4, <2>5, ThreadKeeps DEF Receiving
<1>8. ASSUME Shutdown
      PROVE  IInv'
  <2>1. /\ \E from, to \in Clearing : Goto(Main, from, to)
        /\ UNCHANGED queues /\ UNCHANGED <<af, silent>>
    BY <1>8 DEF Shutdown, ClearList, SetExit, PostExit, JoinAndFree, Clearing, locals
  <2>2. PICK from, to \in Clearing : Goto(Main, from, to)
    BY <2>1
  <2>3. pc'[Main] \in Clearing
    BY <1>1, <2>2, GotoType
  <2>4. QueuesOK' /\ HandOnly(Unproc, Main)
    BY <1>1, <2>1, QueuesUnchanged DEF HandOnly
  <2>5. RestOK'
    <3>1. /\ \/ UNCHANGED threadexit
             \/ \E p \in Pool : threadexit' = [threadexit EXCEPT ![p] = TRUE]
          /\ posted' \in Nat
      BY <1>1, <1>8 DEF Shutdown, ClearList, SetExit, PostExit, JoinAndFree, RestOK
    <3>2. \/ UNCHANGED sem
          \/ \E p \in Pool : sem' = [sem EXCEPT ![p] = @ + 1]
      BY <1>8 DEF Shutdown, ClearList, SetExit, PostExit, JoinAndFree, Post
    <3>3. \/ UNCHANGED live
          \/ \E p \in Pool : live' = [live EXCEPT ![p] = FALSE]
      BY <1>8 DEF Shutdown, ClearList, SetExit, PostExit, JoinAndFree
    <3>4. /\ plist' \in {"set", "clearing", "empty"}
          /\ UNCHANGED <<content, af, silent, crash, received, accepted, handled, sent>>
      BY <1>1, <1>8 DEF Shutdown, ClearList, SetExit, PostExit, JoinAndFree, RestOK,
                        locals, counts, hist
    <3>5. sem' \in [Pool -> Nat]
      BY <1>1, <3>2 DEF RestOK
    <3>6. threadexit' \in [Pool -> BOOLEAN] /\ live' \in [Pool -> BOOLEAN]
      BY <1>1, <3>1, <3>3 DEF RestOK
    <3> QED
      BY <1>1, <3>1, <3>4, <3>5, <3>6 DEF RestOK
  <2>6. MainHand'
    BY <2>3 DEF MainHand, Clearing
  <2> QED
    BY <2>1, <2>2, <2>4, <2>5, <2>6, ThreadKeeps
<1> QED
  BY <1>2, <1>3, <1>4, <1>5, <1>6, <1>7, <1>8 DEF Recv, MainStep

-----------------------------------------------------------------------------
(* The pool threads keep the types and the hands.                          *)

PoolThread == Worker \union Sender

\* What both kinds of threads begin a round with.
LEMMA RoundKeeps ==
    ASSUME IInv, NEW t \in PoolThread,
           Wait(t) \/ CheckExit(t) \/ Pull(t) \/ LookupDies(t)
    PROVE  IInv'
<1> USE ThreadFacts DEF PoolThread
<1> DEFINE p == PoolOf(t)
<1>1. QueuesOK /\ PcsOK /\ RestOK /\ HandsOK /\ t \in Thread /\ t # Main /\ p \in Pool
  BY DEF IInv
<1>2. {"wait", "check", "exited", "pull", "lookup", "dead"} \subseteq Common \intersect WorkerPcs
  BY DEF Common, WorkerPcs
\* A step to a place where only the pool's own buffer matters.
<1>3. ASSUME NEW from, NEW to \in {"check", "exited", "pull", "lookup", "dead"},
             Goto(t, from, to), QueuesOK', HandOnly(p, t), RestOK', UNCHANGED af,
             from \in {"wait", "check", "pull", "lookup"},
             to \in {"check", "pull"} => hand' = hand /\ from \in {"wait", "check"}
      PROVE  IInv'
  <2>1. pc[t] = from /\ pc'[t] = to
    BY <1>1, <1>2, <1>3, GotoType
  <2>2. ASSUME t \in Worker
        PROVE  WorkerHand(t)'
    <3>1. WorkerHand(t) /\ p = Unproc
      BY <1>1, <2>2 DEF HandsOK
    <3>2. hand'[Proced][t] = hand[Proced][t]
      BY <1>1, <1>3, <3>1 DEF HandOnly
    <3> QED
      BY <1>3, <2>1, <3>1, <3>2 DEF WorkerHand, Bare
  <2>3. ASSUME t \in Sender
        PROVE  SenderHand(t)'
    BY <1>1, <1>3, <2>1, <2>3 DEF HandsOK, SenderHand, Bare
  <2> QED
    BY <1>1, <1>2, <1>3, <2>2, <2>3, ThreadKeeps
<1>4. ASSUME UNCHANGED queues
      PROVE  QueuesOK' /\ HandOnly(p, t) /\ hand' = hand
  BY <1>1, <1>4, QueuesUnchanged DEF HandOnly
<1>5. CASE Wait(t)
  <2>1. Goto(t, "wait", "check") /\ UNCHANGED queues /\ UNCHANGED af
    BY <1>5 DEF Wait, locals
  <2>2. RestOK'
    <3>1. sem' \in [Pool -> Nat]
      BY <1>1, <1>5 DEF Wait, RestOK
    <3> QED
      BY <1>1, <1>5, <3>1 DEF Wait, RestOK, exits, locals, counts, hist
  <2> QED
    BY <1>3, <1>4, <2>1, <2>2
<1>6. CASE CheckExit(t)
  <2>1. /\ Goto(t, "check", IF threadexit[p] THEN "exited" ELSE "pull")
        /\ UNCHANGED queues /\ UNCHANGED af
    BY <1>6 DEF CheckExit, locals
  <2>2. RestOK'
    BY <1>1, <1>6 DEF CheckExit, RestOK, exits, locals, counts, hist
  <2>3. CASE threadexit[p]
    BY <1>3, <1>4, <2>1, <2>2, <2>3
  <2>4. CASE ~threadexit[p]
    BY <1>3, <1>4, <2>1, <2>2, <2>4
  <2> QED
    BY <2>3, <2>4
<1>7. CASE Pull(t)
  <2>1. Goto(t, "pull", "lookup") /\ PullFilled(p, t) /\ UNCHANGED af
    BY <1>7 DEF Pull, locals
  <2>2. RestOK'
    BY <1>1, <1>7 DEF Pull, RestOK, exits, locals, counts, hist
  <2>3. QueuesOK' /\ HandOnly(p, t)
    BY <1>1, <2>1, PullFilledType
  <2> QED
    BY <1>3, <2>1, <2>2, <2>3
<1>8. CASE LookupDies(t)
  <2>1. Goto(t, "lookup", "dead") /\ UNCHANGED queues /\ UNCHANGED af
    BY <1>8 DEF LookupDies, Die, locals
  <2>2. crash' \in Crashes
    BY <1>8 DEF LookupDies, Die, Crashes
  <2>3. RestOK'
    BY <1>1, <1>8, <2>2 DEF LookupDies, RestOK, exits, locals, counts, hist
  <2> QED
    BY <1>3, <1>4, <2>1, <2>3
<1> QED
  BY <1>5, <1>6, <1>7, <1>8

\* The handler's part of a worker's round.
LEMMA WorkerKeeps ==
    ASSUME IInv, NEW w \in Worker, WorkerStep(w)
    PROVE  IInv'
<1> USE ThreadFacts
<1>1. /\ QueuesOK /\ PcsOK /\ RestOK /\ HandsOK /\ WorkerHand(w)
      /\ w \in Thread /\ w # Main /\ w \notin Sender /\ w \in PoolThread
  BY DEF IInv, HandsOK, PoolThread
\* A step of w that leaves the hands of the other threads alone.
<1>2. ASSUME NEW p \in Pool, NEW from, NEW to \in WorkerPcs, Goto(w, from, to),
             QueuesOK', HandOnly(p, w), RestOK', \A u \in Worker \ {w} : af'[u] = af[u],
             pc[w] = from /\ pc'[w] = to => WorkerHand(w)'
      PROVE  IInv'
  BY <1>1, <1>2, GotoType, ThreadKeeps
<1>3. ASSUME UNCHANGED queues
      PROVE  QueuesOK' /\ HandOnly(Unproc, w) /\ hand' = hand
  BY <1>1, <1>3, QueuesUnchanged DEF HandOnly
<1>4. CASE Wait(w) \/ CheckExit(w) \/ Pull(w) \/ LookupDies(w)
  BY <1>1, <1>4, RoundKeeps
<1>5. CASE Lookup(w)
  <2>1. /\ Goto(w, "lookup", "lookup_af") /\ hand[Unproc][w] # NULL
        /\ UNCHANGED queues /\ UNCHANGED af
    BY <1>5 DEF Lookup, locals
  <2>2. RestOK'
    BY <1>1, <1>5 DEF Lookup, RestOK, exits, locals, counts, hist
  <2>3. hand[Unproc][w] \in Buffer
    BY <1>1, <2>1 DEF QueuesOK
  <2>4. pc[w] = "lookup" /\ pc'[w] = "lookup_af" => WorkerHand(w)'
    BY <1>1, <1>3, <2>1, <2>3 DEF WorkerHand, Holds, Bare
  <2> QED
    BY <1>2, <1>3, <2>1, <2>2, <2>4 DEF WorkerPcs
<1>6. CASE LookupAsserts(w) \/ LookupAfDies(w) \/ ProcessDies(w)
  <2>1. PICK from \in {"lookup", "lookup_af", "process"} : Goto(w, from, "dead")
    BY <1>6 DEF LookupAsserts, LookupAfDies, ProcessDies, Die
  <2>2. UNCHANGED queues /\ UNCHANGED af /\ crash' \in Crashes
    BY <1>6 DEF LookupAsserts, LookupAfDies, ProcessDies, Die, Crashes, locals
  <2>3. RestOK'
    BY <1>1, <1>6, <2>2 DEF LookupAsserts, LookupAfDies, ProcessDies, RestOK, exits,
                            locals, counts, hist
  <2>4. pc'[w] = "dead" => WorkerHand(w)'
    BY DEF WorkerHand
  <2> QED
    BY <1>2, <1>3, <2>1, <2>2, <2>3, <2>4 DEF WorkerPcs, Common
<1>7. CASE LookupAf(w)
  <2>1. /\ UNCHANGED queues /\ \A u \in Worker \ {w} : af'[u] = af[u]
        /\ \/ Goto(w, "lookup_af", "pullout") /\ af'[w] = TRUE
           \/ Goto(w, "lookup_af", "process") /\ af'[w] = FALSE
    BY <1>1, <1>7 DEF LookupAf, RestOK
  <2>2. RestOK'
    <3>1. af' \in [Worker -> BOOLEAN]
      BY <1>1, <1>7 DEF LookupAf, RestOK
    <3> QED
      BY <1>1, <1>7, <3>1 DEF LookupAf, RestOK, exits, counts, hist
  <2>3. CASE Goto(w, "lookup_af", "pullout") /\ af'[w] = TRUE
    <3>1. pc[w] = "lookup_af" /\ pc'[w] = "pullout" => WorkerHand(w)'
      BY <1>1, <1>3, <2>1, <2>3 DEF WorkerHand, Holds, Bare
    <3> QED
      BY <1>2, <1>3, <2>1, <2>2, <2>3, <3>1 DEF WorkerPcs
  <2>4. CASE Goto(w, "lookup_af", "process") /\ af'[w] = FALSE
    <3>1. pc[w] = "lookup_af" /\ pc'[w] = "process" => WorkerHand(w)'
      BY <1>1, <1>3, <2>1, <2>4 DEF WorkerHand, Holds, Bare
    <3> QED
      BY <1>2, <1>3, <2>1, <2>2, <2>4, <3>1 DEF WorkerPcs
  <2> QED
    BY <2>1, <2>3, <2>4
<1>8. CASE PullOut(w)
  <2>1. /\ Goto(w, "pullout", "process") /\ empty[Proced] # <<>>
        /\ PullEmpty(Proced, w) /\ UNCHANGED af
    BY <1>8 DEF PullOut, locals
  <2>2. RestOK'
    BY <1>1, <1>8 DEF PullOut, RestOK, exits, locals, counts, hist
  <2>3. /\ QueuesOK' /\ HandOnly(Proced, w)
        /\ hand'[Proced][w] = Pulled(empty[Proced])
    BY <1>1, <2>1, PullEmptyType
  <2>4. Pulled(empty[Proced]) \in Buffer
    BY <1>1, <2>1 DEF QueuesOK, Pulled
  <2>5. pc[w] = "pullout" /\ pc'[w] = "process" => WorkerHand(w)'
    BY <1>1, <2>1, <2>3, <2>4 DEF WorkerHand, Holds, Bare, HandOnly
  <2> QED
    BY <1>2, <2>1, <2>2, <2>3, <2>5 DEF WorkerPcs
<1>9. CASE Process(w)
  <2>1. Goto(w, "process", "putback") /\ UNCHANGED queues /\ UNCHANGED af
    BY <1>9 DEF Process
  <2>2. pc[w] = "process"
    BY <2>1 DEF Goto
  <2>3. Msg(w) \in Message
    BY <1>1, <2>2 DEF WorkerHand, Holds, Msg, RestOK
  <2>4. handled' \in [Id -> Nat]
    BY <1>1, <1>9, <2>3 DEF Process, Count, RestOK, Message
  <2>5. silent' \in [Worker -> BOOLEAN] /\ content' \in [Pool -> [Buffer -> Message]]
    <3>1. CASE UNCHANGED <<content, silent>>
      BY <1>1, <3>1 DEF RestOK
    <3>2. CASE /\ \E quiet \in BOOLEAN : silent' = [silent EXCEPT ![w] = quiet]
               /\ content' = [content EXCEPT ![Proced][hand[Proced][w]] = Msg(w)]
      BY <1>1, <2>3, <3>2 DEF RestOK
    <3> QED
      BY <1>9, <3>1, <3>2 DEF Process
  <2>6. RestOK'
    BY <1>1, <1>9, <2>4, <2>5 DEF Process, RestOK, exits, counts
  <2>7. pc[w] = "process" /\ pc'[w] = "putback" => WorkerHand(w)'
    BY <1>1, <1>3, <2>1 DEF WorkerHand, Holds, Bare
  <2> QED
    BY <1>2, <1>3, <2>1, <2>6, <2>7 DEF WorkerPcs, Common
<1>10. CASE PutBack(w)
  <2>1. /\ Goto(w, "putback", IF af[w] THEN "answer" ELSE "wait")
        /\ PushEmpty(Unproc, w) /\ UNCHANGED af
    BY <1>10 DEF PutBack, locals
  <2>2. pc[w] = "putback"
    BY <2>1 DEF Goto
  <2>3. Holds(Unproc, w)
    BY <1>1, <2>2 DEF WorkerHand
  <2>4. QueuesOK' /\ HandOnly(Unproc, w) /\ hand'[Unproc][w] = NULL
    BY <1>1, <2>1, <2>3, PushEmptyType
  <2>5. hand'[Proced][w] = hand[Proced][w]
    BY <1>1, <2>4 DEF HandOnly
  <2>6. RestOK'
    BY <1>1, <1>10 DEF PutBack, RestOK, exits, locals, counts, hist
  <2>7. CASE af[w]
    <3>1. pc'[w] = "answer" => WorkerHand(w)'
      BY <1>1, <2>2, <2>4, <2>5, <2>7 DEF WorkerHand, Holds, Bare
    <3> QED
      BY <1>2, <2>1, <2>4, <2>6, <2>7, <3>1 DEF WorkerPcs
  <2>8. CASE ~af[w]
    <3>1. pc'[w] = "wait" => WorkerHand(w)'
      BY <1>1, <2>2, <2>4, <2>5, <2>8 DEF WorkerHand, Holds, Bare
    <3> QED
      BY <1>2, <2>1, <2>4, <2>6, <2>8, <3>1 DEF WorkerPcs, Common
  <2> QED
    BY <2>7, <2>8
<1>11. CASE DropAnswer(w) \/ PushAnswer(w)
  <2>1. PICK to \in {"wait", "post"} : Goto(w, "answer", to)
    BY <1>11 DEF DropAnswer, PushAnswer
  <2>2. (PushEmpty(Proced, w) \/ PushFilled(Proced, w)) /\ UNCHANGED af
    BY <1>11 DEF DropAnswer, PushAnswer, locals
  <2>3. pc[w] = "answer"
    BY <2>1 DEF Goto
  <2>4. Holds(Proced, w) /\ hand[Unproc][w] = NULL
    BY <1>1, <2>3 DEF WorkerHand, Bare
  <2>5. QueuesOK' /\ HandOnly(Proced, w) /\ hand'[Proced][w] = NULL
    BY <1>1, <2>2, <2>4, PushEmptyType, PushFilledType
  <2>6. hand'[Unproc][w] = NULL
    BY <1>1, <2>4, <2>5 DEF HandOnly
  <2>7. RestOK'
    BY <1>1, <1>11 DEF DropAnswer, PushAnswer, RestOK, exits, locals, counts, hist
  <2>8. pc'[w] = to => WorkerHand(w)'
    BY <2>5, <2>6 DEF WorkerHand, Bare
  <2> QED
    BY <1>2, <2>1, <2>2, <2>5, <2>7, <2>8 DEF WorkerPcs, Common
<1>12. CASE PostAnswer(w)
  <2>1. Goto(w, "post", "wait") /\ UNCHANGED queues /\ UNCHANGED af
    BY <1>12 DEF PostAnswer, locals
  <2>2. sem' \in [Pool -> Nat]
    BY <1>1, <1>12 DEF PostAnswer, Post, RestOK
  <2>3. RestOK'
    BY <1>1, <1>12, <2>2 DEF PostAnswer, RestOK, exits, locals, counts, hist
  <2>4. pc[w] = "post" /\ pc'[w] = "wait" => WorkerHand(w)'
    BY <1>1, <1>3, <2>1 DEF WorkerHand, Bare
  <2> QED
    BY <1>2, <1>3, <2>1, <2>3, <2>4 DEF WorkerPcs, Common
<1> QED
  BY <1>4, <1>5, <1>6, <1>7, <1>8, <1>9, <1>10, <1>11, <1>12 DEF WorkerStep

\* A sender's round.
LEMMA SenderKeeps ==
    ASSUME IInv, NEW s \in Sender, SenderStep(s)
    PROVE  IInv'
<1> USE ThreadFacts
<1>1. /\ QueuesOK /\ PcsOK /\ RestOK /\ HandsOK /\ SenderHand(s)
      /\ s \in Thread /\ s # Main /\ s \notin Worker /\ s \in PoolThread
  BY DEF IInv, HandsOK, PoolThread
<1>2. CASE Wait(s) \/ CheckExit(s) \/ Pull(s) \/ LookupDies(s)
  BY <1>1, <1>2, RoundKeeps
<1>3. CASE Send(s)
  <2>1. /\ Goto(s, "lookup", "putback") /\ hand[Proced][s] # NULL
        /\ UNCHANGED queues /\ UNCHANGED af
    BY <1>3 DEF Send, locals
  <2>2. QueuesOK' /\ HandOnly(Proced, s) /\ hand' = hand
    BY <1>1, <2>1, QueuesUnchanged DEF HandOnly
  <2>3. Holds(Proced, s)
    BY <1>1, <2>1 DEF QueuesOK, Holds
  <2>4. sent' \in [Id -> Nat]
    <3>1. Msg(s) \in Message
      BY <1>1, <2>3 DEF Holds, Msg, RestOK
    <3>2. sent' = Count(sent, Msg(s).id) \/ sent' = sent
      BY <1>3 DEF Send
    <3>3. Msg(s).id \in Id /\ sent \in [Id -> Nat]
      BY <1>1, <3>1 DEF RestOK, Message
    <3> QED
      BY <3>2, <3>3 DEF Count
  <2>5. RestOK'
    BY <1>1, <1>3, <2>4 DEF Send, RestOK, exits, locals, counts
  <2>6. pc'[s] = "putback"
    BY <1>1, <2>1, GotoType DEF Common
  <2>7. SenderHand(s)'
    BY <2>2, <2>3, <2>6 DEF SenderHand, Holds
  <2> QED
    BY <1>1, <2>1, <2>2, <2>5, <2>7, ThreadKeeps DEF Common
<1>4. CASE PutBackSent(s)
  <2>1. Goto(s, "putback", "wait") /\ PushEmpty(Proced, s) /\ UNCHANGED af
    BY <1>4 DEF PutBackSent, locals
  <2>2. pc[s] = "putback" /\ pc'[s] = "wait"
    BY <1>1, <2>1, GotoType DEF Common
  <2>3. Holds(Proced, s)
    BY <1>1, <2>2 DEF SenderHand
  <2>4. QueuesOK' /\ HandOnly(Proced, s) /\ hand'[Proced][s] = NULL
    BY <1>1, <2>1, <2>3, PushEmptyType
  <2>5. RestOK'
    BY <1>1, <1>4 DEF PutBackSent, RestOK, exits, locals, counts, hist
  <2>6. SenderHand(s)'
    BY <2>2, <2>4 DEF SenderHand, Bare
  <2> QED
    BY <1>1, <2>1, <2>4, <2>5, <2>6, ThreadKeeps DEF Common
<1> QED
  BY <1>2, <1>3, <1>4 DEF SenderStep

LEMMA NextIInv == IInv /\ [Next]_vars => IInv'
<1> SUFFICES ASSUME IInv, [Next]_vars PROVE IInv'
  OBVIOUS
<1>1. CASE Recv \/ MainStep
  BY <1>1, MainKeeps
<1>2. ASSUME NEW w \in Worker, WorkerStep(w)
      PROVE  IInv'
  BY <1>2, WorkerKeeps
<1>3. ASSUME NEW s \in Sender, SenderStep(s)
      PROVE  IInv'
  BY <1>3, SenderKeeps
<1>4. CASE UNCHANGED vars
  <2>1. /\ UNCHANGED <<filled, empty, lost, hand, pc, af, silent>>
        /\ UNCHANGED <<content, sem, threadexit, posted, live, plist, crash>>
        /\ UNCHANGED <<received, accepted, handled, sent>>
    BY <1>4 DEF vars, queues, exits, locals, counts, hist
  <2>2. QueuesOK' /\ PcsOK' /\ RestOK'
    BY <2>1 DEF IInv, QueuesOK, PcsOK, RestOK
  <2>3. HandsOK'
    BY <2>1 DEF IInv, HandsOK, MainHand, WorkerHand, SenderHand, Holds, Bare
  <2> QED
    BY <2>2, <2>3 DEF IInv
<1> QED
  BY <1>1, <1>2, <1>3, <1>4 DEF Next, Ended

\* The variables of the pipeline keep their types, for every number of threads,
\* every pool size and every number of datagrams: no thread ever pushes a buffer
\* it does not hold.
THEOREM DispatchTypes == Spec => []TypeOK
<1>1. IInv => TypeOK
  BY TypeParts DEF IInv
<1> QED
  BY InitIInv, NextIInv, <1>1, PTL DEF Spec

-----------------------------------------------------------------------------
(* Ownership, as a matter of sets.                                         *)

LEMMA TailRange ==
    ASSUME NEW S, NEW q \in Seq(S), q # <<>>, NoRepeats(q)
    PROVE  /\ Head(q) \in Range(q)
           /\ Range(Tail(q)) = Range(q) \ {Head(q)}
           /\ NoRepeats(Tail(q))
<1>1. /\ Len(q) \in Nat \ {0} /\ Head(q) = q[1]
      /\ DOMAIN q = 1 .. Len(q)
      /\ Tail(q) \in Seq(S) /\ Len(Tail(q)) = Len(q) - 1
      /\ \A k \in 1 .. Len(q) - 1 : Tail(q)[k] = q[k + 1]
  OBVIOUS
<1>2. DOMAIN Tail(q) = 1 .. Len(q) - 1
  BY <1>1
<1>3. Head(q) \in Range(q)
  BY <1>1 DEF Range
<1>4. \A k \in 1 .. Len(q) - 1 : Tail(q)[k] \in Range(q) \ {Head(q)}
  BY <1>1 DEF Range, NoRepeats
<1>5. ASSUME NEW k \in 1 .. Len(q), q[k] # Head(q)
      PROVE  q[k] \in Range(Tail(q))
  <2>1. k - 1 \in 1 .. Len(q) - 1 /\ q[k] = Tail(q)[k - 1]
    BY <1>1, <1>5
  <2> QED
    BY <1>2, <2>1 DEF Range
<1>6. Range(Tail(q)) = Range(q) \ {Head(q)}
  BY <1>1, <1>2, <1>4, <1>5 DEF Range
<1>7. NoRepeats(Tail(q))
  BY <1>1 DEF NoRepeats
<1> QED
  BY <1>3, <1>6, <1>7

LEMMA AppendRange ==
    ASSUME NEW S, NEW q \in Seq(S), NEW x \in S, x \notin Range(q), NoRepeats(q)
    PROVE  /\ Range(Append(q, x)) = Range(q) \union {x}
           /\ NoRepeats(Append(q, x))
<1> DEFINE a == Append(q, x)
<1>1. /\ Len(q) \in Nat /\ DOMAIN q = 1 .. Len(q)
      /\ Len(a) = Len(q) + 1 /\ DOMAIN a = 1 .. Len(q) + 1
      /\ \A k \in 1 .. Len(q) : a[k] = q[k]
      /\ a[Len(q) + 1] = x
  OBVIOUS
<1> HIDE DEF a
<1>2. \A k \in 1 .. Len(q) + 1 : k \in 1 .. Len(q) \/ k = Len(q) + 1
  BY <1>1
<1>3. Range(a) = Range(q) \union {x}
  <2>1. \A k \in DOMAIN a : a[k] \in Range(q) \union {x}
    BY <1>1, <1>2 DEF Range
  <2>2. \A k \in DOMAIN q : q[k] \in Range(a)
    BY <1>1 DEF Range
  <2>3. x \in Range(a)
    BY <1>1 DEF Range
  <2> QED
    BY <2>1, <2>2, <2>3 DEF Range
<1>4. NoRepeats(a)
  <2>1. \A k \in 1 .. Len(q) : a[k] # x
    BY <1>1 DEF Range
  <2> QED
    BY <1>1, <1>2, <2>1 DEF NoRepeats
<1> QED
  BY <1>3, <1>4 DEF a

\* Q and E are the buffers in the two queues.
Apart(Q, E, l, h) ==
    /\ Q \intersect E = {}
    /\ l \intersect (Q \union E) = {}
    /\ \A t \in Thread : h[t] \notin Q \union E \union l
    /\ \A t, u \in Thread : h[t] = h[u] /\ h[t] # NULL => t = u
    /\ \A b \in Buffer : b \in Q \union E \union l \/ \E t \in Thread : h[t] = b

Hands == [Thread -> Buffer \union {NULL}]

LEMMA OwnedApart ==
    ASSUME NEW q, NEW e, NEW l, NEW h \in Hands
    PROVE  Owned(q, e, l, h) <=>
             NoRepeats(q) /\ NoRepeats(e) /\ Apart(Range(q), Range(e), l, h)
<1>1. Range(h) = {h[t] : t \in Thread}
  BY DEF Hands, Range
<1>2. Buffer \subseteq Range(q) \union Range(e) \union l \union Range(h)
        <=> \A b \in Buffer : \/ b \in Range(q) \union Range(e) \union l
                              \/ \E t \in Thread : h[t] = b
  BY <1>1
<1> QED
  BY <1>2 DEF Owned, Apart

LEMMA ApartSwap ==
    ASSUME NEW Q, NEW E, NEW l, NEW h, Apart(Q, E, l, h)
    PROVE  Apart(E, Q, l, h)
  BY DEF Apart

\* A thread that holds nothing takes a buffer out of a queue ...
LEMMA TakeApart ==
    ASSUME NEW Q, NEW E, NEW l, NEW h \in Hands, Apart(Q, E, l, h),
           NEW t \in Thread, h[t] = NULL, NEW x \in Q, NEW g,
           g = [h EXCEPT ![t] = x]
    PROVE  Apart(Q \ {x}, E, l, g)
<1>1. g[t] = x /\ \A u \in Thread \ {t} : g[u] = h[u]
  BY DEF Hands
<1>2. \A u \in Thread : h[u] # x
  BY DEF Apart
<1>3. x \notin E /\ x \notin l
  BY DEF Apart
<1>4. \A u \in Thread : g[u] \notin (Q \ {x}) \union E \union l
  BY <1>1, <1>3 DEF Apart
<1>5. \A u, v \in Thread : g[u] = g[v] /\ g[u] # NULL => u = v
  BY <1>1, <1>2 DEF Apart
<1>6. ASSUME NEW b \in Buffer
      PROVE  b \in (Q \ {x}) \union E \union l \/ \E u \in Thread : g[u] = b
  <2>1. CASE b = x
    BY <1>1, <2>1
  <2>2. CASE b # x /\ b \in Q \union E \union l
    BY <2>2
  <2>3. CASE \E u \in Thread : h[u] = b
    <3>1. PICK u \in Thread : h[u] = b
      BY <2>3
    <3>2. u # t
      BY <3>1, BufferFacts
    <3> QED
      BY <1>1, <3>1, <3>2
  <2> QED
    BY <2>1, <2>2, <2>3 DEF Apart
<1> QED
  BY <1>4, <1>5, <1>6 DEF Apart

\* ... and gives one back, or loses it.
LEMMA GiveApart ==
    ASSUME NEW Q, NEW E, NEW l, NEW h \in Hands, Apart(Q, E, l, h),
           NEW t \in Thread, h[t] \in Buffer, NULL \notin Q \union E \union l,
           NEW g, g = [h EXCEPT ![t] = NULL]
    PROVE  /\ h[t] \notin Q
           /\ Apart(Q \union {h[t]}, E, l, g)
           /\ Apart(Q, E, l \union {h[t]}, g)
<1> DEFINE x == h[t]
<1>1. g[t] = NULL /\ \A u \in Thread \ {t} : g[u] = h[u]
  BY DEF Hands
<1>2. x # NULL /\ x \notin Q \union E \union l
  BY BufferFacts DEF Apart
<1>3. \A u \in Thread : g[u] # x
  BY <1>1, <1>2 DEF Apart
<1>4. \A u \in Thread : g[u] \notin Q \union E \union l \union {x}
  BY <1>1, <1>3 DEF Apart
<1>5. \A u, v \in Thread : g[u] = g[v] /\ g[u] # NULL => u = v
  BY <1>1 DEF Apart
<1>6. \A b \in Buffer : b \in Q \union E \union l \union {x} \/ \E u \in Thread : g[u] = b
  <2> TAKE b \in Buffer
  <2>1. CASE b \in Q \union E \union l
    BY <2>1
  <2>2. CASE \E u \in Thread : h[u] = b
    <3>1. PICK u \in Thread : h[u] = b
      BY <2>2
    <3> QED
      BY <1>1, <3>1
  <2> QED
    BY <2>1, <2>2 DEF Apart
<1> HIDE DEF x
<1>7. Q \intersect E = {} /\ l \intersect (Q \union E) = {}
  BY DEF Apart
<1>8. Apart(Q \union {x}, E, l, g)
  BY <1>2, <1>4, <1>5, <1>6, <1>7 DEF Apart
<1>9. Apart(Q, E, l \union {x}, g)
  BY <1>2, <1>4, <1>5, <1>6, <1>7 DEF Apart
<1> QED
  BY <1>2, <1>8, <1>9 DEF x

LEMMA SeqRange ==
    ASSUME NEW q \in Seq(Buffer)
    PROVE  Range(q) \subseteq Buffer
  BY DEF Range

\* What a thread with an empty hand pulls is in nobody else's, and what it gives
\* back or loses is nobody's.
LEMMA PullOwned ==
    ASSUME NEW q \in Seq(Buffer), NEW e, NEW l, NEW h \in Hands, Owned(q, e, l, h),
           NEW t \in Thread, h[t] = NULL
    PROVE  Owned(Rest(q), e, l, [h EXCEPT ![t] = Pulled(q)])
<1> DEFINE g == [h EXCEPT ![t] = Pulled(q)]
<1>1. NoRepeats(q) /\ NoRepeats(e) /\ Apart(Range(q), Range(e), l, h)
  BY OwnedApart
<1>2. CASE q = <<>>
  <2>1. g = h
    BY <1>2 DEF Pulled, Hands
  <2> QED
    BY <1>2, <2>1 DEF Rest
<1>3. CASE q # <<>>
  <2>1. Rest(q) = Tail(q) /\ Pulled(q) = Head(q)
    BY <1>3 DEF Rest, Pulled
  <2>2. /\ Head(q) \in Range(q) /\ Head(q) \in Buffer
        /\ Range(Tail(q)) = Range(q) \ {Head(q)}
        /\ NoRepeats(Tail(q))
    BY <1>1, <1>3, TailRange
  <2>3. g \in Hands
    BY <2>1, <2>2 DEF Hands
  <2>4. Apart(Range(Tail(q)), Range(e), l, g)
    BY <1>1, <2>1, <2>2, TakeApart
  <2> HIDE DEF g
  <2> QED
    BY <1>1, <2>1, <2>2, <2>3, <2>4, OwnedApart DEF g
<1> QED
  BY <1>2, <1>3

LEMMA PushOwned ==
    ASSUME NEW q \in Seq(Buffer), NEW e \in Seq(Buffer), NEW l \in SUBSET Buffer,
           NEW h \in Hands, Owned(q, e, l, h),
           NEW t \in Thread, h[t] \in Buffer, NEW cap
    PROVE  Owned(Pushed(q, cap, h[t]), e,
                 IF Refused(q, cap) THEN l \union {h[t]} ELSE l,
                 [h EXCEPT ![t] = NULL])
<1> DEFINE g == [h EXCEPT ![t] = NULL]
<1>1. NoRepeats(q) /\ NoRepeats(e) /\ Apart(Range(q), Range(e), l, h)
  BY OwnedApart
<1>2. NULL \notin Range(q) \union Range(e) \union l
  BY BufferFacts, SeqRange
<1>3. g \in Hands
  BY DEF Hands
<1>4. /\ h[t] \notin Range(q)
      /\ Apart(Range(q) \union {h[t]}, Range(e), l, g)
      /\ Apart(Range(q), Range(e), l \union {h[t]}, g)
  BY <1>1, <1>2, GiveApart
<1> HIDE DEF g
<1>5. CASE Refused(q, cap)
  <2>1. Owned(q, e, l \union {h[t]}, g)
    BY <1>1, <1>3, <1>4, OwnedApart
  <2> QED
    BY <1>5, <2>1 DEF Pushed, g
<1>6. CASE ~Refused(q, cap)
  <2>1. /\ Range(Append(q, h[t])) = Range(q) \union {h[t]}
        /\ NoRepeats(Append(q, h[t]))
    BY <1>1, <1>4, AppendRange
  <2>2. Owned(Append(q, h[t]), e, l, g)
    BY <1>1, <1>3, <1>4, <2>1, OwnedApart
  <2> QED
    BY <1>6, <2>2 DEF Pushed, g
<1> QED
  BY <1>5, <1>6

LEMMA OwnedSwap ==
    ASSUME NEW q, NEW e, NEW l, NEW h \in Hands, Owned(q, e, l, h)
    PROVE  Owned(e, q, l, h)
  BY OwnedApart, ApartSwap

\* An operation on one queue of pool p, by a thread that may make it.
LEMMA PullKeepsOwner ==
    ASSUME IInv, OneOwner, NEW p \in Pool, NEW t \in Thread, Bare(p, t),
           PullFilled(p, t) \/ PullEmpty(p, t)
    PROVE  OneOwner'
<1>1. /\ filled \in [Pool -> Seq(Buffer)] /\ empty \in [Pool -> Seq(Buffer)]
      /\ lost \in [Pool -> SUBSET Buffer] /\ hand \in [Pool -> Hands]
  BY DEF IInv, QueuesOK, Hands
<1>2. /\ filled[p] \in Seq(Buffer) /\ empty[p] \in Seq(Buffer)
      /\ lost[p] \in SUBSET Buffer /\ hand[p] \in Hands
  BY <1>1
<1>3. Owned(filled[p], empty[p], lost[p], hand[p]) /\ hand[p][t] = NULL
  BY DEF OneOwner, Bare
<1>4. Owned(empty[p], filled[p], lost[p], hand[p])
  BY <1>2, <1>3, OwnedSwap
<1>5. /\ lost' = lost
      /\ \A r \in Pool \ {p} : /\ filled'[r] = filled[r] /\ empty'[r] = empty[r]
                               /\ hand'[r] = hand[r]
  BY <1>1 DEF PullFilled, PullEmpty
<1>6. Owned(filled'[p], empty'[p], lost'[p], hand'[p])
  <2>1. CASE PullFilled(p, t)
    <3>1. /\ filled'[p] = Rest(filled[p]) /\ empty'[p] = empty[p]
          /\ hand'[p] = [hand[p] EXCEPT ![t] = Pulled(filled[p])]
      BY <1>1, <2>1 DEF PullFilled
    <3>2. Owned(Rest(filled[p]), empty[p], lost[p],
                [hand[p] EXCEPT ![t] = Pulled(filled[p])])
      BY <1>2, <1>3, PullOwned
    <3> QED
      BY <1>5, <3>1, <3>2
  <2>2. CASE PullEmpty(p, t)
    <3>1. /\ empty'[p] = Rest(empty[p]) /\ filled'[p] = filled[p]
          /\ hand'[p] = [hand[p] EXCEPT ![t] = Pulled(empty[p])]
      BY <1>1, <2>2 DEF PullEmpty
    <3>2. Owned(empty'[p], filled'[p], lost'[p], hand'[p])
      <4>1. Owned(Rest(empty[p]), filled[p], lost[p],
                  [hand[p] EXCEPT ![t] = Pulled(empty[p])])
        BY <1>2, <1>4, <1>3, PullOwned
      <4> QED
        BY <1>5, <3>1, <4>1
    <3>3. hand'[p] \in Hands
      <4>1. Pulled(empty[p]) \in Buffer \union {NULL}
        BY <1>1, PulledType
      <4> QED
        BY <1>1, <3>1, <4>1 DEF Hands
    <3> QED
      BY <3>2, <3>3, OwnedSwap
  <2> QED
    BY <2>1, <2>2
<1> QED
  BY <1>5, <1>6 DEF OneOwner

LEMMA PushKeepsOwner ==
    ASSUME IInv, OneOwner, NEW p \in Pool, NEW t \in Thread, Holds(p, t),
           PushFilled(p, t) \/ PushEmpty(p, t)
    PROVE  OneOwner'
<1>1. /\ filled \in [Pool -> Seq(Buffer)] /\ empty \in [Pool -> Seq(Buffer)]
      /\ lost \in [Pool -> SUBSET Buffer] /\ hand \in [Pool -> Hands]
  BY DEF IInv, QueuesOK, Hands
<1>2. /\ filled[p] \in Seq(Buffer) /\ empty[p] \in Seq(Buffer)
      /\ lost[p] \in SUBSET Buffer /\ hand[p] \in Hands
  BY <1>1
<1>3. Owned(filled[p], empty[p], lost[p], hand[p])
  BY DEF OneOwner
<1>4. hand[p][t] \in Buffer
  BY <1>2 DEF Holds, Hands
<1>5. Owned(empty[p], filled[p], lost[p], hand[p])
  BY <1>2, <1>3, OwnedSwap
<1>6. /\ hand' = [hand EXCEPT ![p][t] = NULL]
      /\ \A r \in Pool \ {p} : /\ filled'[r] = filled[r] /\ empty'[r] = empty[r]
                               /\ lost'[r] = lost[r]
  BY <1>1 DEF PushFilled, PushEmpty, Drop
<1>7. /\ hand'[p] = [hand[p] EXCEPT ![t] = NULL]
      /\ \A r \in Pool \ {p} : hand'[r] = hand[r]
  BY <1>1, <1>6
<1>8. Owned(filled'[p], empty'[p], lost'[p], hand'[p])
  <2>1. CASE PushFilled(p, t)
    <3>1. /\ filled'[p] = Pushed(filled[p], FilledCapacity, hand[p][t])
          /\ empty'[p] = empty[p]
          /\ lost'[p] = IF Refused(filled[p], FilledCapacity)
                        THEN lost[p] \union {hand[p][t]} ELSE lost[p]
      BY <1>1, <2>1 DEF PushFilled, Drop
    <3>2. Owned(Pushed(filled[p], FilledCapacity, hand[p][t]), empty[p],
                IF Refused(filled[p], FilledCapacity)
                THEN lost[p] \union {hand[p][t]} ELSE lost[p],
                [hand[p] EXCEPT ![t] = NULL])
      BY <1>2, <1>4, <1>3, PushOwned
    <3> QED
      BY <1>7, <3>1, <3>2
  <2>2. CASE PushEmpty(p, t)
    <3>1. /\ empty'[p] = Pushed(empty[p], EmptyCapacity, hand[p][t])
          /\ filled'[p] = filled[p]
          /\ lost'[p] = IF Refused(empty[p], EmptyCapacity)
                        THEN lost[p] \union {hand[p][t]} ELSE lost[p]
      BY <1>1, <2>2 DEF PushEmpty, Drop
    <3>2. Owned(empty'[p], filled'[p], lost'[p], hand'[p])
      <4>1. Owned(Pushed(empty[p], EmptyCapacity, hand[p][t]), filled[p],
                  IF Refused(empty[p], EmptyCapacity)
                  THEN lost[p] \union {hand[p][t]} ELSE lost[p],
                  [hand[p] EXCEPT ![t] = NULL])
        BY <1>2, <1>5, <1>4, PushOwned
      <4> QED
        BY <1>7, <3>1, <4>1
    <3>3. hand'[p] \in Hands
      BY <1>1, <1>7 DEF Hands
    <3> QED
      BY <3>2, <3>3, OwnedSwap
  <2> QED
    BY <2>1, <2>2
<1> QED
  BY <1>6, <1>7, <1>8 DEF OneOwner

LEMMA InitOwner == Init => OneOwner
<1> SUFFICES ASSUME Init, NEW p \in Pool
             PROVE  Owned(filled[p], empty[p], lost[p], hand[p])
  BY DEF OneOwner
<1>1. /\ filled[p] = <<>> /\ empty[p] = [i \in Buffer |-> i] /\ lost[p] = {}
      /\ hand[p] = [t \in Thread |-> NULL]
  BY DEF Init
<1>2. Buffer = 1 .. EmptyCapacity /\ EmptyCapacity \in Nat
  BY PoolOvercommitted, PoolSizes
<1>3. Range(empty[p]) = Buffer /\ NoRepeats(empty[p])
  <2>1. Len(empty[p]) = EmptyCapacity
    BY <1>1, <1>2
  <2> QED
    BY <1>1, <1>2, <2>1 DEF Range, NoRepeats
<1>4. Range(filled[p]) = {} /\ NoRepeats(filled[p])
  BY <1>1 DEF Range, NoRepeats
<1>5. \A t \in Thread : hand[p][t] = NULL
  BY <1>1
<1>6. hand[p] \in Hands
  BY <1>1 DEF Hands
<1>7. Apart(Range(filled[p]), Range(empty[p]), lost[p], hand[p])
  BY <1>1, <1>3, <1>4, <1>5, BufferFacts DEF Apart
<1> QED
  BY <1>3, <1>4, <1>6, <1>7, OwnedApart

LEMMA NextOwner == IInv /\ OneOwner /\ [Next]_vars => OneOwner'
<1> SUFFICES ASSUME IInv, OneOwner, [Next]_vars PROVE OneOwner'
  OBVIOUS
<1> USE ThreadFacts
<1>1. HandsOK /\ PcsOK
  BY DEF IInv
<1>2. CASE UNCHANGED queues
  BY <1>2 DEF queues, OneOwner
<1>3. CASE Recv \/ MainPost \/ Shutdown
  BY <1>2, <1>3 DEF Recv, RecvMessage, RecvNothing, RecvFails, MainPost, Shutdown,
                    ClearList, SetExit, PostExit, JoinAndFree
<1>4. CASE MainPull
  <2>1. pc[Main] = "pullbuf" /\ PullEmpty(Unproc, Main)
    BY <1>4 DEF MainPull, Goto
  <2>2. Bare(Unproc, Main)
    BY <1>1, <2>1 DEF HandsOK, MainHand
  <2> QED
    BY <2>1, <2>2, PullKeepsOwner
<1>5. CASE MainPush
  <2>1. pc[Main] = "pushbuf" /\ PushFilled(Unproc, Main)
    BY <1>5 DEF MainPush, Goto
  <2>2. Holds(Unproc, Main)
    BY <1>1, <2>1 DEF HandsOK, MainHand
  <2> QED
    BY <2>1, <2>2, PushKeepsOwner
<1>6. ASSUME NEW t \in PoolThread, Wait(t) \/ CheckExit(t) \/ LookupDies(t)
      PROVE  OneOwner'
  BY <1>2, <1>6 DEF Wait, CheckExit, LookupDies
<1>7. ASSUME NEW t \in PoolThread, Pull(t)
      PROVE  OneOwner'
  <2>1. pc[t] = "pull" /\ PullFilled(PoolOf(t), t)
    BY <1>7 DEF Pull, Goto
  <2>2. Bare(PoolOf(t), t) /\ t \in Thread /\ PoolOf(t) \in Pool
    BY <1>1, <2>1 DEF PoolThread, HandsOK, WorkerHand, SenderHand
  <2> QED
    BY <2>1, <2>2, PullKeepsOwner
<1>8. ASSUME NEW w \in Worker, WorkerStep(w)
      PROVE  OneOwner'
  <2>1. WorkerHand(w) /\ w \in Thread /\ w \in PoolThread
    BY <1>1 DEF HandsOK, PoolThread
  <2>2. CASE \/ Lookup(w) \/ LookupAsserts(w) \/ LookupAf(w) \/ LookupAfDies(w)
             \/ Process(w) \/ ProcessDies(w) \/ PostAnswer(w)
    BY <1>2, <2>2 DEF Lookup, LookupAsserts, LookupAf, LookupAfDies, Process,
                      ProcessDies, PostAnswer
  <2>3. CASE PullOut(w)
    <3>1. pc[w] = "pullout" /\ PullEmpty(Proced, w)
      BY <2>3 DEF PullOut, Goto
    <3> QED
      BY <2>1, <3>1, PullKeepsOwner DEF WorkerHand
  <2>4. CASE PutBack(w)
    <3>1. pc[w] = "putback" /\ PushEmpty(Unproc, w)
      BY <2>4 DEF PutBack, Goto
    <3> QED
      BY <2>1, <3>1, PushKeepsOwner DEF WorkerHand
  <2>5. CASE DropAnswer(w) \/ PushAnswer(w)
    <3>1. pc[w] = "answer" /\ (PushEmpty(Proced, w) \/ PushFilled(Proced, w))
      BY <2>5 DEF DropAnswer, PushAnswer, Goto
    <3> QED
      BY <2>1, <3>1, PushKeepsOwner DEF WorkerHand
  <2> QED
    BY <1>6, <1>7, <1>8, <2>1, <2>2, <2>3, <2>4, <2>5 DEF WorkerStep
<1>9. ASSUME NEW s \in Sender, SenderStep(s)
      PROVE  OneOwner'
  <2>1. SenderHand(s) /\ s \in Thread /\ s \in PoolThread
    BY <1>1 DEF HandsOK, PoolThread
  <2>2. CASE Send(s)
    BY <1>2, <2>2 DEF Send
  <2>3. CASE PutBackSent(s)
    <3>1. pc[s] = "putback" /\ PushEmpty(Proced, s)
      BY <2>3 DEF PutBackSent, Goto
    <3> QED
      BY <2>1, <3>1, PushKeepsOwner DEF SenderHand
  <2> QED
    BY <1>6, <1>7, <1>9, <2>1, <2>2, <2>3 DEF SenderStep
<1> QED
  BY <1>2, <1>3, <1>4, <1>5, <1>8, <1>9 DEF Next, Ended, MainStep, vars

\* Every buffer of a pool is in one queue, once, or in the hands of one thread,
\* or was dropped by a refused push: for every number of threads, every pool
\* size and every interleaving, no two threads ever share a buffer.
THEOREM BuffersOwned == Spec => []OneOwner
  BY InitIInv, NextIInv, InitOwner, NextOwner, PTL DEF Spec


-----------------------------------------------------------------------------
(* Nobody uses a freed pool.                                               *)

\* What the shutdown has freed, and who has left by then.
FreeInv ==
    /\ \A p \in Pool : ~live[p] => \A t \in ThreadsOf(p) : pc[t] = "exited"
    /\ pc[Main] \in {"exit2", "post2", "done"} <=> ~live[Unproc]
    /\ pc[Main] = "done" <=> ~live[Proced]

LEMMA PoolThreads ==
    /\ ThreadsOf(Unproc) = Worker /\ ThreadsOf(Proced) = Sender
    /\ Pool = {Unproc, Proced} /\ Unproc # Proced
  BY DEF ThreadsOf, Pool, Unproc, Proced

\* A step of thread t from a place it can leave, with every pool as it was.
Moves(t) ==
    /\ live' = live
    /\ \E from, to \in Receiving \union Clearing \union WorkerPcs :
          Goto(t, from, to) /\ from # "exited"

LEMMA CommonMoves ==
    ASSUME NEW t, Wait(t) \/ CheckExit(t) \/ Pull(t) \/ LookupDies(t)
    PROVE  Moves(t)
<1>1. CASE Wait(t)
  BY <1>1 DEF Wait, Moves, exits, WorkerPcs, Common
<1>2. CASE CheckExit(t)
  <2>1. /\ live' = live
        /\ Goto(t, "check", "exited") \/ Goto(t, "check", "pull")
    BY <1>2 DEF CheckExit, exits
  <2> QED
    BY <2>1 DEF Moves, WorkerPcs, Common
<1>3. CASE Pull(t)
  BY <1>3 DEF Pull, Moves, exits, WorkerPcs, Common
<1>4. CASE LookupDies(t)
  <2>1. live' = live /\ Goto(t, "lookup", "dead")
    BY <1>4 DEF LookupDies, Die, exits
  <2> QED
    BY <2>1 DEF Moves, WorkerPcs, Common
<1> QED
  BY <1>1, <1>2, <1>3, <1>4

LEMMA SenderMoves ==
    ASSUME NEW s \in Sender, SenderStep(s)
    PROVE  Moves(s)
<1>1. CASE Send(s)
  BY <1>1 DEF Send, Moves, exits, WorkerPcs, Common
<1>2. CASE PutBackSent(s)
  BY <1>2 DEF PutBackSent, Moves, exits, WorkerPcs, Common
<1> QED
  BY <1>1, <1>2, CommonMoves DEF SenderStep

LEMMA WorkerMoves ==
    ASSUME NEW w \in Worker, WorkerStep(w)
    PROVE  Moves(w)
<1>1. CASE Lookup(w)
  BY <1>1 DEF Lookup, Moves, exits, WorkerPcs, Common
<1>2. CASE LookupAsserts(w)
  BY <1>2 DEF LookupAsserts, Die, Moves, exits, WorkerPcs, Common
<1>3. CASE LookupAf(w)
  <2>1. /\ live' = live
        /\ Goto(w, "lookup_af", "pullout") \/ Goto(w, "lookup_af", "process")
    BY <1>3 DEF LookupAf, exits
  <2> QED
    BY <2>1 DEF Moves, WorkerPcs, Common
<1>4. CASE LookupAfDies(w)
  BY <1>4 DEF LookupAfDies, Die, Moves, exits, WorkerPcs, Common
<1>5. CASE PullOut(w)
  BY <1>5 DEF PullOut, Moves, exits, WorkerPcs, Common
<1>6. CASE Process(w)
  <2>1. live' = live /\ Goto(w, "process", "putback")
    BY <1>6 DEF Process, exits
  <2> QED
    BY <2>1 DEF Moves, WorkerPcs, Common
<1>7. CASE ProcessDies(w)
  BY <1>7 DEF ProcessDies, Die, Moves, exits, WorkerPcs, Common
<1>8. CASE PutBack(w)
  <2>1. /\ live' = live
        /\ Goto(w, "putback", "answer") \/ Goto(w, "putback", "wait")
    BY <1>8 DEF PutBack, exits
  <2> QED
    BY <2>1 DEF Moves, WorkerPcs, Common
<1>9. CASE DropAnswer(w) \/ PushAnswer(w) \/ PostAnswer(w)
  <2>1. /\ live' = live
        /\ \/ Goto(w, "answer", "wait") \/ Goto(w, "answer", "post")
           \/ Goto(w, "post", "wait")
    BY <1>9 DEF DropAnswer, PushAnswer, PostAnswer, exits
  <2> QED
    BY <2>1 DEF Moves, WorkerPcs, Common
<1> QED
  BY <1>1, <1>2, <1>3, <1>4, <1>5, <1>6, <1>7, <1>8, <1>9, CommonMoves DEF WorkerStep

\* A pool thread that moves had not left, so its pool was not freed.
LEMMA MoveKeepsFree ==
    ASSUME PcsOK, FreeInv, NEW t \in Worker \union Sender, Moves(t)
    PROVE  FreeInv'
<1>1. PICK to : /\ pc' = [pc EXCEPT ![t] = to] /\ pc[t] # "exited" /\ live' = live
  BY DEF Moves, Goto
<1>2. \A u \in Thread \ {t} : pc'[u] = pc[u]
  BY <1>1 DEF PcsOK
<1>3. pc'[Main] = pc[Main]
  BY <1>2, ThreadFacts
<1>4. ASSUME NEW p \in Pool, ~live'[p], NEW u \in ThreadsOf(p)
      PROVE  pc'[u] = "exited"
  <2>1. pc[u] = "exited" /\ u \in Thread
    BY <1>1, <1>4, PoolThreads, ThreadFacts DEF FreeInv
  <2> QED
    BY <1>1, <1>2, <2>1
<1> QED
  BY <1>1, <1>3, <1>4 DEF FreeInv

\* The main thread frees a pool once its threads have left.
LEMMA MainKeepsFree ==
    ASSUME PcsOK, RestOK, FreeInv, Recv \/ MainStep
    PROVE  FreeInv'
<1>1. ASSUME NEW from, NEW to, Goto(Main, from, to)
      PROVE  /\ pc[Main] = from /\ pc'[Main] = to
             /\ \A t \in Worker \union Sender : pc'[t] = pc[t]
  BY <1>1, ThreadFacts DEF Goto, PcsOK
<1>2. ASSUME NEW from, NEW to, Goto(Main, from, to), live' = live,
             \/ {from, to} \subseteq {"exit2", "post2"}
             \/ {from, to} \intersect {"exit2", "post2", "done"} = {}
      PROVE  FreeInv'
  BY <1>1, <1>2, PoolThreads DEF FreeInv
<1>3. CASE JoinAndFree(Unproc, "post1", "exit2")
  <2>1. /\ Goto(Main, "post1", "exit2") /\ live' = [live EXCEPT ![Unproc] = FALSE]
        /\ \A t \in Worker : pc[t] = "exited"
    BY <1>3, PoolThreads DEF JoinAndFree
  <2>2. ~live'[Unproc] /\ live'[Proced] = live[Proced]
    BY <2>1, PoolThreads DEF RestOK
  <2> QED
    BY <1>1, <2>1, <2>2, PoolThreads DEF FreeInv
<1>4. CASE JoinAndFree(Proced, "post2", "done")
  <2>1. /\ Goto(Main, "post2", "done") /\ live' = [live EXCEPT ![Proced] = FALSE]
        /\ \A t \in Sender : pc[t] = "exited"
    BY <1>4, PoolThreads DEF JoinAndFree
  <2>2. ~live'[Proced] /\ live'[Unproc] = live[Unproc]
    BY <2>1, PoolThreads DEF RestOK
  <2> QED
    BY <1>1, <2>1, <2>2, PoolThreads DEF FreeInv
<1>5. CASE Recv
  <2>1. live' = live /\ (Goto(Main, "recv", "pushbuf") \/ Goto(Main, "recv", "unlist"))
    BY <1>5 DEF Recv, RecvMessage, RecvNothing, RecvFails, exits
  <2> QED
    BY <1>2, <2>1
<1>6. CASE MainPull \/ MainPush \/ MainPost
  <2>1. /\ live' = live
        /\ \/ Goto(Main, "pullbuf", "recv") \/ Goto(Main, "pushbuf", "postbuf")
           \/ Goto(Main, "postbuf", "pullbuf")
    BY <1>6 DEF MainPull, MainPush, MainPost, exits
  <2> QED
    BY <1>2, <2>1
<1>7. CASE \/ ClearList("unlist", "unlisted", "clearing")
           \/ ClearList("unlisted", "exit1", "empty")
           \/ SetExit(Unproc, "exit1", "post1") \/ PostExit(Unproc, "post1")
  <2>1. /\ live' = live
        /\ \/ Goto(Main, "unlist", "unlisted") \/ Goto(Main, "unlisted", "exit1")
           \/ Goto(Main, "exit1", "post1") \/ Goto(Main, "post1", "post1")
    BY <1>7 DEF ClearList, SetExit, PostExit
  <2> QED
    BY <1>2, <2>1
<1>8. CASE SetExit(Proced, "exit2", "post2") \/ PostExit(Proced, "post2")
  <2>1. /\ live' = live
        /\ Goto(Main, "exit2", "post2") \/ Goto(Main, "post2", "post2")
    BY <1>8 DEF SetExit, PostExit
  <2> QED
    BY <1>2, <2>1
<1> QED
  BY <1>3, <1>4, <1>5, <1>6, <1>7, <1>8 DEF MainStep, Shutdown

\* s_clearpool frees a pool only after every thread that uses it has left, for
\* every number of threads: clearing pool_unprocessed first is what keeps the
\* workers from answering into a freed pool_processed.
THEOREM FreedUnused == Spec => []NoUseAfterFree
<1>1. Init => FreeInv
  BY ThreadFacts, PoolThreads DEF Init, FreeInv
<1>2. IInv /\ FreeInv /\ [Next]_vars => FreeInv'
  <2> SUFFICES ASSUME IInv, FreeInv, [Next]_vars PROVE FreeInv'
    OBVIOUS
  <2>1. PcsOK /\ RestOK
    BY DEF IInv
  <2>2. CASE Recv \/ MainStep
    BY <2>1, <2>2, MainKeepsFree
  <2>3. ASSUME NEW w \in Worker, WorkerStep(w)
        PROVE  FreeInv'
    BY <2>1, <2>3, WorkerMoves, MoveKeepsFree
  <2>4. ASSUME NEW s \in Sender, SenderStep(s)
        PROVE  FreeInv'
    BY <2>1, <2>4, SenderMoves, MoveKeepsFree
  <2>5. CASE UNCHANGED vars
    BY <2>5 DEF vars, exits, FreeInv
  <2> QED
    BY <2>2, <2>3, <2>4, <2>5 DEF Next, Ended
<1>3. FreeInv => NoUseAfterFree
  <2> SUFFICES ASSUME FreeInv, NEW p \in Pool, ~live[p]
               PROVE  /\ \A t \in ThreadsOf(p) \union Worker : pc[t] = "exited"
                      /\ pc[Main] \notin Receiving
    BY DEF NoUseAfterFree
  <2>1. pc[Main] \in {"exit2", "post2", "done"}
    BY PoolThreads DEF FreeInv
  <2>2. \A t \in ThreadsOf(p) \union Worker : pc[t] = "exited"
    BY <2>1, PoolThreads DEF FreeInv
  <2> QED
    BY <2>1, <2>2 DEF Receiving
<1> QED
  BY InitIInv, NextIInv, <1>1, <1>2, <1>3, PTL DEF Spec

-----------------------------------------------------------------------------
(* The semaphore of each pool.  A thread has a token from its wait on until *)
(* it pulls a buffer, and for good if it pulls none or leaves.  Balanced    *)
(* counts the tokens; Entitled says that the threads about to pull, and     *)
(* those that pulled nothing, are no more than the buffers pushed and not   *)
(* yet pulled: an empty pull then means that one of those was refused.      *)
(* Entitled follows from Balanced when a thread passes its check, for no    *)
(* post of the shutdown has been made then, which is ExitPhase.             *)

In(t, S) == IF t \in S THEN 1 ELSE 0

\* A set that gains or loses nothing but t.
LEMMA CardMove ==
    ASSUME NEW A, NEW B, NEW t, IsFiniteSet(A), A \ {t} = B \ {t}
    PROVE  /\ IsFiniteSet(B)
           /\ Cardinality(A) \in Nat /\ Cardinality(B) \in Nat
           /\ Cardinality(B) + In(t, A) = Cardinality(A) + In(t, B)
<1> DEFINE C == A \ {t}
<1>1. /\ IsFiniteSet(C)
      /\ Cardinality(C) = IF t \in A THEN Cardinality(A) - 1 ELSE Cardinality(A)
  BY FS_RemoveElement
<1>2. C = B \ {t} /\ t \notin C
  OBVIOUS
<1> HIDE DEF C
<1>3. /\ IsFiniteSet(C \union {t})
      /\ Cardinality(C \union {t}) = Cardinality(C) + 1
  BY <1>1, <1>2, FS_AddElement
<1>4. B = IF t \in B THEN C \union {t} ELSE C
  BY <1>2
<1>5. /\ IsFiniteSet(B)
      /\ Cardinality(B) = IF t \in B THEN Cardinality(C) + 1 ELSE Cardinality(C)
  BY <1>1, <1>3, <1>4
<1>6. Cardinality(A) \in Nat /\ Cardinality(B) \in Nat /\ Cardinality(C) \in Nat
  BY <1>1, <1>5, FS_CardinalityType
<1> QED
  BY <1>1, <1>5, <1>6 DEF In

LEMMA CardApart ==
    ASSUME NEW A, NEW B, IsFiniteSet(A), IsFiniteSet(B), A \intersect B = {}
    PROVE  Cardinality(A \union B) = Cardinality(A) + Cardinality(B)
<1>1. Cardinality(A \union B)
        = Cardinality(A) + Cardinality(B) - Cardinality(A \intersect B)
  BY FS_Union
<1>2. Cardinality(A \intersect B) = 0
  BY FS_EmptySet
<1>3. Cardinality(A) \in Nat /\ Cardinality(B) \in Nat
  BY FS_CardinalityType
<1> QED
  BY <1>1, <1>2, <1>3

Dup(p, t)   == pc[t] \in {"lookup", "dead"} /\ hand[p][t] = NULL
Calls(p, t) == pc[t] = "pull" \/ Dup(p, t)
Wakes(p, t) == pc[t] \in {"check", "pull", "exited"} \/ Dup(p, t)

Called(p) == {t \in ThreadsOf(p) : Calls(p, t)}
Waked(p)  == {t \in ThreadsOf(p) : Wakes(p, t)}
Posting   == {w \in Worker : pc[w] = "post"}

Balanced(p) ==
    sem[p] + Cardinality(Waked(p)) + Unposted(p)
      = Len(filled[p]) + Cardinality(lost[p]) + ExitPosts(p)

Entitled(p) == Cardinality(Called(p)) <= Len(filled[p]) + Cardinality(lost[p])

ExitPhase ==
    /\ threadexit[Unproc] <=> pc[Main] \in {"post1", "exit2", "post2", "done"}
    /\ threadexit[Proced] <=> pc[Main] \in {"post2", "done"}

PoolInv(p) == Balanced(p) /\ Entitled(p) /\ (Duped(p) # {} => lost[p] # {})

TokenInv == ExitPhase /\ \A p \in Pool : PoolInv(p)

LEMMA FinitePools ==
    ASSUME NEW p \in Pool
    PROVE  /\ IsFiniteSet(ThreadsOf(p))
           /\ IsFiniteSet(Buffer) /\ Cardinality(Buffer) = EmptyCapacity
<1>1. IsFiniteSet(ThreadsOf(p))
  BY ThreadAssumption DEF ThreadsOf
<1>2. Buffer = 1 .. EmptyCapacity /\ EmptyCapacity \in Nat
  BY PoolOvercommitted, PoolSizes
<1>3. /\ IsFiniteSet(1 .. EmptyCapacity)
      /\ Cardinality(1 .. EmptyCapacity)
           = IF 1 > EmptyCapacity THEN 0 ELSE EmptyCapacity - 1 + 1
  BY <1>2, FS_Interval
<1> QED
  BY <1>1, <1>2, <1>3

LEMMA FiniteParts ==
    ASSUME NEW p \in Pool
    PROVE  /\ IsFiniteSet(Called(p)) /\ IsFiniteSet(Waked(p)) /\ IsFiniteSet(Duped(p))
           /\ IsFiniteSet(Woken(p)) /\ IsFiniteSet(Exited(p)) /\ IsFiniteSet(Posting)
<1>1. IsFiniteSet(ThreadsOf(p)) /\ IsFiniteSet(Worker)
  BY FinitePools, ThreadAssumption
<1>2. \A S \in SUBSET ThreadsOf(p) : IsFiniteSet(S)
  BY <1>1, FS_Subset
<1>3. \A S \in SUBSET Worker : IsFiniteSet(S)
  BY <1>1, FS_Subset
<1>4. /\ Called(p) \subseteq ThreadsOf(p) /\ Waked(p) \subseteq ThreadsOf(p)
      /\ Duped(p) \subseteq ThreadsOf(p) /\ Woken(p) \subseteq ThreadsOf(p)
      /\ Exited(p) \subseteq ThreadsOf(p) /\ Posting \subseteq Worker
  BY DEF Called, Waked, Duped, Woken, Exited, Posting
<1> QED
  BY <1>2, <1>3, <1>4

\* The sum TokensMatch makes is the one Balanced makes.
LEMMA WakedSum ==
    ASSUME NEW p \in Pool
    PROVE  Cardinality(Waked(p)) = Cardinality(Woken(p)) + Cardinality(Duped(p))
                                     + Cardinality(Exited(p))
<1>1. /\ Waked(p) = (Woken(p) \union Duped(p)) \union Exited(p)
      /\ Woken(p) \intersect Duped(p) = {}
      /\ (Woken(p) \union Duped(p)) \intersect Exited(p) = {}
  BY DEF Waked, Wakes, Dup, Woken, Duped, Exited
<1>2. IsFiniteSet(Woken(p)) /\ IsFiniteSet(Duped(p)) /\ IsFiniteSet(Exited(p))
  BY FiniteParts
<1>3. Cardinality(Woken(p) \union Duped(p))
        = Cardinality(Woken(p)) + Cardinality(Duped(p))
  BY <1>1, <1>2, CardApart
<1>4. IsFiniteSet(Woken(p) \union Duped(p))
  BY <1>2, FS_Union
<1>5. Cardinality(Waked(p))
        = Cardinality(Woken(p) \union Duped(p)) + Cardinality(Exited(p))
  BY <1>1, <1>2, <1>4, CardApart
<1> QED
  BY <1>3, <1>5

LEMMA CalledFew ==
    ASSUME NEW p \in Pool
    PROVE  /\ Cardinality(Called(p)) <= Cardinality(Waked(p))
           /\ Cardinality(Called(p)) \in Nat /\ Cardinality(Waked(p)) \in Nat
<1>1. Called(p) \in SUBSET Waked(p)
  BY DEF Called, Waked, Calls, Wakes
<1>2. IsFiniteSet(Called(p)) /\ IsFiniteSet(Waked(p))
  BY FiniteParts
<1> QED
  BY <1>1, <1>2, FS_Subset, FS_CardinalityType

Stock(p) == Len(filled[p]) + Cardinality(lost[p])

LEMMA StockType ==
    ASSUME QueuesOK, NEW p \in Pool
    PROVE  /\ IsFiniteSet(lost[p]) /\ Cardinality(lost[p]) \in Nat
           /\ Len(filled[p]) \in Nat /\ Stock(p) \in Nat
<1>1. lost[p] \in SUBSET Buffer /\ filled[p] \in Seq(Buffer)
  BY DEF QueuesOK
<1>2. IsFiniteSet(lost[p])
  BY <1>1, FinitePools, FS_Subset
<1>3. Cardinality(lost[p]) \in Nat
  BY <1>2, FS_CardinalityType
<1>4. Len(filled[p]) \in Nat
  BY <1>1
<1> QED
  BY <1>2, <1>3, <1>4 DEF Stock

\* A queue without repetitions holds no more than there is to hold.
LEMMA NoRepeatsFit ==
    ASSUME NEW T, IsFiniteSet(T), NEW q \in Seq(T), NoRepeats(q)
    PROVE  Len(q) <= Cardinality(T)
<1>1. Len(q) \in Nat /\ q \in [1 .. Len(q) -> T]
  OBVIOUS
<1>2. IsFiniteSet(1 .. Len(q)) /\ Cardinality(1 .. Len(q)) = Len(q)
  <2>1. /\ IsFiniteSet(1 .. Len(q))
        /\ Cardinality(1 .. Len(q)) = IF 1 > Len(q) THEN 0 ELSE Len(q) - 1 + 1
    BY <1>1, FS_Interval
  <2> QED
    BY <1>1, <2>1
<1>3. Cardinality(T) \in Nat
  BY FS_CardinalityType
<1>4. ASSUME Cardinality(T) < Len(q)
      PROVE  FALSE
  <2>1. Cardinality(T) < Cardinality(1 .. Len(q))
    BY <1>2, <1>4
  <2>2. PICK j, k \in 1 .. Len(q) : j # k /\ q[j] = q[k]
    BY <1>1, <1>2, <2>1, FS_PigeonHole
  <2> QED
    BY <2>2 DEF NoRepeats
<1> QED
  BY <1>1, <1>3, <1>4

\* The queue of empty buffers has room for every buffer a thread can give back:
\* only a push into the filled queue can be refused.
LEMMA EmptyRoom ==
    ASSUME IInv, OneOwner, NEW p \in Pool, NEW t \in Thread, Holds(p, t)
    PROVE  ~Refused(empty[p], EmptyCapacity)
<1> DEFINE b == hand[p][t]
           T == Buffer \ {b}
<1>1. empty[p] \in Seq(Buffer) /\ b \in Buffer
  BY DEF IInv, QueuesOK, Holds
<1>2. NoRepeats(empty[p]) /\ b \notin Range(empty[p])
  BY DEF OneOwner, Owned
<1>3. IsFiniteSet(T) /\ Cardinality(T) = EmptyCapacity - 1
  BY <1>1, FinitePools, FS_RemoveElement
<1>4. empty[p] \in Seq(T)
  <2>1. \A k \in 1 .. Len(empty[p]) : empty[p][k] \in Range(empty[p])
    BY <1>1 DEF Range
  <2>2. \A k \in 1 .. Len(empty[p]) : empty[p][k] \in T
    BY <1>1, <1>2, <2>1
  <2>3. Len(empty[p]) \in Nat /\ empty[p] = [k \in 1 .. Len(empty[p]) |-> empty[p][k]]
    BY <1>1
  <2> QED
    BY <2>2, <2>3
<1> HIDE DEF T
<1>5. Len(empty[p]) <= EmptyCapacity - 1
  BY <1>2, <1>3, <1>4, NoRepeatsFit
<1>6. Len(empty[p]) \in Nat
  BY <1>1
<1> QED
  BY <1>5, <1>6, PoolSizes DEF Refused

\* The queues, the dropped buffers and the sum of the two after each call.
LEMMA PullFilledStock ==
    ASSUME QueuesOK, NEW p \in Pool, NEW t \in Thread, PullFilled(p, t)
    PROVE  /\ \A r \in Pool \ {p} : filled'[r] = filled[r] /\ lost'[r] = lost[r]
           /\ lost'[p] = lost[p]
           /\ filled'[p] = Rest(filled[p])
           /\ hand'[p][t] = Pulled(filled[p])
           /\ filled[p] = <<>> => Stock(p)' = Stock(p) /\ hand'[p][t] = NULL
           /\ filled[p] # <<>> => Stock(p)' = Stock(p) - 1 /\ hand'[p][t] # NULL
<1>1. /\ \A r \in Pool \ {p} : filled'[r] = filled[r] /\ lost'[r] = lost[r]
      /\ lost'[p] = lost[p] /\ filled'[p] = Rest(filled[p])
      /\ hand'[p][t] = Pulled(filled[p])
  BY PullFilledType DEF QueuesOK, PullFilled
<1>2. filled[p] \in Seq(Buffer)
  BY DEF QueuesOK
<1>3. CASE filled[p] = <<>>
  BY <1>1, <1>3 DEF Stock, Rest, Pulled
<1>4. CASE filled[p] # <<>>
  <2>1. Len(Rest(filled[p])) = Len(filled[p]) - 1 /\ Pulled(filled[p]) \in Buffer
    BY <1>2, <1>4 DEF Rest, Pulled
  <2>2. Cardinality(lost[p]) \in Nat /\ Len(filled[p]) \in Nat
    BY StockType
  <2> QED
    BY <1>1, <1>4, <2>1, <2>2, BufferFacts DEF Stock
<1> QED
  BY <1>1, <1>3, <1>4

LEMMA PullEmptyStock ==
    ASSUME QueuesOK, NEW p \in Pool, NEW t \in Thread, PullEmpty(p, t)
    PROVE  \A r \in Pool : filled'[r] = filled[r] /\ lost'[r] = lost[r]
  BY DEF PullEmpty

LEMMA PushEmptyStock ==
    ASSUME IInv, OneOwner, NEW p \in Pool, NEW t \in Thread, Holds(p, t), PushEmpty(p, t)
    PROVE  /\ \A r \in Pool : filled'[r] = filled[r] /\ lost'[r] = lost[r]
           /\ hand'[p][t] = NULL
<1>1. ~Refused(empty[p], EmptyCapacity)
  BY EmptyRoom
<1>2. filled' = filled /\ lost' = lost
  BY <1>1 DEF PushEmpty, Drop
<1>3. hand'[p][t] = NULL
  BY PushEmptyType DEF IInv
<1> QED
  BY <1>2, <1>3

LEMMA PushFilledStock ==
    ASSUME IInv, OneOwner, NEW p \in Pool, NEW t \in Thread, Holds(p, t), PushFilled(p, t)
    PROVE  /\ \A r \in Pool \ {p} : filled'[r] = filled[r] /\ lost'[r] = lost[r]
           /\ lost[p] \subseteq lost'[p]
           /\ Stock(p)' = Stock(p) + 1
           /\ hand'[p][t] = NULL
           /\ Range(filled'[p]) \subseteq Range(filled[p]) \union {hand[p][t]}
<1> DEFINE b == hand[p][t]
<1>1. /\ filled \in [Pool -> Seq(Buffer)] /\ lost \in [Pool -> SUBSET Buffer]
      /\ b \in Buffer
  BY DEF IInv, QueuesOK, Holds
<1>2. /\ filled' = [filled EXCEPT ![p] = Pushed(filled[p], FilledCapacity, b)]
      /\ lost' = IF Refused(filled[p], FilledCapacity)
                 THEN [lost EXCEPT ![p] = lost[p] \union {b}] ELSE lost
  BY DEF PushFilled, Drop
<1>3. hand'[p][t] = NULL
  BY PushFilledType DEF IInv
<1>4. b \notin Range(filled[p]) /\ b \notin lost[p] /\ NoRepeats(filled[p])
  BY DEF OneOwner, Owned
<1>5. Cardinality(lost[p]) \in Nat /\ Len(filled[p]) \in Nat /\ IsFiniteSet(lost[p])
  BY StockType DEF IInv
<1>6. CASE Refused(filled[p], FilledCapacity)
  <2>1. lost'[p] = lost[p] \union {b} /\ filled'[p] = filled[p]
    BY <1>1, <1>2, <1>6 DEF Pushed
  <2>2. Cardinality(lost[p] \union {b}) = Cardinality(lost[p]) + 1
    BY <1>4, <1>5, FS_AddElement
  <2>3. \A r \in Pool \ {p} : filled'[r] = filled[r] /\ lost'[r] = lost[r]
    BY <1>1, <1>2, <1>6
  <2> QED
    BY <1>3, <1>5, <2>1, <2>2, <2>3 DEF Stock
<1>7. CASE ~Refused(filled[p], FilledCapacity)
  <2>1. lost' = lost /\ filled'[p] = Append(filled[p], b)
    BY <1>1, <1>2, <1>7 DEF Pushed
  <2>2. Len(Append(filled[p], b)) = Len(filled[p]) + 1
    BY <1>1
  <2>3. Range(Append(filled[p], b)) = Range(filled[p]) \union {b}
    BY <1>1, <1>4, AppendRange
  <2>4. \A r \in Pool \ {p} : filled'[r] = filled[r]
    BY <1>1, <1>2
  <2> QED
    BY <1>3, <1>5, <2>1, <2>2, <2>3, <2>4 DEF Stock
<1> QED
  BY <1>6, <1>7

\* A step of thread t, seen from the rest of the program.
Alone(t) ==
    \A u \in Thread \ {t} :
        /\ pc'[u] = pc[u]
        /\ \A r \in Pool : hand'[r][u] = hand[r][u]

LEMMA GotoAlone ==
    ASSUME PcsOK, NEW t \in Thread, NEW p \in Pool, HandOnly(p, t),
           NEW from, NEW to, Goto(t, from, to)
    PROVE  Alone(t) /\ pc[t] = from /\ pc'[t] = to
<1>1. pc[t] = from /\ pc'[t] = to /\ \A u \in Thread \ {t} : pc'[u] = pc[u]
  BY DEF PcsOK, Goto
<1> QED
  BY <1>1 DEF Alone, HandOnly

LEMMA StillHands ==
    ASSUME UNCHANGED queues, NEW t
    PROVE  /\ \A p \in Pool : HandOnly(p, t)
           /\ \A p \in Pool : filled'[p] = filled[p] /\ lost'[p] = lost[p]
           /\ hand' = hand
  BY DEF queues, HandOnly

\* The pool threads are counted again: only t can be counted differently.
LEMMA Recount ==
    ASSUME NEW t \in Thread, Alone(t), NEW p \in Pool
    PROVE  /\ Cardinality(Waked(p)') + In(t, Waked(p))
                = Cardinality(Waked(p)) + In(t, Waked(p)')
           /\ Cardinality(Called(p)') + In(t, Called(p))
                = Cardinality(Called(p)) + In(t, Called(p)')
           /\ Duped(p)' \ {t} = Duped(p) \ {t}
           /\ Cardinality(Posting') + In(t, Posting) = Cardinality(Posting) + In(t, Posting')
           /\ Cardinality(Waked(p)) \in Nat /\ Cardinality(Waked(p)') \in Nat
           /\ Cardinality(Called(p)) \in Nat /\ Cardinality(Called(p)') \in Nat
           /\ Cardinality(Posting) \in Nat /\ Cardinality(Posting') \in Nat
<1>1. ThreadsOf(p) \subseteq Thread /\ Worker \subseteq Thread
  BY ThreadFacts DEF ThreadsOf
<1>2. \A u \in ThreadsOf(p) \ {t} : pc'[u] = pc[u] /\ hand'[p][u] = hand[p][u]
  BY <1>1 DEF Alone
<1>3. Waked(p) \ {t} = Waked(p)' \ {t}
  BY <1>2 DEF Waked, Wakes, Dup
<1>4. Called(p) \ {t} = Called(p)' \ {t}
  BY <1>2 DEF Called, Calls, Dup
<1>5. Duped(p)' \ {t} = Duped(p) \ {t}
  BY <1>2 DEF Duped
<1>6. Posting \ {t} = Posting' \ {t}
  BY <1>1 DEF Alone, Posting
<1>7. IsFiniteSet(Waked(p)) /\ IsFiniteSet(Called(p)) /\ IsFiniteSet(Posting)
  BY FiniteParts
<1> QED
  BY <1>3, <1>4, <1>5, <1>6, <1>7, CardMove

\* What a step that changes none of the counts of a pool keeps.
LEMMA PoolSame ==
    ASSUME NEW t \in Thread, Alone(t), NEW p \in Pool, PoolInv(p),
           t \in ThreadsOf(p) => /\ Wakes(p, t)' <=> Wakes(p, t)
                                 /\ Calls(p, t)' <=> Calls(p, t)
                                 /\ Dup(p, t)' <=> Dup(p, t),
           sem'[p] = sem[p], filled'[p] = filled[p], lost'[p] = lost[p],
           Unposted(p)' = Unposted(p), ExitPosts(p)' = ExitPosts(p)
    PROVE  PoolInv(p)'
<1>1. t \in Waked(p)' <=> t \in Waked(p)
  BY DEF Waked
<1>2. t \in Called(p)' <=> t \in Called(p)
  BY DEF Called
<1>3. t \in Duped(p)' <=> t \in Duped(p)
  BY DEF Duped, Dup
<1>4. Duped(p)' = Duped(p)
  BY <1>3, Recount
<1>5. /\ Cardinality(Waked(p)') = Cardinality(Waked(p))
      /\ Cardinality(Called(p)') = Cardinality(Called(p))
  BY <1>1, <1>2, Recount DEF In
<1>6. Balanced(p)'
  BY <1>5 DEF PoolInv, Balanced
<1>7. Entitled(p)'
  BY <1>5 DEF PoolInv, Entitled
<1> QED
  BY <1>4, <1>6, <1>7 DEF PoolInv

\* A step of a pool thread makes no post of the main thread due or done, and
\* only at "post" one of its own.
LEMMA PostsSame ==
    ASSUME NEW t \in PoolThread, Alone(t), NEW p \in Pool, UNCHANGED posted
    PROVE  /\ ExitPosts(p)' = ExitPosts(p)
           /\ Unposted(Unproc)' = Unposted(Unproc)
           /\ t \in Sender => Unposted(Proced)' = Unposted(Proced)
           /\ (pc[t] = "post" <=> pc'[t] = "post") => Unposted(Proced)' = Unposted(Proced)
<1>1. t \in Thread /\ t # Main /\ pc'[Main] = pc[Main]
  BY ThreadFacts DEF PoolThread, Alone
<1>2. ExitPosts(p)' = ExitPosts(p)
  BY <1>1 DEF ExitPosts
<1>3. Unposted(Unproc)' = Unposted(Unproc)
  BY <1>1 DEF Unposted
<1>4. Unposted(Proced) = Cardinality(Posting) /\ Unposted(Proced)' = Cardinality(Posting')
  BY PoolThreads DEF Unposted, Posting
<1>5. ASSUME t \in Sender
      PROVE  t \notin Posting /\ t \notin Posting'
  BY <1>5, ThreadFacts DEF Posting
<1>6. ASSUME pc[t] = "post" <=> pc'[t] = "post"
      PROVE  t \in Posting <=> t \in Posting'
  BY <1>6 DEF Posting
<1> QED
  BY <1>1, <1>2, <1>3, <1>4, <1>5, <1>6, Recount, PoolThreads DEF In

LEMMA PhaseSame ==
    ASSUME NEW t \in PoolThread, Alone(t), ExitPhase, UNCHANGED threadexit
    PROVE  ExitPhase'
<1>1. pc'[Main] = pc[Main]
  BY ThreadFacts DEF PoolThread, Alone
<1> QED
  BY <1>1 DEF ExitPhase

\* A step of a pool thread that changes none of the counts of any pool.
LEMMA QuietStep ==
    ASSUME NEW t \in PoolThread, Alone(t), TokenInv, UNCHANGED exits,
           sem' = sem, \A r \in Pool : filled'[r] = filled[r] /\ lost'[r] = lost[r],
           pc[t] = "post" <=> pc'[t] = "post",
           Wakes(PoolOf(t), t)' <=> Wakes(PoolOf(t), t),
           Calls(PoolOf(t), t)' <=> Calls(PoolOf(t), t),
           Dup(PoolOf(t), t)' <=> Dup(PoolOf(t), t)
    PROVE  TokenInv'
<1>1. threadexit' = threadexit /\ posted' = posted /\ t \in Thread
  BY ThreadFacts DEF exits, PoolThread
<1>2. \A p \in Pool : t \in ThreadsOf(p) => p = PoolOf(t)
  BY PoolThreads, ThreadFacts
<1>3. ASSUME NEW p \in Pool
      PROVE  PoolInv(p)'
  <2>1. Unposted(p)' = Unposted(p) /\ ExitPosts(p)' = ExitPosts(p)
    BY <1>1, PostsSame, PoolThreads
  <2> QED
    BY <1>1, <1>2, <2>1, PoolSame DEF TokenInv
<1> QED
  BY <1>1, <1>3, PhaseSame DEF TokenInv

\* The rounds of the pool threads: wait, check, pull.
LEMMA RoundTokens ==
    ASSUME IInv, TokenInv, NEW t \in PoolThread,
           Wait(t) \/ CheckExit(t) \/ Pull(t) \/ LookupDies(t)
    PROVE  TokenInv'
<1> DEFINE p == PoolOf(t)
<1>1. /\ QueuesOK /\ PcsOK /\ RestOK /\ t \in Thread /\ t # Main /\ p \in Pool
      /\ t \in ThreadsOf(p) /\ \A r \in Pool \ {p} : t \notin ThreadsOf(r)
  BY ThreadFacts, PoolThreads DEF IInv, PoolThread
<1>2. PoolInv(p) /\ ExitPhase /\ \A r \in Pool : PoolInv(r)
  BY <1>1 DEF TokenInv
<1>3. Stock(p) \in Nat /\ sem[p] \in Nat /\ Unposted(p) \in Nat /\ ExitPosts(p) \in Nat
  <2>1. Stock(p) \in Nat /\ sem[p] \in Nat
    BY <1>1, StockType DEF RestOK
  <2>2. Cardinality(Posting) \in Nat /\ Cardinality(ThreadsOf(p)) \in Nat
    BY <1>1, FiniteParts, FinitePools, FS_CardinalityType
  <2> QED
    BY <1>1, <2>1, <2>2 DEF Unposted, ExitPosts, Posting, RestOK
<1> HIDE DEF p
<1>4. ASSUME Alone(t), UNCHANGED <<threadexit, posted>>, pc[t] # "post", pc'[t] # "post",
             \A r \in Pool \ {p} : /\ sem'[r] = sem[r] /\ filled'[r] = filled[r]
                                   /\ lost'[r] = lost[r],
             PoolInv(p)'
      PROVE  TokenInv'
  <2>1. \A r \in Pool : Unposted(r)' = Unposted(r) /\ ExitPosts(r)' = ExitPosts(r)
    BY <1>4, PostsSame, PoolThreads
  <2>2. ASSUME NEW r \in Pool \ {p}
        PROVE  PoolInv(r)'
    BY <1>1, <1>2, <1>4, <2>1, PoolSame
  <2> QED
    BY <1>2, <1>4, <2>2, PhaseSame DEF TokenInv
<1>5. CASE Wait(t)
  <2>1. /\ Goto(t, "wait", "check") /\ sem[p] > 0
        /\ sem' = [sem EXCEPT ![p] = sem[p] - 1]
        /\ UNCHANGED queues /\ UNCHANGED <<threadexit, posted>>
    BY <1>5 DEF Wait, exits, p
  <2>2. Alone(t) /\ pc[t] = "wait" /\ pc'[t] = "check"
    BY <1>1, <2>1, StillHands, GotoAlone
  <2>3. filled' = filled /\ lost' = lost
    BY <2>1 DEF queues
  <2>4. sem'[p] = sem[p] - 1 /\ \A r \in Pool \ {p} : sem'[r] = sem[r]
    BY <1>1, <2>1 DEF RestOK
  <2>5. /\ t \notin Waked(p) /\ t \in Waked(p)'
        /\ t \notin Called(p) /\ t \notin Called(p)' /\ Duped(p)' = Duped(p)
    <3>1. /\ t \notin Waked(p) /\ t \in Waked(p)'
          /\ t \notin Called(p) /\ t \notin Called(p)'
          /\ t \notin Duped(p) /\ t \notin Duped(p)'
      BY <1>1, <2>2 DEF Waked, Wakes, Called, Calls, Duped, Dup
    <3> QED
      BY <1>1, <2>2, <3>1, Recount
  <2>6. /\ Cardinality(Waked(p)') = Cardinality(Waked(p)) + 1
        /\ Cardinality(Called(p)') = Cardinality(Called(p))
        /\ Cardinality(Waked(p)) \in Nat
    BY <1>1, <2>2, <2>5, Recount DEF In
  <2>7. Unposted(p)' = Unposted(p) /\ ExitPosts(p)' = ExitPosts(p)
    BY <1>1, <2>1, <2>2, PostsSame, PoolThreads
  <2>8. PoolInv(p)'
    BY <1>2, <1>3, <2>3, <2>4, <2>5, <2>6, <2>7 DEF PoolInv, Balanced, Entitled
  <2> QED
    BY <1>4, <2>1, <2>2, <2>3, <2>4, <2>8
<1>6. CASE CheckExit(t)
  <2>1. /\ Goto(t, "check", IF threadexit[p] THEN "exited" ELSE "pull")
        /\ UNCHANGED queues /\ UNCHANGED <<threadexit, posted>> /\ sem' = sem
    BY <1>6 DEF CheckExit, exits, p
  <2>2. /\ Alone(t) /\ pc[t] = "check"
        /\ pc'[t] = IF threadexit[p] THEN "exited" ELSE "pull"
    BY <1>1, <2>1, StillHands, GotoAlone
  <2>3. filled' = filled /\ lost' = lost /\ hand' = hand
    BY <2>1 DEF queues
  <2>4. t \in Waked(p) /\ t \in Waked(p)' /\ t \notin Duped(p) /\ t \notin Duped(p)'
    BY <1>1, <2>2 DEF Waked, Wakes, Duped
  <2>5. /\ Cardinality(Waked(p)') = Cardinality(Waked(p)) /\ Duped(p)' = Duped(p)
        /\ Cardinality(Waked(p)) \in Nat
    <3>1. Duped(p)' \ {t} = Duped(p) \ {t}
      BY <1>1, <2>2, Recount
    <3>2. Duped(p)' = Duped(p)
      BY <2>4, <3>1
    <3>3. Cardinality(Waked(p)') = Cardinality(Waked(p)) /\ Cardinality(Waked(p)) \in Nat
      BY <1>1, <2>2, <2>4, Recount DEF In
    <3> QED
      BY <3>2, <3>3
  <2>6. Unposted(p)' = Unposted(p) /\ ExitPosts(p)' = ExitPosts(p)
    BY <1>1, <2>1, <2>2, PostsSame, PoolThreads
  <2>7. Balanced(p)'
    BY <1>2, <2>1, <2>3, <2>5, <2>6 DEF PoolInv, Balanced
  <2>8. Entitled(p)'
    <3>1. CASE threadexit[p]
      <4>1. t \notin Called(p) /\ t \notin Called(p)'
        BY <2>2, <3>1 DEF Called, Calls, Dup
      <4>2. Cardinality(Called(p)') = Cardinality(Called(p))
        BY <1>1, <2>2, <4>1, Recount DEF In
      <4> QED
        BY <1>2, <2>3, <4>2 DEF PoolInv, Entitled
    <3>2. CASE ~threadexit[p]
      <4>1. ExitPosts(p) = 0
        BY <1>1, <1>2, <3>2, PoolThreads DEF ExitPhase, ExitPosts
      <4>2. Called(p)' \in SUBSET (Waked(p)')
        BY DEF Called, Waked, Calls, Wakes
      <4>3. IsFiniteSet(Waked(p)')
        <5>1. IsFiniteSet(Waked(p)) /\ Waked(p)' \ {t} = Waked(p) \ {t}
          BY <1>1, <2>2, FiniteParts, ThreadFacts DEF Alone, Waked, Wakes, Dup, ThreadsOf
        <5> QED
          BY <5>1, CardMove
      <4>4. Cardinality(Called(p)') <= Cardinality(Waked(p)')
        BY <4>2, <4>3, FS_Subset
      <4>5. Cardinality(Called(p)') \in Nat
        BY <1>1, <2>2, Recount
      <4>6. /\ Cardinality(Waked(p)) <= Stock(p)
        BY <1>2, <1>3, <2>5, <4>1 DEF PoolInv, Balanced, Stock
      <4>7. Stock(p)' = Stock(p)
        BY <2>3 DEF Stock
      <4> QED
        BY <1>3, <2>5, <4>4, <4>5, <4>6, <4>7 DEF Entitled, Stock
    <3> QED
      BY <3>1, <3>2
  <2>9. PoolInv(p)'
    BY <1>2, <2>3, <2>5, <2>7, <2>8 DEF PoolInv
  <2> QED
    BY <1>4, <2>1, <2>2, <2>3, <2>9
<1>7. CASE Pull(t)
  <2>1. /\ Goto(t, "pull", "lookup") /\ PullFilled(p, t)
        /\ UNCHANGED <<threadexit, posted>> /\ sem' = sem
    BY <1>7 DEF Pull, exits, p
  <2>2. Alone(t) /\ pc[t] = "pull" /\ pc'[t] = "lookup"
    BY <1>1, <2>1, PullFilledType, GotoAlone
  <2>3. /\ \A r \in Pool \ {p} : filled'[r] = filled[r] /\ lost'[r] = lost[r]
        /\ lost'[p] = lost[p]
        /\ filled[p] = <<>> => Stock(p)' = Stock(p) /\ hand'[p][t] = NULL
        /\ filled[p] # <<>> => Stock(p)' = Stock(p) - 1 /\ hand'[p][t] # NULL
    BY <1>1, <2>1, PullFilledStock
  <2>4. /\ t \in Waked(p) /\ t \in Called(p) /\ t \notin Duped(p)
        /\ Cardinality(Waked(p)) \in Nat /\ Cardinality(Called(p)) \in Nat
        /\ Cardinality(Waked(p)') \in Nat /\ Cardinality(Called(p)') \in Nat
    BY <1>1, <2>2, Recount DEF Waked, Wakes, Called, Calls, Duped
  <2>5. Unposted(p)' = Unposted(p) /\ ExitPosts(p)' = ExitPosts(p)
    BY <1>1, <2>1, <2>2, PostsSame, PoolThreads
  <2>6. CASE filled[p] = <<>>
    <3>1. t \in Waked(p)' /\ t \in Called(p)'
      BY <1>1, <2>2, <2>3, <2>6 DEF Waked, Wakes, Called, Calls, Dup
    <3>2. /\ Cardinality(Waked(p)') = Cardinality(Waked(p))
          /\ Cardinality(Called(p)') = Cardinality(Called(p))
      BY <1>1, <2>2, <2>4, <3>1, Recount DEF In
    <3>3. lost[p] # {}
      <4>1. Cardinality(Called(p)) # 0
        BY <1>1, <2>4, FiniteParts, FS_EmptySet
      <4>2. Len(filled[p]) = 0
        BY <2>6
      <4>3. Cardinality(lost[p]) # 0
        BY <1>1, <1>2, <2>4, <4>1, <4>2, StockType DEF PoolInv, Entitled
      <4> QED
        BY <4>3, FS_EmptySet
    <3>4. Balanced(p)' /\ Entitled(p)'
      BY <1>2, <1>3, <2>1, <2>3, <2>5, <2>6, <3>2 DEF PoolInv, Balanced, Entitled, Stock
    <3>5. PoolInv(p)'
      BY <2>3, <3>3, <3>4 DEF PoolInv
    <3> QED
      BY <1>4, <2>1, <2>2, <2>3, <3>5
  <2>7. CASE filled[p] # <<>>
    <3>1. t \notin Waked(p)' /\ t \notin Called(p)' /\ t \notin Duped(p)'
      BY <1>1, <2>2, <2>3, <2>7 DEF Waked, Wakes, Called, Calls, Dup, Duped
    <3>2. /\ Cardinality(Waked(p)') = Cardinality(Waked(p)) - 1
          /\ Cardinality(Called(p)') = Cardinality(Called(p)) - 1
      BY <1>1, <2>2, <2>4, <3>1, Recount DEF In
    <3>3. Duped(p)' = Duped(p)
      <4>1. Duped(p)' \ {t} = Duped(p) \ {t}
        BY <1>1, <2>2, Recount
      <4> QED
        BY <2>4, <3>1, <4>1
    <3>4. Balanced(p)'
      <4>1. sem[p] + Cardinality(Waked(p)) + Unposted(p) = Stock(p) + ExitPosts(p)
        BY <1>1, <1>2, StockType DEF PoolInv, Balanced, Stock
      <4>2. sem'[p] = sem[p] /\ Stock(p)' = Stock(p) - 1
        BY <2>1, <2>3, <2>7
      <4>3. sem'[p] + Cardinality(Waked(p)') + Unposted(p)' = Stock(p)' + ExitPosts(p)'
        BY <1>3, <2>4, <2>5, <3>2, <4>1, <4>2
      <4> QED
        BY <4>3 DEF Balanced, Stock
    <3>5. Entitled(p)'
      <4>1. Cardinality(Called(p)) <= Stock(p)
        BY <1>2 DEF PoolInv, Entitled, Stock
      <4>2. Cardinality(Called(p)') <= Stock(p)'
        BY <1>3, <2>3, <2>4, <2>7, <3>2, <4>1
      <4> QED
        BY <4>2 DEF Entitled, Stock
    <3>6. PoolInv(p)'
      BY <1>2, <2>3, <3>3, <3>4, <3>5 DEF PoolInv
    <3> QED
      BY <1>4, <2>1, <2>2, <2>3, <3>6
  <2> QED
    BY <2>6, <2>7
<1>8. CASE LookupDies(t)
  <2>1. Goto(t, "lookup", "dead") /\ UNCHANGED queues /\ UNCHANGED exits /\ sem' = sem
    BY <1>8 DEF LookupDies, Die
  <2>2. Alone(t) /\ pc[t] = "lookup" /\ pc'[t] = "dead"
    BY <1>1, <2>1, StillHands, GotoAlone
  <2>3. /\ \A r \in Pool : filled'[r] = filled[r] /\ lost'[r] = lost[r]
        /\ hand' = hand
    BY <2>1, StillHands
  <2>4. /\ Wakes(p, t)' <=> Wakes(p, t)
        /\ Calls(p, t)' <=> Calls(p, t)
        /\ Dup(p, t)' <=> Dup(p, t)
    BY <2>2, <2>3 DEF Wakes, Calls, Dup
  <2> QED
    BY <2>1, <2>2, <2>3, <2>4, QuietStep DEF p
<1> QED
  BY <1>5, <1>6, <1>7, <1>8

\* What a worker does between its pull and its next wait: only its push of an
\* answer and the post after it are counted, in the pool of the senders.
LEMMA WorkerTokens ==
    ASSUME IInv, OneOwner, TokenInv, NEW w \in Worker, WorkerStep(w)
    PROVE  TokenInv'
<1> USE ThreadFacts
<1>1. /\ QueuesOK /\ PcsOK /\ RestOK /\ WorkerHand(w) /\ w \in PoolThread
      /\ w \in Thread /\ w # Main /\ PoolOf(w) = Unproc /\ w \notin ThreadsOf(Proced)
  BY PoolThreads DEF IInv, HandsOK, PoolThread
<1>2. CASE Wait(w) \/ CheckExit(w) \/ Pull(w) \/ LookupDies(w)
  BY <1>1, <1>2, RoundTokens
\* A step between two places where the worker has no token.
<1>3. ASSUME Alone(w), UNCHANGED exits, sem' = sem,
             \A r \in Pool : filled'[r] = filled[r] /\ lost'[r] = lost[r],
             pc[w] # "post", pc'[w] # "post",
             pc[w] \notin {"check", "pull", "exited"},
             pc'[w] \notin {"check", "pull", "exited"},
             pc[w] \in {"lookup", "dead"} => hand[Unproc][w] # NULL,
             pc'[w] \in {"lookup", "dead"} => hand'[Unproc][w] # NULL
      PROVE  TokenInv'
  <2>1. /\ Wakes(Unproc, w)' <=> Wakes(Unproc, w)
        /\ Calls(Unproc, w)' <=> Calls(Unproc, w)
        /\ Dup(Unproc, w)' <=> Dup(Unproc, w)
    BY <1>3 DEF Wakes, Calls, Dup
  <2> QED
    BY <1>1, <1>3, <2>1, QuietStep
\* ... which is no queue operation.
<1>4. ASSUME UNCHANGED queues, UNCHANGED exits, sem' = sem,
             NEW from \in {"lookup", "lookup_af", "process"},
             NEW to \in {"lookup_af", "pullout", "process", "putback", "dead"},
             Goto(w, from, to), hand[Unproc][w] # NULL
      PROVE  TokenInv'
  <2>1. Alone(w) /\ pc[w] = from /\ pc'[w] = to
    BY <1>1, <1>4, StillHands, GotoAlone
  <2>2. /\ \A r \in Pool : filled'[r] = filled[r] /\ lost'[r] = lost[r]
        /\ hand' = hand
    BY <1>4, StillHands
  <2> QED
    BY <1>3, <1>4, <2>1, <2>2
<1>5. pc[w] \in {"lookup_af", "process"} => hand[Unproc][w] # NULL
  BY <1>1, BufferFacts DEF WorkerHand, Holds
<1>6. CASE Lookup(w)
  BY <1>4, <1>6 DEF Lookup
<1>7. CASE LookupAsserts(w)
  BY <1>4, <1>7 DEF LookupAsserts, Die
<1>8. CASE LookupAf(w)
  <2>1. /\ Goto(w, "lookup_af", "pullout") \/ Goto(w, "lookup_af", "process")
        /\ UNCHANGED queues /\ UNCHANGED exits /\ sem' = sem
    BY <1>8 DEF LookupAf
  <2>2. pc[w] = "lookup_af"
    BY <2>1 DEF Goto
  <2> QED
    BY <1>4, <1>5, <2>1, <2>2
<1>9. CASE LookupAfDies(w)
  <2>1. /\ Goto(w, "lookup_af", "dead")
        /\ UNCHANGED queues /\ UNCHANGED exits /\ sem' = sem
    BY <1>9 DEF LookupAfDies, Die
  <2>2. pc[w] = "lookup_af"
    BY <2>1 DEF Goto
  <2> QED
    BY <1>4, <1>5, <2>1, <2>2
<1>10. CASE Process(w)
  <2>1. /\ Goto(w, "process", "putback")
        /\ UNCHANGED queues /\ UNCHANGED exits /\ sem' = sem
    BY <1>10 DEF Process
  <2>2. pc[w] = "process"
    BY <2>1 DEF Goto
  <2> QED
    BY <1>4, <1>5, <2>1, <2>2
<1>11. CASE ProcessDies(w)
  <2>1. /\ Goto(w, "process", "dead")
        /\ UNCHANGED queues /\ UNCHANGED exits /\ sem' = sem
    BY <1>11 DEF ProcessDies, Die
  <2>2. pc[w] = "process"
    BY <2>1 DEF Goto
  <2> QED
    BY <1>4, <1>5, <2>1, <2>2
<1>12. CASE PullOut(w)
  <2>1. /\ Goto(w, "pullout", "process") /\ PullEmpty(Proced, w)
        /\ UNCHANGED exits /\ sem' = sem
    BY <1>12 DEF PullOut
  <2>2. Alone(w) /\ pc[w] = "pullout" /\ pc'[w] = "process"
    BY <1>1, <2>1, PullEmptyType, GotoAlone
  <2>3. \A r \in Pool : filled'[r] = filled[r] /\ lost'[r] = lost[r]
    BY <1>1, <2>1, PullEmptyStock
  <2> QED
    BY <1>3, <2>1, <2>2, <2>3
<1>13. CASE PutBack(w)
  <2>1. /\ Goto(w, "putback", IF af[w] THEN "answer" ELSE "wait")
        /\ PushEmpty(Unproc, w) /\ UNCHANGED exits /\ sem' = sem
    BY <1>13 DEF PutBack
  <2>2. pc[w] = "putback"
    BY <2>1 DEF Goto
  <2>3. Holds(Unproc, w)
    BY <1>1, <2>2 DEF WorkerHand
  <2>4. HandOnly(Unproc, w) /\ \A r \in Pool : filled'[r] = filled[r] /\ lost'[r] = lost[r]
    BY <1>1, <2>1, <2>3, PushEmptyType, PushEmptyStock
  <2>5. Alone(w) /\ pc'[w] \in {"answer", "wait"}
    BY <1>1, <2>1, <2>4, GotoAlone
  <2> QED
    BY <1>3, <2>1, <2>2, <2>4, <2>5
<1>14. CASE DropAnswer(w)
  <2>1. /\ Goto(w, "answer", "wait") /\ PushEmpty(Proced, w)
        /\ UNCHANGED exits /\ sem' = sem
    BY <1>14 DEF DropAnswer
  <2>2. pc[w] = "answer"
    BY <2>1 DEF Goto
  <2>3. Holds(Proced, w)
    BY <1>1, <2>2 DEF WorkerHand
  <2>4. HandOnly(Proced, w) /\ \A r \in Pool : filled'[r] = filled[r] /\ lost'[r] = lost[r]
    BY <1>1, <2>1, <2>3, PushEmptyType, PushEmptyStock
  <2>5. Alone(w) /\ pc'[w] = "wait"
    BY <1>1, <2>1, <2>4, GotoAlone
  <2> QED
    BY <1>3, <2>1, <2>2, <2>4, <2>5
\* The push and the post, in the pool of the senders.
<1>15. ASSUME Alone(w), UNCHANGED exits, Waked(Unproc)' = Waked(Unproc),
              Called(Unproc)' = Called(Unproc), Duped(Unproc)' = Duped(Unproc),
              sem'[Unproc] = sem[Unproc], filled'[Unproc] = filled[Unproc],
              lost'[Unproc] = lost[Unproc],
              PoolInv(Proced)'
       PROVE  TokenInv'
  <2>1. threadexit' = threadexit /\ posted' = posted
    BY <1>15 DEF exits
  <2>2. Unposted(Unproc)' = Unposted(Unproc) /\ ExitPosts(Unproc)' = ExitPosts(Unproc)
    BY <1>1, <1>15, <2>1, PostsSame
  <2>3. PoolInv(Unproc)
    BY DEF TokenInv
  <2>4. PoolInv(Unproc)'
    BY <1>15, <2>2, <2>3 DEF PoolInv, Balanced, Entitled
  <2>5. ExitPhase'
    BY <1>1, <1>15, <2>1, PhaseSame DEF TokenInv
  <2> QED
    BY <1>15, <2>4, <2>5, PoolThreads DEF TokenInv
<1>16. ASSUME Alone(w), UNCHANGED posted,
              pc[w] \notin {"check", "pull", "exited", "lookup", "dead"},
              pc'[w] \notin {"check", "pull", "exited", "lookup", "dead"}
       PROVE  /\ Waked(Unproc)' = Waked(Unproc) /\ Called(Unproc)' = Called(Unproc)
              /\ Duped(Unproc)' = Duped(Unproc)
              /\ Cardinality(Waked(Proced)') = Cardinality(Waked(Proced))
              /\ Cardinality(Called(Proced)') = Cardinality(Called(Proced))
              /\ Duped(Proced)' = Duped(Proced)
              /\ ExitPosts(Proced)' = ExitPosts(Proced)
  <2>1. \A u \in Worker \ {w} : pc'[u] = pc[u] /\ hand'[Unproc][u] = hand[Unproc][u]
    BY <1>16 DEF Alone
  <2>2. Waked(Unproc)' = Waked(Unproc)
    BY <1>16, <2>1, PoolThreads DEF Waked, Wakes, Dup
  <2>3. Called(Unproc)' = Called(Unproc)
    BY <1>16, <2>1, PoolThreads DEF Called, Calls, Dup
  <2>4. Duped(Unproc)' = Duped(Unproc)
    BY <1>16, <2>1, PoolThreads DEF Duped
  <2>5. \A s \in Sender : pc'[s] = pc[s] /\ hand'[Proced][s] = hand[Proced][s]
    BY <1>1, <1>16 DEF Alone
  <2>6. /\ Waked(Proced)' = Waked(Proced) /\ Called(Proced)' = Called(Proced)
        /\ Duped(Proced)' = Duped(Proced)
    BY <2>5, PoolThreads DEF Waked, Wakes, Called, Calls, Dup, Duped
  <2>7. ExitPosts(Proced)' = ExitPosts(Proced)
    BY <1>1, <1>16, PostsSame
  <2> QED
    BY <2>2, <2>3, <2>4, <2>6, <2>7
<1>17. /\ Unposted(Proced) = Cardinality(Posting) /\ Unposted(Proced)' = Cardinality(Posting')
       /\ PoolInv(Proced)
  BY PoolThreads DEF Unposted, Posting, TokenInv
<1>18. CASE PushAnswer(w)
  <2>1. /\ Goto(w, "answer", "post") /\ PushFilled(Proced, w)
        /\ UNCHANGED exits /\ posted' = posted /\ sem' = sem
    BY <1>18 DEF PushAnswer, exits
  <2>2. pc[w] = "answer"
    BY <2>1 DEF Goto
  <2>3. Holds(Proced, w)
    BY <1>1, <2>2 DEF WorkerHand
  <2>4. Alone(w) /\ pc'[w] = "post"
    BY <1>1, <2>1, <2>3, PushFilledType, GotoAlone
  <2>5. /\ filled'[Unproc] = filled[Unproc] /\ lost'[Unproc] = lost[Unproc]
        /\ lost[Proced] \subseteq lost'[Proced]
        /\ Stock(Proced)' = Stock(Proced) + 1
    BY <1>1, <2>1, <2>3, PushFilledStock
  <2>6. /\ Cardinality(Posting') = Cardinality(Posting) + 1
        /\ Cardinality(Posting) \in Nat
    <3>1. w \in Posting' /\ w \notin Posting
      BY <2>2, <2>4 DEF Posting
    <3> QED
      BY <1>1, <2>4, <3>1, Recount DEF In
  <2>7. /\ Waked(Unproc)' = Waked(Unproc) /\ Called(Unproc)' = Called(Unproc)
        /\ Duped(Unproc)' = Duped(Unproc)
        /\ Cardinality(Waked(Proced)') = Cardinality(Waked(Proced))
        /\ Cardinality(Called(Proced)') = Cardinality(Called(Proced))
        /\ Duped(Proced)' = Duped(Proced)
        /\ ExitPosts(Proced)' = ExitPosts(Proced)
    BY <1>16, <2>1, <2>2, <2>4
  <2>8. /\ Cardinality(Waked(Proced)) \in Nat /\ Cardinality(Called(Proced)) \in Nat
        /\ Stock(Proced) \in Nat /\ sem[Proced] \in Nat /\ ExitPosts(Proced) \in Nat
    <3>1. Cardinality(Sender) \in Nat
      BY ThreadAssumption, FS_CardinalityType
    <3> QED
      BY <1>1, <3>1, CalledFew, StockType, PoolThreads DEF RestOK, ExitPosts
  <2>9. Balanced(Proced)'
    <3>1. sem[Proced] + Cardinality(Waked(Proced)) + Cardinality(Posting)
            = Stock(Proced) + ExitPosts(Proced)
      BY <1>17 DEF PoolInv, Balanced, Stock
    <3>2. sem'[Proced] = sem[Proced]
      BY <2>1
    <3>3. sem'[Proced] + Cardinality(Waked(Proced)') + Cardinality(Posting')
            = Stock(Proced)' + ExitPosts(Proced)'
      BY <2>5, <2>6, <2>7, <2>8, <3>1, <3>2
    <3>4. Stock(Proced)' = Len(filled'[Proced]) + Cardinality(lost'[Proced])
      BY DEF Stock
    <3> QED
      BY <1>17, <3>3, <3>4 DEF Balanced
  <2>10. Entitled(Proced)'
    <3>1. Cardinality(Called(Proced)) <= Stock(Proced)
      BY <1>17 DEF PoolInv, Entitled, Stock
    <3>2. Cardinality(Called(Proced)') <= Stock(Proced)'
      BY <2>5, <2>7, <2>8, <3>1
    <3> QED
      BY <3>2 DEF Entitled, Stock
  <2>11. PoolInv(Proced)'
    BY <1>17, <2>5, <2>7, <2>9, <2>10 DEF PoolInv
  <2> QED
    BY <1>15, <2>1, <2>4, <2>5, <2>7, <2>11
<1>19. CASE PostAnswer(w)
  <2>1. /\ Goto(w, "post", "wait") /\ UNCHANGED queues
        /\ UNCHANGED exits /\ posted' = posted
        /\ sem' = [sem EXCEPT ![Proced] = sem[Proced] + 1]
    BY <1>19 DEF PostAnswer, Post, exits
  <2>2. Alone(w) /\ pc[w] = "post" /\ pc'[w] = "wait"
    BY <1>1, <2>1, StillHands, GotoAlone
  <2>3. filled' = filled /\ lost' = lost
    BY <2>1 DEF queues
  <2>4. sem'[Unproc] = sem[Unproc] /\ sem'[Proced] = sem[Proced] + 1
    BY <1>1, <2>1, PoolThreads DEF RestOK
  <2>5. /\ Cardinality(Posting') = Cardinality(Posting) - 1
        /\ Cardinality(Posting) \in Nat
    <3>1. w \notin Posting' /\ w \in Posting
      BY <2>2 DEF Posting
    <3> QED
      BY <1>1, <2>2, <3>1, Recount DEF In
  <2>6. /\ Waked(Unproc)' = Waked(Unproc) /\ Called(Unproc)' = Called(Unproc)
        /\ Duped(Unproc)' = Duped(Unproc)
        /\ Cardinality(Waked(Proced)') = Cardinality(Waked(Proced))
        /\ Cardinality(Called(Proced)') = Cardinality(Called(Proced))
        /\ Duped(Proced)' = Duped(Proced)
        /\ ExitPosts(Proced)' = ExitPosts(Proced)
    BY <1>16, <2>1, <2>2
  <2>7. Cardinality(Waked(Proced)) \in Nat /\ sem[Proced] \in Nat
    BY <1>1, CalledFew DEF RestOK
  <2>8. Balanced(Proced)'
    <3>1. sem'[Proced] + Cardinality(Waked(Proced)') + Cardinality(Posting')
            = sem[Proced] + Cardinality(Waked(Proced)) + Cardinality(Posting)
      BY <2>4, <2>5, <2>6, <2>7
    <3> QED
      BY <1>17, <2>3, <2>6, <3>1 DEF PoolInv, Balanced
  <2>9. PoolInv(Proced)'
    BY <1>17, <2>3, <2>6, <2>8 DEF PoolInv, Entitled
  <2> QED
    BY <1>15, <2>1, <2>2, <2>3, <2>4, <2>6, <2>9
<1> QED
  BY <1>2, <1>6, <1>7, <1>8, <1>9, <1>10, <1>11, <1>12, <1>13, <1>14, <1>18, <1>19
     DEF WorkerStep

LEMMA SenderTokens ==
    ASSUME IInv, OneOwner, TokenInv, NEW s \in Sender, SenderStep(s)
    PROVE  TokenInv'
<1> USE ThreadFacts
<1>1. /\ QueuesOK /\ PcsOK /\ RestOK /\ SenderHand(s) /\ s \in PoolThread
      /\ s \in Thread /\ s # Main /\ PoolOf(s) = Proced
  BY DEF IInv, HandsOK, PoolThread
<1>2. CASE Wait(s) \/ CheckExit(s) \/ Pull(s) \/ LookupDies(s)
  BY <1>1, <1>2, RoundTokens
<1>3. CASE Send(s)
  <2>1. /\ Goto(s, "lookup", "putback") /\ hand[Proced][s] # NULL
        /\ UNCHANGED queues /\ UNCHANGED exits /\ sem' = sem
    BY <1>3 DEF Send
  <2>2. Alone(s) /\ pc[s] = "lookup" /\ pc'[s] = "putback"
    BY <1>1, <2>1, StillHands, GotoAlone
  <2>3. \A r \in Pool : filled'[r] = filled[r] /\ lost'[r] = lost[r]
    BY <2>1, StillHands
  <2>4. /\ Wakes(Proced, s)' <=> Wakes(Proced, s)
        /\ Calls(Proced, s)' <=> Calls(Proced, s)
        /\ Dup(Proced, s)' <=> Dup(Proced, s)
    BY <2>1, <2>2 DEF Wakes, Calls, Dup
  <2> QED
    BY <1>1, <2>1, <2>2, <2>3, <2>4, QuietStep
<1>4. CASE PutBackSent(s)
  <2>1. /\ Goto(s, "putback", "wait") /\ PushEmpty(Proced, s)
        /\ UNCHANGED exits /\ sem' = sem
    BY <1>4 DEF PutBackSent
  <2>2. pc[s] = "putback"
    BY <2>1 DEF Goto
  <2>3. Holds(Proced, s)
    BY <1>1, <2>2 DEF SenderHand
  <2>4. HandOnly(Proced, s) /\ \A r \in Pool : filled'[r] = filled[r] /\ lost'[r] = lost[r]
    BY <1>1, <2>1, <2>3, PushEmptyType, PushEmptyStock
  <2>5. Alone(s) /\ pc'[s] = "wait"
    BY <1>1, <2>1, <2>4, GotoAlone
  <2>6. /\ Wakes(Proced, s)' <=> Wakes(Proced, s)
        /\ Calls(Proced, s)' <=> Calls(Proced, s)
        /\ Dup(Proced, s)' <=> Dup(Proced, s)
    BY <2>2, <2>5 DEF Wakes, Calls, Dup
  <2> QED
    BY <1>1, <2>1, <2>2, <2>4, <2>5, <2>6, QuietStep
<1> QED
  BY <1>2, <1>3, <1>4 DEF SenderStep

\* The main thread: its pushes, its posts and those of the shutdown.
LEMMA MainTokens ==
    ASSUME IInv, OneOwner, TokenInv, Recv \/ MainStep
    PROVE  TokenInv'
<1> USE ThreadFacts
<1>1. QueuesOK /\ PcsOK /\ RestOK /\ MainHand /\ ExitPhase /\ \A p \in Pool : PoolInv(p)
  BY DEF IInv, HandsOK, TokenInv
<1>2. ASSUME Alone(Main)
      PROVE  /\ \A p \in Pool : /\ Waked(p)' = Waked(p) /\ Called(p)' = Called(p)
                                /\ Duped(p)' = Duped(p)
             /\ Unposted(Proced)' = Unposted(Proced)
  <2>1. \A p \in Pool : \A t \in ThreadsOf(p) : pc'[t] = pc[t] /\ hand'[p][t] = hand[p][t]
    BY <1>2, PoolThreads DEF Alone
  <2>2. \A w \in Worker : pc'[w] = pc[w]
    BY <2>1, PoolThreads
  <2>3. Unposted(Proced)' = Unposted(Proced)
    <3>1. Posting' = Posting
      BY <2>2 DEF Posting
    <3> QED
      BY <3>1, PoolThreads DEF Unposted, Posting
  <2> QED
    BY <2>1, <2>3 DEF Waked, Wakes, Called, Calls, Dup, Duped
\* What is left to show of each pool.
<1>3. ASSUME Alone(Main), NEW p \in Pool, lost[p] \subseteq lost'[p],
             Stock(p) <= Stock(p)',
             sem'[p] + Unposted(p)' + Stock(p) + ExitPosts(p)
               = sem[p] + Unposted(p) + Stock(p)' + ExitPosts(p)',
             sem'[p] \in Nat, Stock(p)' \in Nat,
             Unposted(p) \in Nat, Unposted(p)' \in Nat,
             ExitPosts(p) \in Nat, ExitPosts(p)' \in Nat
      PROVE  PoolInv(p)'
  <2> DEFINE K == Cardinality(Waked(p))
  <2>1. /\ Waked(p)' = Waked(p) /\ Called(p)' = Called(p) /\ Duped(p)' = Duped(p)
    BY <1>2, <1>3
  <2>2. /\ K \in Nat /\ Cardinality(Called(p)) \in Nat
        /\ Stock(p) \in Nat /\ sem[p] \in Nat
    BY <1>1, CalledFew, StockType DEF RestOK
  <2>3. sem[p] + K + Unposted(p) = Stock(p) + ExitPosts(p)
    BY <1>1 DEF PoolInv, Balanced, Stock
  <2>4. Cardinality(Called(p)) <= Stock(p)
    BY <1>1 DEF PoolInv, Entitled, Stock
  <2> HIDE DEF K
  <2>5. sem'[p] + K + Unposted(p)' = Stock(p)' + ExitPosts(p)'
    BY <1>3, <2>2, <2>3
  <2>6. Cardinality(Called(p)) <= Stock(p)'
    BY <1>3, <2>2, <2>4
  <2>7. Balanced(p)'
    BY <2>1, <2>5 DEF Balanced, Stock, K
  <2>8. Entitled(p)'
    BY <2>1, <2>6 DEF Entitled, Stock
  <2> QED
    BY <1>1, <1>3, <2>1, <2>7, <2>8 DEF PoolInv
<1>4. \A p \in Pool : /\ Stock(p) \in Nat /\ sem[p] \in Nat /\ Unposted(p) \in Nat
                      /\ ExitPosts(p) \in Nat /\ Cardinality(ThreadsOf(p)) \in Nat
  <2>1. \A p \in Pool : Cardinality(ThreadsOf(p)) \in Nat
    BY FinitePools, FS_CardinalityType
  <2>2. Cardinality(Posting) \in Nat
    BY FiniteParts, FS_CardinalityType
  <2>3. \A p \in Pool : Unposted(p) \in Nat
    BY <2>2 DEF Unposted, Posting
  <2>4. \A p \in Pool : ExitPosts(p) \in Nat
    BY <1>1, <2>1 DEF ExitPosts, RestOK
  <2>5. \A p \in Pool : Stock(p) \in Nat /\ sem[p] \in Nat
    BY <1>1, StockType DEF RestOK
  <2> QED
    BY <2>1, <2>3, <2>4, <2>5
\* A step that leaves a pool's buffers and semaphore as they were.
<1>5. ASSUME Alone(Main), NEW p \in Pool, lost'[p] = lost[p], filled'[p] = filled[p],
             sem'[p] = sem[p], Unposted(p)' = Unposted(p), ExitPosts(p)' = ExitPosts(p)
      PROVE  PoolInv(p)'
  <2>1. Stock(p)' = Stock(p)
    BY <1>5 DEF Stock
  <2> QED
    BY <1>3, <1>4, <1>5, <2>1
<1>6. ASSUME NEW from, NEW to, Goto(Main, from, to), UNCHANGED queues
      PROVE  /\ Alone(Main) /\ pc[Main] = from /\ pc'[Main] = to
             /\ \A p \in Pool : filled'[p] = filled[p] /\ lost'[p] = lost[p]
  BY <1>1, <1>6, StillHands, GotoAlone
<1>7. ASSUME NEW from \in Receiving, NEW to \in Receiving \union {"unlist"},
             pc[Main] = from, pc'[Main] = to, UNCHANGED exits
      PROVE  ExitPhase' /\ \A p \in Pool : ExitPosts(p)' = ExitPosts(p)
  <2>1. threadexit' = threadexit
    BY <1>7 DEF exits
  <2> QED
    BY <1>1, <1>7, <2>1 DEF ExitPhase, ExitPosts, Receiving
<1>8. CASE Recv
  <2>1. /\ Goto(Main, "recv", "pushbuf") \/ Goto(Main, "recv", "unlist")
        /\ UNCHANGED queues /\ UNCHANGED exits /\ sem' = sem
    BY <1>8 DEF Recv, RecvMessage, RecvNothing, RecvFails
  <2>2. /\ Alone(Main) /\ pc[Main] = "recv" /\ pc'[Main] \in {"pushbuf", "unlist"}
        /\ \A p \in Pool : filled'[p] = filled[p] /\ lost'[p] = lost[p]
    BY <1>6, <2>1
  <2>3. ExitPhase' /\ \A p \in Pool : ExitPosts(p)' = ExitPosts(p)
    BY <1>7, <2>1, <2>2 DEF Receiving
  <2>4. Unposted(Unproc)' = Unposted(Unproc)
    BY <2>2 DEF Unposted
  <2>5. \A p \in Pool : Unposted(p)' = Unposted(p)
    BY <1>2, <2>2, <2>4, PoolThreads
  <2> QED
    BY <1>5, <2>1, <2>2, <2>3, <2>5 DEF TokenInv
<1>9. CASE MainPull
  <2>1. /\ Goto(Main, "pullbuf", "recv") /\ PullEmpty(Unproc, Main)
        /\ UNCHANGED exits /\ sem' = sem
    BY <1>9 DEF MainPull
  <2>2. /\ Alone(Main) /\ pc[Main] = "pullbuf" /\ pc'[Main] = "recv"
        /\ \A p \in Pool : filled'[p] = filled[p] /\ lost'[p] = lost[p]
    BY <1>1, <2>1, PullEmptyType, PullEmptyStock, GotoAlone
  <2>3. ExitPhase' /\ \A p \in Pool : ExitPosts(p)' = ExitPosts(p)
    BY <1>7, <2>1, <2>2 DEF Receiving
  <2>4. Unposted(Unproc)' = Unposted(Unproc)
    BY <2>2 DEF Unposted
  <2>5. \A p \in Pool : Unposted(p)' = Unposted(p)
    BY <1>2, <2>2, <2>4, PoolThreads
  <2> QED
    BY <1>5, <2>1, <2>2, <2>3, <2>5 DEF TokenInv
<1>10. CASE MainPush
  <2>1. /\ Goto(Main, "pushbuf", "postbuf") /\ PushFilled(Unproc, Main)
        /\ UNCHANGED exits /\ sem' = sem
    BY <1>10 DEF MainPush
  <2>2. pc[Main] = "pushbuf"
    BY <2>1 DEF Goto
  <2>3. Holds(Unproc, Main)
    BY <1>1, <2>2 DEF MainHand
  <2>4. Alone(Main) /\ pc'[Main] = "postbuf"
    BY <1>1, <2>1, <2>3, PushFilledType, GotoAlone
  <2>5. /\ filled'[Proced] = filled[Proced] /\ lost'[Proced] = lost[Proced]
        /\ lost[Unproc] \subseteq lost'[Unproc]
        /\ Stock(Unproc)' = Stock(Unproc) + 1
    BY <2>1, <2>3, PushFilledStock
  <2>6. ExitPhase' /\ \A p \in Pool : ExitPosts(p)' = ExitPosts(p)
    BY <1>7, <2>1, <2>2, <2>4 DEF Receiving
  <2>7. Unposted(Unproc) = 0 /\ Unposted(Unproc)' = 1
    BY <2>2, <2>4 DEF Unposted
  <2>8. PoolInv(Unproc)'
    BY <1>3, <1>4, <2>1, <2>4, <2>5, <2>6, <2>7
  <2>9. PoolInv(Proced)'
    BY <1>2, <1>5, <2>1, <2>4, <2>5, <2>6
  <2> QED
    BY <2>6, <2>8, <2>9, PoolThreads DEF TokenInv
<1>11. CASE MainPost
  <2>1. /\ Goto(Main, "postbuf", "pullbuf") /\ UNCHANGED queues
        /\ UNCHANGED exits /\ sem' = [sem EXCEPT ![Unproc] = sem[Unproc] + 1]
    BY <1>11 DEF MainPost, Post
  <2>2. /\ Alone(Main) /\ pc[Main] = "postbuf" /\ pc'[Main] = "pullbuf"
        /\ \A p \in Pool : filled'[p] = filled[p] /\ lost'[p] = lost[p]
    BY <1>6, <2>1
  <2>3. ExitPhase' /\ \A p \in Pool : ExitPosts(p)' = ExitPosts(p)
    BY <1>7, <2>1, <2>2 DEF Receiving
  <2>4. sem'[Unproc] = sem[Unproc] + 1 /\ sem'[Proced] = sem[Proced]
    BY <1>1, <2>1, PoolThreads DEF RestOK
  <2>5. Unposted(Unproc) = 1 /\ Unposted(Unproc)' = 0
    BY <2>2 DEF Unposted
  <2>6. Stock(Unproc)' = Stock(Unproc)
    BY <2>2 DEF Stock
  <2>7. PoolInv(Unproc)'
    BY <1>3, <1>4, <2>2, <2>3, <2>4, <2>5, <2>6
  <2>8. PoolInv(Proced)'
    BY <1>2, <1>5, <2>2, <2>3, <2>4
  <2> QED
    BY <2>3, <2>7, <2>8, PoolThreads DEF TokenInv
\* The shutdown: no push of the main thread is unposted any more.
<1>12. ASSUME NEW from \in Clearing, NEW to \in Clearing, Goto(Main, from, to),
              UNCHANGED queues, ExitPhase',
              \A p \in Pool : sem'[p] + ExitPosts(p) = sem[p] + ExitPosts(p)',
              \A p \in Pool : sem'[p] \in Nat /\ ExitPosts(p)' \in Nat
       PROVE  TokenInv'
  <2>1. /\ Alone(Main) /\ pc[Main] = from /\ pc'[Main] = to
        /\ \A p \in Pool : filled'[p] = filled[p] /\ lost'[p] = lost[p]
    BY <1>6, <1>12
  <2>2. \A p \in Pool : Stock(p)' = Stock(p)
    BY <2>1 DEF Stock
  <2>3. Unposted(Unproc)' = Unposted(Unproc)
    BY <1>12, <2>1 DEF Unposted, Clearing
  <2>4. \A p \in Pool : Unposted(p)' = Unposted(p)
    BY <1>2, <2>1, <2>3, PoolThreads
  <2>5. ASSUME NEW p \in Pool
        PROVE  PoolInv(p)'
    <3>1. /\ sem'[p] + Unposted(p)' + Stock(p) + ExitPosts(p)
               = sem[p] + Unposted(p) + Stock(p)' + ExitPosts(p)'
          /\ Stock(p) <= Stock(p)' /\ Stock(p)' \in Nat
          /\ Unposted(p) \in Nat /\ Unposted(p)' \in Nat /\ ExitPosts(p) \in Nat
      BY <1>4, <1>12, <2>2, <2>4
    <3> QED
      BY <1>3, <1>12, <2>1, <3>1
  <2> QED
    BY <1>12, <2>5 DEF TokenInv
<1>13. ASSUME NEW from, NEW to, ClearList(from, to, "clearing") \/ ClearList(from, to, "empty"),
              from \in {"unlist", "unlisted"}, to \in {"unlisted", "exit1"}
       PROVE  TokenInv'
  <2>1. /\ Goto(Main, from, to) /\ UNCHANGED queues
        /\ threadexit' = threadexit /\ sem' = sem
    BY <1>13 DEF ClearList
  <2>2. pc[Main] = from /\ pc'[Main] = to
    BY <1>6, <2>1
  <2>3. ExitPhase' /\ \A p \in Pool : ExitPosts(p)' = 0 /\ ExitPosts(p) = 0
    BY <1>1, <1>13, <2>1, <2>2 DEF ExitPhase, ExitPosts
  <2> QED
    BY <1>4, <1>12, <1>13, <2>1, <2>3 DEF Clearing
<1>14. CASE SetExit(Unproc, "exit1", "post1")
  <2>1. /\ Goto(Main, "exit1", "post1") /\ UNCHANGED queues
        /\ threadexit' = [threadexit EXCEPT ![Unproc] = TRUE]
        /\ posted' = 0 /\ sem' = sem
    BY <1>14 DEF SetExit
  <2>2. pc[Main] = "exit1" /\ pc'[Main] = "post1"
    BY <1>6, <2>1
  <2>3. threadexit'[Unproc] = TRUE /\ threadexit'[Proced] = threadexit[Proced]
    BY <1>1, <2>1, PoolThreads DEF RestOK
  <2>4. ExitPhase'
    BY <1>1, <2>2, <2>3 DEF ExitPhase
  <2>5. \A p \in Pool : ExitPosts(p)' = 0 /\ ExitPosts(p) = 0
    BY <2>1, <2>2 DEF ExitPosts
  <2> QED
    BY <1>4, <1>12, <2>1, <2>4, <2>5 DEF Clearing
<1>15. CASE SetExit(Proced, "exit2", "post2")
  <2>1. /\ Goto(Main, "exit2", "post2") /\ UNCHANGED queues
        /\ threadexit' = [threadexit EXCEPT ![Proced] = TRUE]
        /\ posted' = 0 /\ sem' = sem
    BY <1>15 DEF SetExit
  <2>2. pc[Main] = "exit2" /\ pc'[Main] = "post2"
    BY <1>6, <2>1
  <2>3. threadexit'[Proced] = TRUE /\ threadexit'[Unproc] = threadexit[Unproc]
    BY <1>1, <2>1, PoolThreads DEF RestOK
  <2>4. ExitPhase'
    BY <1>1, <2>2, <2>3 DEF ExitPhase
  <2>5. /\ ExitPosts(Proced)' = 0 /\ ExitPosts(Proced) = 0
        /\ ExitPosts(Unproc)' = ExitPosts(Unproc)
    BY <2>1, <2>2, PoolThreads DEF ExitPosts
  <2> QED
    BY <1>4, <1>12, <2>1, <2>4, <2>5, PoolThreads DEF Clearing
<1>16. ASSUME NEW p \in Pool, NEW at, PostExit(p, at), <<p, at>> = <<Unproc, "post1">>
                                                      \/ <<p, at>> = <<Proced, "post2">>
       PROVE  TokenInv'
  <2>1. /\ Goto(Main, at, at) /\ UNCHANGED queues /\ threadexit' = threadexit
        /\ posted' = posted + 1 /\ sem' = [sem EXCEPT ![p] = sem[p] + 1]
    BY <1>16 DEF PostExit, Post
  <2>2. pc[Main] = at /\ pc'[Main] = at
    BY <1>6, <2>1
  <2>3. ExitPhase'
    BY <1>1, <2>1, <2>2 DEF ExitPhase
  <2>4. sem'[p] = sem[p] + 1 /\ \A r \in Pool \ {p} : sem'[r] = sem[r]
    BY <1>1, <2>1 DEF RestOK
  <2>5. at = IF p = Unproc THEN "post1" ELSE "post2"
    BY <1>16, PoolThreads
  <2>6. ExitPosts(p)' = ExitPosts(p) + 1 /\ ExitPosts(p) \in Nat
    BY <1>1, <2>1, <2>2, <2>5 DEF ExitPosts, RestOK
  <2>7. \A r \in Pool \ {p} : ExitPosts(r)' = ExitPosts(r)
    BY <2>2, <2>5, PoolThreads DEF ExitPosts
  <2>8. /\ \A r \in Pool : sem'[r] + ExitPosts(r) = sem[r] + ExitPosts(r)'
        /\ \A r \in Pool : sem'[r] \in Nat /\ ExitPosts(r)' \in Nat
    BY <1>4, <2>4, <2>6, <2>7
  <2>9. at \in Clearing
    BY <2>5 DEF Clearing
  <2> QED
    BY <1>12, <2>1, <2>3, <2>8, <2>9
<1>17. ASSUME NEW p \in Pool, NEW from, NEW to, JoinAndFree(p, from, to),
              <<p, from, to>> = <<Unproc, "post1", "exit2">>
                \/ <<p, from, to>> = <<Proced, "post2", "done">>
       PROVE  TokenInv'
  <2>1. /\ Goto(Main, from, to) /\ UNCHANGED queues /\ threadexit' = threadexit
        /\ posted = Cardinality(ThreadsOf(p)) /\ sem' = sem
    BY <1>17 DEF JoinAndFree
  <2>2. pc[Main] = from /\ pc'[Main] = to
    BY <1>6, <2>1
  <2>3. \/ p = Unproc /\ from = "post1" /\ to = "exit2"
        \/ p = Proced /\ from = "post2" /\ to = "done"
    BY <1>17
  <2>4. ExitPhase'
    BY <1>1, <2>1, <2>2, <2>3 DEF ExitPhase
  <2>5. \A r \in Pool : ExitPosts(r)' = ExitPosts(r)
    BY <2>1, <2>2, <2>3, PoolThreads DEF ExitPosts
  <2> QED
    BY <1>4, <1>12, <2>1, <2>3, <2>4, <2>5 DEF Clearing
<1>18. CASE Shutdown
  <2>1. CASE ClearList("unlist", "unlisted", "clearing")
    BY <1>13, <2>1
  <2>2. CASE ClearList("unlisted", "exit1", "empty")
    BY <1>13, <2>2
  <2>3. CASE PostExit(Unproc, "post1")
    BY <1>16, <2>3
  <2>4. CASE PostExit(Proced, "post2")
    BY <1>16, <2>4
  <2>5. CASE JoinAndFree(Unproc, "post1", "exit2")
    BY <1>17, <2>5
  <2>6. CASE JoinAndFree(Proced, "post2", "done")
    BY <1>17, <2>6
  <2>7. CASE SetExit(Unproc, "exit1", "post1") \/ SetExit(Proced, "exit2", "post2")
    BY <1>14, <1>15, <2>7
  <2> QED
    BY <1>18, <2>1, <2>2, <2>3, <2>4, <2>5, <2>6, <2>7 DEF Shutdown
<1> QED
  BY <1>8, <1>9, <1>10, <1>11, <1>18 DEF MainStep

LEMMA InitTokens == Init => TokenInv
<1> SUFFICES ASSUME Init PROVE TokenInv
  OBVIOUS
<1> USE ThreadFacts, PoolThreads
<1>1. /\ pc[Main] = "pullbuf" /\ \A t \in PoolThread : pc[t] = "wait"
      /\ \A p \in Pool : /\ filled[p] = <<>> /\ lost[p] = {} /\ sem[p] = 0
                         /\ threadexit[p] = FALSE
  BY DEF Init, PoolThread
<1>2. ExitPhase
  BY <1>1 DEF ExitPhase
<1>3. \A p \in Pool : Waked(p) = {} /\ Called(p) = {} /\ Duped(p) = {} /\ Posting = {}
  BY <1>1 DEF Waked, Wakes, Called, Calls, Dup, Duped, Posting, PoolThread, ThreadsOf
<1>4. Cardinality({}) = 0
  BY FS_EmptySet
<1>5. \A p \in Pool : Unposted(p) = 0 /\ ExitPosts(p) = 0
  BY <1>1, <1>3, <1>4 DEF Unposted, ExitPosts, Posting
<1>6. ASSUME NEW p \in Pool
      PROVE  PoolInv(p)
  <2>1. /\ Cardinality(Waked(p)) = 0 /\ Cardinality(Called(p)) = 0
        /\ Cardinality(lost[p]) = 0 /\ Len(filled[p]) = 0 /\ sem[p] = 0
        /\ Unposted(p) = 0 /\ ExitPosts(p) = 0
    <3>1. Waked(p) = {} /\ Called(p) = {} /\ lost[p] = {} /\ filled[p] = <<>> /\ sem[p] = 0
      BY <1>1, <1>3
    <3>2. Len(filled[p]) = 0
      BY <3>1
    <3>3. /\ Cardinality(Waked(p)) = 0 /\ Cardinality(Called(p)) = 0
          /\ Cardinality(lost[p]) = 0
      BY <1>4, <3>1
    <3> QED
      BY <1>5, <3>1, <3>2, <3>3
  <2>2. Balanced(p) /\ Entitled(p)
    BY <2>1 DEF Balanced, Entitled
  <2> QED
    BY <1>3, <2>2 DEF PoolInv
<1> QED
  BY <1>2, <1>6 DEF TokenInv

LEMMA NextTokens == IInv /\ OneOwner /\ TokenInv /\ [Next]_vars => TokenInv'
<1> SUFFICES ASSUME IInv, OneOwner, TokenInv, [Next]_vars PROVE TokenInv'
  OBVIOUS
<1>1. CASE Recv \/ MainStep
  BY <1>1, MainTokens
<1>2. ASSUME NEW w \in Worker, WorkerStep(w)
      PROVE  TokenInv'
  BY <1>2, WorkerTokens
<1>3. ASSUME NEW s \in Sender, SenderStep(s)
      PROVE  TokenInv'
  BY <1>3, SenderTokens
<1>4. CASE UNCHANGED vars
  <2>1. UNCHANGED <<filled, lost, hand, sem, threadexit, posted, pc>>
    BY <1>4 DEF vars, queues, exits
  <2>2. ExitPhase'
    BY <2>1 DEF TokenInv, ExitPhase
  <2>3. \A p \in Pool : /\ Waked(p)' = Waked(p) /\ Called(p)' = Called(p)
                        /\ Duped(p)' = Duped(p)
                        /\ Unposted(p)' = Unposted(p) /\ ExitPosts(p)' = ExitPosts(p)
    BY <2>1 DEF Waked, Wakes, Called, Calls, Dup, Duped, Unposted, ExitPosts
  <2>4. \A p \in Pool : PoolInv(p)'
    BY <2>1, <2>3 DEF TokenInv, PoolInv, Balanced, Entitled
  <2> QED
    BY <2>2, <2>4 DEF TokenInv
<1> QED
  BY <1>1, <1>2, <1>3, <1>4 DEF Next, Ended

\* The semaphore of each pool and the threads it has woken account for every
\* buffer pushed and not pulled, every dropped one and every post of the
\* shutdown: for every number of threads and every pool size, no wake-up is lost
\* and none is made up.
THEOREM TokensAccounted == Spec => []TokensMatch
<1>1. IInv /\ TokenInv => TokensMatch
  <2> SUFFICES ASSUME IInv, TokenInv, NEW p \in Pool
               PROVE  sem[p] + Cardinality(Woken(p)) + Cardinality(Duped(p))
                         + Cardinality(Exited(p)) + Unposted(p)
                       = Len(filled[p]) + Cardinality(lost[p]) + ExitPosts(p)
    BY DEF TokensMatch
  <2>1. sem[p] + Cardinality(Waked(p)) + Unposted(p)
          = Len(filled[p]) + Cardinality(lost[p]) + ExitPosts(p)
    BY DEF TokenInv, PoolInv, Balanced
  <2>2. sem[p] \in Nat /\ Unposted(p) \in Nat
    <3>1. Cardinality(Posting) \in Nat
      BY FiniteParts, FS_CardinalityType
    <3> QED
      BY <3>1 DEF IInv, RestOK, Unposted, Posting
  <2>3. /\ Cardinality(Woken(p)) \in Nat /\ Cardinality(Duped(p)) \in Nat
        /\ Cardinality(Exited(p)) \in Nat
    BY FiniteParts, FS_CardinalityType
  <2> QED
    BY <2>1, <2>2, <2>3, WakedSum
<1> QED
  BY InitIInv, NextIInv, InitOwner, NextOwner, InitTokens, NextTokens, <1>1, PTL DEF Spec

\* A thread finds its queue empty after a wait only if a push into that queue
\* was refused before, for every number of threads: neither the posts of the
\* shutdown nor a faster thread ever leave one of them without its buffer.
THEOREM NoVainWakeUp == Spec => []NullOnlyAfterRefusal
<1>1. TokenInv => NullOnlyAfterRefusal
  BY DEF TokenInv, PoolInv, NullOnlyAfterRefusal
<1> QED
  BY InitIInv, NextIInv, InitOwner, NextOwner, InitTokens, NextTokens, <1>1, PTL DEF Spec

-----------------------------------------------------------------------------
(* Each message is processed once.  A buffer is pending in a pool while what*)
(* it holds is still to be handled there: in the filled queue, or in the    *)
(* hands of a thread on its way to the queue or to the function.  Once says *)
(* that a message that has pending copies has been handled fewer times for  *)
(* it; Numbered, that a number not given yet is nowhere.                    *)

Carrying(p, t) ==
    \/ p = Unproc /\ t = Main /\ pc[t] = "pushbuf"
    \/ p = Unproc /\ t \in Worker /\ pc[t] \in {"lookup", "lookup_af", "pullout", "process"}
    \/ p = Proced /\ t \in Worker /\ pc[t] \in {"putback", "answer"}
    \/ p = Proced /\ t \in Sender /\ pc[t] = "lookup"

Pending(p, b) ==
    \/ b \in Range(filled[p])
    \/ \E t \in Thread : Carrying(p, t) /\ hand[p][t] = b

Copies(p, i) == {b \in Buffer : Pending(p, b) /\ content[p][b].id = i}

Numbered ==
    /\ \A p \in Pool : \A b \in Buffer : content[p][b].id <= received
    /\ \A i \in Id : i > received => handled[i] = 0

Once(i) ==
    /\ handled[i] + Cardinality(Copies(Unproc, i)) <= 1 + (accepted - received)
    /\ sent[i] + Cardinality(Copies(Proced, i)) <= handled[i]

CountInv == Numbered /\ \A i \in Id \ {0} : Once(i)

LEMMA FiniteCopies ==
    ASSUME NEW p \in Pool, NEW i
    PROVE  IsFiniteSet(Copies(p, i)) /\ Cardinality(Copies(p, i)) \in Nat
<1>1. IsFiniteSet(Buffer) /\ Copies(p, i) \in SUBSET Buffer
  BY FinitePools DEF Copies
<1>2. IsFiniteSet(Copies(p, i))
  BY <1>1, FS_Subset
<1> QED
  BY <1>2, FS_CardinalityType

LEMMA CopiesFewer ==
    ASSUME NEW p \in Pool, NEW i, Copies(p, i)' \subseteq Copies(p, i)
    PROVE  /\ Cardinality(Copies(p, i)') \in Nat
           /\ Cardinality(Copies(p, i)') <= Cardinality(Copies(p, i))
<1>1. IsFiniteSet(Copies(p, i)) /\ Copies(p, i)' \in SUBSET Copies(p, i)
  BY FiniteCopies
<1>2. /\ IsFiniteSet(Copies(p, i)')
      /\ Cardinality(Copies(p, i)') <= Cardinality(Copies(p, i))
  BY <1>1, FS_Subset
<1> QED
  BY <1>2, FS_CardinalityType

LEMMA CopiesOneMore ==
    ASSUME NEW p \in Pool, NEW i, NEW b, Copies(p, i)' \subseteq Copies(p, i) \union {b}
    PROVE  /\ Cardinality(Copies(p, i)') \in Nat
           /\ Cardinality(Copies(p, i)') <= Cardinality(Copies(p, i)) + 1
<1> DEFINE U == Copies(p, i) \union {b}
<1>1. IsFiniteSet(Copies(p, i)) /\ Cardinality(Copies(p, i)) \in Nat
  BY FiniteCopies
<1>2. IsFiniteSet(U) /\ Cardinality(U) <= Cardinality(Copies(p, i)) + 1
      /\ Cardinality(U) \in Nat
  BY <1>1, FS_AddElement
<1>3. Copies(p, i)' \in SUBSET U
  OBVIOUS
<1> HIDE DEF U
<1>4. /\ IsFiniteSet(Copies(p, i)')
      /\ Cardinality(Copies(p, i)') <= Cardinality(U)
  BY <1>2, <1>3, FS_Subset
<1>5. Cardinality(Copies(p, i)') \in Nat
  BY <1>4, FS_CardinalityType
<1> QED
  BY <1>1, <1>2, <1>4, <1>5

LEMMA CopiesOneFewer ==
    ASSUME NEW p \in Pool, NEW i, NEW b \in Copies(p, i),
           Copies(p, i)' \subseteq Copies(p, i) \ {b}
    PROVE  /\ Cardinality(Copies(p, i)') \in Nat
           /\ Cardinality(Copies(p, i)') + 1 <= Cardinality(Copies(p, i))
<1> DEFINE U == Copies(p, i) \ {b}
<1>1. IsFiniteSet(Copies(p, i)) /\ Cardinality(Copies(p, i)) \in Nat
  BY FiniteCopies
<1>2. IsFiniteSet(U) /\ Cardinality(U) = Cardinality(Copies(p, i)) - 1
  BY <1>1, FS_RemoveElement
<1>3. Copies(p, i)' \in SUBSET U
  OBVIOUS
<1> HIDE DEF U
<1>4. /\ IsFiniteSet(Copies(p, i)')
      /\ Cardinality(Copies(p, i)') <= Cardinality(U)
  BY <1>2, <1>3, FS_Subset
<1>5. Cardinality(Copies(p, i)') \in Nat
  BY <1>4, FS_CardinalityType
<1> QED
  BY <1>1, <1>2, <1>4, <1>5

\* A step of thread t makes no buffer pending ...
Drains(p, t) ==
    /\ \A b \in Range(filled'[p]) : Pending(p, b)
    /\ Carrying(p, t)' /\ hand'[p][t] \in Buffer => Pending(p, hand'[p][t])

LEMMA FewerPending ==
    ASSUME NEW t \in Thread, Alone(t), NEW p \in Pool, Drains(p, t)
    PROVE  \A b \in Buffer : Pending(p, b)' => Pending(p, b)
<1> SUFFICES ASSUME NEW b \in Buffer, Pending(p, b)'
             PROVE  Pending(p, b)
  OBVIOUS
<1>1. CASE b \in Range(filled'[p])
  BY <1>1 DEF Drains
<1>2. CASE \E u \in Thread : Carrying(p, u)' /\ hand'[p][u] = b
  <2>1. PICK u \in Thread : Carrying(p, u)' /\ hand'[p][u] = b
    BY <1>2
  <2>2. CASE u = t
    BY <2>1, <2>2 DEF Drains
  <2>3. CASE u # t
    <3>1. Carrying(p, u) /\ hand[p][u] = b
      BY <2>1, <2>3 DEF Alone, Carrying
    <3> QED
      BY <3>1 DEF Pending
  <2> QED
    BY <2>2, <2>3
<1> QED
  BY <1>1, <1>2 DEF Pending

\* ... in particular one that leaves the filled queue and what t carries alone.
LEMMA CarriesOn ==
    ASSUME NEW t \in Thread, NEW p \in Pool, filled'[p] = filled[p],
           Carrying(p, t)' => Carrying(p, t) /\ hand'[p][t] = hand[p][t]
    PROVE  Drains(p, t)
  BY DEF Drains, Pending

LEMMA PullDrains ==
    ASSUME QueuesOK, NEW p \in Pool, NEW t \in Thread, PullFilled(p, t), Bare(p, t)
    PROVE  Drains(p, t)
<1>1. filled[p] \in Seq(Buffer)
  BY DEF QueuesOK
<1>2. filled'[p] = Rest(filled[p]) /\ hand'[p][t] = Pulled(filled[p])
  BY PullFilledStock
<1>3. CASE filled[p] = <<>>
  BY <1>2, <1>3, BufferFacts DEF Drains, Pending, Rest, Pulled
<1>4. CASE filled[p] # <<>>
  <2>1. /\ Head(filled[p]) \in Range(filled[p])
        /\ Range(Tail(filled[p])) \subseteq Range(filled[p])
    <3>1. /\ Len(filled[p]) \in Nat \ {0} /\ Head(filled[p]) = filled[p][1]
          /\ DOMAIN filled[p] = 1 .. Len(filled[p])
          /\ Len(Tail(filled[p])) = Len(filled[p]) - 1
          /\ DOMAIN Tail(filled[p]) = 1 .. Len(filled[p]) - 1
          /\ \A k \in 1 .. Len(filled[p]) - 1 : Tail(filled[p])[k] = filled[p][k + 1]
      BY <1>1, <1>4
    <3> QED
      BY <3>1 DEF Range
  <2> QED
    BY <1>2, <1>4, <2>1 DEF Drains, Pending, Rest, Pulled
<1> QED
  BY <1>3, <1>4

LEMMA PushDrains ==
    ASSUME IInv, OneOwner, NEW p \in Pool, NEW t \in Thread, Holds(p, t), Carrying(p, t),
           PushFilled(p, t)
    PROVE  Drains(p, t)
<1>1. /\ hand'[p][t] = NULL
      /\ Range(filled'[p]) \subseteq Range(filled[p]) \union {hand[p][t]}
  BY PushFilledStock
<1> QED
  BY <1>1, BufferFacts DEF Drains, Pending

\* A step that counts nothing and makes no buffer pending.
LEMMA CountSame ==
    ASSUME IInv, CountInv, NEW t \in Thread, Alone(t),
           Drains(Unproc, t), Drains(Proced, t),
           UNCHANGED <<content, received, accepted, handled, sent>>
    PROVE  CountInv'
<1>1. Numbered'
  BY DEF CountInv, Numbered
<1>2. \A p \in Pool : \A b \in Buffer : Pending(p, b)' => Pending(p, b)
  BY FewerPending, PoolThreads
<1>3. ASSUME NEW p \in Pool, NEW i
      PROVE  Copies(p, i)' \subseteq Copies(p, i)
  BY <1>2 DEF Copies
<1>4. ASSUME NEW i \in Id \ {0}
      PROVE  Once(i)'
  <2>1. \A p \in Pool : /\ Cardinality(Copies(p, i)') \in Nat
                        /\ Cardinality(Copies(p, i)') <= Cardinality(Copies(p, i))
                        /\ Cardinality(Copies(p, i)) \in Nat
    BY <1>3, CopiesFewer, FiniteCopies
  <2>2. /\ handled[i] \in Nat /\ sent[i] \in Nat /\ received \in Nat /\ accepted \in Nat
    BY DEF IInv, RestOK
  <2>3. /\ Cardinality(Copies(Unproc, i)') <= Cardinality(Copies(Unproc, i))
        /\ Cardinality(Copies(Unproc, i)') \in Nat /\ Cardinality(Copies(Unproc, i)) \in Nat
        /\ Cardinality(Copies(Proced, i)') <= Cardinality(Copies(Proced, i))
        /\ Cardinality(Copies(Proced, i)') \in Nat /\ Cardinality(Copies(Proced, i)) \in Nat
    BY <2>1, PoolThreads
  <2>4. Once(i)
    BY DEF CountInv
  <2> QED
    BY <2>2, <2>3, <2>4 DEF Once
<1> QED
  BY <1>1, <1>4 DEF CountInv

\* What a thread holds is pending only if the thread carries it.
LEMMA HandAlone ==
    ASSUME OneOwner, NEW p \in Pool, NEW t \in Thread, Holds(p, t)
    PROVE  /\ hand[p][t] \notin Range(filled[p])
           /\ \A u \in Thread \ {t} : hand[p][u] # hand[p][t]
           /\ ~Carrying(p, t) => ~Pending(p, hand[p][t])
<1>1. hand[p][t] \notin Range(filled[p])
  BY DEF OneOwner, Owned
<1>2. hand[p][t] # NULL
  BY BufferFacts DEF Holds
<1>3. \A u \in Thread : hand[p][u] = hand[p][t] => u = t
  BY <1>2 DEF OneOwner, Owned
<1> QED
  BY <1>1, <1>3 DEF Pending

\* The receiving loop writes into a buffer nobody else can see.
LEMMA RecvCounts ==
    ASSUME IInv, OneOwner, CountInv, Recv
    PROVE  CountInv'
<1> USE ThreadFacts
<1>1. QueuesOK /\ PcsOK /\ RestOK /\ MainHand
  BY DEF IInv, HandsOK
<1> DEFINE h == hand[Unproc][Main]
<1>2. /\ UNCHANGED queues /\ handled' = handled /\ sent' = sent
      /\ Goto(Main, "recv", "pushbuf") \/ Goto(Main, "recv", "unlist")
  BY DEF Recv, RecvMessage, RecvNothing, RecvFails, hist
<1>3. /\ Alone(Main) /\ pc[Main] = "recv" /\ pc'[Main] \in {"pushbuf", "unlist"}
      /\ hand' = hand /\ \A r \in Pool : filled'[r] = filled[r]
  BY <1>1, <1>2, StillHands, GotoAlone
<1>4. Holds(Unproc, Main) /\ h \in Buffer
  BY <1>1, <1>3 DEF MainHand, Holds
<1>5. Drains(Proced, Main)
  BY <1>3, CarriesOn, PoolThreads DEF Carrying
<1>6. \A b \in Buffer : Pending(Proced, b)' => Pending(Proced, b)
  BY <1>3, <1>5, FewerPending
<1>7. \A b \in Buffer \ {h} : Pending(Unproc, b)' => Pending(Unproc, b)
  <2> SUFFICES ASSUME NEW b \in Buffer \ {h}, Pending(Unproc, b)'
               PROVE  Pending(Unproc, b)
    OBVIOUS
  <2>1. CASE b \in Range(filled'[Unproc])
    BY <1>3, <2>1 DEF Pending
  <2>2. CASE \E u \in Thread : Carrying(Unproc, u)' /\ hand'[Unproc][u] = b
    <3>1. PICK u \in Thread : Carrying(Unproc, u)' /\ hand'[Unproc][u] = b
      BY <2>2
    <3>2. u # Main
      BY <1>3, <3>1
    <3>3. Carrying(Unproc, u) /\ hand[Unproc][u] = b
      BY <1>3, <3>1, <3>2 DEF Alone, Carrying
    <3> QED
      BY <3>3 DEF Pending
  <2> QED
    BY <2>1, <2>2 DEF Pending
<1>8. \A i \in Id : /\ handled[i] \in Nat /\ sent[i] \in Nat
                    /\ Cardinality(Copies(Unproc, i)) \in Nat
                    /\ Cardinality(Copies(Proced, i)) \in Nat
  BY <1>1, FiniteCopies DEF RestOK
<1>9. received \in Nat /\ accepted \in Nat /\ received <= accepted
  BY <1>1 DEF RestOK
<1>10. ASSUME NEW i \in Id \ {0}, content'[Proced] = content[Proced]
       PROVE  sent'[i] + Cardinality(Copies(Proced, i)') <= handled'[i]
  <2>1. Copies(Proced, i)' \subseteq Copies(Proced, i)
    BY <1>6, <1>10 DEF Copies
  <2>2. /\ Cardinality(Copies(Proced, i)') \in Nat
        /\ Cardinality(Copies(Proced, i)') <= Cardinality(Copies(Proced, i))
    BY <2>1, CopiesFewer
  <2>3. sent[i] + Cardinality(Copies(Proced, i)) <= handled[i]
    BY DEF CountInv, Once
  <2> QED
    BY <1>2, <1>8, <2>2, <2>3
<1> HIDE DEF h
<1>11. ASSUME NEW flag \in Flag, RecvMessage(flag)
       PROVE  CountInv'
  <2>1. /\ accepted' = accepted + 1 /\ received' = received + 1
        /\ content' = [content EXCEPT ![Unproc][h] =
                         [id |-> received + 1, flag |-> flag]]
    BY <1>11 DEF RecvMessage, h
  <2>2. /\ content'[Proced] = content[Proced]
        /\ content'[Unproc][h].id = received + 1
        /\ \A b \in Buffer \ {h} : content'[Unproc][b] = content[Unproc][b]
    BY <1>1, <1>4, <2>1 DEF RestOK
  <2>3. Numbered'
    <3>1. ASSUME NEW p \in Pool, NEW b \in Buffer
          PROVE  content'[p][b].id <= received'
      <4>1. content[p][b].id <= received /\ content[p][b].id \in Nat
        BY <1>1 DEF CountInv, Numbered, RestOK, Message, Id
      <4>2. CASE p = Unproc /\ b = h
        BY <1>9, <2>1, <2>2, <4>2
      <4>3. CASE ~(p = Unproc /\ b = h)
        <5>1. content'[p][b] = content[p][b]
          BY <2>2, <4>3, PoolThreads
        <5> QED
          BY <1>9, <2>1, <4>1, <5>1
      <4> QED
        BY <4>2, <4>3
    <3>2. \A i \in Id : i > received' => handled'[i] = 0
      <4>1. \A i \in Id : i > received' => i > received
        BY <1>9, <2>1 DEF Id
      <4> QED
        BY <1>2, <4>1 DEF CountInv, Numbered
    <3> QED
      BY <3>1, <3>2 DEF Numbered
  <2>4. ASSUME NEW i \in Id \ {0}
        PROVE  handled'[i] + Cardinality(Copies(Unproc, i)') <= 1 + (accepted' - received')
    <3>1. CASE i = received + 1
      <4>1. handled'[i] = 0
        BY <1>2, <1>9, <3>1 DEF CountInv, Numbered
      <4>2. Copies(Unproc, i)' \subseteq {h}
        <5>1. ASSUME NEW b \in Buffer \ {h}
              PROVE  b \notin Copies(Unproc, i)'
          <6>1. content[Unproc][b].id <= received /\ content[Unproc][b].id \in Nat
            BY <1>1 DEF CountInv, Numbered, RestOK, Message, Id
          <6> QED
            BY <1>9, <2>2, <3>1, <6>1 DEF Copies
        <5> QED
          BY <5>1 DEF Copies
      <4>3. Cardinality(Copies(Unproc, i)') \in Nat /\ Cardinality(Copies(Unproc, i)') <= 1
        <5>1. /\ IsFiniteSet({h}) /\ Cardinality({h}) = 1
          BY FS_Singleton
        <5>2. /\ IsFiniteSet(Copies(Unproc, i)')
              /\ Cardinality(Copies(Unproc, i)') <= Cardinality({h})
          BY <4>2, <5>1, FS_Subset
        <5> QED
          BY <5>1, <5>2, FS_CardinalityType
      <4> QED
        BY <1>9, <2>1, <4>1, <4>3
    <3>2. CASE i # received + 1
      <4>1. Copies(Unproc, i)' \subseteq Copies(Unproc, i)
        BY <1>7, <2>2, <3>2 DEF Copies
      <4>2. /\ Cardinality(Copies(Unproc, i)') \in Nat
            /\ Cardinality(Copies(Unproc, i)') <= Cardinality(Copies(Unproc, i))
        BY <4>1, CopiesFewer
      <4>3. handled[i] + Cardinality(Copies(Unproc, i)) <= 1 + (accepted - received)
        BY DEF CountInv, Once
      <4> QED
        BY <1>2, <1>8, <1>9, <2>1, <4>2, <4>3
    <3> QED
      BY <3>1, <3>2
  <2> QED
    BY <1>10, <2>2, <2>3, <2>4 DEF CountInv, Once
<1>12. CASE RecvNothing
  <2>1. accepted' = accepted + 1 /\ received' = received /\ content' = content
    BY <1>12 DEF RecvNothing
  <2>2. Numbered'
    BY <1>2, <2>1 DEF CountInv, Numbered
  <2>3. ASSUME NEW i \in Id \ {0}
        PROVE  handled'[i] + Cardinality(Copies(Unproc, i)') <= 1 + (accepted' - received')
    <3>1. Copies(Unproc, i)' \subseteq Copies(Unproc, i) \union {h}
      BY <1>7, <2>1 DEF Copies
    <3>2. /\ Cardinality(Copies(Unproc, i)') \in Nat
          /\ Cardinality(Copies(Unproc, i)') <= Cardinality(Copies(Unproc, i)) + 1
      BY <3>1, CopiesOneMore
    <3>3. handled[i] + Cardinality(Copies(Unproc, i)) <= 1 + (accepted - received)
      BY DEF CountInv, Once
    <3> QED
      BY <1>2, <1>8, <1>9, <2>1, <3>2, <3>3
  <2> QED
    BY <1>10, <2>1, <2>2, <2>3 DEF CountInv, Once
<1>13. CASE RecvFails
  <2>1. /\ Goto(Main, "recv", "unlist")
        /\ UNCHANGED <<content, received, accepted, handled, sent>>
    BY <1>13 DEF RecvFails, counts, hist
  <2>2. pc'[Main] = "unlist"
    BY <1>1, <1>3, <2>1, StillHands, GotoAlone, <1>2
  <2>3. Drains(Unproc, Main)
    BY <1>3, <2>2, CarriesOn DEF Carrying
  <2> QED
    BY <1>3, <1>5, <2>1, <2>3, CountSame
<1> QED
  BY <1>11, <1>12, <1>13 DEF Recv

\* The process function runs: one pending copy fewer of its message, and one
\* more of the answer, if there is one.
LEMMA ProcessCounts ==
    ASSUME IInv, OneOwner, CountInv, NEW w \in Worker, Process(w)
    PROVE  CountInv'
<1> USE ThreadFacts
<1>1. /\ QueuesOK /\ PcsOK /\ RestOK /\ WorkerHand(w)
      /\ w \in Thread /\ w # Main /\ w \notin Sender /\ PoolOf(w) = Unproc
  BY DEF IInv, HandsOK
<1> DEFINE b == hand[Unproc][w]
           c == hand[Proced][w]
           n == content[Unproc][b].id
<1>2. /\ Goto(w, "process", "putback") /\ UNCHANGED queues /\ UNCHANGED counts
      /\ handled' = Count(handled, n) /\ sent' = sent
  BY <1>1 DEF Process, Msg
<1>3. /\ Alone(w) /\ pc[w] = "process" /\ pc'[w] = "putback"
      /\ hand' = hand /\ \A r \in Pool : filled'[r] = filled[r]
  BY <1>1, <1>2, StillHands, GotoAlone
<1>4. Holds(Unproc, w) /\ b \in Buffer
  BY <1>1, <1>3 DEF WorkerHand, Holds
<1>5. content[Unproc][b] \in Message /\ n \in Id
  BY <1>1, <1>4 DEF RestOK, Message
<1>6. handled' = [handled EXCEPT ![n] = handled[n] + 1]
  BY <1>2 DEF Count
<1>7. /\ handled'[n] = handled[n] + 1
      /\ \A i \in Id : i # n => handled'[i] = handled[i]
  BY <1>1, <1>5, <1>6 DEF RestOK
<1>8. Carrying(Unproc, w) /\ ~Carrying(Proced, w) /\ Pending(Unproc, b)
  BY <1>1, <1>3 DEF Carrying, Pending, Unproc, Proced
<1>9. ASSUME NEW x \in Buffer, Pending(Unproc, x)'
      PROVE  Pending(Unproc, x) /\ x # b
  <2>1. ~Carrying(Unproc, w)'
    BY <1>1, <1>3, PoolThreads DEF Carrying
  <2>2. CASE x \in Range(filled'[Unproc])
    <3>1. x \in Range(filled[Unproc])
      BY <1>3, <2>2
    <3> QED
      BY <1>1, <1>4, <3>1, HandAlone DEF Pending
  <2>3. CASE \E u \in Thread : Carrying(Unproc, u)' /\ hand'[Unproc][u] = x
    <3>1. PICK u \in Thread : Carrying(Unproc, u)' /\ hand'[Unproc][u] = x
      BY <2>3
    <3>2. u # w
      BY <2>1, <3>1
    <3>3. Carrying(Unproc, u) /\ hand[Unproc][u] = x
      BY <1>3, <3>1, <3>2 DEF Alone, Carrying
    <3> QED
      BY <1>1, <1>4, <3>2, <3>3, HandAlone DEF Pending
  <2> QED
    BY <1>9, <2>2, <2>3 DEF Pending
<1>10. ASSUME NEW x \in Buffer, Pending(Proced, x)', x # c
       PROVE  Pending(Proced, x)
  <2>1. CASE x \in Range(filled'[Proced])
    BY <1>3, <2>1 DEF Pending
  <2>2. CASE \E u \in Thread : Carrying(Proced, u)' /\ hand'[Proced][u] = x
    <3>1. PICK u \in Thread : Carrying(Proced, u)' /\ hand'[Proced][u] = x
      BY <2>2
    <3>2. u # w
      BY <1>3, <1>10, <3>1
    <3>3. Carrying(Proced, u) /\ hand[Proced][u] = x
      BY <1>3, <3>1, <3>2 DEF Alone, Carrying
    <3> QED
      BY <3>3 DEF Pending
  <2> QED
    BY <1>10, <2>1, <2>2 DEF Pending
\* What is written, if anything, is the message itself.
<1>11. /\ content'[Unproc] = content[Unproc]
       /\ \A x \in Buffer : x # c => content'[Proced][x] = content[Proced][x]
       /\ c \in Buffer => content'[Proced][c].id = n
  <2>1. CASE ~af[w] /\ content' = content
    <3>1. c \notin Buffer
      BY <1>1, <1>3, <2>1, BufferFacts DEF WorkerHand, Bare
    <3> QED
      BY <2>1, <3>1
  <2>2. CASE content' = [content EXCEPT ![Proced][c] = content[Unproc][b]]
    BY <1>1, <2>2, PoolThreads DEF RestOK
  <2> QED
    BY <1>1, <2>1, <2>2 DEF Process, Msg
<1>12. \A i \in Id : /\ handled[i] \in Nat /\ sent[i] \in Nat
                     /\ Cardinality(Copies(Unproc, i)) \in Nat
                     /\ Cardinality(Copies(Proced, i)) \in Nat
  BY <1>1, FiniteCopies DEF RestOK
<1>13. received \in Nat /\ accepted \in Nat /\ received' = received /\ accepted' = accepted
  BY <1>1, <1>2 DEF RestOK, counts
<1> HIDE DEF b, c, n
<1>14. n <= received
  BY <1>4 DEF CountInv, Numbered, n
<1>15. Numbered'
  <2>1. \A x \in Buffer : content'[Unproc][x].id <= received'
    BY <1>11, <1>13 DEF CountInv, Numbered
  <2>2. \A x \in Buffer : content'[Proced][x].id <= received'
    <3> TAKE x \in Buffer
    <3>1. CASE x = c
      BY <1>11, <1>13, <1>14, <3>1
    <3>2. CASE x # c
      BY <1>11, <1>13, <3>2 DEF CountInv, Numbered
    <3> QED
      BY <3>1, <3>2
  <2>3. \A i \in Id : i > received' => handled'[i] = 0
    <3>1. \A i \in Id : i > received => i # n
      BY <1>5, <1>13, <1>14 DEF Id
    <3> QED
      BY <1>7, <1>13, <3>1 DEF CountInv, Numbered
  <2> QED
    BY <2>1, <2>2, <2>3, PoolThreads DEF Numbered
<1>16. ASSUME NEW i \in Id \ {0}
       PROVE  Once(i)'
  <2>1. /\ handled[i] + Cardinality(Copies(Unproc, i)) <= 1 + (accepted - received)
        /\ sent[i] + Cardinality(Copies(Proced, i)) <= handled[i]
    BY DEF CountInv, Once
  <2>2. CASE i = n
    <3>1. b \in Copies(Unproc, i) /\ Copies(Unproc, i)' \subseteq Copies(Unproc, i) \ {b}
      BY <1>4, <1>8, <1>9, <1>11, <2>2 DEF Copies, n
    <3>2. /\ Cardinality(Copies(Unproc, i)') \in Nat
          /\ Cardinality(Copies(Unproc, i)') + 1 <= Cardinality(Copies(Unproc, i))
      BY <3>1, CopiesOneFewer
    <3>3. Copies(Proced, i)' \subseteq Copies(Proced, i) \union {c}
      BY <1>10, <1>11 DEF Copies
    <3>4. /\ Cardinality(Copies(Proced, i)') \in Nat
          /\ Cardinality(Copies(Proced, i)') <= Cardinality(Copies(Proced, i)) + 1
      BY <3>3, CopiesOneMore
    <3>5. handled'[i] = handled[i] + 1
      BY <1>7, <2>2
    <3>6. handled'[i] + Cardinality(Copies(Unproc, i)') <= 1 + (accepted - received)
      BY <1>12, <1>13, <2>1, <3>2, <3>5
    <3>7. sent'[i] + Cardinality(Copies(Proced, i)') <= handled'[i]
      BY <1>2, <1>12, <2>1, <3>4, <3>5
    <3> QED
      BY <1>13, <3>6, <3>7 DEF Once
  <2>3. CASE i # n
    <3>1. Copies(Unproc, i)' \subseteq Copies(Unproc, i)
      BY <1>9, <1>11 DEF Copies
    <3>2. Copies(Proced, i)' \subseteq Copies(Proced, i)
      BY <1>10, <1>11, <2>3 DEF Copies
    <3>3. /\ Cardinality(Copies(Unproc, i)') \in Nat
          /\ Cardinality(Copies(Unproc, i)') <= Cardinality(Copies(Unproc, i))
          /\ Cardinality(Copies(Proced, i)') \in Nat
          /\ Cardinality(Copies(Proced, i)') <= Cardinality(Copies(Proced, i))
      BY <3>1, <3>2, CopiesFewer
    <3>4. handled'[i] = handled[i]
      BY <1>7, <2>3
    <3>5. handled'[i] + Cardinality(Copies(Unproc, i)') <= 1 + (accepted - received)
      BY <1>12, <1>13, <2>1, <3>3, <3>4
    <3>6. sent'[i] + Cardinality(Copies(Proced, i)') <= handled'[i]
      BY <1>2, <1>12, <2>1, <3>3, <3>4
    <3> QED
      BY <1>13, <3>5, <3>6 DEF Once
  <2> QED
    BY <2>2, <2>3
<1> QED
  BY <1>15, <1>16 DEF CountInv

\* An answer is sent, and pending no more.
LEMMA SendCounts ==
    ASSUME IInv, OneOwner, CountInv, NEW s \in Sender, Send(s)
    PROVE  CountInv'
<1> USE ThreadFacts
<1>1. /\ QueuesOK /\ PcsOK /\ RestOK /\ s \in Thread /\ s # Main /\ s \notin Worker
      /\ PoolOf(s) = Proced
  BY DEF IInv
<1> DEFINE c == hand[Proced][s]
           n == content[Proced][c].id
<1>2. /\ Goto(s, "lookup", "putback") /\ c # NULL /\ UNCHANGED queues
      /\ UNCHANGED counts /\ handled' = handled /\ content' = content
      /\ sent' = Count(sent, n) \/ sent' = sent
  BY <1>1 DEF Send, Msg
<1>3. /\ Alone(s) /\ pc[s] = "lookup" /\ pc'[s] = "putback"
      /\ hand' = hand /\ \A r \in Pool : filled'[r] = filled[r]
  BY <1>1, <1>2, StillHands, GotoAlone
<1>4. Holds(Proced, s) /\ c \in Buffer
  BY <1>1, <1>2 DEF QueuesOK, Holds
<1>5. content[Proced][c] \in Message /\ n \in Id
  BY <1>1, <1>4 DEF RestOK, Message
<1>6. Carrying(Proced, s) /\ Pending(Proced, c)
  BY <1>1, <1>3 DEF Carrying, Pending
<1>7. ASSUME NEW x \in Buffer, Pending(Proced, x)'
      PROVE  Pending(Proced, x) /\ x # c
  <2>1. ~Carrying(Proced, s)'
    BY <1>1, <1>3, PoolThreads DEF Carrying
  <2>2. CASE x \in Range(filled'[Proced])
    <3>1. x \in Range(filled[Proced])
      BY <1>3, <2>2
    <3> QED
      BY <1>1, <1>4, <3>1, HandAlone DEF Pending
  <2>3. CASE \E u \in Thread : Carrying(Proced, u)' /\ hand'[Proced][u] = x
    <3>1. PICK u \in Thread : Carrying(Proced, u)' /\ hand'[Proced][u] = x
      BY <2>3
    <3>2. u # s
      BY <2>1, <3>1
    <3>3. Carrying(Proced, u) /\ hand[Proced][u] = x
      BY <1>3, <3>1, <3>2 DEF Alone, Carrying
    <3> QED
      BY <1>1, <1>4, <3>2, <3>3, HandAlone DEF Pending
  <2> QED
    BY <1>7, <2>2, <2>3 DEF Pending
<1>8. Drains(Unproc, s)
  BY <1>1, <1>3, CarriesOn, PoolThreads DEF Carrying
<1>9. \A x \in Buffer : Pending(Unproc, x)' => Pending(Unproc, x)
  BY <1>1, <1>3, <1>8, FewerPending
<1>10. \A i \in Id : /\ handled[i] \in Nat /\ sent[i] \in Nat
                     /\ Cardinality(Copies(Unproc, i)) \in Nat
                     /\ Cardinality(Copies(Proced, i)) \in Nat
  BY <1>1, FiniteCopies DEF RestOK
<1>11. received \in Nat /\ accepted \in Nat /\ received' = received /\ accepted' = accepted
  BY <1>1, <1>2 DEF RestOK, counts
<1>12. \A i \in Id : \/ i = n /\ sent'[i] \in {sent[i], sent[i] + 1}
                     \/ i # n /\ sent'[i] = sent[i]
  <2>1. sent \in [Id -> Nat]
    BY <1>1 DEF RestOK
  <2>2. CASE sent' = [sent EXCEPT ![n] = sent[n] + 1]
    BY <1>5, <2>1, <2>2
  <2>3. CASE sent' = sent
    BY <2>3
  <2> QED
    BY <1>2, <2>2, <2>3 DEF Count
<1>13. Numbered'
  BY <1>2, <1>11 DEF CountInv, Numbered
<1> HIDE DEF c, n
<1>14. ASSUME NEW i \in Id \ {0}
       PROVE  Once(i)'
  <2>1. /\ handled[i] + Cardinality(Copies(Unproc, i)) <= 1 + (accepted - received)
        /\ sent[i] + Cardinality(Copies(Proced, i)) <= handled[i]
    BY DEF CountInv, Once
  <2>2. Copies(Unproc, i)' \subseteq Copies(Unproc, i)
    BY <1>2, <1>9 DEF Copies
  <2>3. /\ Cardinality(Copies(Unproc, i)') \in Nat
        /\ Cardinality(Copies(Unproc, i)') <= Cardinality(Copies(Unproc, i))
    BY <2>2, CopiesFewer
  <2>4. handled'[i] + Cardinality(Copies(Unproc, i)') <= 1 + (accepted - received)
    BY <1>2, <1>10, <1>11, <2>1, <2>3
  <2>5. sent'[i] + Cardinality(Copies(Proced, i)') <= handled'[i]
    <3>1. CASE i = n
      <4>1. c \in Copies(Proced, i) /\ Copies(Proced, i)' \subseteq Copies(Proced, i) \ {c}
        BY <1>2, <1>4, <1>6, <1>7, <3>1 DEF Copies, n
      <4>2. /\ Cardinality(Copies(Proced, i)') \in Nat
            /\ Cardinality(Copies(Proced, i)') + 1 <= Cardinality(Copies(Proced, i))
        BY <4>1, CopiesOneFewer
      <4>3. sent'[i] = sent[i] \/ sent'[i] = sent[i] + 1
        BY <1>12, <3>1
      <4> QED
        BY <1>2, <1>10, <2>1, <4>2, <4>3
    <3>2. CASE i # n
      <4>1. Copies(Proced, i)' \subseteq Copies(Proced, i)
        BY <1>2, <1>7 DEF Copies
      <4>2. /\ Cardinality(Copies(Proced, i)') \in Nat
            /\ Cardinality(Copies(Proced, i)') <= Cardinality(Copies(Proced, i))
        BY <4>1, CopiesFewer
      <4>3. sent'[i] = sent[i]
        BY <1>12, <3>2
      <4> QED
        BY <1>2, <1>10, <2>1, <4>2, <4>3
    <3> QED
      BY <3>1, <3>2
  <2> QED
    BY <1>11, <2>4, <2>5 DEF Once
<1> QED
  BY <1>13, <1>14 DEF CountInv

\* A step that pulls and pushes nothing: nobody carries a buffer who did not.
LEMMA StillCounts ==
    ASSUME IInv, CountInv, NEW t \in Thread, NEW from, NEW to, Goto(t, from, to),
           UNCHANGED queues, UNCHANGED <<content, received, accepted, handled, sent>>,
           \A p \in Pool : Carrying(p, t)' => Carrying(p, t)
    PROVE  CountInv'
<1>1. Alone(t) /\ hand' = hand /\ \A r \in Pool : filled'[r] = filled[r]
  BY StillHands, GotoAlone, ThreadFacts DEF IInv
<1>2. Drains(Unproc, t) /\ Drains(Proced, t)
  BY <1>1, CarriesOn, ThreadFacts
<1> QED
  BY <1>1, <1>2, CountSame

LEMMA MainCounts ==
    ASSUME IInv, OneOwner, CountInv, MainStep
    PROVE  CountInv'
<1> USE ThreadFacts
<1>1. QueuesOK /\ PcsOK /\ RestOK /\ MainHand
  BY DEF IInv, HandsOK
<1>2. ASSUME NEW from, NEW to, Goto(Main, from, to), to # "pushbuf"
      PROVE  \A p \in Pool : ~Carrying(p, Main)'
  <2>1. pc'[Main] = to
    BY <1>1, <1>2 DEF Goto, PcsOK
  <2> QED
    BY <1>2, <2>1 DEF Carrying
<1>3. CASE MainPull
  <2>1. /\ Goto(Main, "pullbuf", "recv") /\ PullEmpty(Unproc, Main)
        /\ UNCHANGED <<content, received, accepted, handled, sent>>
    BY <1>3 DEF MainPull, counts, hist
  <2>2. /\ Alone(Main) /\ pc'[Main] = "recv"
        /\ \A r \in Pool : filled'[r] = filled[r]
    BY <1>1, <2>1, PullEmptyType, PullEmptyStock, GotoAlone
  <2>3. Drains(Unproc, Main) /\ Drains(Proced, Main)
    BY <1>2, <2>1, <2>2, CarriesOn
  <2> QED
    BY <2>1, <2>2, <2>3, CountSame
<1>4. CASE MainPush
  <2>1. /\ Goto(Main, "pushbuf", "postbuf") /\ PushFilled(Unproc, Main)
        /\ UNCHANGED <<content, received, accepted, handled, sent>>
    BY <1>4 DEF MainPush, counts, hist
  <2>2. pc[Main] = "pushbuf"
    BY <2>1 DEF Goto
  <2>3. Holds(Unproc, Main) /\ Carrying(Unproc, Main)
    BY <1>1, <2>2 DEF MainHand, Carrying
  <2>4. Alone(Main) /\ filled'[Proced] = filled[Proced]
    BY <1>1, <2>1, <2>3, PushFilledType, PushFilledStock, GotoAlone
  <2>5. Drains(Unproc, Main)
    BY <2>1, <2>3, PushDrains
  <2>6. Drains(Proced, Main)
    BY <1>2, <2>1, <2>4, CarriesOn
  <2> QED
    BY <2>1, <2>4, <2>5, <2>6, CountSame
<1>5. CASE MainPost
  <2>1. /\ Goto(Main, "postbuf", "pullbuf") /\ UNCHANGED queues
        /\ UNCHANGED <<content, received, accepted, handled, sent>>
    BY <1>5 DEF MainPost, counts, hist
  <2> QED
    BY <1>2, <2>1, StillCounts
<1>6. CASE Shutdown
  <2>1. UNCHANGED queues /\ UNCHANGED <<content, received, accepted, handled, sent>>
    BY <1>6 DEF Shutdown, ClearList, SetExit, JoinAndFree, PostExit, counts, hist
  <2>2. PICK from, to : Goto(Main, from, to) /\ to # "pushbuf"
    BY <1>6 DEF Shutdown, ClearList, SetExit, JoinAndFree, PostExit
  <2> QED
    BY <1>2, <2>1, <2>2, StillCounts
<1> QED
  BY <1>3, <1>4, <1>5, <1>6 DEF MainStep

LEMMA RoundCounts ==
    ASSUME IInv, CountInv, NEW t \in PoolThread,
           Wait(t) \/ CheckExit(t) \/ Pull(t) \/ LookupDies(t)
    PROVE  CountInv'
<1> DEFINE p == PoolOf(t)
<1>1. /\ QueuesOK /\ PcsOK /\ HandsOK /\ t \in Thread /\ t # Main /\ p \in Pool
  BY ThreadFacts DEF IInv, PoolThread
<1>2. CASE Wait(t) \/ CheckExit(t) \/ LookupDies(t)
  <2>1. PICK from, to : /\ Goto(t, from, to)
                        /\ to \in {"check", "exited", "pull", "dead"}
    BY <1>2 DEF Wait, CheckExit, LookupDies, Die
  <2>2. /\ UNCHANGED queues /\ UNCHANGED <<content, received, accepted, handled, sent>>
    BY <1>2 DEF Wait, CheckExit, LookupDies, counts, hist
  <2>3. pc'[t] = to
    BY <1>1, <2>1 DEF Goto, PcsOK
  <2>4. \A r \in Pool : ~Carrying(r, t)'
    BY <2>1, <2>3 DEF Carrying
  <2> QED
    BY <1>1, <2>1, <2>2, <2>4, StillCounts
<1>3. CASE Pull(t)
  <2>1. /\ Goto(t, "pull", "lookup") /\ PullFilled(p, t)
        /\ UNCHANGED <<content, received, accepted, handled, sent>>
    BY <1>3 DEF Pull, counts, hist
  <2>2. pc[t] = "pull"
    BY <2>1 DEF Goto
  <2>3. Bare(p, t)
    BY <1>1, <2>2, ThreadFacts DEF PoolThread, HandsOK, WorkerHand, SenderHand
  <2>4. Alone(t) /\ pc'[t] = "lookup"
    BY <1>1, <2>1, PullFilledType, GotoAlone
  <2>5. Drains(p, t)
    BY <1>1, <2>1, <2>3, PullDrains
  <2>6. ASSUME NEW r \in Pool \ {p}
        PROVE  Drains(r, t)
    <3>1. filled'[r] = filled[r]
      BY <1>1, <2>1, PullFilledStock
    <3>2. ~Carrying(r, t)'
      BY <1>1, <2>4, <2>6, ThreadFacts, PoolThreads DEF Carrying, PoolThread
    <3> QED
      BY <1>1, <3>1, <3>2, CarriesOn
  <2>7. Drains(Unproc, t) /\ Drains(Proced, t)
    BY <2>5, <2>6, PoolThreads
  <2> QED
    BY <1>1, <2>1, <2>4, <2>7, CountSame
<1> QED
  BY <1>2, <1>3

LEMMA WorkerCounts ==
    ASSUME IInv, OneOwner, CountInv, NEW w \in Worker, WorkerStep(w)
    PROVE  CountInv'
<1> USE ThreadFacts
<1>1. /\ QueuesOK /\ PcsOK /\ WorkerHand(w) /\ w \in PoolThread
      /\ w \in Thread /\ w # Main /\ w \notin Sender
  BY DEF IInv, HandsOK, PoolThread
<1>2. CASE Wait(w) \/ CheckExit(w) \/ Pull(w) \/ LookupDies(w)
  BY <1>1, <1>2, RoundCounts
<1>3. CASE Process(w)
  BY <1>3, ProcessCounts
<1>4. ASSUME NEW from, NEW to, Goto(w, from, to)
      PROVE  pc[w] = from /\ pc'[w] = to
  BY <1>1, <1>4 DEF Goto, PcsOK
<1>5. CASE \/ Lookup(w) \/ LookupAsserts(w) \/ LookupAf(w) \/ LookupAfDies(w)
           \/ ProcessDies(w) \/ PostAnswer(w)
  <2>1. /\ UNCHANGED queues /\ UNCHANGED <<content, received, accepted, handled, sent>>
    BY <1>5 DEF Lookup, LookupAsserts, LookupAf, LookupAfDies, ProcessDies, PostAnswer,
                counts, hist
  <2>2. PICK from, to :
          /\ Goto(w, from, to)
          /\ \/ from = "lookup" /\ to = "lookup_af"
             \/ from = "lookup_af" /\ to \in {"pullout", "process"}
             \/ to \in {"dead", "wait"}
    BY <1>5 DEF Lookup, LookupAsserts, LookupAf, LookupAfDies, ProcessDies, PostAnswer, Die
  <2>3. pc[w] = from /\ pc'[w] = to
    BY <1>4, <2>2
  <2>4. \A p \in Pool : Carrying(p, w)' => Carrying(p, w)
    BY <1>1, <2>2, <2>3 DEF Carrying
  <2> QED
    BY <1>1, <2>1, <2>2, <2>4, StillCounts
<1>6. CASE PullOut(w)
  <2>1. /\ Goto(w, "pullout", "process") /\ PullEmpty(Proced, w)
        /\ UNCHANGED <<content, received, accepted, handled, sent>>
    BY <1>6 DEF PullOut, counts, hist
  <2>2. /\ Alone(w) /\ pc[w] = "pullout" /\ pc'[w] = "process"
        /\ HandOnly(Proced, w) /\ \A r \in Pool : filled'[r] = filled[r]
    BY <1>1, <2>1, PullEmptyType, PullEmptyStock, GotoAlone
  <2>3. hand'[Unproc][w] = hand[Unproc][w] /\ Carrying(Unproc, w) /\ ~Carrying(Proced, w)'
    BY <1>1, <2>2 DEF HandOnly, Carrying
  <2>4. Drains(Unproc, w) /\ Drains(Proced, w)
    BY <1>1, <2>2, <2>3, CarriesOn
  <2> QED
    BY <1>1, <2>1, <2>2, <2>4, CountSame
<1>7. CASE PutBack(w)
  <2>1. /\ Goto(w, "putback", IF af[w] THEN "answer" ELSE "wait") /\ PushEmpty(Unproc, w)
        /\ UNCHANGED <<content, received, accepted, handled, sent>>
    BY <1>7 DEF PutBack, counts, hist
  <2>2. pc[w] = "putback" /\ pc'[w] \in {"answer", "wait"}
    BY <1>4, <2>1
  <2>3. Holds(Unproc, w)
    BY <1>1, <2>2 DEF WorkerHand
  <2>4. /\ Alone(w) /\ HandOnly(Unproc, w) /\ \A r \in Pool : filled'[r] = filled[r]
    BY <1>1, <2>1, <2>3, PushEmptyType, PushEmptyStock, GotoAlone
  <2>5. hand'[Proced][w] = hand[Proced][w] /\ Carrying(Proced, w) /\ ~Carrying(Unproc, w)'
    BY <1>1, <2>2, <2>4 DEF HandOnly, Carrying
  <2>6. Drains(Unproc, w) /\ Drains(Proced, w)
    BY <1>1, <2>4, <2>5, CarriesOn
  <2> QED
    BY <1>1, <2>1, <2>4, <2>6, CountSame
<1>8. CASE DropAnswer(w) \/ PushAnswer(w)
  <2>1. PICK to \in {"wait", "post"} : Goto(w, "answer", to)
    BY <1>8 DEF DropAnswer, PushAnswer
  <2>2. /\ PushEmpty(Proced, w) \/ PushFilled(Proced, w)
        /\ UNCHANGED <<content, received, accepted, handled, sent>>
    BY <1>8 DEF DropAnswer, PushAnswer, counts, hist
  <2>3. pc[w] = "answer" /\ pc'[w] = to
    BY <1>4, <2>1
  <2>4. Holds(Proced, w) /\ Carrying(Proced, w) /\ \A p \in Pool : ~Carrying(p, w)'
    BY <1>1, <2>3 DEF WorkerHand, Carrying
  <2>5. Alone(w) /\ filled'[Unproc] = filled[Unproc]
    <3>1. HandOnly(Proced, w)
      BY <1>1, <2>2, <2>4, PushEmptyType, PushFilledType
    <3>2. filled'[Unproc] = filled[Unproc]
      BY <1>1, <2>2, <2>4, PushEmptyStock, PushFilledStock
    <3> QED
      BY <1>1, <2>1, <3>1, <3>2, GotoAlone
  <2>6. Drains(Unproc, w)
    BY <1>1, <2>4, <2>5, CarriesOn
  <2>7. Drains(Proced, w)
    <3>1. CASE PushFilled(Proced, w)
      BY <1>1, <2>4, <3>1, PushDrains
    <3>2. CASE PushEmpty(Proced, w)
      BY <1>1, <2>4, <3>2, PushEmptyStock, CarriesOn
    <3> QED
      BY <2>2, <3>1, <3>2
  <2> QED
    BY <1>1, <2>2, <2>5, <2>6, <2>7, CountSame
<1> QED
  BY <1>2, <1>3, <1>5, <1>6, <1>7, <1>8 DEF WorkerStep

LEMMA SenderCounts ==
    ASSUME IInv, OneOwner, CountInv, NEW s \in Sender, SenderStep(s)
    PROVE  CountInv'
<1> USE ThreadFacts
<1>1. /\ QueuesOK /\ PcsOK /\ SenderHand(s) /\ s \in PoolThread
      /\ s \in Thread /\ s # Main /\ s \notin Worker
  BY DEF IInv, HandsOK, PoolThread
<1>2. CASE Wait(s) \/ CheckExit(s) \/ Pull(s) \/ LookupDies(s)
  BY <1>1, <1>2, RoundCounts
<1>3. CASE Send(s)
  BY <1>3, SendCounts
<1>4. CASE PutBackSent(s)
  <2>1. /\ Goto(s, "putback", "wait") /\ PushEmpty(Proced, s)
        /\ UNCHANGED <<content, received, accepted, handled, sent>>
    BY <1>4 DEF PutBackSent, counts, hist
  <2>2. pc[s] = "putback"
    BY <2>1 DEF Goto
  <2>3. Holds(Proced, s)
    BY <1>1, <2>2 DEF SenderHand
  <2>4. /\ Alone(s) /\ pc'[s] = "wait" /\ \A r \in Pool : filled'[r] = filled[r]
    BY <1>1, <2>1, <2>3, PushEmptyType, PushEmptyStock, GotoAlone
  <2>5. \A p \in Pool : ~Carrying(p, s)'
    BY <1>1, <2>4 DEF Carrying
  <2>6. Drains(Unproc, s) /\ Drains(Proced, s)
    BY <1>1, <2>4, <2>5, CarriesOn
  <2> QED
    BY <1>1, <2>1, <2>4, <2>6, CountSame
<1> QED
  BY <1>2, <1>3, <1>4 DEF SenderStep

LEMMA InitCounts == Init => CountInv
<1> SUFFICES ASSUME Init PROVE CountInv
  OBVIOUS
<1>1. /\ \A p \in Pool : \A b \in Buffer : content[p][b].id = 0
      /\ \A i \in Id : handled[i] = 0 /\ sent[i] = 0
      /\ received = 0 /\ accepted = 0
  BY DEF Init, Blank
<1>2. Numbered
  BY <1>1 DEF Numbered
<1>3. ASSUME NEW i \in Id \ {0}
      PROVE  Once(i)
  <2>1. Copies(Unproc, i) = {} /\ Copies(Proced, i) = {}
    BY <1>1, ThreadFacts DEF Copies
  <2> QED
    BY <1>1, <2>1, FS_EmptySet DEF Once
<1> QED
  BY <1>2, <1>3 DEF CountInv

LEMMA NextCounts == IInv /\ OneOwner /\ CountInv /\ [Next]_vars => CountInv'
<1> SUFFICES ASSUME IInv, OneOwner, CountInv, [Next]_vars PROVE CountInv'
  OBVIOUS
<1>1. CASE Recv
  BY <1>1, RecvCounts
<1>2. CASE MainStep
  BY <1>2, MainCounts
<1>3. ASSUME NEW w \in Worker, WorkerStep(w)
      PROVE  CountInv'
  BY <1>3, WorkerCounts
<1>4. ASSUME NEW s \in Sender, SenderStep(s)
      PROVE  CountInv'
  BY <1>4, SenderCounts
<1>5. CASE UNCHANGED vars
  <2>1. UNCHANGED <<filled, hand, pc, content, received, accepted, handled, sent>>
    BY <1>5 DEF vars, queues, counts, hist
  <2>2. \A p \in Pool : \A i \in Id : Copies(p, i)' = Copies(p, i)
    BY <2>1 DEF Copies, Pending, Carrying
  <2>3. Numbered'
    BY <2>1 DEF CountInv, Numbered
  <2>4. \A i \in Id \ {0} : Once(i)'
    BY <2>1, <2>2, PoolThreads DEF CountInv, Once
  <2> QED
    BY <2>3, <2>4 DEF CountInv
<1> QED
  BY <1>1, <1>2, <1>3, <1>4, <1>5 DEF Next, Ended

\* A message is processed once, and once more at most for each datagram without
\* a byte; its answer is sent at most as often: for every number of threads and
\* every interleaving of their pulls, no two of them handle one copy of it.
THEOREM MessagesOnce == Spec => []ProcessedOnce
<1>1. IInv /\ CountInv => ProcessedOnce
  <2> SUFFICES ASSUME IInv, CountInv, NEW i \in Id \ {0}
               PROVE  handled[i] <= 1 + (accepted - received) /\ sent[i] <= handled[i]
    BY DEF ProcessedOnce
  <2>1. /\ handled[i] + Cardinality(Copies(Unproc, i)) <= 1 + (accepted - received)
        /\ sent[i] + Cardinality(Copies(Proced, i)) <= handled[i]
    BY DEF CountInv, Once
  <2>2. /\ Cardinality(Copies(Unproc, i)) \in Nat /\ Cardinality(Copies(Proced, i)) \in Nat
        /\ handled[i] \in Nat /\ sent[i] \in Nat /\ accepted \in Nat /\ received \in Nat
    BY FiniteCopies, ThreadFacts DEF IInv, RestOK
  <2> QED
    BY <2>1, <2>2
<1> QED
  BY InitIInv, NextIInv, InitOwner, NextOwner, InitCounts, NextCounts, <1>1, PTL DEF Spec
=============================================================================

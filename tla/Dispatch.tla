------------------------------ MODULE Dispatch ------------------------------
(***************************************************************************)
(* The server's message pipeline: the receiving loop of jxserver_udp, the  *)
(* threads of jxmsgpool_process that run the registered process function,  *)
(* the threads of jxmsgpool_process_af that send the answers, the two pools*)
(* between them, and the shutdown jxclearlist_clear runs once the receiving*)
(* loop has ended.  (src/cs/server/server.c, src/cs/common/msgpool.c and   *)
(* msgpool_dispatch.c, the process list of src/common/processlist.c.)      *)
(*                                                                         *)
(* Every call of pull_item and push_item is one step: it runs under the    *)
(* mutex of its pool and nothing else does.  Everything between two such   *)
(* calls, a wait or a post, is interleaved.                                *)
(***************************************************************************)
EXTENDS MsgPool, FiniteSets, Functions

CONSTANTS
    Main,           \* the main thread: receives, then shuts down
    Worker,         \* the threads of pool_unprocessed (jxmsgpool_process)
    Sender,         \* the threads of pool_processed (jxmsgpool_process_af)
    Flag,           \* the mflags a message can carry
    Registered,     \* those with a process function in the process list
    RegisteredAf,   \* those with a process_af function as well
    MayBeSilent,    \* those whose process function may produce no output
    ZeroFlag,       \* the mflag of a buffer no message was written to
    MaxRecv         \* bound: datagrams the receiving loop accepts

ASSUME ThreadAssumption ==
    /\ IsFiniteSet(Worker) /\ Worker # {}
    /\ IsFiniteSet(Sender) /\ Sender # {}
    /\ Worker \intersect Sender = {}
    /\ Main \notin Worker \union Sender
ASSUME FlagAssumption ==
    /\ MayBeSilent \subseteq RegisteredAf
    /\ RegisteredAf \subseteq Registered
    /\ Registered \subseteq Flag
    /\ ZeroFlag \in Flag
    /\ MaxRecv \in Nat

Unproc == "unprocessed"
Proced == "processed"
Pool   == {Unproc, Proced}
Thread == {Main} \union Worker \union Sender

ThreadsOf(p) == IF p = Unproc THEN Worker ELSE Sender
PoolOf(t)    == IF t \in Worker THEN Unproc ELSE Proced

\* A message is its number in the order of receipt and its mflag; number 0 is
\* the zeroed buffer calloc returned.
Id      == 0 .. MaxRecv
Message == [id : Id, flag : Flag]
Blank   == [id |-> 0, flag |-> ZeroFlag]

VARIABLES
    filled, empty,  \* [Pool -> Seq(Buffer)]: the two queues of each pool
    lost,           \* history, [Pool -> set]: buffers a refused push dropped
    hand,           \* [Pool -> [Thread -> Buffer or NULL]]: the local pointers
                    \*   buf of jxserver_udp, msgbuf and outmsg of
                    \*   jxmsgpool_process, outmsg of jxmsgpool_process_af
    content,        \* [Pool -> [Buffer -> Message]]: what each buffer holds
    sem,            \* [Pool -> Nat]: hsem_filled
    threadexit,     \* [Pool -> BOOLEAN]
    posted,         \* how many posts s_clearpool has made
    live,           \* [Pool -> BOOLEAN]: FALSE once s_clearpool has freed it
    plist,          \* the process list: "set", "clearing" or "empty"
    pc,             \* [Thread -> where the thread is]
    af,             \* [Worker -> BOOLEAN]: pfunc_process_af is not NULL
    silent,         \* [Worker -> BOOLEAN]: outmsglen is 0
    crash,          \* why the process died, or "none"
    received,       \* how many datagrams carried a message
    accepted,       \* how many datagrams the receiving loop has accepted
    handled,        \* history, [Id -> Nat]: runs of the process function
    sent            \* history, [Id -> Nat]: runs of the process_af function

queues == <<filled, empty, lost, hand>>
exits  == <<threadexit, posted, live, plist>>
locals == <<af, silent>>
counts == <<received, accepted>>
hist   == <<handled, sent>>
vars   == <<queues, content, sem, exits, pc, locals, crash, counts, hist>>

Init ==
    /\ filled = [p \in Pool |-> <<>>]
    /\ empty = [p \in Pool |-> [i \in Buffer |-> i]]
    /\ lost = [p \in Pool |-> {}]
    /\ hand = [p \in Pool |-> [t \in Thread |-> NULL]]
    /\ content = [p \in Pool |-> [b \in Buffer |-> Blank]]
    /\ sem = [p \in Pool |-> 0]
    /\ threadexit = [p \in Pool |-> FALSE]
    /\ posted = 0
    /\ live = [p \in Pool |-> TRUE]
    /\ plist = "set"
    /\ pc = [t \in Thread |-> IF t = Main THEN "pullbuf" ELSE "wait"]
    /\ af = [w \in Worker |-> FALSE]
    /\ silent = [w \in Worker |-> FALSE]
    /\ crash = "none"
    /\ received = 0 /\ accepted = 0
    /\ handled = [i \in Id |-> 0]
    /\ sent = [i \in Id |-> 0]

-----------------------------------------------------------------------------
(* The calls the threads make.                                             *)

Goto(t, from, to) ==
    /\ crash = "none"
    /\ pc[t] = from
    /\ pc' = [pc EXCEPT ![t] = to]

Die(t, from, why) == Goto(t, from, "dead") /\ crash' = why

\* jxpool_pullitem and jxpool_pushitem of thread t on a queue of pool p.  The
\* callers drop the result of a push, so a refused buffer is in no queue and
\* in no variable any more.
PullFilled(p, t) ==
    /\ hand' = [hand EXCEPT ![p][t] = Pulled(filled[p])]
    /\ filled' = [filled EXCEPT ![p] = Rest(@)]
    /\ UNCHANGED <<empty, lost>>

PullEmpty(p, t) ==
    /\ hand' = [hand EXCEPT ![p][t] = Pulled(empty[p])]
    /\ empty' = [empty EXCEPT ![p] = Rest(@)]
    /\ UNCHANGED <<filled, lost>>

Drop(p, t, refused) ==
    /\ hand' = [hand EXCEPT ![p][t] = NULL]
    /\ lost' = IF refused THEN [lost EXCEPT ![p] = @ \union {hand[p][t]}] ELSE lost

PushFilled(p, t) ==
    /\ filled' = [filled EXCEPT ![p] = Pushed(@, FilledCapacity, hand[p][t])]
    /\ Drop(p, t, Refused(filled[p], FilledCapacity))
    /\ UNCHANGED empty

PushEmpty(p, t) ==
    /\ empty' = [empty EXCEPT ![p] = Pushed(@, EmptyCapacity, hand[p][t])]
    /\ Drop(p, t, Refused(empty[p], EmptyCapacity))
    /\ UNCHANGED filled

\* jxsem_post and jxsem_wait; sem_init of the unix build takes no maximum.
Post(p) == sem' = [sem EXCEPT ![p] = @ + 1]

Count(history, i) == [history EXCEPT ![i] = @ + 1]

-----------------------------------------------------------------------------
(* jxserver_udp, on the main thread.                                       *)

\* The busy wait for an empty buffer: pull_item until it is not NULL.
MainPull ==
    /\ Goto(Main, "pullbuf", "recv")
    /\ empty[Unproc] # <<>>
    /\ PullEmpty(Unproc, Main)
    /\ UNCHANGED <<content, sem, exits, locals, crash, counts, hist>>

\* jxserver_recv takes a datagram that holds a message.
RecvMessage(flag) ==
    /\ Goto(Main, "recv", "pushbuf")
    /\ accepted < MaxRecv
    /\ accepted' = accepted + 1
    /\ received' = received + 1
    /\ content' = [content EXCEPT ![Unproc][hand[Unproc][Main]] =
                     [id |-> received + 1, flag |-> flag]]
    /\ UNCHANGED <<queues, sem, exits, locals, crash, hist>>

\* A datagram without a byte: jxserver_recv returns 0, which jxserver_udp takes
\* for a message, and the buffer still holds what it held before.
RecvNothing ==
    /\ Goto(Main, "recv", "pushbuf")
    /\ accepted < MaxRecv
    /\ accepted' = accepted + 1
    /\ UNCHANGED <<queues, content, sem, exits, locals, crash, received, hist>>

\* recvfrom fails, or the datagram is shorter than a header: the difference
\* jxserver_recv returns is negative and the loop ends, with a buffer in hand.
RecvFails ==
    /\ Goto(Main, "recv", "unlist")
    /\ UNCHANGED <<queues, content, sem, exits, locals, crash, counts, hist>>

MainPush ==
    /\ Goto(Main, "pushbuf", "postbuf")
    /\ PushFilled(Unproc, Main)
    /\ UNCHANGED <<content, sem, exits, locals, crash, counts, hist>>

\* Mutant of MainPost: the post is forgotten.
MainPostForgets ==
    /\ Goto(Main, "postbuf", "pullbuf")
    /\ UNCHANGED <<queues, content, sem, exits, locals, crash, counts, hist>>

MainPost ==
    /\ Goto(Main, "postbuf", "pullbuf")
    /\ Post(Unproc)
    /\ UNCHANGED <<queues, content, exits, locals, crash, counts, hist>>

-----------------------------------------------------------------------------
(* jxclearlist_clear, on the main thread, runs the clear functions in the  *)
(* order of their registration, which samples/cs/server/main.c makes: the  *)
(* process list comes before the pools.                                    *)

\* jxprocesslist_clear unlinks and frees the nodes while threads may walk them.
ClearList(from, to, state) ==
    /\ Goto(Main, from, to)
    /\ plist' = state
    /\ UNCHANGED <<queues, content, sem, threadexit, posted, live, locals, crash,
                   counts, hist>>

\* s_clearpool of pool p: set threadexit, ...
SetExit(p, from, to) ==
    /\ Goto(Main, from, to)
    /\ threadexit' = [threadexit EXCEPT ![p] = TRUE]
    /\ posted' = 0
    /\ UNCHANGED <<queues, content, sem, live, plist, locals, crash, counts, hist>>

\* Mutant of PostExit: one post for all the threads.
PostExitOnce(p, at) ==
    /\ Goto(Main, at, at)
    /\ posted < Cardinality(ThreadsOf(p))
    /\ posted' = posted + 1
    /\ IF posted = 0 THEN Post(p) ELSE UNCHANGED sem
    /\ UNCHANGED <<queues, content, threadexit, live, plist, locals, crash,
                   counts, hist>>

\* ... post once for each thread, ...
PostExit(p, at) ==
    /\ Goto(Main, at, at)
    /\ posted < Cardinality(ThreadsOf(p))
    /\ posted' = posted + 1
    /\ Post(p)
    /\ UNCHANGED <<queues, content, threadexit, live, plist, locals, crash,
                   counts, hist>>

\* Mutant of JoinAndFree: the threads are not joined.
FreeUnjoined(p, from, to) ==
    /\ Goto(Main, from, to)
    /\ posted = Cardinality(ThreadsOf(p))
    /\ live' = [live EXCEPT ![p] = FALSE]
    /\ UNCHANGED <<queues, content, sem, threadexit, posted, plist, locals,
                   crash, counts, hist>>

\* ... join them all, then destroy the semaphore and free the buffers.
JoinAndFree(p, from, to) ==
    /\ Goto(Main, from, to)
    /\ posted = Cardinality(ThreadsOf(p))
    /\ \A t \in ThreadsOf(p) : pc[t] = "exited"
    /\ live' = [live EXCEPT ![p] = FALSE]
    /\ UNCHANGED <<queues, content, sem, threadexit, posted, plist, locals,
                   crash, counts, hist>>

\* s_clear_msgpool_dispatch: pool_unprocessed first.
Shutdown ==
    \/ ClearList("unlist", "unlisted", "clearing")
    \/ ClearList("unlisted", "exit1", "empty")
    \/ SetExit(Unproc, "exit1", "post1")
    \/ PostExit(Unproc, "post1")
    \/ JoinAndFree(Unproc, "post1", "exit2")
    \/ SetExit(Proced, "exit2", "post2")
    \/ PostExit(Proced, "post2")
    \/ JoinAndFree(Proced, "post2", "done")

Recv == (\E flag \in Flag : RecvMessage(flag)) \/ RecvNothing \/ RecvFails

MainStep == MainPull \/ MainPush \/ MainPost \/ Shutdown

-----------------------------------------------------------------------------
(* What both kinds of pool threads begin each round with.                  *)

\* Mutant of Wait: it does not block.
WaitUnblocked(t) ==
    /\ Goto(t, "wait", "check")
    /\ sem' = [sem EXCEPT ![PoolOf(t)] = @ - 1]
    /\ UNCHANGED <<queues, content, exits, locals, crash, counts, hist>>

Wait(t) ==
    /\ Goto(t, "wait", "check")
    /\ sem[PoolOf(t)] > 0
    /\ sem' = [sem EXCEPT ![PoolOf(t)] = @ - 1]
    /\ UNCHANGED <<queues, content, exits, locals, crash, counts, hist>>

\* Mutant of CheckExit: threadexit is not read.
CheckNothing(t) ==
    /\ Goto(t, "check", "pull")
    /\ UNCHANGED <<queues, content, sem, exits, locals, crash, counts, hist>>

CheckExit(t) ==
    /\ Goto(t, "check", IF threadexit[PoolOf(t)] THEN "exited" ELSE "pull")
    /\ UNCHANGED <<queues, content, sem, exits, locals, crash, counts, hist>>

\* Mutant of Pull: a refused push leaks its buffer and nothing ever tells.
PullQuietly(t) ==
    /\ Goto(t, "pull", IF filled[PoolOf(t)] = <<>> THEN "wait" ELSE "lookup")
    /\ PullFilled(PoolOf(t), t)
    /\ UNCHANGED <<content, sem, exits, locals, crash, counts, hist>>

Pull(t) ==
    /\ Goto(t, "pull", "lookup")
    /\ PullFilled(PoolOf(t), t)
    /\ UNCHANGED <<content, sem, exits, locals, crash, counts, hist>>

\* A thread dies on the message a pull did not give it, and on a freed node of
\* the process list.
LookupDies(t) ==
    /\ \/ hand[PoolOf(t)][t] = NULL /\ Die(t, "lookup", "null message")
       \/ plist = "clearing" /\ Die(t, "lookup", "freed node")
    /\ UNCHANGED <<queues, content, sem, exits, locals, counts, hist>>

\* The message thread t holds, and what a walk of the process list finds: while
\* the list is being cleared, the entry or nothing.
Msg(t)            == content[PoolOf(t)][hand[PoolOf(t)][t]]
Finds(flag, set)  == plist # "empty" /\ flag \in set
Misses(flag, set) == plist # "set" \/ flag \notin set

-----------------------------------------------------------------------------
(* jxmsgpool_process: worker w.                                            *)

Lookup(w) ==
    /\ Goto(w, "lookup", "lookup_af")
    /\ hand[Unproc][w] # NULL
    /\ Finds(Msg(w).flag, Registered)
    /\ UNCHANGED <<queues, content, sem, exits, locals, crash, counts, hist>>

\* assert(0)
LookupAsserts(w) ==
    /\ Die(w, "lookup", "no process function")
    /\ hand[Unproc][w] # NULL
    /\ Misses(Msg(w).flag, Registered)
    /\ UNCHANGED <<queues, content, sem, exits, locals, counts, hist>>

\* The second lookup decides whether the process function gets a buffer for its
\* output.
LookupAf(w) ==
    /\ \/ /\ Goto(w, "lookup_af", "pullout")
          /\ Finds(Msg(w).flag, RegisteredAf)
          /\ af' = [af EXCEPT ![w] = TRUE]
       \/ /\ Goto(w, "lookup_af", "process")
          /\ Misses(Msg(w).flag, RegisteredAf)
          /\ af' = [af EXCEPT ![w] = FALSE]
    /\ UNCHANGED <<queues, content, sem, exits, silent, crash, counts, hist>>

LookupAfDies(w) ==
    /\ Die(w, "lookup_af", "freed node")
    /\ plist = "clearing"
    /\ UNCHANGED <<queues, content, sem, exits, locals, counts, hist>>

\* The busy wait for a buffer for the output.
PullOut(w) ==
    /\ Goto(w, "pullout", "process")
    /\ empty[Proced] # <<>>
    /\ PullEmpty(Proced, w)
    /\ UNCHANGED <<content, sem, exits, locals, crash, counts, hist>>

\* The process function runs; one with an output copies the header of the
\* message to it (jxprocess_server_am).
Process(w) ==
    /\ Goto(w, "process", "putback")
    /\ handled' = Count(handled, Msg(w).id)
    /\ \/ /\ ~af[w]
          /\ Msg(w).flag \notin RegisteredAf
          /\ UNCHANGED <<content, silent>>
       \/ /\ af[w]
          /\ \E quiet \in BOOLEAN :
                /\ quiet => Msg(w).flag \in MayBeSilent
                /\ silent' = [silent EXCEPT ![w] = quiet]
          /\ content' = [content EXCEPT ![Proced][hand[Proced][w]] = Msg(w)]
    /\ UNCHANGED <<queues, sem, exits, af, crash, counts, sent>>

\* A function that answers is called without a buffer for the answer: the entry
\* went away between the two lookups.
ProcessDies(w) ==
    /\ Die(w, "process", "no output buffer")
    /\ ~af[w]
    /\ Msg(w).flag \in RegisteredAf
    /\ UNCHANGED <<queues, content, sem, exits, locals, counts, hist>>

\* Mutant of PutBack: the message goes back to the wrong queue.
PutBackFilled(w) ==
    /\ Goto(w, "putback", IF af[w] THEN "answer" ELSE "wait")
    /\ PushFilled(Unproc, w)
    /\ UNCHANGED <<content, sem, exits, locals, crash, counts, hist>>

PutBack(w) ==
    /\ Goto(w, "putback", IF af[w] THEN "answer" ELSE "wait")
    /\ PushEmpty(Unproc, w)
    /\ UNCHANGED <<content, sem, exits, locals, crash, counts, hist>>

\* outmsglen is 0: the buffer goes back unused.
DropAnswer(w) ==
    /\ Goto(w, "answer", "wait")
    /\ silent[w]
    /\ PushEmpty(Proced, w)
    /\ UNCHANGED <<content, sem, exits, locals, crash, counts, hist>>

PushAnswer(w) ==
    /\ Goto(w, "answer", "post")
    /\ ~silent[w]
    /\ PushFilled(Proced, w)
    /\ UNCHANGED <<content, sem, exits, locals, crash, counts, hist>>

\* Mutant of PostAnswer: the post goes to the other pool.
PostAnswerAstray(w) ==
    /\ Goto(w, "post", "wait")
    /\ Post(Unproc)
    /\ UNCHANGED <<queues, content, exits, locals, crash, counts, hist>>

PostAnswer(w) ==
    /\ Goto(w, "post", "wait")
    /\ Post(Proced)
    /\ UNCHANGED <<queues, content, exits, locals, crash, counts, hist>>

WorkerStep(w) ==
    \/ Wait(w) \/ CheckExit(w) \/ Pull(w) \/ LookupDies(w)
    \/ Lookup(w) \/ LookupAsserts(w) \/ LookupAf(w) \/ LookupAfDies(w)
    \/ PullOut(w) \/ Process(w) \/ ProcessDies(w) \/ PutBack(w)
    \/ DropAnswer(w) \/ PushAnswer(w) \/ PostAnswer(w)

-----------------------------------------------------------------------------
(* jxmsgpool_process_af: sender s.                                         *)

\* Without a process_af function the answer is ignored.
Send(s) ==
    /\ Goto(s, "lookup", "putback")
    /\ hand[Proced][s] # NULL
    /\ \/ /\ Finds(Msg(s).flag, RegisteredAf)
          /\ sent' = Count(sent, Msg(s).id)
       \/ /\ Misses(Msg(s).flag, RegisteredAf)
          /\ UNCHANGED sent
    /\ UNCHANGED <<queues, content, sem, exits, locals, crash, counts, handled>>

PutBackSent(s) ==
    /\ Goto(s, "putback", "wait")
    /\ PushEmpty(Proced, s)
    /\ UNCHANGED <<content, sem, exits, locals, crash, counts, hist>>

SenderStep(s) ==
    \/ Wait(s) \/ CheckExit(s) \/ Pull(s) \/ LookupDies(s)
    \/ Send(s) \/ PutBackSent(s)

-----------------------------------------------------------------------------
\* The process has exited, or died.
Over  == crash # "none" \/ pc[Main] = "done"
Ended == Over /\ UNCHANGED vars

Next ==
    \/ Recv
    \/ MainStep
    \/ \E w \in Worker : WorkerStep(w)
    \/ \E s \in Sender : SenderStep(s)
    \/ Ended

\* Every thread is scheduled: none of its steps stays enabled forever without
\* being taken.  Nobody promises another datagram, or an error of recvfrom, or
\* that a process function returns: the one of the account service may search an
\* endless list (server_account.c:268) or wait for a mutex its owner left locked
\* (account_file.c:269-272).
Fairness ==
    /\ WF_vars(MainStep)
    /\ \A w \in Worker : WF_vars(pc[w] # "process" /\ WorkerStep(w))
    /\ \A s \in Sender : WF_vars(SenderStep(s))

Spec == Init /\ [][Next]_vars
FairSpec == Spec /\ Fairness

-----------------------------------------------------------------------------
Receiving == {"pullbuf", "recv", "pushbuf", "postbuf"}
Clearing  == {"unlist", "unlisted", "exit1", "post1", "exit2", "post2", "done"}
Common    == {"wait", "check", "pull", "lookup", "putback", "exited", "dead"}
WorkerPcs == Common \union {"lookup_af", "pullout", "process", "answer", "post"}

Crashes == {"none", "null message", "no process function", "freed node",
            "no output buffer"}

\* The variables have their types.
TypeOK ==
    /\ filled \in [Pool -> Seq(Buffer)]
    /\ empty \in [Pool -> Seq(Buffer)]
    /\ lost \in [Pool -> SUBSET Buffer]
    /\ hand \in [Pool -> [Thread -> Buffer \union {NULL}]]
    /\ content \in [Pool -> [Buffer -> Message]]
    /\ sem \in [Pool -> Nat]
    /\ threadexit \in [Pool -> BOOLEAN]
    /\ posted \in Nat
    /\ live \in [Pool -> BOOLEAN]
    /\ plist \in {"set", "clearing", "empty"}
    /\ pc \in [Thread -> Receiving \union Clearing \union WorkerPcs]
    /\ pc[Main] \in Receiving \union Clearing
    /\ \A w \in Worker : pc[w] \in WorkerPcs
    /\ \A s \in Sender : pc[s] \in Common
    /\ af \in [Worker -> BOOLEAN]
    /\ silent \in [Worker -> BOOLEAN]
    /\ crash \in Crashes
    /\ received \in Nat /\ accepted \in Nat
    /\ received <= accepted /\ accepted <= MaxRecv
    /\ handled \in [Id -> Nat]
    /\ sent \in [Id -> Nat]

NoRepeats(queue) == \A j, k \in 1 .. Len(queue) : queue[j] = queue[k] => j = k

\* The queues q and e, the set l and the pointers h hold every buffer once.
Owned(q, e, l, h) ==
    /\ NoRepeats(q) /\ NoRepeats(e)
    /\ Range(q) \intersect Range(e) = {}
    /\ l \intersect (Range(q) \union Range(e)) = {}
    /\ \A t \in Thread : h[t] \notin Range(q) \union Range(e) \union l
    /\ \A t, u \in Thread : h[t] = h[u] /\ h[t] # NULL => t = u
    /\ Buffer \subseteq Range(q) \union Range(e) \union l \union Range(h)

\* Every buffer of a pool has one owner: it is in one queue, once, or in the
\* hands of one thread, or was dropped by a refused push.  No two threads ever
\* read and write the same message, in any order of their pulls and pushes.
OneOwner == \A p \in Pool : Owned(filled[p], empty[p], lost[p], hand[p])

\* The threads of pool p that took a token and have not pulled yet, those a
\* pull gave NULL, and those that have left their loop.
Woken(p)  == {t \in ThreadsOf(p) : pc[t] \in {"check", "pull"}}
Duped(p)  == {t \in ThreadsOf(p) : pc[t] \in {"lookup", "dead"} /\ hand[p][t] = NULL}
Exited(p) == {t \in ThreadsOf(p) : pc[t] = "exited"}

\* The pushes whose post is still to come, and the posts of s_clearpool.
Unposted(p) ==
    IF p = Unproc
    THEN IF pc[Main] = "postbuf" THEN 1 ELSE 0
    ELSE Cardinality({w \in Worker : pc[w] = "post"})
ExitPosts(p) ==
    IF pc[Main] = (IF p = Unproc THEN "post1" ELSE "post2") THEN posted
    ELSE IF pc[Main] \in {"done"} \union (IF p = Unproc THEN {"exit2", "post2"} ELSE {})
    THEN Cardinality(ThreadsOf(p))
    ELSE 0

\* No wake-up is lost and none is made up: the semaphore and the threads it has
\* woken account for every filled buffer, every dropped one and every post of
\* the shutdown, whatever the threads have done in between.
TokensMatch ==
    \A p \in Pool :
        sem[p] + Cardinality(Woken(p)) + Cardinality(Duped(p))
               + Cardinality(Exited(p)) + Unposted(p)
          = Len(filled[p]) + Cardinality(lost[p]) + ExitPosts(p)

\* A thread finds its queue empty after a wait only if a push into that queue
\* was refused before: the semaphore by itself never wakes a thread in vain, the
\* posts of the shutdown included.
NullOnlyAfterRefusal == \A p \in Pool : Duped(p) # {} => lost[p] # {}

\* No thread is still in a loop that touches a pool s_clearpool has freed: the
\* workers use both pools, the receiving loop the first, the senders the second.
NoUseAfterFree ==
    \A p \in Pool : ~live[p] =>
        /\ \A t \in ThreadsOf(p) \union Worker : pc[t] = "exited"
        /\ pc[Main] \notin Receiving

\* A message is processed once, and once more for each empty datagram, which
\* delivers what its buffer last held; an answer is sent at most as often as its
\* message was processed.
ProcessedOnce ==
    \A i \in Id \ {0} :
        /\ handled[i] <= 1 + (accepted - received)
        /\ sent[i] <= handled[i]

ShuttingDown == pc[Main] \in Clearing

\* Worker w never comes back from a process function.
Hangs(w) == [](pc[w] = "process")

\* Message i has been handed to its process function.
Reached(i) ==
    handled[i] > 0 \/ \E w \in Worker : pc[w] = "process" /\ Msg(w).id = i

\* The receiving loop that accepts a message can count on a worker: the message
\* gets to its process function, unless the process dies or is shut down first,
\* or every single worker hangs in another one; those that hang do not keep the
\* rest from working.
EveryMessageHandled ==
    \A i \in Id \ {0} :
        received >= i
            ~> Reached(i) \/ crash # "none" \/ ShuttingDown \/ (\A w \in Worker : Hangs(w))

\* A refused push does not go unnoticed: its post wakes a thread that finds
\* nothing and dies, unless the process is shut down first or no worker is left
\* to be woken.
RefusalIsFatal ==
    \A p \in Pool :
        lost[p] # {} ~> crash # "none" \/ ShuttingDown \/ (\A w \in Worker : Hangs(w))

\* Once the receiving loop has ended the process ends, or waits in s_clearpool
\* for a worker whose process function never returns: nothing else keeps it, no
\* thread is left waiting for a token, a buffer or another thread.
ShutdownCompletes == ShuttingDown ~> Over \/ (\E w \in Worker : Hangs(w))

\* server.c:194: "Push to pool will succeed in normal case. There is no need to
\* test the return value."
PushSucceeds == \A p \in Pool : lost[p] = {}

\* msgprocess.asciidoc: a message whose mflag has no process function is ignored.
UnknownIgnored == ~ShuttingDown => crash # "no process function"

\* clearlist.h:3: the clear functions are "for program to safely exit".
SafeExit == crash \notin {"freed node", "no output buffer"}
=============================================================================

------------------------------- MODULE Client -------------------------------
(***************************************************************************)
(* The client program (src/cs/client/client.c, samples/cs/client/main.c)   *)
(* from its start to its end: the main thread, which sends requests and    *)
(* appends their answers, the receiving thread, which appends what the     *)
(* server sends on its own, the one worker of jxmsgpool_process, and       *)
(* jxclearlist_clear, which runs on the thread that ends the program: the  *)
(* main thread at the end or when it cannot connect, the receiving thread  *)
(* when it cannot open its socket.                                         *)
(*                                                                         *)
(* SendRecv shows what a request does; here it has an outcome.  A pull or  *)
(* a push is one step, as in Dispatch.  The client registers no function   *)
(* that answers (OnePool), so its second pool is never made.               *)
(***************************************************************************)
EXTENDS MsgPool, ClearList, ProcessList

CONSTANTS
    Main, Recv, Work,   \* the three threads
    MaxAsked, MaxReceived   \* bounds

ASSUME ClientAssumption ==
    /\ Main # Recv /\ Main # Work /\ Recv # Work
    /\ MaxAsked \in Nat /\ MaxReceived \in Nat

\* jxclient_msgpool_dispatch_init makes the first pool for this list, and not
\* the second.
ASSUME OnePool == ProcessValid(ClientList("query")) /\ ~AfValid(ClientList("query"))

Thread   == {Main, Recv, Work}
Appender == {Main, Recv}

\* A message: who appended it, its number there, and whether the process list
\* has an entry for its mflag.  Number 0 is a buffer that holds none.
Message == [src : Appender, n : Nat, known : BOOLEAN]
Blank   == [src |-> Main, n |-> 0, known |-> FALSE]

VARIABLES
    filled, empty,  \* the queues of pool_unprocessed
    hand,           \* [Thread -> Buffer or NULL]: buf, msgbuf
    content,        \* [Buffer -> Message]
    data,           \* [Appender -> Message]: cli->recvbuf, pbuf
    sem, threadexit, live,  \* hsem_filled, and whether the pool is not freed
    plist,          \* the process list has its entries
    isRecvEnd,      \* s_isRecvEnd
    clears,         \* the clear list
    mark,           \* [Appender -> Nat]: its length when a list_add began, or 0
    run,            \* [Appender -> Nat]: how many clear functions it has run
    pc, crash,
    asked, received,
    appended, processed,    \* histories: the messages in their order
    refused                 \* history: a push was refused

queues == <<filled, empty, hand, content>>
exits  == <<threadexit, live, plist, isRecvEnd>>
ending == <<clears, mark, run>>
hist   == <<asked, received, appended, processed, refused>>
vars   == <<queues, data, sem, exits, ending, pc, crash, hist>>

\* main has been entered; pools and threads are made by Start.
Init ==
    /\ filled = <<>> /\ empty = [i \in Buffer |-> i]
    /\ hand = [t \in Thread |-> NULL]
    /\ content = [b \in Buffer |-> Blank]
    /\ data = [t \in Appender |-> Blank]
    /\ sem = 0 /\ threadexit = FALSE /\ live = FALSE
    /\ plist = FALSE /\ isRecvEnd = FALSE
    /\ clears = <<>> /\ mark = [t \in Appender |-> 0] /\ run = [t \in Appender |-> 0]
    /\ pc = [t \in Thread |-> IF t = Main THEN "init" ELSE "none"]
    /\ crash = "none" /\ asked = 0 /\ received = 0
    /\ appended = <<>> /\ processed = <<>> /\ refused = FALSE

\* exit and the return of main end every thread.
Ended == \E t \in Appender : pc[t] = "done"

Goto(t, from, to) ==
    /\ crash = "none" /\ ~Ended
    /\ pc[t] = from
    /\ pc' = [pc EXCEPT ![t] = to]

Die(t, from, why) == Goto(t, from, "dead") /\ crash' = why

Post == sem' = sem + 1

\* list_add has read the first node of the clear list.
Mark(t) == mark' = [mark EXCEPT ![t] = Len(clears)]

-----------------------------------------------------------------------------
(* The start, on the main thread.                                          *)

\* The socket cannot be opened or made non-blocking, or the address is none:
\* jxfatal clears a list that is empty, and exits.
InitFails ==
    /\ Goto(Main, "init", "done")
    /\ UNCHANGED <<queues, data, sem, exits, ending, crash, hist>>

\* jxprocesslist_init, jxclient_msgpool_dispatch_init, jxclient_thread_recv: the
\* process list, the pool with its worker, and the receiving thread, which may
\* not start: nobody looks.
Start(receiving) ==
    /\ crash = "none" /\ pc[Main] = "init"
    /\ pc' = [pc EXCEPT ![Main] = "connect", ![Work] = "wait",
                        ![Recv] = IF receiving THEN "open" ELSE "exited"]
    /\ plist' = TRUE /\ live' = TRUE
    /\ clears' = Added(Added(clears, "plist"), "pool")
    /\ UNCHANGED <<queues, data, sem, threadexit, isRecvEnd, mark, run, crash, hist>>

\* jxclient_connect
Connect ==
    /\ Goto(Main, "connect", "ask")
    /\ UNCHANGED <<queues, data, sem, exits, ending, crash, hist>>

\* jxsock_connect fails and closes the socket, or its address cannot be shown:
\* the program ends while the receiving thread is anywhere.
ConnectFails ==
    /\ Goto(Main, "connect", "clear")
    /\ UNCHANGED <<queues, data, sem, exits, ending, crash, hist>>

-----------------------------------------------------------------------------
(* s_msgpool_append, on the main and on the receiving thread.              *)

\* The busy wait for an empty buffer, and the copy.  The receiving thread adds
\* the length of the header to a length that has it already: more is copied
\* than was received, which the buffer has room for.
AppendPull(t) ==
    /\ Goto(t, "pull", "push")
    /\ live /\ empty # <<>>
    /\ hand' = [hand EXCEPT ![t] = Pulled(empty)] /\ empty' = Rest(empty)
    /\ content' = [content EXCEPT ![Pulled(empty)] = data[t]]
    /\ UNCHANGED <<filled, data, sem, exits, ending, crash, hist>>

\* The pool has been freed and its indices are left: the pull reads a freed
\* pointer, unless the queue was empty and the wait goes on for ever.
AppendDies(t) ==
    /\ Die(t, "pull", "freed pool")
    /\ ~live /\ empty # <<>>
    /\ UNCHANGED <<queues, data, sem, exits, ending, hist>>

\* A mutant of AppendPush: the newest message goes first.
AppendPushFirst(t) ==
    /\ Goto(t, "push", "post")
    /\ live
    /\ filled' = IF Refused(filled, FilledCapacity) THEN filled ELSE <<hand[t]>> \o filled
    /\ hand' = [hand EXCEPT ![t] = NULL]
    /\ refused' = (refused \/ Refused(filled, FilledCapacity))
    /\ appended' = IF Refused(filled, FilledCapacity) THEN appended
                   ELSE Append(appended, content[hand[t]])
    /\ UNCHANGED <<empty, content, data, sem, exits, ending, crash, asked, received, processed>>

AppendPush(t) ==
    /\ Goto(t, "push", "post")
    /\ live
    /\ filled' = Pushed(filled, FilledCapacity, hand[t])
    /\ hand' = [hand EXCEPT ![t] = NULL]
    /\ refused' = (refused \/ Refused(filled, FilledCapacity))
    /\ appended' = IF Refused(filled, FilledCapacity) THEN appended
                   ELSE Append(appended, content[hand[t]])
    /\ UNCHANGED <<empty, content, data, sem, exits, ending, crash, asked, received, processed>>

\* A push into freed memory.
PushDies(t) ==
    /\ Die(t, "push", "freed pool")
    /\ ~live
    /\ UNCHANGED <<queues, data, sem, exits, ending, hist>>

\* A mutant of AppendPost: the post is forgotten.
AppendPostForgets(t) ==
    /\ Goto(t, "post", IF t = Main THEN "ask" ELSE "test")
    /\ UNCHANGED <<queues, data, sem, exits, ending, crash, hist>>

\* The semaphore outlives its use: a post after sem_destroy wakes nobody.
AppendPost(t) ==
    /\ Goto(t, "post", IF t = Main THEN "ask" ELSE "test")
    /\ Post
    /\ UNCHANGED <<queues, data, exits, ending, crash, hist>>

AppendStep(t) ==
    AppendPull(t) \/ AppendDies(t) \/ AppendPush(t) \/ PushDies(t) \/ AppendPost(t)

-----------------------------------------------------------------------------
(* The main thread: jxclient_udp_once.                                     *)

\* The first request makes the mutex of the requests and registers its clear
\* function, while the receiving thread may register its own.
Ask ==
    /\ asked < MaxAsked /\ asked' = asked + 1
    /\ \/ asked = 0 /\ Goto(Main, "ask", "link") /\ Mark(Main)
       \/ asked > 0 /\ Goto(Main, "ask", "request") /\ UNCHANGED mark
    /\ UNCHANGED <<queues, data, sem, exits, clears, run, crash, received, appended,
                   processed, refused>>

\* The second half of jxclearlist_add.
Link(t, f, to) ==
    /\ Goto(t, "link", to)
    /\ clears' = Linked(clears, mark[t], f)
    /\ mark' = [mark EXCEPT ![t] = 0]
    /\ UNCHANGED <<queues, data, sem, exits, run, crash, hist>>

\* The first node, which the second half writes to, has been freed.
LinkDies(t) ==
    /\ Die(t, "link", "freed node")
    /\ \E u \in Appender : pc[u] = "free"
    /\ UNCHANGED <<queues, data, sem, exits, ending, hist>>

\* The request is answered, or gives up, or was too long to be sent, which
\* leaves the answer before it in recvbuf and appends it again.
Request ==
    /\ \/ /\ Goto(Main, "request", "pull")
          /\ data' = [data EXCEPT ![Main] = [src |-> Main, n |-> asked, known |-> TRUE]]
       \/ Goto(Main, "request", "pull") /\ data' = data
       \/ Goto(Main, "request", "ask") /\ data' = data
    /\ UNCHANGED <<queues, sem, exits, ending, crash, hist>>

\* The input ends.
EndInput ==
    /\ Goto(Main, "ask", "clear")
    /\ UNCHANGED <<queues, data, sem, exits, ending, crash, hist>>

-----------------------------------------------------------------------------
(* jxclearlist_clear, on thread t: the main or the receiving thread.       *)

\* Thread t enters, or goes on with, the clear function named f.
Clears(t, f, to) ==
    /\ Goto(t, "clear", to)
    /\ More(clears, run[t]) /\ Current(clears, run[t]) = f
    /\ run' = IF to = "clear" THEN [run EXCEPT ![t] = @ + 1] ELSE run

Leaves(t, from) == Goto(t, from, "clear") /\ run' = [run EXCEPT ![t] = @ + 1]

\* s_jxprocesslist_clear
ClearProcesses(t) ==
    /\ Clears(t, "plist", "clear")
    /\ plist' = FALSE
    /\ UNCHANGED <<queues, data, sem, threadexit, live, isRecvEnd, clears, mark, crash, hist>>

\* A mutant of SetExit: it does not wake the worker.
SetExitOnly(t) ==
    /\ Clears(t, "pool", "join")
    /\ threadexit' = TRUE
    /\ UNCHANGED <<queues, data, sem, live, plist, isRecvEnd, clears, mark, crash, hist>>

\* s_clear_msgpool_dispatch: the one worker is woken, ...
SetExit(t) ==
    /\ Clears(t, "pool", "join")
    /\ threadexit' = TRUE /\ Post
    /\ UNCHANGED <<queues, data, live, plist, isRecvEnd, clears, mark, crash, hist>>

\* ... joined, and the pool freed.  Its prompt stays: appending goes on.
JoinWorker(t) ==
    /\ Leaves(t, "join") /\ pc[Work] = "exited"
    /\ live /\ live' = FALSE
    /\ UNCHANGED <<queues, data, sem, threadexit, plist, isRecvEnd, clears, mark, crash, hist>>

\* The other thread that ends the program has joined the worker and freed the
\* pool: both are done again.
JoinDies(t) ==
    /\ Die(t, "join", "double free") /\ ~live /\ pc[Work] = "exited"
    /\ UNCHANGED <<queues, data, sem, exits, ending, hist>>

\* s_thread_recv_clear, when the list has it.
EndRecv(t) ==
    /\ Clears(t, "recv", "joinrecv")
    /\ isRecvEnd' = TRUE
    /\ UNCHANGED <<queues, data, sem, threadexit, live, plist, clears, mark, crash, hist>>

JoinRecv(t) ==
    /\ Leaves(t, "joinrecv") /\ pc[Recv] = "exited"
    /\ UNCHANGED <<queues, data, sem, exits, clears, mark, crash, hist>>

\* s_sendrecv_clear destroys the mutex of the requests.
ClearRequests(t) ==
    /\ Clears(t, "request", "clear")
    /\ UNCHANGED <<queues, data, sem, exits, clears, mark, crash, hist>>

ClearsEnd(t) ==
    /\ Goto(t, "clear", "free") /\ ~More(clears, run[t])
    /\ UNCHANGED <<queues, data, sem, exits, ending, crash, hist>>

\* s_clearlist_clear has freed the nodes; the program exits.
FreeList(t) ==
    /\ Goto(t, "free", "done")
    /\ clears' = <<>>
    /\ UNCHANGED <<queues, data, sem, exits, mark, run, crash, hist>>

ClearStep(t) ==
    \/ ClearProcesses(t) \/ SetExit(t) \/ JoinWorker(t) \/ JoinDies(t)
    \/ EndRecv(t) \/ JoinRecv(t) \/ ClearRequests(t) \/ ClearsEnd(t) \/ FreeList(t)

MainStep ==
    \/ Link(Main, "request", "request") \/ LinkDies(Main) \/ Request
    \/ AppendStep(Main) \/ ClearStep(Main)

-----------------------------------------------------------------------------
(* s_thread_recv                                                           *)

\* The socket is opened and made blocking; its clear function comes next.
OpenRecv ==
    /\ Goto(Recv, "open", "link") /\ Mark(Recv)
    /\ UNCHANGED <<queues, data, sem, exits, clears, run, crash, hist>>

\* jxsock_block fails, and the thread returns.
BlockFails ==
    /\ Goto(Recv, "open", "exited")
    /\ UNCHANGED <<queues, data, sem, exits, ending, crash, hist>>

\* jxsock_open fails, which is fatal: the thread itself clears the list and
\* exits, whatever the others do.
OpenFails ==
    /\ Goto(Recv, "open", "clear")
    /\ UNCHANGED <<queues, data, sem, exits, ending, crash, hist>>

\* The port register message may not be sent: the thread returns.
SendPort ==
    /\ Goto(Recv, "port", "test") \/ Goto(Recv, "port", "exited")
    /\ UNCHANGED <<queues, data, sem, exits, ending, crash, hist>>

TestEnd ==
    /\ Goto(Recv, "test", IF isRecvEnd THEN "exited" ELSE "recvfrom")
    /\ UNCHANGED <<queues, data, sem, exits, ending, crash, hist>>

\* recvfrom blocks until a datagram comes; an error or nothing is skipped.
Receive(known) ==
    /\ Goto(Recv, "recvfrom", "pull")
    /\ received < MaxReceived /\ received' = received + 1
    /\ data' = [data EXCEPT ![Recv] = [src |-> Recv, n |-> received', known |-> known]]
    /\ UNCHANGED <<queues, sem, exits, ending, crash, asked, appended, processed, refused>>

ReceiveFails ==
    /\ Goto(Recv, "recvfrom", "test")
    /\ UNCHANGED <<queues, data, sem, exits, ending, crash, hist>>

RecvStep ==
    \/ OpenRecv \/ BlockFails \/ OpenFails \/ Link(Recv, "recv", "port") \/ LinkDies(Recv)
    \/ SendPort \/ TestEnd \/ AppendStep(Recv) \/ ClearStep(Recv)

-----------------------------------------------------------------------------
(* The worker: jxmsgpool_process.                                          *)

\* A mutant of Wait: it does not block.
WaitUnblocked ==
    /\ Goto(Work, "wait", "check")
    /\ sem' = sem - 1
    /\ UNCHANGED <<queues, data, exits, ending, crash, hist>>

Wait ==
    /\ Goto(Work, "wait", "check")
    /\ sem > 0 /\ sem' = sem - 1
    /\ UNCHANGED <<queues, data, exits, ending, crash, hist>>

CheckExit ==
    /\ Goto(Work, "check", IF threadexit THEN "exited" ELSE "take")
    /\ UNCHANGED <<queues, data, sem, exits, ending, crash, hist>>

Take ==
    /\ Goto(Work, "take", "process")
    /\ hand' = [hand EXCEPT ![Work] = Pulled(filled)] /\ filled' = Rest(filled)
    /\ UNCHANGED <<empty, content, data, sem, exits, ending, crash, hist>>

\* The function of CLIENT_QUERY runs: the react of an account method.
Process ==
    /\ Goto(Work, "process", "return")
    /\ hand[Work] # NULL /\ plist
    /\ content[hand[Work]].known
    /\ processed' = Append(processed, content[hand[Work]])
    /\ UNCHANGED <<queues, data, sem, exits, ending, crash, asked, received, appended, refused>>

\* assert(0), or the mflag of no message.
ProcessDies ==
    /\ \/ hand[Work] = NULL /\ Die(Work, "process", "null message")
       \/ /\ hand[Work] # NULL /\ ~(plist /\ content[hand[Work]].known)
          /\ Die(Work, "process", "no process function")
    /\ UNCHANGED <<queues, data, sem, exits, ending, hist>>

Return ==
    /\ Goto(Work, "return", "wait")
    /\ empty' = Pushed(empty, EmptyCapacity, hand[Work])
    /\ hand' = [hand EXCEPT ![Work] = NULL]
    /\ UNCHANGED <<filled, content, data, sem, exits, ending, crash, hist>>

WorkStep == Wait \/ CheckExit \/ Take \/ Process \/ ProcessDies \/ Return

-----------------------------------------------------------------------------
Next ==
    \/ InitFails \/ (\E receiving \in BOOLEAN : Start(receiving))
    \/ Connect \/ ConnectFails
    \/ Ask \/ EndInput \/ MainStep
    \/ RecvStep \/ (\E known \in BOOLEAN : Receive(known)) \/ ReceiveFails
    \/ WorkStep

Spec == Init /\ [][Next]_vars

\* The threads are scheduled; requests, the end of the program and datagrams
\* are left to the user and the network.
FairSpec ==
    /\ Spec
    /\ WF_vars(MainStep) /\ WF_vars(RecvStep) /\ WF_vars(WorkStep)

-----------------------------------------------------------------------------
(* Properties *)

AppendPcs == {"pull", "push", "post", "dead"}
ClearPcs  == {"clear", "join", "free", "done"}

TypeOK ==
    /\ filled \in Seq(Buffer) /\ empty \in Seq(Buffer)
    /\ hand \in [Thread -> Buffer \union {NULL}]
    /\ content \in [Buffer -> Message] /\ data \in [Appender -> Message]
    /\ sem \in Nat /\ threadexit \in BOOLEAN /\ live \in BOOLEAN
    /\ plist \in BOOLEAN /\ isRecvEnd \in BOOLEAN
    /\ clears \in Seq({"plist", "pool", "recv", "request"})
    /\ mark \in [Appender -> Nat] /\ run \in [Appender -> Nat]
    /\ pc[Main] \in AppendPcs \union ClearPcs \union
                   {"init", "connect", "ask", "link", "request", "joinrecv"}
    /\ pc[Recv] \in AppendPcs \union ClearPcs \union
                   {"none", "open", "link", "port", "test", "recvfrom", "exited"}
    /\ pc[Work] \in {"none", "wait", "check", "take", "process", "return", "exited", "dead"}
    /\ crash \in {"none", "null message", "no process function", "freed node", "freed pool",
                  "double free"}
    /\ asked \in 0 .. MaxAsked /\ received \in 0 .. MaxReceived
    /\ appended \in Seq(Message) /\ processed \in Seq(Message) /\ refused \in BOOLEAN

\* Answers and messages of the server reach their functions in the order they
\* were appended, each once and unchanged: what has been processed, the message
\* the worker holds and the filled queue are what was appended, whatever the two
\* appending threads do in between.
InOrder ==
    appended = processed
               \o (IF pc[Work] \in {"process", "dead"} /\ hand[Work] # NULL
                   THEN <<content[hand[Work]]>> ELSE <<>>)
               \o [i \in 1 .. Len(filled) |-> content[filled[i]]]

Over == crash # "none" \/ Ended

\* Every message appended is processed, unless the program dies or ends.
AppendedIsProcessed ==
    \A k \in 1 .. MaxAsked + MaxReceived :
        Len(appended) >= k ~> Len(processed) >= k \/ Over \/ threadexit

\* The end of the program, whichever thread it begins on, ends, unless the
\* receiving thread waits in recvfrom for a datagram that does not come, or for
\* a buffer in a pool that was freed with its buffers all in use.
ShutdownEnds ==
    \A t \in Appender :
        pc[t] = "clear" ~>
            \/ Over
            \/ pc[Main] = "joinrecv" /\ pc[Recv] = "recvfrom"
            \/ pc[Main] = "joinrecv" /\ pc[Recv] = "pull" /\ empty = <<>>

\* clearlist.h:3: the clear functions are "for program to safely exit".
SafeExit == crash \notin {"freed node", "freed pool", "double free"}
=============================================================================

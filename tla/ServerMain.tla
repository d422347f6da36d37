----------------------------- MODULE ServerMain -----------------------------
(***************************************************************************)
(* The server program from its start to its end (samples/cs/server/main.c):*)
(* what each step of the start makes and registers, the steps that may     *)
(* fail, the threads it leaves running, and what jxclearlist_clear then    *)
(* releases, in the order of the registrations.                            *)
(*                                                                         *)
(* The threads of a pool are started, told to exit and joined together:    *)
(* they are one thread here, and Dispatch shows what they do.  Names of    *)
(* pools stand for the threads too.                                        *)
(***************************************************************************)
EXTENDS ClearList

CONSTANT FileNum    \* ACCOUNT_FILE_NUM

ASSUME FileAssumption == FileNum \in Nat \ {0}

Pool   == {"unprocessed", "processed"}
Thread == {"cleaner"} \union Pool   \* cleaner: s_thread_clear_tmp

\* What is made at the start and released at the end; of files and their
\* mutexes there are FileNum.
Resource == Pool \union {"winsock", "login", "tmp", "file", "filemutex", "socket", "plist"}

VARIABLES
    windows,        \* the build: WIN32 is defined
    port,           \* the port of the command line is not 0
    pc,             \* where the main thread is
    clears, run,    \* the clear list, and how many of its functions have run
    made, freed,    \* [Resource -> Nat]: how often
    thread,         \* [Thread -> "none", "running", "ended" or "joined"]
    exiting,        \* [Thread -> BOOLEAN]: s_thread_exit, threadexit
    registered,     \* a worker has registered the list of ports
    status          \* the exit status

list   == <<clears, run>>
things == <<made, freed>>
others == <<thread, exiting>>
fixed  == <<windows, port>>
vars   == <<fixed, pc, list, things, others, registered, status>>

Init ==
    /\ windows \in BOOLEAN /\ port \in BOOLEAN
    /\ pc = "env"
    /\ clears = <<>> /\ run = 0
    /\ made = [r \in Resource |-> 0] /\ freed = [r \in Resource |-> 0]
    /\ thread = [t \in Thread |-> "none"] /\ exiting = [t \in Thread |-> FALSE]
    /\ registered = FALSE /\ status = 0

Goto(from, to) == pc = from /\ pc' = to

Make(R) == made' = [r \in Resource |-> made[r] + IF r \in R THEN 1 ELSE 0]
Free(R) == freed' = [r \in Resource |-> freed[r] + IF r \in R THEN 1 ELSE 0]

Started(t) == thread' = [thread EXCEPT ![t] = "running"]

-----------------------------------------------------------------------------
(* The start.                                                              *)

\* jxfatal_ext with jxerr_exit: the clear list is run, and the program exits.
Fatal(from) == Goto(from, "clear") /\ status' = 1

\* jxsock_envinit; main does not look whether it failed.
EnvInit ==
    /\ Goto("env", "accounts")
    /\ \/ windows /\ Make({"winsock"}) /\ clears' = Added(clears, "env")
       \/ UNCHANGED <<made, clears>>
    /\ UNCHANGED <<fixed, run, freed, others, registered, status>>

\* am_server_account_init: two mutexes and the cleaner, which runs before the
\* files are opened.
CreateCleaner ==
    /\ Goto("accounts", "files")
    /\ Make({"login", "tmp"}) /\ Started("cleaner")
    /\ UNCHANGED <<fixed, list, freed, exiting, registered, status>>

\* The thread cannot be created: the mutexes go, and main clears and returns 1.
CleanerFails ==
    /\ Fatal("accounts")
    /\ Make({"login", "tmp"}) /\ Free({"login", "tmp"})
    /\ UNCHANGED <<fixed, list, others, registered>>

\* am_account_config_init: one file and its mutex; with the last, it and
\* am_server_account_init register their functions.
OpenFile ==
    /\ Make({"file", "filemutex"})
    /\ IF made'["file"] = FileNum
       THEN /\ Goto("files", "socket")
            /\ clears' = Added(Added(clears, "files"), "accounts")
       ELSE Goto("files", "files") /\ UNCHANGED clears
    /\ UNCHANGED <<fixed, run, freed, others, registered, status>>

OpenFileFails ==
    /\ Fatal("files")
    /\ UNCHANGED <<fixed, list, things, others, registered>>

\* A mutant of OpenSocket: jxserver_init registers what it will clear first.
OpenSocketRegisters ==
    /\ Goto("socket", "port") /\ (windows => made["winsock"] = 1)
    /\ Make({"socket"}) /\ clears' = Added(clears, "server")
    /\ UNCHANGED <<fixed, run, freed, others, registered, status>>

\* jxserver_init.  Without winsock there is no socket.
OpenSocket ==
    /\ Goto("socket", "port") /\ (windows => made["winsock"] = 1)
    /\ Make({"socket"})
    /\ UNCHANGED <<fixed, list, freed, others, registered, status>>

OpenSocketFails ==
    /\ Fatal("socket")
    /\ UNCHANGED <<fixed, list, things, others, registered>>

\* Port 0 is refused and the socket closed, as it is when bind fails.
CheckPort ==
    /\ IF port THEN Goto("port", "bind") /\ UNCHANGED <<freed, status>>
               ELSE Fatal("port") /\ Free({"socket"})
    /\ UNCHANGED <<fixed, list, made, others, registered>>

Bind ==
    /\ Goto("bind", "lists")
    /\ clears' = Added(clears, "server")
    /\ UNCHANGED <<fixed, run, things, others, registered, status>>

BindFails ==
    /\ Fatal("bind") /\ Free({"socket"})
    /\ UNCHANGED <<fixed, list, made, others, registered>>

\* jxprocesslist_init
InitLists ==
    /\ Goto("lists", "unprocessed")
    /\ Make({"plist"}) /\ clears' = Added(clears, "plist")
    /\ UNCHANGED <<fixed, run, freed, others, registered, status>>

\* A mutant of InitPool: the clear function is not registered.
InitPoolOnly ==
    /\ Goto("unprocessed", "processed")
    /\ Make({"unprocessed"}) /\ Started("unprocessed")
    /\ UNCHANGED <<fixed, list, freed, exiting, registered, status>>

\* jxserver_msgpool_dispatch_init: the pool of the requests, ...
InitPool ==
    /\ Goto("unprocessed", "processed")
    /\ Make({"unprocessed"}) /\ Started("unprocessed")
    /\ clears' = Added(clears, "pools")
    /\ UNCHANGED <<fixed, run, freed, exiting, registered, status>>

\* ... and, as the process list has a function that answers, of the answers.
InitAnswerPool ==
    /\ Goto("processed", "serve")
    /\ Make({"processed"}) /\ Started("processed")
    /\ UNCHANGED <<fixed, list, freed, exiting, registered, status>>

\* jxserver_udp returns when receiving fails, and main clears and returns 0.
RecvFails ==
    /\ Goto("serve", "clear")
    /\ UNCHANGED <<fixed, list, things, others, registered, status>>

-----------------------------------------------------------------------------
(* The other threads.                                                      *)

\* The first port a worker registers, now or while the program ends.
RegisterPorts ==
    /\ thread["unprocessed"] = "running" /\ thread["processed"] # "none"
    /\ ~registered /\ registered' = TRUE
    /\ clears' = Added(clears, "ports")
    /\ UNCHANGED <<fixed, pc, run, things, others, status>>

\* Thread t has seen that it is to exit.
End(t) ==
    /\ thread[t] = "running" /\ exiting[t]
    /\ thread' = [thread EXCEPT ![t] = "ended"]
    /\ UNCHANGED <<fixed, pc, list, things, exiting, registered, status>>

-----------------------------------------------------------------------------
(* jxclearlist_clear                                                       *)

\* A clear function that only releases, or finds nothing to release.
Releases(f, n) ==
    /\ Goto("clear", "clear")
    /\ More(clears, run) /\ Current(clears, run) = f /\ run' = run + 1
    /\ freed' = [r \in Resource |-> freed[r] + n[r]]
    /\ UNCHANGED <<fixed, clears, made, others, registered, status>>

Some(R, k) == [r \in Resource |-> IF r \in R THEN k ELSE 0]

\* jxsock_envclear, s_am_account_config_clear, s_jxserver_clear,
\* s_jxprocesslist_clear, s_regportlist_clear
Release ==
    \/ Releases("env", Some({"winsock"}, 1))
    \/ Releases("files", Some({"file", "filemutex"}, FileNum))
    \/ Releases("server", Some({"socket"}, 1))
    \/ Releases("plist", Some({"plist"}, 1))
    \/ Releases("ports", Some({}, 1))

\* A clear function that ends thread t: main tells t to exit ...
Stop(t, f, from, to) ==
    /\ Goto(from, to)
    /\ More(clears, run) /\ Current(clears, run) = f
    /\ exiting' = [exiting EXCEPT ![t] = TRUE]
    /\ UNCHANGED <<fixed, list, things, thread, registered, status>>

\* A mutant of Join: it does not wait.
JoinRunning(t, R, from, to) ==
    /\ Goto(from, to)
    /\ Free(R)
    /\ run' = IF to = "clear" THEN run + 1 ELSE run
    /\ UNCHANGED <<fixed, clears, made, others, registered, status>>

\* ... waits for its end, and releases what it used.
Join(t, R, from, to) ==
    /\ Goto(from, to)
    /\ thread[t] = "ended"
    /\ thread' = [thread EXCEPT ![t] = "joined"] /\ Free(R)
    /\ run' = IF to = "clear" THEN run + 1 ELSE run
    /\ UNCHANGED <<fixed, clears, made, exiting, registered, status>>

\* s_am_server_account_clear; s_clear_msgpool_dispatch, which passes over a pool
\* without threads.
StopThreads ==
    \/ Stop("cleaner", "accounts", "clear", "joincleaner")
    \/ Join("cleaner", {"login", "tmp"}, "joincleaner", "clear")
    \/ Stop("unprocessed", "pools", "clear", "join")
    \/ Join("unprocessed", {"unprocessed"}, "join", "stop")
    \/ Stop("processed", "pools", "stop", "joinanswers")
    \/ Join("processed", {"processed"}, "joinanswers", "clear")

\* The nodes of the list are freed, and the program ends.
Exit ==
    /\ Goto("clear", "ended") /\ ~More(clears, run)
    /\ clears' = <<>> /\ run' = 0
    /\ UNCHANGED <<fixed, things, others, registered, status>>

-----------------------------------------------------------------------------
Ended == pc = "ended" /\ UNCHANGED vars

Next ==
    \/ EnvInit \/ CreateCleaner \/ CleanerFails \/ OpenFile \/ OpenFileFails
    \/ OpenSocket \/ OpenSocketFails \/ CheckPort \/ Bind \/ BindFails
    \/ InitLists \/ InitPool \/ InitAnswerPool \/ RecvFails
    \/ RegisterPorts \/ \E t \in Thread : End(t)
    \/ Release \/ StopThreads \/ Exit
    \/ Ended

Spec == Init /\ [][Next]_vars

-----------------------------------------------------------------------------
(* Properties *)

\* Wherever the start fails, nothing is released twice and nothing is released
\* that was never made: no clear function runs on what its component has not
\* made yet, or has released itself.
ReleasedOnce == \A r \in Resource : freed[r] <= made[r]

\* What a thread works with: the cleaner with the mutex of its list; the workers
\* with both pools, the process list, and by way of the requests with the lists
\* and the files of the accounts; the senders with their pool, the process list
\* and the socket.
Own(t) ==
    CASE t = "cleaner"     -> {"tmp"}
      [] t = "unprocessed" -> Pool \union {"plist", "login", "tmp", "file", "filemutex"}
      [] t = "processed"   -> {"processed", "plist", "socket", "winsock"}

\* What has been released of it while the thread is not joined.
Lost(t) ==
    IF thread[t] \in {"running", "ended"} THEN {r \in Own(t) : freed[r] > 0} ELSE {}

\* The functions of the clear list run oldest first.  Those that end threads
\* release what these alone have, the pools and the cleaner's mutex, after they
\* have joined them; what else a worker or a sender works with is released under
\* its hands, but only by the clear list: no start that fails takes anything
\* from a thread it leaves running.
KeptWhileUsed ==
    /\ Lost("cleaner") = {}
    /\ \A p \in Pool : Lost(p) \intersect Pool = {}
    /\ pc \notin {"clear", "joincleaner", "join", "stop", "joinanswers"}
         => \A t \in Thread : Lost(t) = {}

\* At its end the program has joined every thread it started and released all
\* it made, unless an account file could not be opened: then neither the
\* cleaner nor the files opened by then are in the clear list.
EndsClean ==
    pc = "ended" =>
        \/ thread["cleaner"] = "running" /\ made["file"] < FileNum /\ status = 1
        \/ made = freed /\ \A t \in Thread : thread[t] \in {"none", "joined"}

\* clearlist.h:3: the clear functions are "for program to safely exit".
SafeExit == \A t \in Thread : Lost(t) = {}
=============================================================================

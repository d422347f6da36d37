-------------------------- MODULE ServerMainProofs --------------------------
(***************************************************************************)
(* The start and the end of the server program proved for every number of  *)
(* account files: wherever the start fails, nothing is released twice or   *)
(* without having been made, no thread loses the pools it works on before  *)
(* it is joined, and none loses anything before the clear list is run, and *)
(* the program leaves nothing behind but the cleaner of a start without    *)
(* its files.                                                              *)
(*                                                                         *)
(* The clear list decides what is released, so the invariant ties the list *)
(* to what was made (RegistersOK): a component's function is in the list   *)
(* exactly when the component has something to release.  As no function is *)
(* in the list twice (Distinct), what is released follows from how far the *)
(* walk has come (FreedOK).                                                *)
(***************************************************************************)
EXTENDS ServerMain, TLAPS

-----------------------------------------------------------------------------
(* Where the main thread is: the steps of the start up to the one that     *)
(* makes or registers something, and those of jxclearlist_clear.           *)

NoCleaner == {"env", "accounts"}
NoFiles   == NoCleaner \union {"files"}
NoSocket  == NoFiles \union {"socket"}
NotBound  == NoSocket \union {"port", "bind"}
NoLists   == NotBound \union {"lists"}
NoPool    == NoLists \union {"unprocessed"}
NoAnswers == NoPool \union {"processed"}
Starting  == NoAnswers \union {"serve"}
InPools   == {"join", "stop", "joinanswers"}
Clearing  == {"clear", "joincleaner"} \union InPools

ClearFunction == {"env", "files", "accounts", "server", "plist", "pools", "ports"}

Registered(f) == \E i \in 1 .. Len(clears) : clears[i] = f
Done(f)       == \E i \in 1 .. run : clears[i] = f
Pending(f)    == Registered(f) /\ ~Done(f)
HasNext       == More(clears, run)
Working(t)    == thread[t] \in {"running", "ended"}

-----------------------------------------------------------------------------
(* The inductive invariant. *)

ListOK ==
    /\ clears \in Seq(ClearFunction) /\ run \in 0 .. Len(clears)
    /\ pc \in Starting => run = 0

Distinct == \A i, j \in 1 .. Len(clears) : clears[i] = clears[j] => i = j

StateOK ==
    /\ pc \in Starting \union Clearing \union {"ended"}
    /\ made \in [Resource -> Nat] /\ freed \in [Resource -> Nat]
    /\ thread \in [Thread -> {"none", "running", "ended", "joined"}]
    /\ exiting \in [Thread -> BOOLEAN]

\* What has been made by where the start is.
MadeOK ==
    /\ made["login"] = made["tmp"] /\ made["file"] = made["filemutex"]
    /\ made["file"] <= FileNum
    /\ \A r \in Resource \ {"file", "filemutex"} : made[r] <= 1
    /\ made["file"] > 0 => thread["cleaner"] # "none"
    /\ \A p \in Pool : thread[p] = "none" <=> made[p] = 0
    /\ thread["cleaner"] # "none" => made["tmp"] = 1
    /\ pc = "env" => made["winsock"] = 0
    /\ pc \in NoCleaner => made["tmp"] = 0
    /\ pc \in NoFiles   => made["file"] < FileNum
    /\ pc \in NoSocket  => made["socket"] = 0
    /\ pc \in NoLists   => made["plist"] = 0
    /\ pc \in NoPool    => made["unprocessed"] = 0
    /\ pc \in NoAnswers => made["processed"] = 0
    /\ pc \in Starting \ NoCleaner => thread["cleaner"] # "none"
    /\ pc \in Starting \ NoFiles   => made["file"] = FileNum
    /\ pc \in {"port", "bind"}     => made["socket"] = 1
    /\ pc \in Starting \ NoPool    => made["unprocessed"] = 1
    /\ pc = "serve"                => made["processed"] = 1
    /\ pc \in Clearing => made["unprocessed"] = made["processed"]
    /\ pc \in Clearing /\ made["file"] < FileNum => status = 1

\* A function is registered exactly when there is something for it to release.
RegistersOK ==
    /\ Registered("env") <=> made["winsock"] = 1
    /\ Registered("files") <=> made["file"] = FileNum
    /\ Registered("accounts") <=> made["file"] = FileNum
    /\ Registered("server") => made["socket"] = 1
    /\ pc \in NotBound => ~Registered("server")
    /\ pc \in Starting \ NotBound => Registered("server")
    /\ Registered("plist") <=> made["plist"] = 1
    /\ Registered("pools") <=> made["unprocessed"] = 1
    /\ Registered("ports") <=> registered

\* The threads follow the walk.
ThreadsOK ==
    /\ pc \in Starting => \A t \in Thread : ~exiting[t] /\ thread[t] \in {"none", "running"}
    /\ \A t \in Thread : thread[t] \in {"ended", "joined"} => exiting[t]
    /\ exiting["cleaner"] => Registered("accounts")
    /\ thread["cleaner"] = "joined" <=> Done("accounts")
    /\ thread["unprocessed"] = "joined" <=> Done("pools") \/ pc \in {"stop", "joinanswers"}
    /\ thread["processed"] = "joined" <=> Done("pools")
    /\ pc = "joincleaner" => HasNext /\ Current(clears, run) = "accounts"
    /\ pc \in InPools => HasNext /\ Current(clears, run) = "pools"

\* What has been released by how far the walk has come.
FreedOK ==
    /\ pc \in Starting => \A r \in Resource : freed[r] = 0
    /\ pc \in Clearing =>
        /\ freed["winsock"] = IF Pending("env") THEN 0 ELSE made["winsock"]
        /\ freed["socket"] = IF Pending("server") THEN 0 ELSE made["socket"]
        /\ freed["plist"] = IF Pending("plist") THEN 0 ELSE made["plist"]
        /\ \A r \in {"file", "filemutex"} :
                freed[r] = IF Done("files") THEN FileNum ELSE 0
        /\ \A r \in {"login", "tmp"} :
                freed[r] = IF Working("cleaner") THEN 0 ELSE made[r]
        /\ \A p \in Pool : freed[p] = IF Working(p) THEN 0 ELSE made[p]

\* When the program has ended the list is gone, and so is what it said.
Over ==
    /\ ReleasedOnce /\ EndsClean
    /\ \A p \in Pool : thread[p] \in {"none", "joined"}
    /\ Working("cleaner") => ~exiting["cleaner"] /\ freed["tmp"] = 0

Live ==
    /\ ListOK /\ Distinct
    /\ MadeOK /\ RegistersOK
    /\ ThreadsOK /\ FreedOK

IInv ==
    /\ StateOK
    /\ pc # "ended" => Live
    /\ pc = "ended" => Over

-----------------------------------------------------------------------------
(* The list. *)

\* A function that is not in the list yet is put at its end.
LEMMA AddedFacts ==
    ASSUME clears \in Seq(ClearFunction), run \in 0 .. Len(clears), Distinct,
           NEW f \in ClearFunction, ~Registered(f),
           clears' = Added(clears, f), run' = run
    PROVE  /\ clears' \in Seq(ClearFunction) /\ run' \in 0 .. Len(clears')
           /\ Distinct'
           /\ \A g : Registered(g)' <=> Registered(g) \/ g = f
           /\ \A g : Done(g)' <=> Done(g)
           /\ HasNext => HasNext' /\ Current(clears, run)' = Current(clears, run)
<1>1. /\ clears' \in Seq(ClearFunction) /\ Len(clears') = Len(clears) + 1
      /\ \A i \in 1 .. Len(clears) : clears'[i] = clears[i]
      /\ clears'[Len(clears) + 1] = f
      /\ Len(clears) \in Nat
  BY DEF Added
<1>2. 1 .. Len(clears') = (1 .. Len(clears)) \union {Len(clears) + 1}
  BY <1>1
<1>3. \A g : Registered(g)' <=> Registered(g) \/ g = f
  BY <1>1, <1>2 DEF Registered
<1>4. \A g : Done(g)' <=> Done(g)
  BY <1>1 DEF Done
<1>5. Distinct'
  BY <1>1, <1>2 DEF Distinct, Registered
<1>6. HasNext => HasNext' /\ Current(clears, run)' = Current(clears, run)
  BY <1>1 DEF HasNext, More, Current
<1> QED
  BY <1>1, <1>3, <1>4, <1>5, <1>6

\* The walk runs the function it has come to, which has not run before.
LEMMA AdvanceFacts ==
    ASSUME clears \in Seq(ClearFunction), run \in 0 .. Len(clears), Distinct, HasNext
    PROVE  /\ Pending(Current(clears, run))
           /\ clears' = clears /\ run' = run + 1 =>
                /\ run' \in 0 .. Len(clears')
                /\ \A g : Registered(g)' <=> Registered(g)
                /\ \A g : Done(g)' <=> Done(g) \/ g = Current(clears, run)
<1>1. run + 1 \in 1 .. Len(clears) /\ run \in Nat
  BY DEF HasNext, More
<1>2. Pending(Current(clears, run))
  BY <1>1 DEF Pending, Registered, Done, Current, Distinct
<1>3. ASSUME clears' = clears, run' = run + 1
      PROVE  /\ run' \in 0 .. Len(clears')
             /\ \A g : Registered(g)' <=> Registered(g)
             /\ \A g : Done(g)' <=> Done(g) \/ g = Current(clears, run)
  <2>1. 1 .. run' = (1 .. run) \union {run + 1}
    BY <1>1, <1>3
  <2> QED
    BY <1>1, <1>3, <2>1 DEF Registered, Done, Current
<1> QED
  BY <1>2, <1>3

\* A walk at its end has run every function.
LEMMA WalkEnds ==
    ASSUME clears \in Seq(ClearFunction), run \in 0 .. Len(clears), ~HasNext, NEW g
    PROVE  ~Pending(g)
  BY DEF HasNext, More, Pending, Registered, Done

LEMMA NothingDone == run = 0 => \A g : ~Done(g)
  BY DEF Done

LEMMA ListAlone ==
    ASSUME UNCHANGED list
    PROVE  /\ Distinct' <=> Distinct
           /\ \A g : (Registered(g)' <=> Registered(g)) /\ (Done(g)' <=> Done(g))
           /\ HasNext' <=> HasNext
           /\ Current(clears, run)' = Current(clears, run)
  BY DEF list, Distinct, Registered, Done, HasNext, Current

-----------------------------------------------------------------------------
(* What is made and released. *)

LEMMA MadeFacts ==
    ASSUME StateOK, MadeOK
    PROVE  /\ \A r \in Resource : made[r] \in Nat /\ freed[r] \in Nat
           /\ \A r \in Resource \ {"file", "filemutex"} : made[r] \in {0, 1}
           /\ \A p \in Pool : thread[p] # "none" => made[p] = 1
<1>1. \A r \in Resource : made[r] \in Nat /\ freed[r] \in Nat
  BY DEF StateOK
<1>2. \A r \in Resource \ {"file", "filemutex"} : made[r] \in {0, 1}
  <2>1. \A n \in Nat : n <= 1 => n \in {0, 1}
    OBVIOUS
  <2> QED
    BY <1>1, <2>1 DEF MadeOK
<1>3. \A p \in Pool : thread[p] # "none" => made[p] = 1
  <2> SUFFICES ASSUME NEW p \in Pool, thread[p] # "none" PROVE made[p] = 1
    OBVIOUS
  <2>1. p \in Resource \ {"file", "filemutex"}
    BY DEF Pool, Resource
  <2>2. thread[p] = "none" <=> made[p] = 0
    BY DEF MadeOK
  <2> QED
    BY <1>2, <2>1, <2>2
<1> QED
  BY <1>1, <1>2, <1>3

LEMMA MakeFacts ==
    ASSUME StateOK, NEW R, Make(R)
    PROVE  /\ made' \in [Resource -> Nat]
           /\ \A r \in Resource : made'[r] = IF r \in R THEN made[r] + 1 ELSE made[r]
  BY DEF StateOK, Make

LEMMA FreeFacts ==
    ASSUME StateOK, NEW R, Free(R)
    PROVE  /\ freed' \in [Resource -> Nat]
           /\ \A r \in Resource : freed'[r] = IF r \in R THEN freed[r] + 1 ELSE freed[r]
  BY DEF StateOK, Free

-----------------------------------------------------------------------------
(* The start, one step at a time. *)


USE DEF NoCleaner, NoFiles, NoSocket, NotBound, NoLists, NoPool, NoAnswers, Starting,
        InPools, Clearing, Pool, Thread, Resource

LEMMA InvInit == Init => IInv
<1> SUFFICES ASSUME Init PROVE IInv
  OBVIOUS
<1>1. StateOK
  BY DEF Init, StateOK
<1>2. ListOK /\ Distinct
  BY DEF Init, ListOK, Distinct
<1>3. \A f : ~Registered(f) /\ ~Done(f)
  BY DEF Init, Registered, Done
<1>4. MadeOK /\ RegistersOK /\ ThreadsOK /\ FreedOK
  BY <1>3, FileAssumption DEF Init, MadeOK, RegistersOK, ThreadsOK, FreedOK
<1> QED
  BY <1>1, <1>2, <1>4 DEF IInv, Live, Init

LEMMA Before ==
    ASSUME IInv, NEW from \in Starting \union Clearing, NEW to, Goto(from, to)
    PROVE  /\ StateOK /\ Live /\ pc = from /\ pc' = to
           /\ run \in 0 .. Len(clears) /\ clears \in Seq(ClearFunction) /\ Distinct
           /\ pc \in Starting => run = 0 /\ \A f : ~Done(f)
  BY NothingDone DEF IInv, Live, ListOK, Goto

LEMMA InvEnvInit == IInv /\ EnvInit => IInv'
<1> SUFFICES ASSUME IInv, EnvInit PROVE IInv'
  OBVIOUS
<1>1. /\ StateOK /\ Live /\ pc = "env" /\ pc' = "accounts"
      /\ run \in 0 .. Len(clears) /\ clears \in Seq(ClearFunction) /\ Distinct
      /\ run = 0 /\ \A f : ~Done(f)
  BY Before DEF EnvInit
<1>2. CASE Make({"winsock"}) /\ clears' = Added(clears, "env")
  <2>1. ~Registered("env")
    BY <1>1 DEF Live, MadeOK, RegistersOK
  <2>2. /\ clears' \in Seq(ClearFunction) /\ run' \in 0 .. Len(clears') /\ Distinct'
        /\ \A g : Registered(g)' <=> Registered(g) \/ g = "env"
        /\ \A g : Done(g)' <=> Done(g)
    BY <1>1, <1>2, <2>1, AddedFacts DEF ClearFunction, EnvInit
  <2>3. /\ made' \in [Resource -> Nat]
        /\ \A r \in Resource : made'[r] = IF r = "winsock" THEN made[r] + 1 ELSE made[r]
    BY <1>1, <1>2, MakeFacts
  <2>4. StateOK' /\ ListOK'
    BY <1>1, <2>2, <2>3 DEF StateOK, ListOK, EnvInit, others
  <2>5. MadeOK'
    BY <1>1, <2>3 DEF Live, MadeOK, EnvInit, others
  <2>6. RegistersOK'
    BY <1>1, <2>2, <2>3 DEF Live, MadeOK, RegistersOK, EnvInit
  <2>7. ThreadsOK' /\ FreedOK'
    BY <1>1, <2>2, <2>3 DEF Live, ThreadsOK, FreedOK, EnvInit, others
  <2> QED
    BY <1>1, <2>2, <2>4, <2>5, <2>6, <2>7 DEF IInv, Live
<1>3. CASE UNCHANGED <<made, clears>>
  <2>1. UNCHANGED list
    BY <1>3 DEF EnvInit, list
  <2>2. StateOK' /\ ListOK' /\ Distinct'
    BY <1>1, <1>3, <2>1, ListAlone DEF StateOK, Live, ListOK, EnvInit, others
  <2>3. MadeOK'
    BY <1>1, <1>3 DEF Live, MadeOK, EnvInit, others
  <2>4. RegistersOK' /\ ThreadsOK' /\ FreedOK'
    BY <1>1, <1>3, <2>1, ListAlone
       DEF Live, RegistersOK, ThreadsOK, FreedOK, EnvInit, others
  <2> QED
    BY <1>1, <2>2, <2>3, <2>4 DEF IInv, Live
<1> QED
  BY <1>2, <1>3 DEF EnvInit

LEMMA InvCreateCleaner == IInv /\ CreateCleaner => IInv'
<1> SUFFICES ASSUME IInv, CreateCleaner PROVE IInv'
  OBVIOUS
<1>1. /\ StateOK /\ Live /\ pc = "accounts" /\ pc' = "files"
      /\ run \in 0 .. Len(clears) /\ clears \in Seq(ClearFunction) /\ Distinct
      /\ run = 0 /\ \A f : ~Done(f)
  BY Before DEF CreateCleaner
<1>2. /\ made' \in [Resource -> Nat]
      /\ \A r \in Resource : made'[r] = IF r \in {"login", "tmp"} THEN made[r] + 1 ELSE made[r]
  BY <1>1, MakeFacts DEF CreateCleaner
<1>3. /\ UNCHANGED list /\ Distinct'
      /\ \A g : (Registered(g)' <=> Registered(g)) /\ (Done(g)' <=> Done(g))
  BY <1>1, ListAlone DEF CreateCleaner
<1>4. StateOK' /\ ListOK'
  BY <1>1, <1>2, <1>3 DEF StateOK, Live, ListOK, CreateCleaner, Started, list
<1>5. MadeOK'
  <2>1. /\ made'["login"] = 1 /\ made'["tmp"] = 1
        /\ \A r \in Resource \ {"login", "tmp"} : made'[r] = made[r]
    BY <1>1, <1>2 DEF Live, MadeOK
  <2>2. /\ thread'["cleaner"] = "running"
        /\ \A p \in Pool : thread'[p] = thread[p]
    BY <1>1 DEF StateOK, CreateCleaner, Started
  <2> QED
    BY <1>1, <2>1, <2>2 DEF Live, MadeOK
<1>6. RegistersOK'
  BY <1>1, <1>2, <1>3, FileAssumption
     DEF Live, MadeOK, RegistersOK, CreateCleaner, Started
<1>7. ThreadsOK' /\ FreedOK'
  BY <1>1, <1>2, <1>3
     DEF Live, MadeOK, RegistersOK, ThreadsOK, FreedOK, StateOK, Pending, Working,
         CreateCleaner, Started
<1> QED
  BY <1>1, <1>2, <1>3, <1>4, <1>5, <1>6, <1>7 DEF IInv, Live

LEMMA InvCleanerFails == IInv /\ CleanerFails => IInv'
<1> SUFFICES ASSUME IInv, CleanerFails PROVE IInv'
  OBVIOUS
<1>1. /\ StateOK /\ Live /\ pc = "accounts" /\ pc' = "clear"
      /\ run \in 0 .. Len(clears) /\ clears \in Seq(ClearFunction) /\ Distinct
      /\ run = 0 /\ \A f : ~Done(f)
  BY Before DEF CleanerFails, Fatal
<1>2. /\ made' \in [Resource -> Nat]
      /\ \A r \in Resource : made'[r] = IF r \in {"login", "tmp"} THEN made[r] + 1 ELSE made[r]
  BY <1>1, MakeFacts DEF CleanerFails
<1>3. /\ freed' \in [Resource -> Nat]
      /\ \A r \in Resource : freed'[r] = IF r \in {"login", "tmp"} THEN freed[r] + 1 ELSE freed[r]
  BY <1>1, FreeFacts DEF CleanerFails
<1>4. /\ UNCHANGED list /\ Distinct'
      /\ \A g : (Registered(g)' <=> Registered(g)) /\ (Done(g)' <=> Done(g))
  BY <1>1, ListAlone DEF CleanerFails
<1>5. StateOK' /\ ListOK'
  BY <1>1, <1>2, <1>3, <1>4 DEF StateOK, Live, ListOK, CleanerFails, Fatal, others, list
<1>6. MadeOK'
  <2>1. /\ made["login"] = 0 /\ made["tmp"] = 0 /\ made["file"] < FileNum
        /\ made["unprocessed"] = 0 /\ made["processed"] = 0
        /\ thread' = thread /\ status' = 1
    BY <1>1 DEF Live, MadeOK, CleanerFails, Fatal, others
  <2>2. \A r \in Resource \ {"login", "tmp"} : made'[r] = made[r]
    BY <1>2
  <2>3. made'["login"] = 1 /\ made'["tmp"] = 1
    BY <1>2, <2>1
  <2> QED
    BY <1>1, <2>1, <2>2, <2>3 DEF Live, MadeOK
<1>7. RegistersOK'
  BY <1>1, <1>2, <1>3, <1>4, FileAssumption
     DEF Live, MadeOK, RegistersOK, CleanerFails, Fatal, others
<1>8. ThreadsOK' /\ FreedOK'
  BY <1>1, <1>2, <1>3, <1>4
     DEF Live, MadeOK, RegistersOK, ThreadsOK, FreedOK, StateOK, Pending, Working,
         CleanerFails, Fatal, others
<1> QED
  BY <1>1, <1>2, <1>3, <1>4, <1>5, <1>6, <1>7, <1>8 DEF IInv, Live

LEMMA InvOpenFileFails == IInv /\ OpenFileFails => IInv'
<1> SUFFICES ASSUME IInv, OpenFileFails PROVE IInv'
  OBVIOUS
<1>1. /\ StateOK /\ Live /\ pc = "files" /\ pc' = "clear"
      /\ run \in 0 .. Len(clears) /\ clears \in Seq(ClearFunction) /\ Distinct
      /\ run = 0 /\ \A f : ~Done(f)
  BY Before DEF OpenFileFails, Fatal
<1>2. /\ UNCHANGED list /\ Distinct'
      /\ \A g : (Registered(g)' <=> Registered(g)) /\ (Done(g)' <=> Done(g))
  BY <1>1, ListAlone DEF OpenFileFails
<1>3. StateOK' /\ ListOK'
  BY <1>1, <1>2 DEF StateOK, Live, ListOK, OpenFileFails, Fatal, things, others, list
<1>4. MadeOK'
  BY <1>1, <1>2, FileAssumption
     DEF Live, MadeOK, StateOK, OpenFileFails, Fatal, things, others
<1>5. RegistersOK'
  BY <1>1, <1>2, FileAssumption
     DEF Live, MadeOK, RegistersOK, OpenFileFails, Fatal, things, others
<1>6. ThreadsOK' /\ FreedOK'
  BY <1>1, <1>2
     DEF Live, MadeOK, RegistersOK, ThreadsOK, FreedOK, StateOK, Pending, Working,
         OpenFileFails, Fatal, things, others
<1> QED
  BY <1>1, <1>2, <1>3, <1>4, <1>5, <1>6 DEF IInv, Live

LEMMA InvOpenSocket == IInv /\ OpenSocket => IInv'
<1> SUFFICES ASSUME IInv, OpenSocket PROVE IInv'
  OBVIOUS
<1>1. /\ StateOK /\ Live /\ pc = "socket" /\ pc' = "port"
      /\ run \in 0 .. Len(clears) /\ clears \in Seq(ClearFunction) /\ Distinct
      /\ run = 0 /\ \A f : ~Done(f)
  BY Before DEF OpenSocket
<1>2. /\ made' \in [Resource -> Nat]
      /\ \A r \in Resource : made'[r] = IF r = "socket" THEN made[r] + 1 ELSE made[r]
  BY <1>1, MakeFacts DEF OpenSocket
<1>3. /\ UNCHANGED list /\ Distinct'
      /\ \A g : (Registered(g)' <=> Registered(g)) /\ (Done(g)' <=> Done(g))
  BY <1>1, ListAlone DEF OpenSocket
<1>4. StateOK' /\ ListOK'
  BY <1>1, <1>2, <1>3 DEF StateOK, Live, ListOK, OpenSocket, others, list
<1>5. MadeOK'
  BY <1>1, <1>2, <1>3, FileAssumption DEF Live, MadeOK, StateOK, OpenSocket, others
<1>6. RegistersOK'
  BY <1>1, <1>2, <1>3, FileAssumption DEF Live, MadeOK, RegistersOK, OpenSocket, others
<1>7. ThreadsOK' /\ FreedOK'
  BY <1>1, <1>2, <1>3
     DEF Live, MadeOK, RegistersOK, ThreadsOK, FreedOK, StateOK, Pending, Working,
         OpenSocket, others
<1> QED
  BY <1>1, <1>2, <1>3, <1>4, <1>5, <1>6, <1>7 DEF IInv, Live

LEMMA InvOpenSocketFails == IInv /\ OpenSocketFails => IInv'
<1> SUFFICES ASSUME IInv, OpenSocketFails PROVE IInv'
  OBVIOUS
<1>1. /\ StateOK /\ Live /\ pc = "socket" /\ pc' = "clear"
      /\ run \in 0 .. Len(clears) /\ clears \in Seq(ClearFunction) /\ Distinct
      /\ run = 0 /\ \A f : ~Done(f)
  BY Before DEF OpenSocketFails, Fatal
<1>2. /\ UNCHANGED list /\ Distinct'
      /\ \A g : (Registered(g)' <=> Registered(g)) /\ (Done(g)' <=> Done(g))
  BY <1>1, ListAlone DEF OpenSocketFails
<1>3. StateOK' /\ ListOK'
  BY <1>1, <1>2 DEF StateOK, Live, ListOK, OpenSocketFails, Fatal, things, others, list
<1>4. MadeOK'
  BY <1>1, <1>2, FileAssumption
     DEF Live, MadeOK, StateOK, OpenSocketFails, Fatal, things, others
<1>5. RegistersOK'
  BY <1>1, <1>2, FileAssumption
     DEF Live, MadeOK, RegistersOK, OpenSocketFails, Fatal, things, others
<1>6. ThreadsOK' /\ FreedOK'
  BY <1>1, <1>2
     DEF Live, MadeOK, RegistersOK, ThreadsOK, FreedOK, StateOK, Pending, Working,
         OpenSocketFails, Fatal, things, others
<1> QED
  BY <1>1, <1>2, <1>3, <1>4, <1>5, <1>6 DEF IInv, Live

LEMMA InvBindFails == IInv /\ BindFails => IInv'
<1> SUFFICES ASSUME IInv, BindFails PROVE IInv'
  OBVIOUS
<1>1. /\ StateOK /\ Live /\ pc = "bind" /\ pc' = "clear"
      /\ run \in 0 .. Len(clears) /\ clears \in Seq(ClearFunction) /\ Distinct
      /\ run = 0 /\ \A f : ~Done(f)
  BY Before DEF BindFails, Fatal
<1>2. /\ freed' \in [Resource -> Nat]
      /\ \A r \in Resource : freed'[r] = IF r = "socket" THEN freed[r] + 1 ELSE freed[r]
  BY <1>1, FreeFacts DEF BindFails
<1>3. /\ UNCHANGED list /\ Distinct'
      /\ \A g : (Registered(g)' <=> Registered(g)) /\ (Done(g)' <=> Done(g))
  BY <1>1, ListAlone DEF BindFails
<1>4. StateOK' /\ ListOK'
  BY <1>1, <1>2, <1>3 DEF StateOK, Live, ListOK, BindFails, Fatal, others, list
<1>5. MadeOK'
  BY <1>1, <1>2, <1>3, FileAssumption DEF Live, MadeOK, StateOK, BindFails, Fatal, others
<1>6. RegistersOK'
  BY <1>1, <1>2, <1>3, FileAssumption
     DEF Live, MadeOK, RegistersOK, BindFails, Fatal, others
<1>7. ThreadsOK' /\ FreedOK'
  BY <1>1, <1>2, <1>3
     DEF Live, MadeOK, RegistersOK, ThreadsOK, FreedOK, StateOK, Pending, Working,
         BindFails, Fatal, others
<1> QED
  BY <1>1, <1>2, <1>3, <1>4, <1>5, <1>6, <1>7 DEF IInv, Live

LEMMA InvBind == IInv /\ Bind => IInv'
<1> SUFFICES ASSUME IInv, Bind PROVE IInv'
  OBVIOUS
<1>1. /\ StateOK /\ Live /\ pc = "bind" /\ pc' = "lists"
      /\ run \in 0 .. Len(clears) /\ clears \in Seq(ClearFunction) /\ Distinct
      /\ run = 0 /\ \A f : ~Done(f)
  BY Before DEF Bind
<1>2. ~Registered("server")
  BY <1>1 DEF Live, MadeOK, RegistersOK
<1>3. /\ clears' \in Seq(ClearFunction) /\ run' \in 0 .. Len(clears') /\ Distinct'
      /\ \A g : Registered(g)' <=> Registered(g) \/ g = "server"
      /\ \A g : Done(g)' <=> Done(g)
  BY <1>1, <1>2, AddedFacts DEF ClearFunction, Bind
<1>4. StateOK' /\ ListOK'
  BY <1>1, <1>3 DEF StateOK, Live, ListOK, Bind, things, others
<1>5. MadeOK'
  BY <1>1, <1>3, FileAssumption DEF Live, MadeOK, StateOK, Bind, things, others
<1>6. RegistersOK'
  BY <1>1, <1>3, FileAssumption DEF Live, MadeOK, RegistersOK, Bind, things, others
<1>7. ThreadsOK' /\ FreedOK'
  BY <1>1, <1>3
     DEF Live, MadeOK, RegistersOK, ThreadsOK, FreedOK, StateOK, Pending, Working,
         Bind, things, others
<1> QED
  BY <1>1, <1>3, <1>4, <1>5, <1>6, <1>7 DEF IInv, Live

LEMMA InvInitLists == IInv /\ InitLists => IInv'
<1> SUFFICES ASSUME IInv, InitLists PROVE IInv'
  OBVIOUS
<1>1. /\ StateOK /\ Live /\ pc = "lists" /\ pc' = "unprocessed"
      /\ run \in 0 .. Len(clears) /\ clears \in Seq(ClearFunction) /\ Distinct
      /\ run = 0 /\ \A f : ~Done(f)
  BY Before DEF InitLists
<1>2. /\ made' \in [Resource -> Nat]
      /\ \A r \in Resource : made'[r] = IF r = "plist" THEN made[r] + 1 ELSE made[r]
  BY <1>1, MakeFacts DEF InitLists
<1>3. ~Registered("plist")
  BY <1>1 DEF Live, MadeOK, RegistersOK
<1>4. /\ clears' \in Seq(ClearFunction) /\ run' \in 0 .. Len(clears') /\ Distinct'
      /\ \A g : Registered(g)' <=> Registered(g) \/ g = "plist"
      /\ \A g : Done(g)' <=> Done(g)
  BY <1>1, <1>3, AddedFacts DEF ClearFunction, InitLists
<1>5. StateOK' /\ ListOK'
  BY <1>1, <1>2, <1>4 DEF StateOK, Live, ListOK, InitLists, others
<1>6. /\ made'["plist"] = 1
      /\ \A r \in Resource \ {"plist"} : made'[r] = made[r]
  BY <1>1, <1>2 DEF Live, MadeOK
<1>7. MadeOK'
  BY <1>1, <1>6 DEF Live, MadeOK, InitLists, others
<1>8. RegistersOK'
  BY <1>1, <1>4, <1>6 DEF Live, RegistersOK, InitLists
<1>9. ThreadsOK' /\ FreedOK'
  BY <1>1, <1>2, <1>4
     DEF Live, MadeOK, RegistersOK, ThreadsOK, FreedOK, StateOK, Pending, Working,
         InitLists, others
<1> QED
  BY <1>1, <1>2, <1>4, <1>5, <1>7, <1>8, <1>9 DEF IInv, Live

LEMMA InvInitPool == IInv /\ InitPool => IInv'
<1> SUFFICES ASSUME IInv, InitPool PROVE IInv'
  OBVIOUS
<1>1. /\ StateOK /\ Live /\ pc = "unprocessed" /\ pc' = "processed"
      /\ run \in 0 .. Len(clears) /\ clears \in Seq(ClearFunction) /\ Distinct
      /\ run = 0 /\ \A f : ~Done(f)
  BY Before DEF InitPool
<1>2. /\ made' \in [Resource -> Nat]
      /\ \A r \in Resource : made'[r] = IF r = "unprocessed" THEN made[r] + 1 ELSE made[r]
  BY <1>1, MakeFacts DEF InitPool
<1>3. ~Registered("pools")
  BY <1>1 DEF Live, MadeOK, RegistersOK
<1>4. /\ clears' \in Seq(ClearFunction) /\ run' \in 0 .. Len(clears') /\ Distinct'
      /\ \A g : Registered(g)' <=> Registered(g) \/ g = "pools"
      /\ \A g : Done(g)' <=> Done(g)
  BY <1>1, <1>3, AddedFacts DEF ClearFunction, InitPool
<1>5. StateOK' /\ ListOK'
  BY <1>1, <1>2, <1>4 DEF StateOK, Live, ListOK, InitPool, Started
<1>6. /\ made'["unprocessed"] = 1
      /\ \A r \in Resource \ {"unprocessed"} : made'[r] = made[r]
  BY <1>1, <1>2 DEF Live, MadeOK
<1>7. MadeOK'
  <2>1. /\ thread'["unprocessed"] = "running"
        /\ \A t \in Thread \ {"unprocessed"} : thread'[t] = thread[t]
    BY <1>1 DEF StateOK, InitPool, Started
  <2> QED
    BY <1>1, <1>6, <2>1 DEF Live, MadeOK
<1>8. RegistersOK'
  BY <1>1, <1>4, <1>6 DEF Live, RegistersOK, InitPool
<1>9. ThreadsOK' /\ FreedOK'
  BY <1>1, <1>2, <1>4
     DEF Live, MadeOK, RegistersOK, ThreadsOK, FreedOK, StateOK, Pending, Working,
         InitPool, Started
<1> QED
  BY <1>1, <1>2, <1>4, <1>5, <1>7, <1>8, <1>9 DEF IInv, Live

LEMMA InvInitAnswerPool == IInv /\ InitAnswerPool => IInv'
<1> SUFFICES ASSUME IInv, InitAnswerPool PROVE IInv'
  OBVIOUS
<1>1. /\ StateOK /\ Live /\ pc = "processed" /\ pc' = "serve"
      /\ run \in 0 .. Len(clears) /\ clears \in Seq(ClearFunction) /\ Distinct
      /\ run = 0 /\ \A f : ~Done(f)
  BY Before DEF InitAnswerPool
<1>2. /\ made' \in [Resource -> Nat]
      /\ \A r \in Resource : made'[r] = IF r = "processed" THEN made[r] + 1 ELSE made[r]
  BY <1>1, MakeFacts DEF InitAnswerPool
<1>3. /\ UNCHANGED list /\ Distinct'
      /\ \A g : (Registered(g)' <=> Registered(g)) /\ (Done(g)' <=> Done(g))
  BY <1>1, ListAlone DEF InitAnswerPool
<1>4. StateOK' /\ ListOK'
  BY <1>1, <1>2, <1>3 DEF StateOK, Live, ListOK, InitAnswerPool, Started, list
<1>5. MadeOK'
  <2>1. /\ made'["processed"] = 1
        /\ \A r \in Resource \ {"processed"} : made'[r] = made[r]
    BY <1>1, <1>2 DEF Live, MadeOK
  <2>2. /\ thread'["processed"] = "running"
        /\ \A t \in Thread \ {"processed"} : thread'[t] = thread[t]
    BY <1>1 DEF StateOK, InitAnswerPool, Started
  <2> QED
    BY <1>1, <2>1, <2>2 DEF Live, MadeOK
<1>6. RegistersOK'
  BY <1>1, <1>2, <1>3, FileAssumption
     DEF Live, MadeOK, RegistersOK, InitAnswerPool, Started
<1>7. ThreadsOK' /\ FreedOK'
  BY <1>1, <1>2, <1>3
     DEF Live, MadeOK, RegistersOK, ThreadsOK, FreedOK, StateOK, Pending, Working,
         InitAnswerPool, Started
<1> QED
  BY <1>1, <1>2, <1>3, <1>4, <1>5, <1>6, <1>7 DEF IInv, Live

LEMMA InvRecvFails == IInv /\ RecvFails => IInv'
<1> SUFFICES ASSUME IInv, RecvFails PROVE IInv'
  OBVIOUS
<1>1. /\ StateOK /\ Live /\ pc = "serve" /\ pc' = "clear"
      /\ run \in 0 .. Len(clears) /\ clears \in Seq(ClearFunction) /\ Distinct
      /\ run = 0 /\ \A f : ~Done(f)
  BY Before DEF RecvFails
<1>2. /\ UNCHANGED list /\ Distinct'
      /\ \A g : (Registered(g)' <=> Registered(g)) /\ (Done(g)' <=> Done(g))
  BY <1>1, ListAlone DEF RecvFails
<1>3. StateOK' /\ ListOK'
  BY <1>1, <1>2 DEF StateOK, Live, ListOK, RecvFails, things, others, list
<1>4. MadeOK'
  BY <1>1, <1>2, FileAssumption DEF Live, MadeOK, StateOK, RecvFails, things, others
<1>5. RegistersOK'
  BY <1>1, <1>2, FileAssumption DEF Live, MadeOK, RegistersOK, RecvFails, things, others
<1>6. ThreadsOK' /\ FreedOK'
  BY <1>1, <1>2
     DEF Live, MadeOK, RegistersOK, ThreadsOK, FreedOK, StateOK, Pending, Working,
         RecvFails, things, others
<1> QED
  BY <1>1, <1>2, <1>3, <1>4, <1>5, <1>6 DEF IInv, Live

LEMMA InvCheckPort == IInv /\ CheckPort => IInv'
<1> SUFFICES ASSUME IInv, CheckPort PROVE IInv'
  OBVIOUS
<1>1. /\ StateOK /\ Live /\ pc = "port" /\ pc' = IF port THEN "bind" ELSE "clear"
      /\ run \in 0 .. Len(clears) /\ clears \in Seq(ClearFunction) /\ Distinct
      /\ run = 0 /\ \A f : ~Done(f)
  BY Before DEF CheckPort, Fatal
<1>2. /\ UNCHANGED list /\ Distinct'
      /\ \A g : (Registered(g)' <=> Registered(g)) /\ (Done(g)' <=> Done(g))
  BY <1>1, ListAlone DEF CheckPort
<1>3. CASE port
  <2>1. StateOK' /\ ListOK'
    BY <1>1, <1>2, <1>3 DEF StateOK, Live, ListOK, CheckPort, others, list
  <2>2. MadeOK' /\ RegistersOK'
    BY <1>1, <1>2, <1>3 DEF Live, MadeOK, RegistersOK, CheckPort, others
  <2>3. ThreadsOK' /\ FreedOK'
    BY <1>1, <1>2, <1>3 DEF Live, ThreadsOK, FreedOK, CheckPort, others
  <2> QED
    BY <1>1, <1>2, <1>3, <2>1, <2>2, <2>3 DEF IInv, Live
<1>4. CASE ~port
  <2>1. /\ freed' \in [Resource -> Nat]
        /\ \A r \in Resource : freed'[r] = IF r = "socket" THEN freed[r] + 1 ELSE freed[r]
    BY <1>1, <1>4, FreeFacts DEF CheckPort
  <2>2. StateOK' /\ ListOK'
    BY <1>1, <1>2, <1>4, <2>1 DEF StateOK, Live, ListOK, CheckPort, Fatal, others, list
  <2>3. MadeOK' /\ RegistersOK'
    BY <1>1, <1>2, <1>4 DEF Live, MadeOK, RegistersOK, CheckPort, Fatal, others
  <2>4. ThreadsOK' /\ FreedOK'
    BY <1>1, <1>2, <1>4, <2>1
       DEF Live, MadeOK, RegistersOK, ThreadsOK, FreedOK, StateOK, Pending, Working,
           CheckPort, others
  <2> QED
    BY <1>1, <1>2, <1>4, <2>2, <2>3, <2>4 DEF IInv, Live
<1> QED
  BY <1>3, <1>4

\* The last file registers two functions, any other none.
LEMMA InvOpenFile == IInv /\ OpenFile => IInv'
<1> SUFFICES ASSUME IInv, OpenFile PROVE IInv'
  OBVIOUS
<1>1. /\ StateOK /\ Live /\ pc = "files"
      /\ run \in 0 .. Len(clears) /\ clears \in Seq(ClearFunction) /\ Distinct
      /\ run = 0 /\ \A f : ~Done(f)
  BY Before DEF OpenFile
<1>2. /\ made' \in [Resource -> Nat]
      /\ \A r \in Resource :
            made'[r] = IF r \in {"file", "filemutex"} THEN made[r] + 1 ELSE made[r]
  BY <1>1, MakeFacts DEF OpenFile
<1>3. made["file"] \in Nat /\ made["file"] < FileNum
  BY <1>1 DEF StateOK, Live, MadeOK
<1>4. CASE made'["file"] = FileNum
  <2> DEFINE once == Added(clears, "files")
  <2>1. ~Registered("files") /\ ~Registered("accounts")
    BY <1>1, <1>3 DEF Live, RegistersOK
  <2>2. pc' = "socket" /\ run' = run /\ clears' = Added(once, "accounts")
    BY <1>4 DEF OpenFile, Goto
  <2>3. /\ Len(clears) \in Nat /\ Len(clears') = Len(clears) + 2
        /\ clears' \in Seq(ClearFunction)
        /\ \A i \in 1 .. Len(clears) : clears'[i] = clears[i]
        /\ clears'[Len(clears) + 1] = "files" /\ clears'[Len(clears) + 2] = "accounts"
    BY <1>1, <2>2 DEF Added, ClearFunction
  <2>4. 1 .. Len(clears') = (1 .. Len(clears)) \union {Len(clears) + 1, Len(clears) + 2}
    BY <2>3
  <2>5. \A g : Registered(g)' <=> Registered(g) \/ g \in {"files", "accounts"}
    BY <2>3, <2>4 DEF Registered
  <2>6. Distinct'
    BY <1>1, <2>1, <2>3, <2>4 DEF Distinct, Registered
  <2>7. \A g : ~Done(g)'
    BY <1>1, <2>2 DEF Done
  <2>8. StateOK' /\ ListOK'
    BY <1>1, <1>2, <2>2, <2>3 DEF StateOK, ListOK, OpenFile, others
  <2>9. MadeOK'
    BY <1>1, <1>2, <1>3, <1>4, <2>2 DEF Live, MadeOK, StateOK, OpenFile, others
  <2>10. RegistersOK'
    BY <1>1, <1>2, <1>3, <1>4, <2>2, <2>5 DEF Live, RegistersOK, OpenFile
  <2>11. ThreadsOK' /\ FreedOK'
    BY <1>1, <2>2, <2>5, <2>7 DEF Live, ThreadsOK, FreedOK, OpenFile, others
  <2> QED
    BY <2>2, <2>6, <2>8, <2>9, <2>10, <2>11 DEF IInv, Live
<1>5. CASE made'["file"] # FileNum
  <2>1. pc' = "files" /\ UNCHANGED list
    BY <1>5 DEF OpenFile, Goto, list
  <2>2. /\ Distinct'
        /\ \A g : (Registered(g)' <=> Registered(g)) /\ (Done(g)' <=> Done(g))
    BY <1>1, <2>1, ListAlone
  <2>3. made'["file"] < FileNum
    BY <1>2, <1>3, <1>5, FileAssumption
  <2>4. StateOK' /\ ListOK'
    BY <1>1, <1>2, <2>1 DEF StateOK, Live, ListOK, OpenFile, others, list
  <2>5. MadeOK'
    <3>1. /\ made'["file"] = made["file"] + 1 /\ made'["filemutex"] = made["filemutex"] + 1
          /\ \A r \in Resource \ {"file", "filemutex"} : made'[r] = made[r]
          /\ thread' = thread
      BY <1>2 DEF OpenFile, others
    <3>2. made["file"] = made["filemutex"] /\ thread["cleaner"] # "none"
      BY <1>1 DEF Live, MadeOK
    <3> QED
      BY <1>1, <1>2, <1>3, <2>1, <2>3, <3>1, <3>2, FileAssumption DEF Live, MadeOK
  <2>6. RegistersOK'
    <3>1. /\ made["file"] # FileNum /\ made'["file"] # FileNum
          /\ \A r \in Resource \ {"file", "filemutex"} : made'[r] = made[r]
      BY <1>1, <1>2, <1>3, <1>5, FileAssumption DEF Live, MadeOK
    <3> QED
      BY <1>1, <2>1, <2>2, <3>1 DEF Live, RegistersOK, OpenFile
  <2>7. ThreadsOK' /\ FreedOK'
    BY <1>1, <2>1, <2>2 DEF Live, ThreadsOK, FreedOK, OpenFile, others
  <2> QED
    BY <2>1, <2>2, <2>4, <2>5, <2>6, <2>7 DEF IInv, Live
<1> QED
  BY <1>4, <1>5

-----------------------------------------------------------------------------
(* The other threads. *)

\* The list of ports is registered by a running worker, so the program has not
\* ended; what the walk has come to stays what it is.
LEMMA InvRegisterPorts == IInv /\ RegisterPorts => IInv'
<1> SUFFICES ASSUME IInv, RegisterPorts PROVE IInv'
  OBVIOUS
<1>1. pc # "ended"
  BY DEF IInv, Over, RegisterPorts
<1>2. /\ StateOK /\ Live /\ pc' = pc
      /\ run \in 0 .. Len(clears) /\ clears \in Seq(ClearFunction) /\ Distinct
  BY <1>1 DEF IInv, Live, ListOK, RegisterPorts
<1>3. ~Registered("ports")
  BY <1>2 DEF Live, RegistersOK, RegisterPorts
<1>4. /\ clears' \in Seq(ClearFunction) /\ run' \in 0 .. Len(clears') /\ Distinct'
      /\ \A g : Registered(g)' <=> Registered(g) \/ g = "ports"
      /\ \A g : Done(g)' <=> Done(g)
      /\ HasNext => HasNext' /\ Current(clears, run)' = Current(clears, run)
  BY <1>2, <1>3, AddedFacts DEF ClearFunction, RegisterPorts
<1>5. StateOK' /\ ListOK'
  BY <1>2, <1>4 DEF StateOK, Live, ListOK, RegisterPorts, things, others
<1>6. MadeOK' /\ RegistersOK'
  BY <1>2, <1>4 DEF Live, MadeOK, RegistersOK, RegisterPorts, things, others
<1>7. ThreadsOK'
  BY <1>2, <1>4 DEF Live, ThreadsOK, RegisterPorts, things, others
<1>8. FreedOK'
  BY <1>2, <1>4 DEF Live, FreedOK, Pending, Working, RegisterPorts, things, others
<1> QED
  BY <1>1, <1>2, <1>4, <1>5, <1>6, <1>7, <1>8 DEF IInv, Live

LEMMA InvEnd == IInv /\ (\E t \in Thread : End(t)) => IInv'
<1> SUFFICES ASSUME IInv, NEW t \in Thread, End(t) PROVE IInv'
  OBVIOUS
<1>1. pc # "ended"
  BY DEF IInv, Over, Working, End
<1>2. StateOK /\ Live /\ pc' = pc /\ UNCHANGED list
  BY <1>1 DEF IInv, End
<1>3. /\ Distinct'
      /\ \A g : (Registered(g)' <=> Registered(g)) /\ (Done(g)' <=> Done(g))
      /\ HasNext' <=> HasNext
      /\ Current(clears, run)' = Current(clears, run)
  BY <1>2, ListAlone DEF Live
<1>4. /\ thread' \in [Thread -> {"none", "running", "ended", "joined"}]
      /\ thread[t] = "running" /\ thread'[t] = "ended" /\ exiting[t]
      /\ \A u \in Thread \ {t} : thread'[u] = thread[u]
      /\ UNCHANGED <<exiting, made, freed, registered, status>>
  BY <1>2 DEF StateOK, End, things
<1>5. StateOK' /\ ListOK'
  BY <1>2, <1>4 DEF StateOK, Live, ListOK, list
<1>6. MadeOK' /\ RegistersOK'
  BY <1>2, <1>3, <1>4 DEF Live, MadeOK, RegistersOK
<1>7. ThreadsOK'
  BY <1>2, <1>3, <1>4 DEF Live, ThreadsOK
<1>8. FreedOK'
  BY <1>2, <1>3, <1>4 DEF Live, FreedOK, Pending, Working
<1> QED
  BY <1>1, <1>2, <1>3, <1>5, <1>6, <1>7, <1>8 DEF IInv, Live

-----------------------------------------------------------------------------
(* jxclearlist_clear. *)

\* Only the resources of the function that runs are released.
LEMMA ReleasesFacts ==
    ASSUME IInv, NEW f \in ClearFunction, NEW R, NEW k \in Nat, Releases(f, Some(R, k))
    PROVE  /\ StateOK /\ Live /\ pc = "clear" /\ pc' = "clear" /\ UNCHANGED clears
           /\ Pending(f)
           /\ Distinct' /\ run' \in 0 .. Len(clears')
           /\ \A g : Registered(g)' <=> Registered(g)
           /\ \A g : Done(g)' <=> Done(g) \/ g = f
           /\ freed' \in [Resource -> Nat]
           /\ \A r \in Resource : freed'[r] = IF r \in R THEN freed[r] + k ELSE freed[r]
           /\ UNCHANGED <<made, thread, exiting, registered, status>>
<1>1. /\ StateOK /\ Live /\ pc = "clear" /\ pc' = "clear"
      /\ run \in 0 .. Len(clears) /\ clears \in Seq(ClearFunction) /\ Distinct
  BY Before DEF Releases
<1>2. HasNext /\ Current(clears, run) = f /\ clears' = clears /\ run' = run + 1
  BY DEF Releases, HasNext
<1>3. /\ freed' \in [Resource -> Nat]
      /\ \A r \in Resource : freed'[r] = IF r \in R THEN freed[r] + k ELSE freed[r]
  <2>1. freed' = [r \in Resource |-> freed[r] + Some(R, k)[r]]
    BY DEF Releases
  <2>2. \A r \in Resource : Some(R, k)[r] = IF r \in R THEN k ELSE 0
    BY DEF Some
  <2>3. \A r \in Resource : freed[r] \in Nat
    BY <1>1 DEF StateOK
  <2>4. \A r \in Resource : freed'[r] = IF r \in R THEN freed[r] + k ELSE freed[r]
    BY <2>1, <2>2, <2>3
  <2> QED
    BY <2>1, <2>3, <2>4
<1>4. Distinct'
  BY <1>1, <1>2 DEF Distinct
<1> QED
  BY <1>1, <1>2, <1>3, <1>4, AdvanceFacts DEF Releases, others

LEMMA InvRelease == IInv /\ Release => IInv'
<1> SUFFICES ASSUME IInv, Release PROVE IInv'
  OBVIOUS
<1>1. ASSUME NEW f \in {"env", "files", "server", "plist", "ports"}, NEW R, NEW k \in Nat,
             Releases(f, Some(R, k)),
             \/ f = "env" /\ R = {"winsock"} /\ k = 1
             \/ f = "files" /\ R = {"file", "filemutex"} /\ k = FileNum
             \/ f = "server" /\ R = {"socket"} /\ k = 1
             \/ f = "plist" /\ R = {"plist"} /\ k = 1
             \/ f = "ports" /\ R = {}
      PROVE  IInv'
  <2>1. /\ StateOK /\ Live /\ pc = "clear" /\ pc' = "clear" /\ UNCHANGED clears
        /\ Pending(f)
        /\ Distinct' /\ run' \in 0 .. Len(clears')
        /\ \A g : Registered(g)' <=> Registered(g)
        /\ \A g : Done(g)' <=> Done(g) \/ g = f
        /\ freed' \in [Resource -> Nat]
        /\ \A r \in Resource : freed'[r] = IF r \in R THEN freed[r] + k ELSE freed[r]
        /\ UNCHANGED <<made, thread, exiting, registered, status>>
    BY <1>1, ReleasesFacts DEF ClearFunction
  <2>2. StateOK' /\ ListOK'
    BY <2>1 DEF StateOK, Live, ListOK
  <2>3. MadeOK' /\ RegistersOK'
    BY <2>1 DEF Live, MadeOK, RegistersOK
  <2>4. ThreadsOK'
    BY <1>1, <2>1 DEF Live, ThreadsOK
  <2>5. \A r \in {"winsock", "socket", "plist"} : made[r] \in {0, 1}
    BY <2>1, MadeFacts DEF Live
  <2>6. FreedOK'
    <3>1. CASE f = "env"
      <4>1. made["winsock"] = 1 /\ freed["winsock"] = 0
        BY <2>1, <2>5, <3>1 DEF Live, RegistersOK, FreedOK, Pending
      <4>2. /\ freed'["winsock"] = 1
            /\ \A r \in Resource \ {"winsock"} : freed'[r] = freed[r]
        BY <1>1, <2>1, <3>1, <4>1
      <4>3. Done("env")' /\ \A g \in ClearFunction \ {"env"} : Done(g)' <=> Done(g)
        BY <2>1, <3>1
      <4> QED
        BY <2>1, <4>1, <4>2, <4>3 DEF Live, FreedOK, Pending, Working, ClearFunction
    <3>2. CASE f = "files"
      <4>1. ~Done("files") /\ freed["file"] = 0 /\ freed["filemutex"] = 0
        BY <2>1, <3>2 DEF Live, FreedOK, Pending
      <4>2. /\ freed'["file"] = FileNum /\ freed'["filemutex"] = FileNum
            /\ \A r \in Resource \ {"file", "filemutex"} : freed'[r] = freed[r]
        <5>1. R = {"file", "filemutex"} /\ 0 + k = FileNum
          BY <1>1, <3>2, FileAssumption
        <5> QED
          BY <2>1, <4>1, <5>1
      <4>3. Done("files")' /\ \A g \in ClearFunction \ {"files"} : Done(g)' <=> Done(g)
        BY <2>1, <3>2
      <4> QED
        BY <2>1, <4>2, <4>3 DEF Live, FreedOK, Pending, Working, ClearFunction
    <3>3. CASE f = "server"
      <4>1. made["socket"] = 1 /\ freed["socket"] = 0
        BY <2>1, <2>5, <3>3 DEF Live, RegistersOK, FreedOK, Pending
      <4>2. /\ freed'["socket"] = 1
            /\ \A r \in Resource \ {"socket"} : freed'[r] = freed[r]
        BY <1>1, <2>1, <3>3, <4>1
      <4>3. Done("server")' /\ \A g \in ClearFunction \ {"server"} : Done(g)' <=> Done(g)
        BY <2>1, <3>3
      <4> QED
        BY <2>1, <4>1, <4>2, <4>3 DEF Live, FreedOK, Pending, Working, ClearFunction
    <3>4. CASE f = "plist"
      <4>1. made["plist"] = 1 /\ freed["plist"] = 0
        BY <2>1, <2>5, <3>4 DEF Live, RegistersOK, FreedOK, Pending
      <4>2. /\ freed'["plist"] = 1
            /\ \A r \in Resource \ {"plist"} : freed'[r] = freed[r]
        BY <1>1, <2>1, <3>4, <4>1
      <4>3. Done("plist")' /\ \A g \in ClearFunction \ {"plist"} : Done(g)' <=> Done(g)
        BY <2>1, <3>4
      <4> QED
        BY <2>1, <4>1, <4>2, <4>3 DEF Live, FreedOK, Pending, Working, ClearFunction
    <3>5. CASE f = "ports"
      BY <1>1, <2>1, <3>5 DEF Live, FreedOK, Pending, Working
    <3> QED
      BY <1>1, <3>1, <3>2, <3>3, <3>4, <3>5
  <2> QED
    BY <2>1, <2>2, <2>3, <2>4, <2>6 DEF IInv, Live
<1> QED
  BY <1>1, FileAssumption DEF Release

\* Telling a thread to exit releases nothing and stays at its function.
LEMMA StopFacts ==
    ASSUME IInv, NEW t \in Thread, NEW f, NEW from \in Clearing, NEW to, Stop(t, f, from, to)
    PROVE  /\ StateOK /\ Live /\ pc = from /\ pc' = to /\ UNCHANGED list
           /\ HasNext /\ Current(clears, run) = f /\ Pending(f)
           /\ HasNext' /\ Current(clears, run)' = f /\ Distinct'
           /\ \A g : (Registered(g)' <=> Registered(g)) /\ (Done(g)' <=> Done(g))
           /\ exiting' \in [Thread -> BOOLEAN]
           /\ \A u \in Thread : exiting'[u] <=> exiting[u] \/ u = t
           /\ UNCHANGED <<made, freed, thread, registered, status>>
<1>1. /\ StateOK /\ Live /\ pc = from /\ pc' = to
      /\ run \in 0 .. Len(clears) /\ clears \in Seq(ClearFunction) /\ Distinct
  BY Before DEF Stop
<1>2. HasNext /\ Current(clears, run) = f /\ UNCHANGED list
  BY DEF Stop, HasNext
<1>3. /\ exiting' \in [Thread -> BOOLEAN]
      /\ \A u \in Thread : exiting'[u] <=> exiting[u] \/ u = t
  BY <1>1 DEF StateOK, Stop
<1> QED
  BY <1>1, <1>2, <1>3, AdvanceFacts, ListAlone DEF Stop, things

LEMMA InvStop ==
    ASSUME IInv,
           \/ Stop("cleaner", "accounts", "clear", "joincleaner")
           \/ Stop("unprocessed", "pools", "clear", "join")
           \/ Stop("processed", "pools", "stop", "joinanswers")
    PROVE  IInv'
<1>1. PICK t \in Thread, f \in ClearFunction, from \in {"clear", "stop"},
           to \in {"joincleaner", "join", "joinanswers"} :
        /\ Stop(t, f, from, to)
        /\ \/ t = "cleaner" /\ f = "accounts" /\ from = "clear" /\ to = "joincleaner"
           \/ t = "unprocessed" /\ f = "pools" /\ from = "clear" /\ to = "join"
           \/ t = "processed" /\ f = "pools" /\ from = "stop" /\ to = "joinanswers"
  BY DEF ClearFunction
<1>2. /\ StateOK /\ Live /\ pc = from /\ pc' = to /\ UNCHANGED list
      /\ HasNext /\ Current(clears, run) = f /\ Pending(f)
      /\ HasNext' /\ Current(clears, run)' = f /\ Distinct'
      /\ \A g : (Registered(g)' <=> Registered(g)) /\ (Done(g)' <=> Done(g))
      /\ exiting' \in [Thread -> BOOLEAN]
      /\ \A u \in Thread : exiting'[u] <=> exiting[u] \/ u = t
      /\ UNCHANGED <<made, freed, thread, registered, status>>
  BY <1>1, StopFacts
<1>3. StateOK' /\ ListOK'
  BY <1>1, <1>2 DEF StateOK, Live, ListOK, list
<1>4. MadeOK' /\ RegistersOK'
  BY <1>1, <1>2 DEF Live, MadeOK, RegistersOK
<1>5. ThreadsOK'
  BY <1>1, <1>2 DEF Live, ThreadsOK, Pending
<1>6. FreedOK'
  BY <1>1, <1>2 DEF Live, FreedOK, Pending, Working
<1> QED
  BY <1>1, <1>2, <1>3, <1>4, <1>5, <1>6 DEF IInv, Live

\* The thread has ended, so nobody works on what is released.
LEMMA InvJoinCleaner ==
    IInv /\ Join("cleaner", {"login", "tmp"}, "joincleaner", "clear") => IInv'
<1> SUFFICES ASSUME IInv, Join("cleaner", {"login", "tmp"}, "joincleaner", "clear") PROVE IInv'
  OBVIOUS
<1>1. /\ StateOK /\ Live /\ pc = "joincleaner" /\ pc' = "clear"
      /\ run \in 0 .. Len(clears) /\ clears \in Seq(ClearFunction) /\ Distinct
  BY Before DEF Join
<1>2. HasNext /\ Current(clears, run) = "accounts" /\ clears' = clears /\ run' = run + 1
  BY <1>1 DEF Live, ThreadsOK, Join
<1>3. /\ Pending("accounts") /\ run' \in 0 .. Len(clears')
      /\ \A g : Registered(g)' <=> Registered(g)
      /\ \A g : Done(g)' <=> Done(g) \/ g = "accounts"
  BY <1>1, <1>2, AdvanceFacts
<1>4. /\ freed' \in [Resource -> Nat]
      /\ \A r \in Resource : freed'[r] = IF r \in {"login", "tmp"} THEN freed[r] + 1 ELSE freed[r]
  BY <1>1, FreeFacts DEF Join
<1>5. /\ thread["cleaner"] = "ended"
      /\ thread' \in [Thread -> {"none", "running", "ended", "joined"}]
      /\ thread'["cleaner"] = "joined"
      /\ \A p \in Pool : thread'[p] = thread[p]
      /\ UNCHANGED <<made, exiting, registered, status>>
  BY <1>1 DEF StateOK, Join
<1>6. StateOK' /\ ListOK' /\ Distinct'
  BY <1>1, <1>2, <1>3, <1>4, <1>5 DEF StateOK, ListOK, Distinct
<1>7. MadeOK' /\ RegistersOK'
  BY <1>1, <1>3, <1>5 DEF Live, MadeOK, RegistersOK
<1>8. ThreadsOK'
  BY <1>1, <1>3, <1>5 DEF Live, ThreadsOK
<1>9. /\ made["login"] = 1 /\ made["tmp"] = 1 /\ freed["login"] = 0 /\ freed["tmp"] = 0
  BY <1>1, <1>5 DEF Live, MadeOK, FreedOK, Working
<1>10. /\ freed'["login"] = 1 /\ freed'["tmp"] = 1
       /\ \A r \in Resource \ {"login", "tmp"} : freed'[r] = freed[r]
  BY <1>4, <1>9
<1>11. FreedOK'
  BY <1>1, <1>3, <1>5, <1>9, <1>10 DEF Live, FreedOK, Pending, Working
<1> QED
  BY <1>1, <1>6, <1>7, <1>8, <1>11 DEF IInv, Live

\* s_clear_msgpool_dispatch ends the workers first, and goes on to the senders.
LEMMA InvJoinWorkers == IInv /\ Join("unprocessed", {"unprocessed"}, "join", "stop") => IInv'
<1> SUFFICES ASSUME IInv, Join("unprocessed", {"unprocessed"}, "join", "stop") PROVE IInv'
  OBVIOUS
<1>1. /\ StateOK /\ Live /\ pc = "join" /\ pc' = "stop"
      /\ run \in 0 .. Len(clears) /\ clears \in Seq(ClearFunction) /\ Distinct
  BY Before DEF Join
<1>2. UNCHANGED list
  BY DEF Join, list
<1>3. /\ Distinct'
      /\ \A g : (Registered(g)' <=> Registered(g)) /\ (Done(g)' <=> Done(g))
      /\ HasNext' <=> HasNext
      /\ Current(clears, run)' = Current(clears, run)
  BY <1>1, <1>2, ListAlone
<1>4. /\ freed' \in [Resource -> Nat]
      /\ \A r \in Resource : freed'[r] = IF r = "unprocessed" THEN freed[r] + 1 ELSE freed[r]
  BY <1>1, FreeFacts DEF Join
<1>5. /\ thread["unprocessed"] = "ended"
      /\ thread' \in [Thread -> {"none", "running", "ended", "joined"}]
      /\ thread'["unprocessed"] = "joined"
      /\ \A t \in Thread \ {"unprocessed"} : thread'[t] = thread[t]
      /\ UNCHANGED <<made, exiting, registered, status>>
  BY <1>1 DEF StateOK, Join
<1>6. StateOK' /\ ListOK'
  BY <1>1, <1>2, <1>4, <1>5 DEF StateOK, Live, ListOK, list
<1>7. MadeOK' /\ RegistersOK'
  BY <1>1, <1>3, <1>5 DEF Live, MadeOK, RegistersOK
<1>8. ThreadsOK'
  BY <1>1, <1>3, <1>5 DEF Live, ThreadsOK
<1>9. made["unprocessed"] = 1 /\ freed["unprocessed"] = 0
  BY <1>1, <1>5, MadeFacts DEF Live, FreedOK, Working
<1>10. /\ freed'["unprocessed"] = 1
       /\ \A r \in Resource \ {"unprocessed"} : freed'[r] = freed[r]
  BY <1>4, <1>9
<1>11. FreedOK'
  BY <1>1, <1>3, <1>5, <1>9, <1>10 DEF Live, FreedOK, Pending, Working
<1> QED
  BY <1>1, <1>3, <1>6, <1>7, <1>8, <1>11 DEF IInv, Live

LEMMA InvJoinSenders == IInv /\ Join("processed", {"processed"}, "joinanswers", "clear") => IInv'
<1> SUFFICES ASSUME IInv, Join("processed", {"processed"}, "joinanswers", "clear") PROVE IInv'
  OBVIOUS
<1>1. /\ StateOK /\ Live /\ pc = "joinanswers" /\ pc' = "clear"
      /\ run \in 0 .. Len(clears) /\ clears \in Seq(ClearFunction) /\ Distinct
  BY Before DEF Join
<1>2. HasNext /\ Current(clears, run) = "pools" /\ clears' = clears /\ run' = run + 1
  BY <1>1 DEF Live, ThreadsOK, Join
<1>3. /\ Pending("pools") /\ run' \in 0 .. Len(clears')
      /\ \A g : Registered(g)' <=> Registered(g)
      /\ \A g : Done(g)' <=> Done(g) \/ g = "pools"
  BY <1>1, <1>2, AdvanceFacts
<1>4. /\ freed' \in [Resource -> Nat]
      /\ \A r \in Resource : freed'[r] = IF r = "processed" THEN freed[r] + 1 ELSE freed[r]
  BY <1>1, FreeFacts DEF Join
<1>5. /\ thread["processed"] = "ended"
      /\ thread' \in [Thread -> {"none", "running", "ended", "joined"}]
      /\ thread'["processed"] = "joined"
      /\ \A t \in Thread \ {"processed"} : thread'[t] = thread[t]
      /\ UNCHANGED <<made, exiting, registered, status>>
  BY <1>1 DEF StateOK, Join
<1>6. StateOK' /\ ListOK' /\ Distinct'
  BY <1>1, <1>2, <1>3, <1>4, <1>5 DEF StateOK, ListOK, Distinct
<1>7. MadeOK' /\ RegistersOK'
  BY <1>1, <1>3, <1>5 DEF Live, MadeOK, RegistersOK
<1>8. ThreadsOK'
  BY <1>1, <1>3, <1>5 DEF Live, ThreadsOK
<1>9. made["processed"] = 1 /\ freed["processed"] = 0
  BY <1>1, <1>5, MadeFacts DEF Live, FreedOK, Working
<1>10. /\ freed'["processed"] = 1
       /\ \A r \in Resource \ {"processed"} : freed'[r] = freed[r]
  BY <1>4, <1>9
<1>11. FreedOK'
  BY <1>1, <1>3, <1>5, <1>9, <1>10 DEF Live, FreedOK, Pending, Working
<1> QED
  BY <1>1, <1>6, <1>7, <1>8, <1>11 DEF IInv, Live

\* Every function has run, so what is left is what was never registered: the
\* cleaner of a start whose files could not be opened.
LEMMA InvExit == IInv /\ Exit => IInv'
<1> SUFFICES ASSUME IInv, Exit PROVE IInv'
  OBVIOUS
<1>1. /\ StateOK /\ Live /\ pc = "clear" /\ pc' = "ended"
      /\ run \in 0 .. Len(clears) /\ clears \in Seq(ClearFunction) /\ Distinct
      /\ UNCHANGED <<made, freed, thread, exiting, registered, status>>
  BY Before DEF Exit, things, others
<1>2. \A f : ~Pending(f)
  BY <1>1, WalkEnds DEF Exit, HasNext
<1>3. StateOK'
  BY <1>1 DEF StateOK
<1>4. \A p \in Pool : thread[p] \in {"none", "joined"}
  <2> SUFFICES ASSUME NEW p \in Pool, thread[p] # "none" PROVE thread[p] = "joined"
    OBVIOUS
  <2>1. made["unprocessed"] = 1
    <3>1. made[p] = 1
      BY <1>1, MadeFacts DEF Live
    <3>2. made["unprocessed"] = made["processed"]
      BY <1>1 DEF Live, MadeOK
    <3> QED
      BY <3>1, <3>2
  <2>2. Done("pools")
    BY <1>1, <1>2, <2>1 DEF Live, RegistersOK, Pending
  <2> QED
    BY <1>1, <2>2 DEF Live, ThreadsOK
<1>5. CASE made["file"] = FileNum
  <2>1. thread["cleaner"] = "joined"
    BY <1>1, <1>2, <1>5 DEF Live, RegistersOK, ThreadsOK, Pending
  <2>2. Done("files")
    BY <1>1, <1>2, <1>5 DEF Live, RegistersOK, Pending
  <2>3. \A r \in Resource : freed[r] = made[r]
    BY <1>1, <1>2, <1>4, <1>5, <2>1, <2>2 DEF Live, MadeOK, FreedOK, Working
  <2>4. made = freed
    <3>1. made = [r \in Resource |-> made[r]] /\ freed = [r \in Resource |-> freed[r]]
      BY <1>1 DEF StateOK
    <3> QED
      BY <2>3, <3>1
  <2> QED
    BY <1>1, <1>3, <1>4, <2>1, <2>3, <2>4
       DEF IInv, Over, ReleasedOnce, EndsClean, StateOK, Working
<1>6. CASE made["file"] # FileNum
  <2>1. /\ made["file"] < FileNum /\ status = 1
        /\ ~Done("files") /\ ~Registered("accounts") /\ ~Done("accounts")
    <3>1. made["file"] < FileNum
      <4>1. made["file"] \in Nat /\ made["file"] <= FileNum
        BY <1>1, MadeFacts DEF Live, MadeOK
      <4> QED
        BY <1>6, <4>1, FileAssumption
    <3>2. ~Registered("files") /\ ~Registered("accounts")
      BY <1>1, <1>6 DEF Live, RegistersOK
    <3>3. \A f : Done(f) => Registered(f)
      BY <1>1 DEF Done, Registered
    <3> QED
      BY <1>1, <3>1, <3>2, <3>3 DEF Live, MadeOK
  <2>2. ~exiting["cleaner"] /\ thread["cleaner"] \in {"none", "running"}
    BY <1>1, <2>1 DEF StateOK, Live, ThreadsOK
  <2>3. \A r \in Resource : freed[r] <= made[r]
    <3>1. \A r \in Resource : freed[r] = 0 \/ freed[r] = made[r]
      BY <1>1, <1>2, <1>4, <2>1 DEF Live, MadeOK, FreedOK, Working
    <3>2. \A r \in Resource : made[r] \in Nat
      BY <1>1, MadeFacts DEF Live
    <3> QED
      BY <3>1, <3>2
  <2>4. thread["cleaner"] = "running" => freed["tmp"] = 0
    BY <1>1 DEF Live, FreedOK, Working
  <2>5. thread["cleaner"] = "none" => made = freed
    <3> SUFFICES ASSUME thread["cleaner"] = "none"
                 PROVE  \A r \in Resource : made[r] = freed[r]
      BY <1>1 DEF StateOK
    <3>1. made["file"] = 0 /\ made["filemutex"] = 0
      <4>1. made["file"] \in Nat /\ ~(made["file"] > 0) /\ made["filemutex"] = made["file"]
        BY <1>1, MadeFacts DEF Live, MadeOK
      <4> QED
        BY <4>1
    <3> QED
      BY <1>1, <1>2, <1>4, <2>1, <3>1 DEF StateOK, Live, MadeOK, FreedOK, Working
  <2>6. EndsClean'
    BY <1>1, <1>4, <2>1, <2>2, <2>5 DEF EndsClean
  <2> QED
    BY <1>1, <1>3, <1>4, <2>2, <2>3, <2>4, <2>6
       DEF IInv, Over, ReleasedOnce, Working
<1> QED
  BY <1>5, <1>6

LEMMA InvStutter == IInv /\ UNCHANGED vars => IInv'
<1> SUFFICES ASSUME IInv, UNCHANGED vars PROVE IInv'
  OBVIOUS
<1>1. UNCHANGED <<pc, clears, run, made, freed, thread, exiting, registered, status>>
  BY DEF vars, list, things, others
<1>2. StateOK'
  BY <1>1 DEF IInv, StateOK
<1>3. Live => Live'
  BY <1>1, ListAlone
     DEF list, Live, ListOK, MadeOK, RegistersOK, ThreadsOK, FreedOK, Pending, Working
<1>4. Over => Over'
  BY <1>1 DEF Over, ReleasedOnce, EndsClean, Working
<1> QED
  BY <1>1, <1>2, <1>3, <1>4 DEF IInv

LEMMA InvNext == IInv /\ [Next]_vars => IInv'
<1> SUFFICES ASSUME IInv, [Next]_vars PROVE IInv'
  OBVIOUS
<1>1. ASSUME StopThreads PROVE IInv'
  BY <1>1, InvStop, InvJoinCleaner, InvJoinWorkers, InvJoinSenders DEF StopThreads
<1>2. ASSUME Ended PROVE IInv'
  BY <1>2, InvStutter DEF Ended
<1> QED
  BY <1>1, <1>2, InvEnvInit, InvCreateCleaner, InvCleanerFails, InvOpenFile,
     InvOpenFileFails, InvOpenSocket, InvOpenSocketFails, InvCheckPort, InvBind,
     InvBindFails, InvInitLists, InvInitPool, InvInitAnswerPool, InvRecvFails,
     InvRegisterPorts, InvEnd, InvRelease, InvExit, InvStutter DEF Next

LEMMA Invariant == Spec => []IInv
  BY InvInit, InvNext, PTL DEF Spec

-----------------------------------------------------------------------------
(* What the invariant gives. *)

\* Wherever the start of the server fails, with any number of account files,
\* what is released was made, and no more often: every clear function runs on
\* what its component has made and has not released itself.
THEOREM NothingReleasedTwice == Spec => []ReleasedOnce
<1>1. IInv => ReleasedOnce
  <2> SUFFICES ASSUME IInv PROVE ReleasedOnce
    OBVIOUS
  <2>1. CASE pc = "ended"
    BY <2>1 DEF IInv, Over
  <2>2. CASE pc \in Starting
    BY <2>2 DEF IInv, Live, StateOK, FreedOK, ReleasedOnce
  <2>3. CASE pc \in Clearing
    <3>1. Done("files") => made["file"] = FileNum
      <4>1. Done("files") => Registered("files")
        BY <2>3 DEF IInv, Live, ListOK, Done, Registered
      <4> QED
        BY <2>3, <4>1 DEF IInv, Live, RegistersOK
    <3> QED
      BY <2>3, <3>1 DEF IInv, Live, StateOK, MadeOK, FreedOK, ReleasedOnce
  <2> QED
    BY <2>1, <2>2, <2>3 DEF IInv, StateOK
<1> QED
  BY <1>1, Invariant, PTL

\* No thread loses the buffers of its pools, and the cleaner not its mutex,
\* before it is joined, although the clear list is run oldest first; and wherever
\* the start fails, no thread it leaves running has lost anything before the
\* clear list is run, nor, when it is the cleaner of a start without its files,
\* after that.  The files, the mutexes of the accounts, the socket and the
\* process list are released under the workers' and the senders' hands, see
\* SafeExit.
THEOREM PoolsKeptWhileUsed == Spec => []KeptWhileUsed
<1>1. IInv => KeptWhileUsed
  <2> SUFFICES ASSUME IInv, NEW t \in Thread, Working(t), NEW r \in Own(t),
                      t = "cleaner" \/ r \in Pool \/ pc \notin Clearing
               PROVE  ~(freed[r] > 0)
    BY DEF KeptWhileUsed, Lost, Working
  <2> SUFFICES freed[r] = 0
    OBVIOUS
  <2>1. /\ r \in Resource /\ (t = "cleaner" => r = "tmp")
        /\ (t = "processed" /\ r \in Pool => r = "processed")
    BY DEF Own
  <2>2. CASE pc = "ended"
    BY <2>1, <2>2 DEF IInv, Over, Working
  <2>3. CASE pc \in Starting
    BY <2>1, <2>3 DEF IInv, Live, FreedOK
  <2>4. CASE pc \in Clearing
    <3>1. CASE t # "unprocessed"
      BY <2>1, <2>4, <3>1 DEF IInv, Live, FreedOK
    <3>2. CASE t = "unprocessed"
      <4>1. thread["processed"] # "joined"
        BY <2>4, <3>2 DEF IInv, Live, ThreadsOK, Working
      <4>2. freed["processed"] = 0
        BY <2>4, <4>1 DEF IInv, Live, StateOK, MadeOK, FreedOK, Working
      <4> QED
        BY <2>1, <2>4, <3>2, <4>2 DEF IInv, Live, FreedOK
    <3> QED
      BY <3>1, <3>2
  <2> QED
    BY <2>2, <2>3, <2>4 DEF IInv, StateOK
<1> QED
  BY <1>1, Invariant, PTL

\* The program ends with everything released and every thread joined, unless an
\* account file could not be opened.
THEOREM ProgramEndsClean == Spec => []EndsClean
<1>1. IInv => EndsClean
  BY DEF IInv, Over, EndsClean
<1> QED
  BY <1>1, Invariant, PTL
=============================================================================

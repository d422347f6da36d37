--------------------------- MODULE ServerAccount ---------------------------
(***************************************************************************)
(* The account service of the server: the request handlers of              *)
(* src/am/server/server_account.c, which the workers of the message pool   *)
(* run concurrently, the login list of account_login.c, the temporary list *)
(* of accounts that wait for their verification, the thread that clears    *)
(* it, and the record files as AccountMap describes them.                  *)
(*                                                                         *)
(* What a handler does between a lock and its unlock is one step; what it  *)
(* does outside of them is a step for each access to shared state: an      *)
(* unlocked walk is a step for each node, an unlocked insertion one that   *)
(* reads the head of the list and one that writes the links.  Telephones   *)
(* are told apart by their values: a request with a prefix of a number,    *)
(* which strncmp takes for the number, is left out.                        *)
(*                                                                         *)
(* Any worker handles the requests of any client, and several of one       *)
(* client at a time: jxclient_sendrecv sends a request again that is not   *)
(* answered in time, and gives it up at last.                              *)
(***************************************************************************)
EXTENDS Naturals, Sequences, SequencesExt, FiniteSets

CONSTANTS
    Worker,         \* handler calls that can run at a time
    Host,           \* addresses of clients, the data_verification
    Tel,            \* telephone numbers that create accounts
    VerifyTel,      \* telephone numbers that verifications and logins name
    FormerTel,      \* telephone numbers of accounts of an earlier run
    Usernum,        \* user numbers a request may ask for
    Empty,          \* no user number: the server generates one
    Value,          \* contents of a field, First when created
    First,
    TooLong,        \* contents that do not fit the field
    New,            \* the contents that requests ask for
    Nil,            \* the end of a list
    Id,             \* account numbers that requests carry
    MaxRequests, MaxSweeps     \* bounds

Field == {"username", "passwd", "grade"}

ASSUME ServerAssumption ==
    /\ Tel \union FormerTel \subseteq VerifyTel
    /\ First \in Value /\ TooLong \notin Value /\ New \subseteq Value \union {TooLong}
    /\ Empty \notin Usernum /\ Usernum \cap Nat = {} /\ Nil \notin Nat
    /\ Id \subseteq Nat /\ MaxRequests \in Nat /\ MaxSweeps \in Nat

VARIABLES
    tmp,        \* s_list_tmp, newest first: the nodes its head leads to
    raced,      \* two threads have changed the first link of tmp at a time
    login,      \* s_list_login, newest first
    file,       \* the records of the files, in their order
    filelocked, \* a failed update has left the mutex of the file locked
    curmaxid, curmaxnum,
    call,       \* [Worker -> where its handler is and what it holds]
    sweep,      \* the node s_thread_clear_tmp visits next, Nil at rest
    stage,      \* of jxclearlist_clear
    dead,       \* the process has died of undefined behaviour
    made,       \* temporary accounts made so far
    left,       \* history: handlers whose client logged an account out meanwhile
    granted,    \* history: accounts created since the start
    asked, sweeps

lists    == <<tmp, raced, login>>
numbers  == <<curmaxid, curmaxnum, made>>
files    == <<file, filelocked>>
memory   == <<lists, filelocked, curmaxid, curmaxnum, call, sweep, stage, dead>>
history  == <<left, granted>>
vars     == <<memory, made, file, history, asked, sweeps>>

Idle     == [at |-> "idle"]
\* A node is told by the account it holds; freed: its memory was given back.
TmpNode  == [key : Nat, tel : Tel, num : Usernum \union Nat, old : BOOLEAN, freed : BOOLEAN]
Account  == [id : Nat, tel : VerifyTel, num : Usernum \union Nat, key : Nat, val : [Field -> Value]]
Login    == [addr : Nat, acc : Account, host : Host]
Step     ==
    {Idle, [at |-> "spin"], [at |-> "stuck"]}
    \union [at : {"walk"}, tel : Tel, num : Usernum \union {Empty}, addr : Nat]
    \union [at : {"search", "number", "copy"}, tel : Tel, num : Usernum \union {Empty}]
    \union [at : {"add"}, tel : Tel, num : Usernum \union Nat]
    \union [at : {"link"}, node : TmpNode, next : TmpNode \union {Nil}]
    \union [at : {"verified", "read"}, acc : Account, host : Host]
    \union [at : {"compare", "write"}, addr : Nat, host : Host, passwd : Value,
            field : Field, new : New]

\* An account an earlier run of the server left in the files.  Whatever ended
\* that run, the lists are empty and account numbers begin anew.
Former(tel, id) ==
    [id |-> id, tel |-> tel, num |-> 0, key |-> 0, val |-> [f \in Field |-> First]]
FormerFiles ==
    {<<>>} \union {<<Former(tel, 0)>> : tel \in FormerTel}
           \union {<<Former(p[1], 1), Former(p[2], 0)>> : p \in FormerTel \X FormerTel}

Init ==
    /\ tmp = <<>> /\ raced = FALSE /\ login = <<>>
    /\ filelocked = FALSE
    /\ file \in FormerFiles
    /\ curmaxid = 0 /\ curmaxnum = 0
    /\ call = [w \in Worker |-> Idle]
    /\ sweep = Nil /\ stage = "running" /\ dead = FALSE
    /\ left = {} /\ made = 1 /\ granted = {}
    /\ asked = 0 /\ sweeps = 0

-----------------------------------------------------------------------------
(* Lists and files *)

\* calloc returns the smallest address that is free.
Fresh(list) ==
    CHOOSE a \in 1 .. Len(list) + 1 : \A i \in DOMAIN list : list[i].addr # a

\* Where the node at an address is, 0 when it has been freed.
Position(addr) == SelectInSeq(login, LAMBDA n : n.addr = addr)

\* Where a node of the temporary list is, 0 when the list does not lead to it.
TmpPosition(key) == SelectInSeq(tmp, LAMBDA n : n.key = key)
KeyAt(i) == IF i \in DOMAIN tmp THEN tmp[i].key ELSE Nil

\* am_login_add puts the newest first.
LoginAdd(account, host) ==
    <<[addr |-> Fresh(login), acc |-> account, host |-> host]>> \o login

\* am_login_find_id: the first node of the account.
FindId(id) == SelectInSeq(login, LAMBDA n : n.acc.id = id)

\* A mutant of FindVerified: whoever asks.
FindUnverified(id, host) ==
    IF FindId(id) = 0 THEN Nil ELSE login[FindId(id)].addr

\* am_login_find_id_verification: the first node of the account decides.
FindVerified(id, host) ==
    LET i == FindId(id)
    IN  IF i # 0 /\ login[i].host = host THEN login[i].addr ELSE Nil

\* am_account_find_login: the first record of the telephone.
FindLogin(tel) == SelectInSeq(file, LAMBDA a : a.tel = tel)

\* am_account_update: the new record comes first, the others without the one the
\* files hold of this number are copied behind it.
Updated(account) == <<account>> \o RemoveFirstMatch(file, LAMBDA a : a.id = account.id)

\* s_account_tmp_find does not advance: it compares the first node for ever.
TmpFind(tel) ==
    IF tmp = <<>> THEN "none" ELSE IF Head(tmp).tel = tel THEN "found" ELSE "spins"

\* The node the head of the list leads to.
Head1 == IF tmp = <<>> THEN Nil ELSE Head(tmp)

\* Threads that write the first link of the temporary list without the mutex.
Linking == {w \in Worker : call[w].at = "link"}

\* s_account_tmp_remove: when the links have been written by two threads at a
\* time, the list may still lead to the node that is freed, and no further.
TmpRemove(i) ==
    /\ raced' = (raced \/ (i = 1 /\ Linking # {}))
    /\ \/ tmp' = RemoveAt(tmp, i)
       \/ raced' /\ tmp' = Append(SubSeq(tmp, 1, i - 1), [tmp[i] EXCEPT !.freed = TRUE])

\* s_account_create, whose random user name and password are the first contents.
NewAccount(node) ==
    [id |-> curmaxid, tel |-> node.tel, num |-> node.num, key |-> node.key,
     val |-> [f \in Field |-> First]]

-----------------------------------------------------------------------------
(* Steps of a handler                                                      *)

Running   == ~dead /\ stage # "ended"
Spinning  == \E w \in Worker : call[w].at = "spin"    \* s_mutex_tmp is held
LoginHeld == \E w \in Worker : call[w].at = "stuck"   \* s_mutex_login is held
Destroyed == stage = "destroyed"

\* A freed node is used, or a mutex that was destroyed: the process may die.
Undefined(happens) == dead' \in IF happens THEN BOOLEAN ELSE {FALSE}

Goto(w, step) == call' = [call EXCEPT ![w] = step]
Return(w) == Goto(w, Idle)
Rest      == UNCHANGED <<sweeps, sweep>>

Begin(w) ==
    Running /\ call[w].at = "idle" /\ asked < MaxRequests
At(w, where) ==
    /\ Running /\ call[w].at = where
    /\ asked' = asked

\* am_account_create_reply: s_account_created walks the login list, without its
\* mutex, ...
Create(w, tel, num) ==
    /\ Begin(w)
    /\ Goto(w, IF login = <<>> THEN [at |-> "search", tel |-> tel, num |-> num]
               ELSE [at |-> "walk", tel |-> tel, num |-> num, addr |-> Head(login).addr])
    /\ UNCHANGED <<lists, files, numbers, stage, dead, history>> /\ Rest

\* ... node after node: what is read of one that has been freed decides nothing,
\* ...
Walk(w) ==
    /\ At(w, "walk")
    /\ LET c == call[w]
           i == Position(c.addr)
           search == [at |-> "search", tel |-> c.tel, num |-> c.num]
       IN  \/ i = 0 /\ Undefined(TRUE) /\ (Return(w) \/ Goto(w, search))
           \/ /\ i # 0 /\ Undefined(FALSE)
              /\ Goto(w, CASE login[i].acc.tel = c.tel -> Idle
                           [] login[i].acc.tel # c.tel /\ i = Len(login) -> search
                           [] OTHER -> [c EXCEPT !.addr = login[i + 1].addr])
    /\ UNCHANGED <<lists, files, numbers, stage, history>> /\ Rest

\* ... and then the files, whose streams may be closed by now.
SearchFile(w) ==
    /\ At(w, "search") /\ (stage = "running" => ~filelocked)
    /\ IF stage = "running"
       THEN /\ Goto(w, CASE FindLogin(call[w].tel) # 0 -> Idle
                         [] FindLogin(call[w].tel) = 0 /\ call[w].num = Empty ->
                              [call[w] EXCEPT !.at = "number"]
                         [] OTHER -> [call[w] EXCEPT !.at = "add"])
            /\ dead' = dead
       ELSE dead' = TRUE /\ call' = call
    /\ UNCHANGED <<lists, files, numbers, stage, history>> /\ Rest

\* s_account_tmp_add: s_usernum_inc advances the one number all workers share, ...
NextNumber(w) ==
    /\ At(w, "number")
    /\ curmaxnum' = curmaxnum + 1
    /\ Goto(w, [call[w] EXCEPT !.at = "copy"])
    /\ UNCHANGED <<lists, files, curmaxid, made, stage, dead, history>> /\ Rest

\* A mutant of CopyNumber: the request's user number is taken as it is.
CopyNothing(w) ==
    /\ At(w, "copy")
    /\ Goto(w, [call[w] EXCEPT !.at = "add"])
    /\ UNCHANGED <<lists, files, numbers, stage, dead, history>> /\ Rest
\* ... which is copied afterwards into the new node, without a mutex; ...
CopyNumber(w) ==
    /\ At(w, "copy")
    /\ Goto(w, [call[w] EXCEPT !.at = "add", !.num = curmaxnum])
    /\ UNCHANGED <<lists, files, numbers, stage, dead, history>> /\ Rest

\* ... list_add reads what the head of the list leads to, ...
AddTmp(w) ==
    /\ At(w, "add")
    /\ Goto(w, [at   |-> "link", next |-> Head1,
                node |-> [key |-> made, tel |-> call[w].tel, num |-> call[w].num,
                          old |-> FALSE, freed |-> FALSE]])
    /\ made' = made + 1
    /\ UNCHANGED <<lists, files, curmaxid, curmaxnum, stage, dead, history>> /\ Rest

\* What a new node leads to: the node that was the first, with what is behind it.
\* When that has been freed meanwhile, the new node leads to freed memory, or to
\* the list: list_del may have set its link already.
Behind(next) ==
    LET i == IF next = Nil THEN 0 ELSE TmpPosition(next.key)
    IN  CASE next = Nil -> {<<>>}
          [] next # Nil /\ i # 0 -> {SubSeq(tmp, i, Len(tmp))}
          [] OTHER -> {tmp, <<[next EXCEPT !.freed = TRUE]>>}

\* ... and makes it lead to the new node.  What others have done to the first
\* link in between is undone.
LinkTmp(w) ==
    /\ At(w, "link")
    /\ raced' = (raced \/ Linking # {w} \/ (call[w].next = Nil) # (tmp = <<>>)
                       \/ (tmp # <<>> /\ call[w].next # Nil /\ Head(tmp).key # call[w].next.key))
    /\ \E behind \in Behind(call[w].next) : tmp' = <<call[w].node>> \o behind
    /\ Return(w)
    /\ UNCHANGED <<login, files, numbers, stage, dead, history>> /\ Rest

\* A mutant of Verify: the temporary account stays until it times out.
VerifyKeeps(w, h, tel, code) ==
    /\ Begin(w) /\ ~Spinning
    /\ TmpFind(tel) = "found" /\ ~Head(tmp).old /\ code
    /\ LET account == NewAccount(Head(tmp))
       IN  /\ Goto(w, [at |-> "verified", acc |-> account, host |-> h])
           /\ granted' = granted \union {account}
    /\ curmaxid' = curmaxid + 1
    /\ UNCHANGED <<lists, files, curmaxnum, made, stage, dead, left>> /\ Rest

\* am_account_verify_reply: the search, s_account_tmp_timeout, the random code,
\* s_account_create and s_account_tmp_remove under s_mutex_tmp.
Verify(w, h, tel, code) ==
    /\ Begin(w) /\ ~Spinning
    /\ Undefined(Destroyed \/ (tmp # <<>> /\ Head(tmp).freed))
    /\ IF TmpFind(tel) = "found" /\ ~Head(tmp).old /\ code
       THEN LET account == NewAccount(Head(tmp))
            IN  /\ Goto(w, [at |-> "verified", acc |-> account, host |-> h])
                /\ granted' = granted \union {account}
                /\ curmaxid' = curmaxid + 1
                /\ TmpRemove(1)
       ELSE /\ Goto(w, IF TmpFind(tel) = "spins" THEN [at |-> "spin"] ELSE Idle)
            /\ UNCHANGED <<granted, curmaxid, tmp, raced>>
    /\ UNCHANGED <<login, files, curmaxnum, made, stage, left>> /\ Rest

\* Its second critical section.
AddVerified(w) ==
    /\ At(w, "verified") /\ ~LoginHeld /\ Undefined(Destroyed)
    /\ login' = LoginAdd(call[w].acc, call[w].host)
    /\ Return(w)
    /\ UNCHANGED <<tmp, raced, files, numbers, stage, history>> /\ Rest

\* am_account_login_reply: the record is read under the mutex of its file ...
LoginRead(w, h, tel, passwd) ==
    /\ Begin(w) /\ (stage = "running" => ~filelocked)
    /\ LET i == FindLogin(tel)
       IN  IF stage = "running"
           THEN /\ Goto(w, IF i # 0 /\ file[i].val["passwd"] = passwd
                           THEN [at |-> "read", acc |-> file[i], host |-> h] ELSE Idle)
                /\ dead' = dead
           ELSE dead' = TRUE /\ call' = call
    /\ UNCHANGED <<lists, files, numbers, stage, history>> /\ Rest

\* A mutant of TryAdd: it looks for the client only.
TryAddOtherHost(w) ==
    /\ At(w, "read") /\ ~LoginHeld /\ Undefined(Destroyed)
    /\ login' = IF FindVerified(call[w].acc.id, call[w].host) = Nil
                THEN LoginAdd(call[w].acc, call[w].host) ELSE login
    /\ Return(w)
    /\ UNCHANGED <<tmp, raced, files, numbers, stage, history>> /\ Rest

\* ... and am_login_tryadd adds it under s_mutex_login: an account that is in
\* the list is not added again, and the client is told so or not.
TryAdd(w) ==
    /\ At(w, "read") /\ ~LoginHeld /\ Undefined(Destroyed)
    /\ login' = IF FindId(call[w].acc.id) = 0
                THEN LoginAdd(call[w].acc, call[w].host) ELSE login
    /\ Return(w)
    /\ UNCHANGED <<tmp, raced, files, numbers, stage, history>> /\ Rest

\* Handlers that keep a login node they found for a client.
Keeping(h) == {v \in Worker : call[v].at \in {"compare", "write"} /\ call[v].host = h}

\* A mutant of Logout: the client's address is not compared.
LogoutUnverified(w, h, id) ==
    /\ Begin(w) /\ ~LoginHeld /\ UNCHANGED <<call, dead>>
    /\ FindId(id) # 0 /\ stage = "running"
    /\ file' = Updated(login[FindId(id)].acc) /\ login' = RemoveAt(login, FindId(id))
    /\ left' = left \union Keeping(h)
    /\ UNCHANGED <<tmp, raced, filelocked, numbers, stage, granted>> /\ Rest

\* Another: the node is freed although the record could not be updated.
LogoutRegardless(w, h, id) ==
    /\ Begin(w) /\ ~LoginHeld /\ UNCHANGED <<call, dead>>
    /\ FindId(id) # 0 /\ login[FindId(id)].host = h /\ stage = "running"
    /\ file' \in {file, Updated(login[FindId(id)].acc)} /\ login' = RemoveAt(login, FindId(id))
    /\ left' = left \union Keeping(h)
    /\ UNCHANGED <<tmp, raced, filelocked, numbers, stage, granted>> /\ Rest

\* am_login_remove_account: the record is updated, and then the node is freed.
\* The first write to the new file fails: nothing happens.  A later one fails:
\* the mutex of the file stays locked.  The new file cannot be opened: the
\* handler ends the process, closes the files and waits for s_mutex_login, which
\* it holds.  The mutex of the file is locked: it waits, and holds s_mutex_login.
LoginRemove(w, h, i) ==
    LET acc == login[i].acc
    IN  \/ /\ ~filelocked
           /\ file' = Updated(acc) /\ login' = RemoveAt(login, i)
           /\ left' = left \union Keeping(h)
           /\ UNCHANGED <<filelocked, call, stage>>
        \/ UNCHANGED <<files, login, left, call, stage>>
        \/ /\ ~filelocked /\ \E j \in DOMAIN file : file[j].id # acc.id
           /\ filelocked' = TRUE
           /\ UNCHANGED <<file, login, left, call, stage>>
        \/ /\ ~filelocked
           /\ file' = Updated(acc) /\ stage' = "closed" /\ Goto(w, [at |-> "stuck"])
           /\ UNCHANGED <<filelocked, login, left>>
        \/ /\ filelocked /\ Goto(w, [at |-> "stuck"])
           /\ UNCHANGED <<files, login, left, stage>>

\* am_account_logout_reply
Logout(w, h, id) ==
    /\ Begin(w) /\ ~LoginHeld
    /\ LET i == FindId(id)
           own == i # 0 /\ login[i].host = h
       IN  \/ ~own /\ Undefined(Destroyed) /\ UNCHANGED <<files, login, left, call, stage>>
           \/ own /\ stage # "running" /\ dead' = TRUE /\ UNCHANGED <<files, login, left, call, stage>>
           \/ own /\ stage = "running" /\ dead' = dead /\ LoginRemove(w, h, i)
    /\ UNCHANGED <<tmp, raced, numbers, granted>> /\ Rest

\* The three handlers that change a field look their account up under the mutex
\* and use the node they found without it.
Change(w, h, field, id, passwd, new) ==
    /\ Begin(w) /\ ~LoginHeld /\ Undefined(Destroyed)
    /\ LET addr == FindVerified(id, h)
       IN  Goto(w, IF addr = Nil THEN Idle
                   ELSE [at |-> "compare", addr |-> addr, host |-> h, passwd |-> passwd,
                         field |-> field, new |-> new])
    /\ left' = left \ {w}
    /\ UNCHANGED <<lists, files, numbers, stage, granted>> /\ Rest
ChangeUsername(w, h, id, passwd, new) == Change(w, h, "username", id, passwd, new)
ChangePasswd(w, h, id, passwd, new)   == Change(w, h, "passwd", id, passwd, new)
ChangeGrade(w, h, id, passwd, new)    == new # TooLong /\ Change(w, h, "grade", id, passwd, new)

\* The password is compared; what is read of a freed node decides nothing ...
Compare(w) ==
    /\ At(w, "compare")
    /\ LET i == Position(call[w].addr)
       IN  /\ Undefined(i = 0)
           /\ \/ i # 0 /\ login[i].acc.val["passwd"] # call[w].passwd /\ Return(w)
              \/ i # 0 /\ login[i].acc.val["passwd"] = call[w].passwd
                       /\ Goto(w, [call[w] EXCEPT !.at = "write"])
              \/ i = 0 /\ (Return(w) \/ Goto(w, [call[w] EXCEPT !.at = "write"]))
    /\ UNCHANGED <<lists, files, numbers, stage, history>> /\ Rest

\* ... and the field is written, unless jxmemcpy refuses its length, which
\* nobody tests: the answer is the same.
Write(w) ==
    /\ At(w, "write")
    /\ LET i == Position(call[w].addr)
       IN  /\ Undefined(i = 0)
           /\ login' = IF i = 0 \/ call[w].new = TooLong THEN login
                       ELSE [login EXCEPT ![i].acc.val[call[w].field] = call[w].new]
    /\ Return(w)
    /\ UNCHANGED <<tmp, raced, files, numbers, stage, history>> /\ Rest

-----------------------------------------------------------------------------
(* The cleaner and the shutdown                                            *)

handlers == <<login, files, numbers, call, history, asked>>

\* Every ten minutes s_thread_clear_tmp takes the address of the first node ...
Sweep ==
    /\ Running /\ sweep = Nil /\ sweeps < MaxSweeps
    /\ stage \in {"running", "closed", "cleared"}
    /\ sweep' = KeyAt(1) /\ sweeps' = sweeps + 1
    /\ UNCHANGED <<handlers, tmp, raced, stage, dead>>

\* ... and visits node after node, each under the mutex, which it releases in
\* between: the node it goes to may have been freed, and lead anywhere.
SweepNode ==
    /\ Running /\ sweep # Nil /\ ~Spinning
    /\ LET i == TmpPosition(sweep)
       IN  \/ /\ i = 0 /\ Undefined(TRUE)
              /\ sweep' \in {Nil} \union {tmp[j].key : j \in DOMAIN tmp}
              /\ UNCHANGED <<tmp, raced>>
           \/ /\ i # 0 /\ Undefined(tmp[i].freed)
              /\ sweep' = KeyAt(i + 1)
              /\ IF tmp[i].old THEN TmpRemove(i) ELSE UNCHANGED <<tmp, raced>>
    /\ UNCHANGED <<handlers, stage, sweeps>>

\* Time passes: the nodes from the i-th on are older than g_timeout_verification.
Expire(i) ==
    /\ Running /\ i \in DOMAIN tmp /\ ~tmp[i].old
    /\ tmp' = [j \in DOMAIN tmp |-> IF j < i THEN tmp[j] ELSE [tmp[j] EXCEPT !.old = TRUE]]
    /\ UNCHANGED <<handlers, raced, sweep, sweeps, stage, dead>>

\* jxclearlist_clear closes the files first (s_am_account_config_clear), ...
CloseFiles ==
    /\ Running /\ stage = "running" /\ stage' = "closed"
    /\ UNCHANGED <<handlers, tmp, raced, sweep, sweeps, dead>>

\* ... then s_am_server_account_clear writes the login list to them, ...
ClearLogin ==
    /\ Running /\ stage = "closed" /\ ~LoginHeld
    /\ IF login = <<>> THEN stage' = "cleared" /\ dead' = dead
       ELSE dead' = TRUE /\ stage' = stage
    /\ UNCHANGED <<handlers, tmp, raced, sweep, sweeps>>

\* ... frees the temporary list and sets s_thread_exit, ...
ClearTmp ==
    /\ Running /\ stage = "cleared" /\ ~Spinning
    /\ Undefined(\E i \in DOMAIN tmp : tmp[i].freed)
    /\ tmp' = <<>> /\ raced' = (raced \/ (tmp # <<>> /\ Linking # {})) /\ stage' = "joining"
    /\ UNCHANGED <<handlers, sweep, sweeps>>

\* ... and destroys the mutexes when the cleaner has come to the end of its walk,
\* whatever the workers do.
JoinCleaner ==
    /\ Running /\ stage = "joining" /\ sweep = Nil /\ stage' = "destroyed"
    /\ UNCHANGED <<handlers, tmp, raced, sweep, sweeps, dead>>

\* The pools, which join the workers, are cleared later.
JoinWorkers ==
    /\ Running /\ stage = "destroyed" /\ (\A w \in Worker : call[w].at = "idle")
    /\ stage' = "ended"
    /\ UNCHANGED <<handlers, tmp, raced, sweep, sweeps, dead>>

-----------------------------------------------------------------------------
Request(w) ==
    \/ \E tel \in Tel, num \in Usernum \union {Empty} : Create(w, tel, num)
    \/ \E h \in Host :
          \/ \E tel \in VerifyTel, code \in BOOLEAN : Verify(w, h, tel, code)
          \/ \E tel \in VerifyTel, passwd \in Value : LoginRead(w, h, tel, passwd)
          \/ \E id \in Id : Logout(w, h, id)
          \/ \E id \in Id, passwd \in Value, new \in New :
                \/ ChangeUsername(w, h, id, passwd, new)
                \/ ChangePasswd(w, h, id, passwd, new)
                \/ ChangeGrade(w, h, id, passwd, new)

\* A request that changes nothing is not counted.
Counted == asked' = IF <<memory, file>>' = <<memory, file>> THEN asked ELSE asked + 1

Continue(w) ==
    \/ Walk(w) \/ SearchFile(w) \/ NextNumber(w) \/ CopyNumber(w) \/ AddTmp(w) \/ LinkTmp(w)
    \/ AddVerified(w) \/ TryAdd(w) \/ Compare(w) \/ Write(w)

Shutdown == ClearLogin \/ ClearTmp \/ JoinCleaner \/ JoinWorkers

Next ==
    \/ \E w \in Worker : (Request(w) /\ Counted) \/ Continue(w)
    \/ Sweep \/ SweepNode \/ \E i \in DOMAIN tmp : Expire(i)
    \/ CloseFiles \/ Shutdown

Spec == Init /\ [][Next]_vars

-----------------------------------------------------------------------------
(* Properties *)

TypeOK ==
    /\ tmp \in Seq(TmpNode) /\ raced \in BOOLEAN
    /\ login \in Seq(Login) /\ file \in Seq(Account) /\ filelocked \in BOOLEAN
    /\ curmaxid \in Nat /\ curmaxnum \in Nat
    /\ call \in [Worker -> Step]
    /\ sweep \in Nat \union {Nil} /\ dead \in BOOLEAN
    /\ stage \in {"running", "closed", "cleared", "joining", "destroyed", "ended"}
    /\ left \subseteq Worker
    /\ granted \subseteq Account

\* The accounts a handler holds between its two critical sections.
InHand == {call[w].acc : w \in {v \in Worker : call[v].at \in {"verified", "read"}}}
Everywhere ==
    {login[i].acc : i \in DOMAIN login} \union {file[i] : i \in DOMAIN file} \union InHand

\* In one run of the server, an account number belongs to one account, and until
\* two threads have changed the first link of the temporary list at a time, a
\* temporary account becomes one account, however many requests verify it.
OneAccountPerCode ==
    \A a, b \in granted : /\ a.id = b.id => a = b
                          /\ a.key = b.key /\ ~raced => a = b

\* An account whose creation was answered is in the login list, in the files or
\* on its way from the temporary list to the login list, as long as no account
\* of an earlier run is there, whose number is given a second time.
NothingLost ==
    (\A a \in Everywhere : a.key # 0)
    => \A a \in granted : \E b \in Everywhere : a.id = b.id /\ a.key = b.key

\* The login list has one node for an account, even when two clients log in at a
\* time or one logs in on a record read before the other logged out: the first
\* node decides who may change and log out the account.
OneNodePerAccount ==
    \A i, j \in DOMAIN login :
        login[i].acc.key = login[j].acc.key /\ login[i].acc.id = login[j].acc.id => i = j

\* A handler that keeps a login node without the mutex keeps one of its client,
\* unless another request of this client has logged an account out meanwhile:
\* the verification lets nobody else free it, or free it and use it again.
KeptNodeStays ==
    \A w \in Worker : call[w].at \in {"compare", "write"} /\ w \notin left =>
        \E i \in DOMAIN login : login[i].addr = call[w].addr /\ login[i].host = call[w].host

\* What the login list holds of an account changes only by a request of the
\* client that logged in, or by one whose own client has logged an account out
\* meanwhile: it may write to memory that another account has by then.
OnlyOwnerChanges ==
    [][\A i \in DOMAIN login, j \in DOMAIN login' :
          login[i].addr = login'[j].addr /\ login[i].acc # login'[j].acc
          => \E w \in Worker : /\ call[w].at = "write"
                               /\ call[w].host = login[i].host \/ w \in left]_vars

\* Known disagreement: "One telphone number can only create one account"
\* (server_account.c:375).
OneAccountPerTel == \A a, b \in granted : a.tel = b.tel => a.id = b.id

\* Known disagreement: "uint32_t id; /**< unique */"
\* (doc/am/design/account_design.asciidoc).
IdUnique == \A a, b \in Everywhere : a.id = b.id => a.key = b.key

\* Known disagreement: "char usernum[12]; /**< unique */"
\* (doc/am/design/account_design.asciidoc).
UsernumUnique ==
    \A a, b \in granted : a.num = b.num /\ a.num \in Nat => a.id = b.id

\* Known disagreement: a verified account is removed from the temporary list
\* (server_account.c:495), so that its code is of no use any more.
CodeUsedUp == \A a, b \in granted : a.key = b.key => a = b

\* Known disagreement: no handler goes to a login node that has been freed
\* (account_login.c:81-83 frees what am_login_find_tel may stand on).
NodesThere ==
    \A w \in Worker : call[w].at \in {"walk", "compare", "write"} => Position(call[w].addr) # 0

\* Known disagreement: no mutex is destroyed (server_account.c:885) while a
\* handler may still lock it.
MutexesThere == Destroyed => \A w \in Worker : call[w].at = "idle"

\* Known disagreement: a client changes only its own account
\* (server_account.c:702 compares the address the request came from).
OwnAccountOnly ==
    [][\A i \in DOMAIN login, j \in DOMAIN login' :
          login[i].addr = login'[j].addr /\ login[i].acc # login'[j].acc
          => \E w \in Worker : call[w].at = "write" /\ call[w].host = login[i].host]_vars
=============================================================================

--------------------------- MODULE ClientAccount ---------------------------
(***************************************************************************)
(* The accounts as the client sees them: the requests and reacts of        *)
(* src/am/client/client_account.c, the method table of am/common/account.c *)
(* that both sides index, and the two static accounts the requests and the *)
(* reacts share.  A request is built on the main thread; its answer is     *)
(* reacted to on the worker of the message pool, later.                    *)
(*                                                                         *)
(* Between them is a call as RemoteCall specifies it: a request is carried *)
(* out any number of times, also late, and is answered or given up.  Of    *)
(* the server (ServerAccount) only what it does for this one client is     *)
(* here, a handler being one step.  Output for the caller is left out.     *)
(***************************************************************************)
EXTENDS AccountMethods, FiniteSets

CONSTANTS
    Acct,           \* numbers of accounts; 0 is also that of no account
    Former,         \* accounts in the files of the server
    Elsewhere,      \* those of them that another client has logged in
    Value,          \* contents of a field, First when created
    First,
    TooLong,        \* contents no field has room for
    Garbage,        \* what changepasswd reads where changegrade put a grade
    New,            \* contents requests ask for
    Nil,
    MaxRequests, MaxTimes   \* bounds

Field == {"username", "passwd", "grade"}

ASSUME ClientAccountAssumption ==
    /\ 0 \in Acct /\ Acct \subseteq Nat /\ Former \subseteq Acct /\ Elsewhere \subseteq Former
    /\ First \in Value /\ Garbage \in Value \ New /\ TooLong \notin Value
    /\ New \subseteq Value \union {TooLong}
    /\ MaxRequests \in Nat /\ MaxTimes \in Nat \ {0}

ChangeOf == [username |-> "changeusername", passwd |-> "changepasswd"]

VARIABLES
    client,     \* s_account_client: [id, val]
    tmp,        \* s_account_tmp, the fields a request asked for
    caller,     \* the main thread: "idle" or "sent"
    seq,        \* the number of the last request
    net,        \* requests that may be carried out, again or late
    answers,    \* answers to the last request, on their way
    recvbuf,    \* the last answer received, Nil before
    pool,       \* answers appended and not reacted to
    node,       \* [Acct -> contents or Nil]: this client's login nodes
    file,       \* [Acct -> contents or Nil]: the record files
    sure,       \* history: fields whose copy nothing has put in doubt
    resync      \* history: nothing has, since the last login was asked for

mine      == <<client, tmp>>
call      == <<caller, seq, net, answers, recvbuf>>
server    == <<node, file>>
certainty == <<sure, resync>>
accountVars == <<mine, call, pool, server, certainty>>

Created == [f \in Field |-> First]

AccountInit ==
    /\ client = [id |-> 0, val |-> Created]
    /\ tmp = Created
    /\ caller = "idle" /\ seq = 0 /\ net = {} /\ answers = {} /\ recvbuf = Nil /\ pool = <<>>
    /\ node = [a \in Acct |-> Nil]
    /\ file = [a \in Acct |-> IF a \in Former THEN Created ELSE Nil]
    /\ sure = {} /\ resync = FALSE

\* What the client holds is in doubt from here on.
Doubt   == sure' = {} /\ resync' = FALSE
Certain == UNCHANGED certainty

-----------------------------------------------------------------------------
(* Requests: each builds a message and sends it.                           *)

Send(name, id, passwd, new) ==
    /\ caller = "idle" /\ seq < MaxRequests
    /\ caller' = "sent" /\ seq' = seq + 1
    /\ net' = net \union {[n |-> seq + 1, method |-> GetId(name), id |-> id,
                           passwd |-> passwd, new |-> new, times |-> 0]}
    /\ answers' = {}
    /\ UNCHANGED <<recvbuf, pool, server>>

\* A request built before the last answer is reacted to changes what that
\* reaction will take for the answered request's.
Prompt(doubtful) == IF pool # <<>> THEN Doubt ELSE sure' = sure \ doubtful /\ UNCHANGED resync

\* jxmemcpy leaves a field alone that has no room.
SetField(val, field, new) == IF new = TooLong THEN val ELSE [val EXCEPT ![field] = new]

CreateRequest == Send("create", 0, First, First) /\ UNCHANGED mine /\ Prompt({})

\* The answer will be what the server has, unless it comes after a doubt.
Anew(doubtful) ==
    IF pool # <<>> THEN Doubt ELSE sure' = sure \ doubtful /\ resync' = TRUE

VerifyRequest(a) == Send("verify", a, First, First) /\ UNCHANGED mine /\ Anew({})

\* am_account_login_request stores the password before it is known to be right.
LoginRequest(a, passwd) ==
    /\ Send("login", a, passwd, First)
    /\ client' = [client EXCEPT !.val["passwd"] = passwd] /\ UNCHANGED tmp
    /\ Anew({"passwd"})

LogoutRequest == Send("logout", client.id, First, First) /\ UNCHANGED mine /\ Prompt({})

\* The two that change a field remember what they ask for.
ChangeRequest(field, passwd, new) ==
    /\ Send(ChangeOf[field], client.id, passwd, new)
    /\ tmp' = SetField(tmp, field, new) /\ UNCHANGED client
    /\ Prompt(IF new = TooLong THEN {field} ELSE {})

\* am_account_changegrade_request sends the id of account_changepasswd.
ChangeGradeRequest(passwd, grade) ==
    /\ \E string \in {Garbage, TooLong} : Send("changepasswd", client.id, passwd, string)
    /\ tmp' = [tmp EXCEPT !["grade"] = grade] /\ UNCHANGED client
    /\ Prompt({"passwd"})

-----------------------------------------------------------------------------
(* The server carries out a request.                                       *)

Reply(r, ok, id, val) ==
    answers' = IF caller = "sent" /\ r.n = seq
               THEN answers \union {[n |-> r.n, method |-> MethodGet(r.method), ok |-> ok, id |-> id,
                                     val |-> val, new |-> r.new]}
               ELSE answers
Refuse(r) == Reply(r, FALSE, 0, Created) /\ UNCHANGED server

ServeCreate(r) == \E ok \in BOOLEAN : Reply(r, ok, 0, Created) /\ UNCHANGED server

\* A right code makes the account, and logs it in.
ServeVerify(r) ==
    \/ Refuse(r)
    \/ /\ file[r.id] = Nil /\ node[r.id] = Nil
       /\ node' = [node EXCEPT ![r.id] = Created] /\ UNCHANGED file
       /\ Reply(r, TRUE, r.id, Created)

\* The answer holds the record of the file, also when the account is logged in
\* already and the login node has other contents.
ServeLogin(r) ==
    IF file[r.id] = Nil \/ file[r.id]["passwd"] # r.passwd THEN Refuse(r)
    ELSE /\ Reply(r, TRUE, r.id, file[r.id])
         /\ node' = IF node[r.id] = Nil /\ r.id \notin Elsewhere
                    THEN [node EXCEPT ![r.id] = file[r.id]] ELSE node
         /\ UNCHANGED file

\* The answer is yes also when the record could not be written.
ServeLogout(r) ==
    IF node[r.id] = Nil THEN Refuse(r)
    ELSE /\ Reply(r, TRUE, 0, Created)
         /\ \/ UNCHANGED server
            \/ /\ file' = [file EXCEPT ![r.id] = node[r.id]]
               /\ node' = [node EXCEPT ![r.id] = Nil]

ServeChange(r, field) ==
    IF node[r.id] = Nil \/ node[r.id]["passwd"] # r.passwd THEN Refuse(r)
    ELSE /\ Reply(r, TRUE, 0, Created)
         /\ node' = [node EXCEPT ![r.id] = SetField(@, field, r.new)]
         /\ UNCHANGED file

Spent == {r \in net : r.times + 1 = MaxTimes}

\* A request is carried out when it arrives, again when it arrives again, and
\* after the client has given it up.
Serve(r) ==
    /\ r \in net
    /\ net' = (net \ {r}) \union {[q EXCEPT !.times = @ + 1] : q \in {r} \ Spent}
    /\ CASE MethodGet(r.method) = "create" -> ServeCreate(r)
         [] MethodGet(r.method) = "verify" -> ServeVerify(r)
         [] MethodGet(r.method) = "login"  -> ServeLogin(r)
         [] MethodGet(r.method) = "logout" -> ServeLogout(r)
         [] MethodGet(r.method) = "changeusername" -> ServeChange(r, "username")
         [] MethodGet(r.method) = "changepasswd"   -> ServeChange(r, "passwd")
    /\ IF r.n # seq \/ r.times > 0 \/ (MethodGet(r.method) = "login" /\ node[r.id] # Nil)
       THEN Doubt ELSE Certain
    /\ UNCHANGED <<mine, caller, seq, recvbuf, pool>>

-----------------------------------------------------------------------------
(* jxclient_sendrecv returns to jxclient_udp_once.                         *)

\* An answer: it goes to the pool.
Answered(a) ==
    /\ caller = "sent" /\ a \in answers
    /\ caller' = "idle" /\ recvbuf' = a /\ pool' = Append(pool, a)
    /\ answers' = {}
    /\ UNCHANGED <<mine, seq, net, server, certainty>>

\* The request was too long to be sent: the answer before goes there again.
Stale ==
    /\ caller = "sent" /\ recvbuf # Nil
    /\ \E r \in net : r.n = seq /\ r.times = 0 /\ net' = net \ {r}
    /\ caller' = "idle" /\ pool' = Append(pool, recvbuf)
    /\ UNCHANGED <<mine, seq, answers, recvbuf, server>> /\ Doubt

GiveUp ==
    /\ caller = "sent" /\ caller' = "idle" /\ answers' = {}
    /\ UNCHANGED <<mine, seq, net, recvbuf, pool, server>> /\ Doubt

-----------------------------------------------------------------------------
(* Reacts: the answers in the order of the pool.                           *)

\* A no changes nothing.
Ignored == UNCHANGED <<client, sure>>

\* The account of an answer has no password.
TakeAccount(a, fields) ==
    /\ client' = [id |-> a.id, val |-> [a.val EXCEPT !["passwd"] = client.val["passwd"]]]
    /\ sure' = IF resync THEN fields ELSE {}

\* An answer says yes or no; the field is what was asked for last.
TakeField(field) ==
    client' = [client EXCEPT !.val[field] = tmp[field]] /\ UNCHANGED sure

\* A yes and a no are only passed on to the caller.
CreateReact == Ignored
LogoutReact == Ignored
VerifyReact(a) == IF a.ok THEN TakeAccount(a, {"username", "grade"}) ELSE Ignored
LoginReact(a)  == IF a.ok THEN TakeAccount(a, Field) ELSE Ignored

\* A mutant of ChangeusernameReact: no is taken for yes.
ChangeusernameRegardless(a) == TakeField("username")

ChangeusernameReact(a) == IF a.ok THEN TakeField("username") ELSE Ignored
ChangepasswdReact(a)   == IF a.ok THEN TakeField("passwd") ELSE Ignored

React ==
    /\ pool # <<>>
    /\ pool' = Tail(pool)
    /\ LET a == Head(pool)
       IN  \/ a.method = "create" /\ CreateReact
           \/ a.method = "logout" /\ LogoutReact
           \/ a.method = "verify" /\ VerifyReact(a)
           \/ a.method = "login"  /\ LoginReact(a)
           \/ a.method = "changeusername" /\ ChangeusernameReact(a)
           \/ a.method = "changepasswd"   /\ ChangepasswdReact(a)
    /\ UNCHANGED <<tmp, call, server, resync>>

-----------------------------------------------------------------------------
AccountNext ==
    \/ CreateRequest \/ LogoutRequest
    \/ \E a \in Acct : VerifyRequest(a)
    \/ \E a \in Acct, passwd \in Value \ {Garbage} : LoginRequest(a, passwd)
    \/ \E passwd \in Value \ {Garbage}, new \in New :
          \/ ChangeRequest("username", passwd, new)
          \/ ChangeRequest("passwd", passwd, new)
          \/ new # TooLong /\ ChangeGradeRequest(passwd, new)
    \/ \E r \in net : Serve(r)
    \/ \E a \in answers : Answered(a)
    \/ Stale \/ GiveUp \/ React

AccountSpec == AccountInit /\ [][AccountNext]_accountVars

-----------------------------------------------------------------------------
(* Properties *)

\* A verification or a login gives the client what the server has, and its
\* requests keep it so: until a request is given up, carried out twice or late,
\* built before the last reaction, too long for a field or to be sent, or meant
\* to change the grade, the copies agree whenever no answer is on its way.
CopiesAgree ==
    caller = "idle" /\ pool = <<>> /\ node[client.id] # Nil
    => \A f \in sure : client.val[f] = node[client.id][f]
=============================================================================

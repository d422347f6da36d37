------------------------------- MODULE Ports -------------------------------
(***************************************************************************)
(* The registered ports (src/common/regportlist.c) on the linked list they *)
(* are kept in (src/common/list.c), pointer write by pointer write.        *)
(* Workers of the server register the port of an address, senders look one *)
(* up, and the exit clears the list; no mutex is taken.  The steps of two  *)
(* threads come between each other at every read and write of a pointer    *)
(* another thread can see.  The stores to `next' may alias, so they happen *)
(* in the order of the source; nobody but the exit reads `prev'.           *)
(***************************************************************************)
EXTENDS Integers, FiniteSets

CONSTANTS
    Worker,         \* threads that run jxprocess_server_port
    Sender,         \* threads that run jxserver_send
    Ip, Port,
    Wild,           \* what memory holds that is not written yet, or freed
    Nil,
    MaxNodes        \* bound: nodes allocated

ASSUME PortsAssumption ==
    /\ Worker \intersect Sender = {} /\ MaxNodes \in Nat
    /\ Wild \notin Int /\ Nil \notin Int /\ Wild # Nil
    /\ Port \intersect {0, 1, Nil} = {}

\* Nodes are numbered in the order malloc returns them; 0 is the list head.
HEAD == 0
Node == 1 .. MaxNodes
Cell == 0 .. MaxNodes
Thread == Worker \union Sender

VARIABLES
    next, prev,     \* [Cell -> Cell or Wild], struct list_head
    ip, port,       \* [Node -> ...], the rest of struct list_regport_t
    used,           \* nodes allocated so far
    inited,         \* s_inited
    clears,         \* how often s_regportlist_clear is in the clear list
    pc,             \* [Thread -> where it is]
    arg, argport,   \* [Thread -> ...]: the arguments of its call
    cur,            \* [Thread -> Cell]: pnode of s_findnode
    new, old,       \* [Thread -> Cell]: new and next of __list_add
    clearing,       \* pnode of s_regportlist_clear, Nil outside of it
    exiting,        \* the pools' threads are joined
    first,          \* history, [Ip -> Port or Nil]: the one linked first
    known,          \* history, [Thread -> Port or Nil]: first as its call began
    answer,         \* history, [Thread -> result of its last call, or Nil]
    overlapped      \* history: two registrations ran at a time

memory  == <<next, prev>>
data    == <<ip, port, used>>
start   == <<inited, clears>>
calls   == <<arg, argport, known>>
adding  == <<new, old>>
ending  == <<clearing, exiting>>
vars    == <<memory, data, start, pc, calls, cur, adding, ending, first,
             answer, overlapped>>

Init ==
    /\ next = [c \in Cell |-> IF c = HEAD THEN HEAD ELSE Wild] /\ prev = next
    /\ ip \in [Node -> {Nil}] /\ port \in [Node -> {Nil}] /\ used = 0
    /\ inited = FALSE /\ clears = 0
    /\ pc = [t \in Thread |-> "idle"]
    /\ arg \in [Thread -> {Nil}] /\ argport \in [Thread -> {Nil}]
    /\ cur = [t \in Thread |-> HEAD] /\ new = cur /\ old = cur
    /\ clearing = Nil /\ exiting = FALSE
    /\ first \in [Ip -> {Nil}] /\ known \in [Thread -> {Nil}]
    /\ answer \in [Thread -> {Nil}] /\ overlapped = FALSE

Goto(t, from, to) == pc[t] = from /\ pc' = [pc EXCEPT ![t] = to]

Return(t, result) == answer' = [answer EXCEPT ![t] = result]

Call(t, a, p) ==
    /\ ~exiting
    /\ arg' = [arg EXCEPT ![t] = a] /\ argport' = [argport EXCEPT ![t] = p]
    /\ known' = [known EXCEPT ![t] = first[a]] /\ Return(t, Nil)

-----------------------------------------------------------------------------
Busy == {w \in Worker : pc[w] # "idle"}

\* jxregportlist_register, with the force of jxprocess_server_port, 0.
Register(w, a, p) ==
    /\ used + Cardinality(Busy) < MaxNodes
    /\ Goto(w, "idle", IF inited THEN "find" ELSE "init")
    /\ Call(w, a, p) /\ overlapped' = (overlapped \/ Busy # {})
    /\ UNCHANGED <<memory, data, start, cur, adding, ending, first>>

\* Two threads may both find s_inited 0.
RegisterClear(w) ==
    /\ Goto(w, "init", "find")
    /\ clears' = clears + 1 /\ inited' = TRUE
    /\ UNCHANGED <<memory, data, calls, cur, adding, ending, first, answer, overlapped>>

\* jxregportlist_query
Query(s, a) ==
    /\ Goto(s, "idle", "find") /\ Call(s, a, Nil)
    /\ UNCHANGED <<memory, data, start, cur, adding, ending, first, overlapped>>

\* s_findnode
Find(t) ==
    /\ Goto(t, "find", "walk") /\ cur' = [cur EXCEPT ![t] = next[HEAD]]
    /\ UNCHANGED <<memory, data, start, calls, adding, ending, first, answer, overlapped>>

Unlike(t) == cur[t] \in Node /\ ip[cur[t]] # arg[t]

Walk(t) ==
    /\ pc[t] = "walk" /\ Unlike(t)
    /\ cur' = [cur EXCEPT ![t] = next[cur[t]]]
    /\ UNCHANGED <<memory, data, start, pc, calls, adding, ending, first, answer, overlapped>>

Found(t) ==
    /\ cur[t] \in Node /\ ip[cur[t]] = arg[t] /\ Goto(t, "walk", "idle")
    /\ Return(t, IF t \in Worker THEN 1 ELSE port[cur[t]])
    /\ UNCHANGED <<memory, data, start, calls, cur, adding, ending, first, overlapped>>

\* 1 is what a query returns for an address it does not find.
NotFound(s) ==
    /\ s \in Sender /\ cur[s] = HEAD /\ Goto(s, "walk", "idle") /\ Return(s, 1)
    /\ UNCHANGED <<memory, data, start, calls, cur, adding, ending, first, overlapped>>

\* s_addnode, and the read of head->next by list_add.
AddNode(w) ==
    /\ w \in Worker /\ cur[w] = HEAD /\ Goto(w, "walk", "next->prev")
    /\ used < MaxNodes /\ used' = used + 1
    /\ ip' = [ip EXCEPT ![used'] = arg[w]] /\ port' = [port EXCEPT ![used'] = argport[w]]
    /\ new' = [new EXCEPT ![w] = used'] /\ old' = [old EXCEPT ![w] = next[HEAD]]
    /\ UNCHANGED <<memory, start, calls, cur, ending, first, answer, overlapped>>

\* The four writes of __list_add(new, head, next).
WriteNextPrev(w) ==
    /\ Goto(w, "next->prev", "new->next")
    /\ prev' = [prev EXCEPT ![old[w]] = new[w]]
    /\ UNCHANGED <<next, data, start, calls, cur, adding, ending, first, answer, overlapped>>

\* Mutants of WriteNewNext: it is left out, or takes the head for next.
WriteNewNextNever(w) ==
    /\ Goto(w, "new->next", "new->prev")
    /\ UNCHANGED <<memory, data, start, calls, cur, adding, ending, first, answer, overlapped>>
WriteNewNextHead(w) ==
    /\ Goto(w, "new->next", "new->prev")
    /\ next' = [next EXCEPT ![new[w]] = HEAD]
    /\ UNCHANGED <<prev, data, start, calls, cur, adding, ending, first, answer, overlapped>>

WriteNewNext(w) ==
    /\ Goto(w, "new->next", "new->prev")
    /\ next' = [next EXCEPT ![new[w]] = old[w]]
    /\ UNCHANGED <<prev, data, start, calls, cur, adding, ending, first, answer, overlapped>>

WriteNewPrev(w) ==
    /\ Goto(w, "new->prev", "prev->next")
    /\ prev' = [prev EXCEPT ![new[w]] = HEAD]
    /\ UNCHANGED <<next, data, start, calls, cur, adding, ending, first, answer, overlapped>>

WritePrevNext(w) ==
    /\ Goto(w, "prev->next", "idle") /\ Return(w, 0)
    /\ next' = [next EXCEPT ![HEAD] = new[w]]
    /\ first' = IF first[arg[w]] = Nil THEN [first EXCEPT ![arg[w]] = argport[w]] ELSE first
    /\ UNCHANGED <<prev, data, start, calls, cur, adding, ending, overlapped>>

-----------------------------------------------------------------------------
(* The exit, after the threads are joined: s_regportlist_clear as often as *)
(* it was registered.                                                      *)

Exit ==
    /\ ~exiting /\ \A t \in Thread : pc[t] = "idle"
    /\ exiting' = TRUE
    /\ UNCHANGED <<memory, data, start, pc, calls, cur, adding, clearing, first, answer, overlapped>>

Clear ==
    /\ exiting /\ clears > 0 /\ clearing = Nil
    /\ clears' = clears - 1 /\ clearing' = next[HEAD]
    /\ UNCHANGED <<memory, data, inited, pc, calls, cur, adding, exiting, first, answer, overlapped>>

\* list_del and free.  A write through a pointer to no node goes wild.
Linked == {HEAD} \union {n \in Node : next[n] # Wild}
ClearNode ==
    /\ clearing \in Node
    /\ LET n == clearing
           p == prev[n]
           x == next[n]
       IN  IF p \in Linked /\ x \in Linked
           THEN /\ clearing' = x
                /\ prev' = [prev EXCEPT ![x] = p, ![n] = Wild]
                /\ next' = [next EXCEPT ![p] = x, ![n] = Wild]
           ELSE clearing' = Wild /\ UNCHANGED memory
    /\ UNCHANGED <<data, start, pc, calls, cur, adding, exiting, first, answer, overlapped>>

ClearEnd ==
    /\ clearing = HEAD /\ clearing' = Nil
    /\ UNCHANGED <<memory, data, start, pc, calls, cur, adding, exiting, first, answer, overlapped>>

-----------------------------------------------------------------------------
Next ==
    \/ \E w \in Worker : \/ \E a \in Ip, p \in Port : Register(w, a, p)
                         \/ RegisterClear(w) \/ AddNode(w)
                         \/ WriteNextPrev(w) \/ WriteNewNext(w)
                         \/ WriteNewPrev(w) \/ WritePrevNext(w)
    \/ \E s \in Sender : (\E a \in Ip : Query(s, a)) \/ NotFound(s)
    \/ \E t \in Thread : Find(t) \/ Walk(t) \/ Found(t)
    \/ Exit \/ Clear \/ ClearNode \/ ClearEnd

Spec == Init /\ [][Next]_vars

-----------------------------------------------------------------------------
(* Properties *)

Steps == {"idle", "init", "find", "walk", "next->prev", "new->next", "new->prev", "prev->next"}

\* No thread and no clear follows a pointer that was not written yet or lies in
\* freed memory, although nodes are linked while others walk, and whatever
\* concurrent registrations left of the pointers.
TypeOK ==
    /\ next \in [Cell -> Cell \union {Wild}] /\ prev \in [Cell -> Cell \union {Wild}]
    /\ used \in Cell /\ inited \in BOOLEAN /\ clears \in Nat
    /\ pc \in [Thread -> Steps]
    /\ cur \in [Thread -> Cell] /\ new \in [Thread -> Cell] /\ old \in [Thread -> Cell]
    /\ clearing \in Cell \union {Nil} /\ exiting \in BOOLEAN

\* Until two registrations run at a time, a query finds the first port an address
\* was registered with, or nothing if none was linked when it began, and a
\* registration is refused exactly if the address had a port.
AnswersRight ==
    ~overlapped => \A t \in Thread :
        IF t \in Worker
        THEN /\ answer[t] = 0 => known[t] = Nil
             /\ answer[t] = 1 => known[t] # Nil
        ELSE /\ answer[t] = 1 => known[t] = Nil
             /\ answer[t] \in Port => answer[t] = first[arg[t]]
=============================================================================

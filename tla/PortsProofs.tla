---------------------------- MODULE PortsProofs ----------------------------
(***************************************************************************)
(* The list of registered ports, for any number of threads, addresses,     *)
(* ports and nodes: nobody follows a stray pointer of it (TypeOK), and the *)
(* answers are right while registrations come one after the other          *)
(* (AnswersRight).                                                         *)
(***************************************************************************)
EXTENDS Ports, TLAPS

Adding  == {"next->prev", "new->next", "new->prev", "prev->next"}
Pending == {"new->next", "new->prev", "prev->next"}

\* Its pointer to the next cell was written and not freed.
Written(c) == next[c] # Wild

\* A node points to one allocated before it: a walk only goes down.
Descends(n) == next[n] \in 0 .. n - 1 /\ Written(next[n])

\* The first node points back to the head, unless another is being put before it.
FirstBack ==
    next[HEAD] \in Node /\ prev[next[HEAD]] # HEAD
    => \E t \in Thread : pc[t] \in Pending /\ old[t] = next[HEAD]

Running ==
    /\ clearing = Nil
    /\ next[HEAD] \in 0 .. used /\ Written(next[HEAD])
    /\ \A n \in Node : Written(n) => Descends(n)
    /\ \A t \in Thread : Written(cur[t])
    /\ \A t \in Thread : pc[t] \in Adding =>
          /\ new[t] \in 1 .. used /\ new[t] # next[HEAD]
          /\ old[t] \in 0 .. new[t] - 1 /\ Written(old[t])
          /\ pc[t] \in {"new->prev", "prev->next"} => Written(new[t])
          /\ pc[t] = "prev->next" => prev[new[t]] = HEAD
    /\ \A t, u \in Thread : pc[t] \in Adding /\ pc[u] \in Adding =>
          /\ old[u] # new[t]
          /\ new[u] = new[t] => u = t
    /\ FirstBack

Ending ==
    /\ \A t \in Thread : pc[t] = "idle"
    /\ next[HEAD] \in Cell /\ Written(next[HEAD])
    /\ next[HEAD] \in Node => prev[next[HEAD]] = HEAD
    /\ \A n \in 1 .. next[HEAD] : Written(n) => Descends(n)
    /\ clearing \in {Nil, next[HEAD]}

IInv == TypeOK /\ IF exiting THEN Ending ELSE Running

-----------------------------------------------------------------------------
\* The invariant holds at the start, when the list is empty.
LEMMA InitIInv == Init => IInv
<1> SUFFICES ASSUME Init PROVE IInv
  OBVIOUS
<1> USE PortsAssumption DEF Init, HEAD, Node, Cell
<1>1. /\ next = [c \in Cell |-> IF c = HEAD THEN HEAD ELSE Wild] /\ prev = next
      /\ next[HEAD] = HEAD /\ \A n \in Node : next[n] = Wild
  OBVIOUS
<1>2. TypeOK
  <2>1. next \in [Cell -> Cell \union {Wild}]
    BY <1>1
  <2>2. cur = [t \in Thread |-> HEAD] /\ cur \in [Thread -> Cell]
    OBVIOUS
  <2>3. pc \in [Thread -> Steps]
    BY DEF Steps
  <2>4. /\ used \in Cell /\ inited \in BOOLEAN /\ clears \in Nat
        /\ clearing \in Cell \union {Nil} /\ exiting \in BOOLEAN
    <3>1. used = 0 /\ inited = FALSE /\ clears = 0 /\ clearing = Nil /\ exiting = FALSE
      OBVIOUS
    <3>2. 0 \in Cell
      OBVIOUS
    <3> QED
      BY ONLY <3>1, <3>2
  <2>5. prev \in [Cell -> Cell \union {Wild}] /\ new \in [Thread -> Cell] /\ old \in [Thread -> Cell]
    BY <1>1, <2>1, <2>2
  <2> QED
    BY ONLY <2>1, <2>2, <2>3, <2>4, <2>5 DEF TypeOK
<1>3. Running
  BY <1>1 DEF Running, Written, Adding, FirstBack
<1> QED
  BY <1>2, <1>3 DEF IInv

\* What the threads hold and the memory they share does not matter to a step
\* that neither writes a pointer nor moves a thread into or out of __list_add.
LEMMA RunningQuiet ==
    ASSUME TypeOK, Running, NEW t \in Thread,
           UNCHANGED <<memory, adding, clearing, used>>,
           pc[t] \notin Adding, pc'[t] \notin Adding,
           \A u \in Thread \ {t} : pc'[u] = pc[u] /\ cur'[u] = cur[u],
           Written(cur'[t])
    PROVE  Running'
<1> USE DEF memory, adding, Written, Adding, Pending
<1>1. \A u \in Thread : pc'[u] \in Adding => u # t /\ pc'[u] = pc[u]
  OBVIOUS
<1>2. FirstBack'
  BY DEF Running, FirstBack
<1>3. \A u \in Thread : cur'[u] = cur[u] \/ u = t
  OBVIOUS
<1> QED
  BY <1>1, <1>2, <1>3 DEF Running, Descends

LEMMA IInvNext == IInv /\ [Next]_vars => IInv'
<1> SUFFICES ASSUME IInv, [Next]_vars PROVE IInv'
  OBVIOUS
<1> USE PortsAssumption DEF HEAD, Node, Cell
<1>t. TypeOK
  BY DEF IInv
<1>1. CASE UNCHANGED vars
  BY <1>1 DEF vars, memory, data, start, calls, adding, ending, IInv, TypeOK,
     Running, Ending, Written, Descends, FirstBack
<1>2. ASSUME NEW w \in Worker, NEW a \in Ip, NEW p \in Port, Register(w, a, p) PROVE IInv'
  <2> USE <1>2 DEF Register, Goto, Call, data, start, ending
  <2>1. w \in Thread /\ ~exiting /\ Running /\ ~exiting'
    BY DEF IInv, Thread
  <2>2. TypeOK'
    BY <1>t, <2>1 DEF TypeOK, Steps, memory, adding
  <2>3. Running'
    BY <1>t, <2>1, RunningQuiet DEF TypeOK, Adding, Running, Written, memory
  <2> QED
    BY <2>1, <2>2, <2>3 DEF IInv
<1>3. ASSUME NEW w \in Worker, RegisterClear(w) PROVE IInv'
  <2> USE <1>3 DEF RegisterClear, Goto, data, ending
  <2>1. w \in Thread /\ ~exiting /\ Running /\ ~exiting'
    BY DEF IInv, Thread, Ending
  <2>2. TypeOK'
    BY <1>t, <2>1 DEF TypeOK, Steps, memory, adding
  <2>3. Running'
    BY <1>t, <2>1, RunningQuiet DEF TypeOK, Adding, Running, Written, memory
  <2> QED
    BY <2>1, <2>2, <2>3 DEF IInv
<1>4. ASSUME NEW s \in Sender, NEW a \in Ip, Query(s, a) PROVE IInv'
  <2> USE <1>4 DEF Query, Goto, Call, data, start, ending
  <2>1. s \in Thread /\ ~exiting /\ Running /\ ~exiting'
    BY DEF IInv, Thread
  <2>2. TypeOK'
    BY <1>t, <2>1 DEF TypeOK, Steps, memory, adding
  <2>3. Running'
    BY <1>t, <2>1, RunningQuiet DEF TypeOK, Adding, Running, Written, memory
  <2> QED
    BY <2>1, <2>2, <2>3 DEF IInv
<1>5. ASSUME NEW t \in Thread, Find(t) PROVE IInv'
  <2> USE <1>5 DEF Find, Goto, data, start, ending
  <2>1. ~exiting /\ Running /\ ~exiting'
    BY DEF IInv, Ending
  <2>2. next[HEAD] \in Cell /\ Written(next[HEAD])
    BY <1>t, <2>1 DEF Running, TypeOK
  <2>3. TypeOK'
    BY <1>t, <2>1, <2>2 DEF TypeOK, Steps, memory, adding
  <2>4. Written(cur'[t])
    BY <1>t, <2>2 DEF TypeOK, Written
  <2>5. Running'
    BY <1>t, <2>1, <2>4, RunningQuiet DEF TypeOK, Adding, memory
  <2> QED
    BY <2>1, <2>3, <2>5 DEF IInv
<1>6. ASSUME NEW t \in Thread, Walk(t) PROVE IInv'
  <2> USE <1>6 DEF Walk, Unlike, data, start, ending
  <2>1. ~exiting /\ Running /\ ~exiting'
    BY DEF IInv, Ending
  <2>2. next[cur[t]] \in Cell /\ Written(next[cur[t]])
    BY <1>t, <2>1 DEF Running, TypeOK, Descends
  <2>3. TypeOK'
    BY <1>t, <2>1, <2>2 DEF TypeOK, memory, adding
  <2>4. Written(cur'[t])
    BY <1>t, <2>2 DEF TypeOK, Written
  <2>5. Running'
    BY <1>t, <2>1, <2>4, RunningQuiet DEF TypeOK, Adding, memory
  <2> QED
    BY <2>1, <2>3, <2>5 DEF IInv
<1>7. ASSUME NEW t \in Thread, Found(t) \/ NotFound(t) PROVE IInv'
  <2> USE <1>7 DEF Found, NotFound, Goto, data, start, ending
  <2>1. ~exiting /\ Running /\ ~exiting'
    BY DEF IInv, Ending
  <2>2. TypeOK'
    BY <1>t, <2>1 DEF TypeOK, Steps, memory, adding
  <2>3. Running'
    BY <1>t, <2>1, RunningQuiet DEF TypeOK, Adding, Running, Written, memory
  <2> QED
    BY <2>1, <2>2, <2>3 DEF IInv
<1>8. ASSUME NEW w \in Worker, AddNode(w) PROVE IInv'
  <2> USE <1>8 DEF AddNode, Goto, memory, start, ending
  <2>1. w \in Thread /\ ~exiting /\ Running /\ ~exiting'
    BY DEF IInv, Thread, Ending
  <2>2. /\ used' = used + 1 /\ used' \in Node
        /\ new' = [new EXCEPT ![w] = used'] /\ old' = [old EXCEPT ![w] = next[HEAD]]
        /\ next[HEAD] \in 0 .. used /\ Written(next[HEAD])
    BY <1>t, <2>1 DEF TypeOK, Running
  <2>3. TypeOK'
    BY <1>t, <2>1, <2>2 DEF TypeOK, Steps
  <2>4. /\ pc[w] = "walk" /\ pc'[w] = "next->prev" /\ new'[w] = used + 1 /\ old'[w] = next[HEAD]
        /\ \A u \in Thread \ {w} : pc'[u] = pc[u] /\ new'[u] = new[u] /\ old'[u] = old[u]
    BY <1>t, <2>1, <2>2 DEF TypeOK
  <2>5. \A u \in Thread : pc'[u] \in Adding =>
          /\ new'[u] \in 1 .. used' /\ new'[u] # next[HEAD]
          /\ old'[u] \in 0 .. new'[u] - 1 /\ Written(old'[u])
          /\ pc'[u] \in {"new->prev", "prev->next"} => Written(new'[u])
          /\ pc'[u] = "prev->next" => prev[new'[u]] = HEAD
    BY <1>t, <2>1, <2>2, <2>4 DEF Running, Adding, TypeOK
  <2>6. \A t, u \in Thread : pc'[t] \in Adding /\ pc'[u] \in Adding =>
          old'[u] # new'[t] /\ (new'[u] = new'[t] => u = t)
    BY <1>t, <2>1, <2>2, <2>4 DEF Running, Adding, TypeOK
  <2>7. FirstBack'
    BY <2>1, <2>4 DEF Running, FirstBack, Pending
  <2>8. Running'
    BY <1>t, <2>1, <2>2, <2>5, <2>6, <2>7 DEF Running, Written, Descends, TypeOK
  <2> QED
    BY <2>1, <2>3, <2>8 DEF IInv
<1>9. ASSUME NEW w \in Worker, WriteNextPrev(w) PROVE IInv'
  <2> USE <1>9 DEF WriteNextPrev, Goto, data, start, ending, adding
  <2>1. w \in Thread /\ ~exiting /\ Running /\ ~exiting'
    BY DEF IInv, Thread, Ending
  <2>2. /\ pc[w] = "next->prev" /\ pc'[w] = "new->next"
        /\ \A u \in Thread \ {w} : pc'[u] = pc[u]
    BY <1>t, <2>1 DEF TypeOK
  <2>3. \A c \in Cell : prev'[c] = IF c = old[w] THEN new[w] ELSE prev[c]
    BY <1>t DEF TypeOK
  <2>4. TypeOK'
    BY <1>t, <2>1 DEF TypeOK, Steps
  <2>5. FirstBack'
    BY <1>t, <2>1, <2>2, <2>3 DEF Running, FirstBack, Pending, TypeOK
  <2>6. \A u \in Thread : pc'[u] = "prev->next" => prev'[new[u]] = HEAD
    BY <1>t, <2>1, <2>2, <2>3 DEF Running, Adding, TypeOK
  <2>7. Running'
    BY <2>1, <2>2, <2>5, <2>6 DEF Running, Adding, Written, Descends
  <2> QED
    BY <2>1, <2>4, <2>7 DEF IInv
<1>10. ASSUME NEW w \in Worker, WriteNewNext(w) PROVE IInv'
  <2> USE <1>10 DEF WriteNewNext, Goto, data, start, ending, adding
  <2>1. w \in Thread /\ ~exiting /\ Running /\ ~exiting'
    BY DEF IInv, Thread, Ending
  <2>2. /\ pc[w] = "new->next" /\ pc'[w] = "new->prev"
        /\ \A u \in Thread \ {w} : pc'[u] = pc[u]
    BY <1>t, <2>1 DEF TypeOK
  <2>3. new[w] \in Node /\ old[w] \in 0 .. new[w] - 1 /\ Written(old[w])
    BY <1>t, <2>1, <2>2 DEF Running, Adding, TypeOK
  <2>4. /\ \A c \in Cell : next'[c] = IF c = new[w] THEN old[w] ELSE next[c]
        /\ \A c \in Cell : Written(c) => Written(c)'
    BY <1>t, <2>3 DEF TypeOK, Written
  <2>5. TypeOK'
    BY <1>t, <2>1, <2>3 DEF TypeOK, Steps
  <2>6. next'[HEAD] = next[HEAD]
    BY <2>3, <2>4
  <2>7. FirstBack'
    BY <2>1, <2>2, <2>6 DEF Running, FirstBack, Pending
  <2>8. \A n \in Node : Written(n)' => Descends(n)'
    BY <1>t, <2>1, <2>3, <2>4 DEF Running, Written, Descends, TypeOK
  <2>9. Running'
    BY <1>t, <2>1, <2>2, <2>3, <2>4, <2>6, <2>7, <2>8 DEF Running, Adding, Written, TypeOK
  <2> QED
    BY <2>1, <2>5, <2>9 DEF IInv
<1>11. ASSUME NEW w \in Worker, WriteNewPrev(w) PROVE IInv'
  <2> USE <1>11 DEF WriteNewPrev, Goto, data, start, ending, adding
  <2>1. w \in Thread /\ ~exiting /\ Running /\ ~exiting'
    BY DEF IInv, Thread, Ending
  <2>2. /\ pc[w] = "new->prev" /\ pc'[w] = "prev->next"
        /\ \A u \in Thread \ {w} : pc'[u] = pc[u]
    BY <1>t, <2>1 DEF TypeOK
  <2>3. \A c \in Cell : prev'[c] = IF c = new[w] THEN HEAD ELSE prev[c]
    BY <1>t DEF TypeOK
  <2>4. TypeOK'
    BY <1>t, <2>1 DEF TypeOK, Steps
  <2>5. FirstBack'
    BY <1>t, <2>1, <2>2, <2>3 DEF Running, FirstBack, Pending, TypeOK
  <2>6. \A u \in Thread : pc'[u] = "prev->next" => prev'[new[u]] = HEAD
    BY <1>t, <2>1, <2>2, <2>3 DEF Running, Adding, TypeOK
  <2>7. Running'
    BY <2>1, <2>2, <2>5, <2>6 DEF Running, Adding, Written, Descends
  <2> QED
    BY <2>1, <2>4, <2>7 DEF IInv
<1>12. ASSUME NEW w \in Worker, WritePrevNext(w) PROVE IInv'
  <2> USE <1>12 DEF WritePrevNext, Goto, data, start, ending, adding
  <2>1. w \in Thread /\ ~exiting /\ Running /\ ~exiting'
    BY DEF IInv, Thread, Ending
  <2>2. /\ pc[w] = "prev->next" /\ pc'[w] = "idle"
        /\ \A u \in Thread \ {w} : pc'[u] = pc[u]
    BY <1>t, <2>1 DEF TypeOK
  <2>3. new[w] \in 1 .. used /\ Written(new[w]) /\ prev[new[w]] = HEAD
    BY <2>1, <2>2 DEF Running, Adding
  <2>4. /\ next'[HEAD] = new[w] /\ \A n \in Node : next'[n] = next[n]
        /\ \A c \in Cell : Written(c) => Written(c)'
    BY <1>t, <2>3 DEF TypeOK, Written
  <2>5. TypeOK'
    BY <1>t, <2>1, <2>3 DEF TypeOK, Steps
  <2>6. FirstBack'
    BY <2>3, <2>4 DEF FirstBack
  <2>7. \A n \in Node : Written(n)' => Descends(n)'
    BY <1>t, <2>1, <2>4 DEF Running, Written, Descends, TypeOK
  <2>8. Running'
    BY <1>t, <2>1, <2>2, <2>3, <2>4, <2>6, <2>7 DEF Running, Adding, Written, TypeOK
  <2> QED
    BY <2>1, <2>5, <2>8 DEF IInv
<1>13. CASE Exit
  <2> USE <1>13 DEF Exit, memory, data, start, adding
  <2>1. Running /\ exiting'
    BY DEF IInv
  <2>2. TypeOK'
    BY <1>t DEF TypeOK
  <2>3. next[HEAD] \in Node => prev[next[HEAD]] = HEAD
    BY <2>1 DEF Running, FirstBack, Pending
  <2>4. Ending'
    BY <1>t, <2>1, <2>3 DEF Running, Ending, Written, Descends, TypeOK
  <2> QED
    BY <2>1, <2>2, <2>4 DEF IInv
<1>14. CASE Clear
  <2> USE <1>14 DEF Clear, memory, data, adding
  <2>1. Ending /\ exiting'
    BY DEF IInv
  <2>2. TypeOK'
    BY <1>t, <2>1 DEF TypeOK, Ending
  <2>3. Ending'
    BY <2>1 DEF Ending, Written, Descends
  <2> QED
    BY <2>1, <2>2, <2>3 DEF IInv
<1>15. CASE ClearNode
  <2> USE <1>15 DEF ClearNode, data, start, adding
  <2>1. exiting /\ Ending /\ exiting' /\ clearing = next[HEAD]
    BY DEF IInv, Running, Ending
  <2> DEFINE n == clearing
             x == next[n]
  <2>2. /\ n \in Node /\ prev[n] = HEAD /\ x \in 0 .. n - 1 /\ Written(x) /\ Written(HEAD)
    BY <1>t, <2>1 DEF Ending, Descends, Written, TypeOK
  <2>3. /\ clearing' = x
        /\ prev' = [prev EXCEPT ![x] = HEAD, ![n] = Wild]
        /\ next' = [next EXCEPT ![HEAD] = x, ![n] = Wild]
    BY <1>t, <2>2 DEF Linked, Written, TypeOK
  <2>4. TypeOK'
    <3>1. x \in Cell /\ HEAD \in Cell
      BY <2>2
    <3>2. /\ next' \in [Cell -> Cell \union {Wild}]
          /\ prev' \in [Cell -> Cell \union {Wild}]
      BY <1>t, <2>3, <3>1 DEF TypeOK
    <3>3. clearing' \in Cell \union {Nil}
      BY <2>3, <3>1
    <3> QED
      BY <1>t, <2>1, <3>2, <3>3 DEF TypeOK
  <2>5. /\ next'[HEAD] = x /\ prev'[x] = HEAD
        /\ \A m \in 1 .. n - 1 : next'[m] = next[m]
    BY <1>t, <2>2, <2>3 DEF TypeOK
  <2>6. \A c \in 0 .. n - 1 : Written(c) => Written(c)'
    BY <2>2, <2>5 DEF Written
  <2>7. \A m \in 1 .. x : Written(m)' => Descends(m)'
    BY <1>t, <2>1, <2>2, <2>5, <2>6 DEF Ending, Descends, Written, TypeOK
  <2>8. Ending'
    BY <1>t, <2>1, <2>2, <2>3, <2>5, <2>6, <2>7 DEF Ending, TypeOK, Written
  <2> QED
    BY <2>1, <2>4, <2>8 DEF IInv
<1>16. CASE ClearEnd
  <2> USE <1>16 DEF ClearEnd, memory, data, start, adding
  <2>1. Ending /\ exiting /\ exiting'
    BY DEF IInv, Running
  <2>2. TypeOK'
    BY <1>t DEF TypeOK
  <2>3. Ending'
    BY <2>1 DEF Ending, Written, Descends
  <2> QED
    BY <2>1, <2>2, <2>3 DEF IInv
<1> QED
  BY <1>1, <1>2, <1>3, <1>4, <1>5, <1>6, <1>7, <1>8, <1>9, <1>10, <1>11, <1>12,
     <1>13, <1>14, <1>15, <1>16 DEF Next, Thread

\* jxregportlist_register, jxregportlist_query and s_regportlist_clear never
\* follow a pointer that was not written yet or is in freed memory, however many
\* threads run them and however their reads and writes interleave.
THEOREM PortsTypeOK == Spec => []TypeOK
<1>1. IInv => TypeOK
  BY DEF IInv
<1> QED
  BY InitIInv, IInvNext, <1>1, PTL DEF Spec

-----------------------------------------------------------------------------
(* The answers.  While no two registrations have run at a time, the list is *)
(* the nodes in the order of their allocation, newest first, down from Top; *)
(* first, a history, is the port of an address's node.  A thread that walks *)
(* has passed no node of its address: for a worker the address has none     *)
(* above where it is, for a sender the one that was linked when its query   *)
(* began is still below.                                                    *)

Top == next[HEAD]

HistoryOK ==
    /\ ip \in [Node -> Ip \union {Nil}] /\ port \in [Node -> Port \union {Nil}]
    /\ arg \in [Thread -> Ip \union {Nil}] /\ argport \in [Thread -> Port \union {Nil}]
    /\ first \in [Ip -> Port \union {Nil}] /\ known \in [Thread -> Port \union {Nil}]
    /\ answer \in [Thread -> Port \union {0, 1, Nil}]
    /\ \A t \in Thread : pc[t] # "idle" => arg[t] \in Ip
    /\ \A w \in Worker : pc[w] # "idle" => argport[w] \in Port
    /\ \A s \in Sender : /\ pc[s] \in {"idle", "find", "walk"}
                         /\ answer[s] \in Port => arg[s] \in Ip

ReplyOK(t) ==
    IF t \in Worker
    THEN /\ answer[t] = 0 => known[t] = Nil
         /\ answer[t] = 1 => known[t] # Nil
    ELSE /\ answer[t] = 1 => known[t] = Nil
         /\ answer[t] \in Port => answer[t] = first[arg[t]]

OneRegisters == \A v, w \in Worker : pc[v] # "idle" /\ pc[w] # "idle" => v = w

Chain ==
    /\ Top \in 0 .. used
    /\ \A n \in 1 .. Top : /\ next[n] = n - 1
                           /\ ip[n] \in Ip /\ port[n] \in Port
                           /\ first[ip[n]] = port[n]
    /\ \A a \in Ip : first[a] # Nil => \E n \in 1 .. Top : ip[n] = a
    /\ (\A w \in Worker : pc[w] \notin Adding) => Top = used
    /\ \A t \in Thread : pc[t] = "walk" => cur[t] \in 0 .. Top

WorkerOK(w) ==
    /\ pc[w] # "idle" => known[w] = first[arg[w]]
    /\ pc[w] = "walk" => \A n \in 1 .. Top : n > cur[w] => ip[n] # arg[w]
    /\ pc[w] \in Adding =>
          /\ first[arg[w]] = Nil
          /\ new[w] = used /\ Top = used - 1 /\ old[w] = Top
          /\ ip[used] = arg[w] /\ port[used] = argport[w]
    /\ pc[w] \in {"new->prev", "prev->next"} => next[used] = used - 1

SenderOK(s) ==
    pc[s] # "idle" /\ known[s] # Nil =>
        /\ first[arg[s]] = known[s]
        /\ pc[s] = "walk" => \E n \in 1 .. cur[s] : ip[n] = arg[s]

Listed ==
    /\ OneRegisters /\ Chain
    /\ \A w \in Worker : WorkerOK(w)
    /\ \A s \in Sender : SenderOK(s)

Replies == \A t \in Thread : ReplyOK(t)

AnsInv == HistoryOK /\ (~overlapped => Replies /\ (~exiting => Listed))

LEMMA InitAnsInv == Init => AnsInv
<1> SUFFICES ASSUME Init PROVE AnsInv
  OBVIOUS
<1> USE PortsAssumption DEF Init, HEAD, Node, Cell
<1>1. /\ Top = 0 /\ used = 0 /\ \A t \in Thread : pc[t] = "idle"
  BY DEF Top
<1>2. /\ \A a \in Ip : first[a] = Nil
      /\ \A t \in Thread : known[t] = Nil /\ answer[t] = Nil /\ arg[t] = Nil
  OBVIOUS
<1>3. HistoryOK
  <2>1. /\ ip \in [Node -> Ip \union {Nil}] /\ port \in [Node -> Port \union {Nil}]
    OBVIOUS
  <2>2. /\ arg \in [Thread -> Ip \union {Nil}] /\ argport \in [Thread -> Port \union {Nil}]
        /\ first \in [Ip -> Port \union {Nil}] /\ known \in [Thread -> Port \union {Nil}]
    OBVIOUS
  <2>3. answer \in [Thread -> Port \union {0, 1, Nil}]
    OBVIOUS
  <2> QED
    BY <1>1, <1>2, <2>1, <2>2, <2>3 DEF HistoryOK, Thread
<1>4. Replies
  BY <1>2 DEF Replies, ReplyOK
<1>5. Chain
  BY <1>1, <1>2 DEF Chain
<1>6. OneRegisters /\ (\A w \in Worker : WorkerOK(w)) /\ \A s \in Sender : SenderOK(s)
  BY <1>1 DEF OneRegisters, WorkerOK, SenderOK, Thread, Adding
<1> QED
  BY <1>3, <1>4, <1>5, <1>6 DEF AnsInv, Listed

\* A step of thread t that writes neither the list nor the data in it.
LEMMA ListedQuiet ==
    ASSUME Listed, Replies, NEW t \in Thread,
           UNCHANGED <<next, ip, port, used, first, adding>>,
           \A u \in Thread \ {t} :
              /\ pc'[u] = pc[u] /\ cur'[u] = cur[u] /\ arg'[u] = arg[u]
              /\ argport'[u] = argport[u] /\ known'[u] = known[u] /\ answer'[u] = answer[u],
           pc[t] \notin Adding, pc'[t] \notin Adding,
           pc'[t] = "walk" => cur'[t] \in 0 .. Top,
           OneRegisters',
           t \in Worker => WorkerOK(t)', t \in Sender => SenderOK(t)', ReplyOK(t)'
    PROVE  Listed' /\ Replies'
<1>1. Top' = Top /\ new' = new /\ old' = old
  BY DEF Top, adding
<1>2. Chain'
  <2>1. /\ Top' \in 0 .. used'
        /\ \A n \in 1 .. Top' : /\ next'[n] = n - 1 /\ ip'[n] \in Ip /\ port'[n] \in Port
                                /\ first'[ip'[n]] = port'[n]
        /\ \A a \in Ip : first'[a] # Nil => \E n \in 1 .. Top' : ip'[n] = a
    BY <1>1 DEF Listed, Chain
  <2>2. (\A w \in Worker : pc'[w] \notin Adding) => Top' = used'
    <3>1. (\A w \in Worker : pc'[w] \notin Adding) => \A w \in Worker : pc[w] \notin Adding
      BY DEF Thread
    <3> QED
      BY <1>1, <3>1 DEF Listed, Chain
  <2>3. \A u \in Thread : pc'[u] = "walk" => cur'[u] \in 0 .. Top'
    BY <1>1 DEF Listed, Chain
  <2> QED
    BY <2>1, <2>2, <2>3 DEF Chain
<1>3. \A w \in Worker : WorkerOK(w)'
  <2>1. \A w \in Worker \ {t} : WorkerOK(w)'
    BY <1>1 DEF Listed, WorkerOK, Thread
  <2> QED
    BY <2>1
<1>4. \A s \in Sender : SenderOK(s)'
  <2>1. \A s \in Sender \ {t} : SenderOK(s)'
    BY <1>1 DEF Listed, SenderOK, Thread
  <2> QED
    BY <2>1
<1>5. Replies'
  <2>1. \A u \in Thread \ {t} : ReplyOK(u)'
    BY DEF Replies, ReplyOK
  <2> QED
    BY <2>1 DEF Replies
<1> QED
  BY <1>2, <1>3, <1>4, <1>5 DEF Listed

\* The history has its types, and a thread in a call has its arguments.
LEMMA HistoryNext == TypeOK /\ HistoryOK /\ [Next]_vars => HistoryOK'
<1> SUFFICES ASSUME TypeOK, HistoryOK, [Next]_vars PROVE HistoryOK'
  OBVIOUS
<1> USE PortsAssumption DEF Goto, Thread
<1>1. CASE UNCHANGED vars
  BY <1>1 DEF vars, data, calls, HistoryOK
<1>2. ASSUME NEW w \in Worker, NEW a \in Ip, NEW p \in Port, Register(w, a, p) PROVE HistoryOK'
  <2> USE <1>2 DEF Register, Call, Return, data
  <2>1. /\ arg' \in [Thread -> Ip \union {Nil}] /\ argport' \in [Thread -> Port \union {Nil}]
        /\ known' \in [Thread -> Port \union {Nil}]
        /\ answer' \in [Thread -> Port \union {0, 1, Nil}]
    BY DEF HistoryOK
  <2>2. /\ arg'[w] = a /\ argport'[w] = p
        /\ \A t \in Thread \ {w} : /\ pc'[t] = pc[t] /\ arg'[t] = arg[t]
                                   /\ argport'[t] = argport[t] /\ answer'[t] = answer[t]
    BY DEF HistoryOK, TypeOK
  <2> QED
    BY <2>1, <2>2 DEF HistoryOK
<1>3. ASSUME NEW w \in Worker, RegisterClear(w) PROVE HistoryOK'
  BY <1>3 DEF RegisterClear, data, calls, HistoryOK, TypeOK
<1>4. ASSUME NEW s \in Sender, NEW a \in Ip, Query(s, a) PROVE HistoryOK'
  <2> USE <1>4 DEF Query, Call, Return, data
  <2>1. /\ arg' \in [Thread -> Ip \union {Nil}] /\ argport' \in [Thread -> Port \union {Nil}]
        /\ known' \in [Thread -> Port \union {Nil}]
        /\ answer' \in [Thread -> Port \union {0, 1, Nil}]
    BY DEF HistoryOK
  <2>2. /\ arg'[s] = a /\ answer'[s] = Nil /\ pc'[s] = "find"
        /\ \A t \in Thread \ {s} : /\ pc'[t] = pc[t] /\ arg'[t] = arg[t]
                                   /\ argport'[t] = argport[t] /\ answer'[t] = answer[t]
    BY DEF HistoryOK, TypeOK
  <2> QED
    BY <2>1, <2>2 DEF HistoryOK
<1>5. ASSUME NEW t \in Thread, Find(t) \/ Walk(t) PROVE HistoryOK'
  BY <1>5 DEF Find, Walk, data, calls, HistoryOK, TypeOK
<1>6. ASSUME NEW t \in Thread, Found(t) \/ NotFound(t) PROVE HistoryOK'
  <2> USE <1>6 DEF Found, NotFound, Return, data, calls
  <2>1. \E r \in Port \union {0, 1, Nil} : answer' = [answer EXCEPT ![t] = r]
    BY DEF HistoryOK, TypeOK
  <2>2. answer' \in [Thread -> Port \union {0, 1, Nil}]
    BY <2>1 DEF HistoryOK
  <2>3. /\ pc[t] = "walk" /\ pc'[t] = "idle" /\ arg[t] \in Ip
        /\ \A u \in Thread \ {t} : pc'[u] = pc[u] /\ answer'[u] = answer[u]
    BY <2>1 DEF HistoryOK, TypeOK
  <2> QED
    BY <2>2, <2>3 DEF HistoryOK
<1>7. ASSUME NEW w \in Worker, AddNode(w) PROVE HistoryOK'
  <2> USE <1>7 DEF AddNode, calls
  <2>1. arg[w] \in Ip /\ argport[w] \in Port
    BY DEF HistoryOK
  <2>2. ip' \in [Node -> Ip \union {Nil}] /\ port' \in [Node -> Port \union {Nil}]
    BY <2>1 DEF HistoryOK
  <2> QED
    BY <2>2 DEF HistoryOK, TypeOK
<1>8. ASSUME NEW w \in Worker, WriteNextPrev(w) \/ WriteNewNext(w) \/ WriteNewPrev(w)
      PROVE  HistoryOK'
  BY <1>8 DEF WriteNextPrev, WriteNewNext, WriteNewPrev, data, calls, HistoryOK, TypeOK
<1>9. ASSUME NEW w \in Worker, WritePrevNext(w) PROVE HistoryOK'
  <2> USE <1>9 DEF WritePrevNext, Return, data, calls
  <2>1. arg[w] \in Ip /\ argport[w] \in Port
    BY DEF HistoryOK
  <2>2. /\ first' \in [Ip -> Port \union {Nil}]
        /\ answer' \in [Thread -> Port \union {0, 1, Nil}]
    BY <2>1 DEF HistoryOK
  <2>3. \A t \in Thread \ {w} : pc'[t] = pc[t] /\ answer'[t] = answer[t]
    BY DEF HistoryOK, TypeOK
  <2> QED
    BY <2>2, <2>3 DEF HistoryOK
<1>10. CASE Exit \/ Clear \/ ClearNode \/ ClearEnd
  BY <1>10 DEF Exit, Clear, ClearNode, ClearEnd, data, calls, HistoryOK
<1> QED
  BY <1>1, <1>2, <1>3, <1>4, <1>5, <1>6, <1>7, <1>8, <1>9, <1>10 DEF Next

\* A call, a look at the list and a return write nothing another thread reads.
LEMMA AnswersQuiet ==
    ASSUME IInv, HistoryOK, Listed, Replies, ~exiting, ~overlapped', NEW t \in Thread,
           \/ t \in Worker /\ \E a \in Ip, p \in Port : Register(t, a, p)
           \/ t \in Worker /\ RegisterClear(t)
           \/ t \in Sender /\ \E a \in Ip : Query(t, a)
           \/ Find(t) \/ Walk(t) \/ Found(t)
           \/ t \in Sender /\ NotFound(t)
    PROVE  Listed' /\ Replies'
<1> USE PortsAssumption DEF HEAD, Node, Cell
<1>t. TypeOK /\ Running
  BY DEF IInv
<1>1. ASSUME t \in Worker, NEW a \in Ip, NEW p \in Port, Register(t, a, p)
      PROVE  Listed' /\ Replies'
  <2> USE <1>1 DEF Register, Goto, Call, Return
  <2>1. /\ pc[t] = "idle" /\ pc'[t] \in {"find", "init"} /\ arg'[t] = a
        /\ known'[t] = first[a] /\ answer'[t] = Nil
        /\ \A u \in Thread \ {t} :
              /\ pc'[u] = pc[u] /\ cur'[u] = cur[u] /\ arg'[u] = arg[u]
              /\ argport'[u] = argport[u] /\ known'[u] = known[u] /\ answer'[u] = answer[u]
    BY <1>t DEF HistoryOK, TypeOK
  <2>2. UNCHANGED <<next, ip, port, used, first, adding>>
    BY DEF memory, data
  <2>3. OneRegisters'
    <3>1. \A w \in Worker : pc[w] = "idle"
      BY DEF Busy
    <3>2. \A w \in Worker \ {t} : pc'[w] = "idle"
      BY <2>1, <3>1 DEF Thread
    <3> QED
      BY <3>2 DEF OneRegisters
  <2>4. WorkerOK(t)' /\ t \notin Sender /\ ReplyOK(t)'
    BY <2>1, <2>2 DEF WorkerOK, ReplyOK, Adding
  <2>5. pc[t] \notin Adding /\ pc'[t] \notin Adding /\ pc'[t] # "walk"
    BY <2>1 DEF Adding
  <2> QED
    BY ONLY Listed, Replies, t \in Thread, <2>1, <2>2, <2>3, <2>4, <2>5, ListedQuiet
<1>2. ASSUME t \in Worker, RegisterClear(t) PROVE  Listed' /\ Replies'
  <2> USE <1>2 DEF RegisterClear, Goto
  <2>1. /\ pc[t] = "init" /\ pc'[t] = "find"
        /\ \A u \in Thread \ {t} :
              /\ pc'[u] = pc[u] /\ cur'[u] = cur[u] /\ arg'[u] = arg[u]
              /\ argport'[u] = argport[u] /\ known'[u] = known[u] /\ answer'[u] = answer[u]
    BY <1>t DEF TypeOK, calls
  <2>2. UNCHANGED <<next, ip, port, used, first, adding>>
    BY DEF memory, data
  <2>3. OneRegisters'
    BY <2>1 DEF OneRegisters, Listed, Thread
  <2>4. WorkerOK(t)' /\ t \notin Sender /\ ReplyOK(t)'
    BY <2>1, <2>2 DEF WorkerOK, ReplyOK, Adding, Listed, Replies, calls
  <2>5. pc[t] \notin Adding /\ pc'[t] \notin Adding /\ pc'[t] # "walk"
    BY <2>1 DEF Adding
  <2> QED
    BY ONLY Listed, Replies, t \in Thread, <2>1, <2>2, <2>3, <2>4, <2>5, ListedQuiet
<1>3. ASSUME t \in Sender, NEW a \in Ip, Query(t, a) PROVE  Listed' /\ Replies'
  <2> USE <1>3 DEF Query, Goto, Call, Return
  <2>1. /\ pc[t] = "idle" /\ pc'[t] = "find" /\ arg'[t] = a
        /\ known'[t] = first[a] /\ answer'[t] = Nil
        /\ \A u \in Thread \ {t} :
              /\ pc'[u] = pc[u] /\ cur'[u] = cur[u] /\ arg'[u] = arg[u]
              /\ argport'[u] = argport[u] /\ known'[u] = known[u] /\ answer'[u] = answer[u]
    BY <1>t DEF HistoryOK, TypeOK
  <2>2. UNCHANGED <<next, ip, port, used, first, adding>>
    BY DEF memory, data
  <2>3. OneRegisters'
    BY <2>1 DEF OneRegisters, Listed, Thread
  <2>4. SenderOK(t)' /\ t \notin Worker /\ ReplyOK(t)'
    BY <2>1, <2>2 DEF SenderOK, ReplyOK
  <2>5. pc[t] \notin Adding /\ pc'[t] \notin Adding /\ pc'[t] # "walk"
    BY <2>1 DEF Adding
  <2> QED
    BY ONLY Listed, Replies, t \in Thread, <2>1, <2>2, <2>3, <2>4, <2>5, ListedQuiet
<1>4. ASSUME Find(t) PROVE  Listed' /\ Replies'
  <2> USE <1>4 DEF Find, Goto
  <2>1. /\ pc[t] = "find" /\ pc'[t] = "walk" /\ cur'[t] = Top /\ Top \in 0 .. used
        /\ \A u \in Thread \ {t} :
              /\ pc'[u] = pc[u] /\ cur'[u] = cur[u] /\ arg'[u] = arg[u]
              /\ argport'[u] = argport[u] /\ known'[u] = known[u] /\ answer'[u] = answer[u]
    BY <1>t DEF TypeOK, calls, Top, Running
  <2>2. /\ UNCHANGED <<next, ip, port, used, first, adding, arg, known, answer>>
        /\ Top' = Top
    BY DEF memory, data, calls, Top
  <2>3. OneRegisters'
    BY <2>1 DEF OneRegisters, Listed, Thread
  <2>4. ReplyOK(t)'
    BY <2>2 DEF ReplyOK, Replies
  <2>5. ASSUME t \in Worker PROVE WorkerOK(t)'
    <3>1. known[t] = first[arg[t]]
      BY <2>1, <2>5 DEF WorkerOK, Listed
    <3> QED
      BY <2>1, <2>2, <3>1, <1>t DEF WorkerOK, Adding, TypeOK
  <2>6. ASSUME t \in Sender, known[t] # Nil
        PROVE  first[arg[t]] = known[t] /\ \E n \in 1 .. cur'[t] : ip[n] = arg[t]
    <3>1. first[arg[t]] = known[t] /\ arg[t] \in Ip
      BY <2>1, <2>6 DEF SenderOK, Listed, HistoryOK
    <3> QED
      BY <2>1, <2>6, <3>1 DEF Listed, Chain
  <2>7. t \in Sender => SenderOK(t)'
    BY <2>1, <2>2, <2>6 DEF SenderOK
  <2>8. pc[t] \notin Adding /\ pc'[t] \notin Adding /\ (pc'[t] = "walk" => cur'[t] \in 0 .. Top)
    BY <2>1, <1>t DEF Adding, TypeOK
  <2> QED
    BY ONLY Listed, Replies, t \in Thread, <2>1, <2>2, <2>3, <2>4, <2>5, <2>7, <2>8, ListedQuiet
<1>5. ASSUME Walk(t) PROVE  Listed' /\ Replies'
  <2> USE <1>5 DEF Walk, Unlike
  <2>1. /\ pc[t] = "walk" /\ pc' = pc
        /\ \A u \in Thread \ {t} :
              /\ pc'[u] = pc[u] /\ cur'[u] = cur[u] /\ arg'[u] = arg[u]
              /\ argport'[u] = argport[u] /\ known'[u] = known[u] /\ answer'[u] = answer[u]
    BY <1>t DEF TypeOK, calls
  <2>2. /\ UNCHANGED <<next, ip, port, used, first, adding, arg, known, answer>>
        /\ Top' = Top
    BY DEF memory, data, calls, Top
  <2>3. /\ Top \in Nat /\ cur[t] \in 1 .. Top /\ cur'[t] = cur[t] - 1 /\ ip[cur[t]] # arg[t]
    BY <2>1, <1>t DEF Listed, Chain, TypeOK
  <2>4. OneRegisters' /\ ReplyOK(t)'
    BY <2>1, <2>2 DEF OneRegisters, Listed, ReplyOK, Replies
  <2>5. ASSUME t \in Worker PROVE WorkerOK(t)'
    <3>1. known[t] = first[arg[t]] /\ \A n \in 1 .. Top : n > cur[t] => ip[n] # arg[t]
      BY <2>1, <2>5 DEF WorkerOK, Listed
    <3>2. \A n \in 1 .. Top : n > cur'[t] => ip[n] # arg[t]
      BY <2>3, <3>1
    <3> QED
      BY <2>1, <2>2, <3>1, <3>2 DEF WorkerOK, Adding
  <2>6. ASSUME t \in Sender, known[t] # Nil
        PROVE  first[arg[t]] = known[t] /\ \E n \in 1 .. cur'[t] : ip[n] = arg[t]
    <3>1. first[arg[t]] = known[t] /\ \E n \in 1 .. cur[t] : ip[n] = arg[t]
      BY <2>1, <2>6 DEF SenderOK, Listed
    <3> QED
      BY <2>3, <3>1
  <2>7. t \in Sender => SenderOK(t)'
    BY <2>1, <2>2, <2>6 DEF SenderOK
  <2>8. pc[t] \notin Adding /\ pc'[t] \notin Adding /\ (pc'[t] = "walk" => cur'[t] \in 0 .. Top)
    BY <2>1, <2>3 DEF Adding
  <2> QED
    BY ONLY Listed, Replies, t \in Thread, <2>1, <2>2, <2>4, <2>5, <2>7, <2>8, ListedQuiet
<1>6. ASSUME Found(t) PROVE  Listed' /\ Replies'
  <2> USE <1>6 DEF Found, Goto, Return
  <2>1. /\ pc[t] = "walk" /\ pc'[t] = "idle"
        /\ answer'[t] = IF t \in Worker THEN 1 ELSE port[cur[t]]
        /\ \A u \in Thread \ {t} :
              /\ pc'[u] = pc[u] /\ cur'[u] = cur[u] /\ arg'[u] = arg[u]
              /\ argport'[u] = argport[u] /\ known'[u] = known[u] /\ answer'[u] = answer[u]
    BY <1>t DEF TypeOK, HistoryOK, calls
  <2>2. /\ UNCHANGED <<next, ip, port, used, first, adding, arg, known>> /\ Top' = Top
    BY DEF memory, data, calls, Top
  <2>3. /\ Top \in Nat /\ cur[t] \in 1 .. Top /\ ip[cur[t]] = arg[t] /\ port[cur[t]] \in Port
        /\ first[arg[t]] = port[cur[t]]
    BY <2>1, <1>t DEF Listed, Chain, TypeOK
  <2>4. OneRegisters'
    BY <2>1 DEF OneRegisters, Listed, Thread
  <2>5. t \in Worker => known[t] = first[arg[t]]
    BY <2>1 DEF Listed, WorkerOK
  <2>6. ReplyOK(t)'
    BY <2>1, <2>2, <2>3, <2>5 DEF ReplyOK
  <2>7. (t \in Worker => WorkerOK(t)') /\ (t \in Sender => SenderOK(t)')
    BY <2>1 DEF WorkerOK, SenderOK, Adding
  <2>8. pc[t] \notin Adding /\ pc'[t] \notin Adding /\ pc'[t] # "walk"
    BY <2>1 DEF Adding
  <2> QED
    BY ONLY Listed, Replies, t \in Thread, <2>1, <2>2, <2>4, <2>6, <2>7, <2>8, ListedQuiet
<1>7. ASSUME t \in Sender, NotFound(t) PROVE  Listed' /\ Replies'
  <2> USE <1>7 DEF NotFound, Goto, Return
  <2>1. /\ pc[t] = "walk" /\ pc'[t] = "idle" /\ cur[t] = 0 /\ answer'[t] = 1 /\ t \notin Worker
        /\ \A u \in Thread \ {t} :
              /\ pc'[u] = pc[u] /\ cur'[u] = cur[u] /\ arg'[u] = arg[u]
              /\ argport'[u] = argport[u] /\ known'[u] = known[u] /\ answer'[u] = answer[u]
    BY <1>t DEF TypeOK, HistoryOK, calls
  <2>2. /\ UNCHANGED <<next, ip, port, used, first, adding, arg, known>> /\ Top' = Top
    BY DEF memory, data, calls, Top
  <2>3. known[t] = Nil
    BY <2>1 DEF Listed, SenderOK
  <2>4. OneRegisters'
    BY <2>1 DEF OneRegisters, Listed, Thread
  <2>5. ReplyOK(t)'
    BY <2>1, <2>2, <2>3 DEF ReplyOK
  <2>6. SenderOK(t)'
    BY <2>1 DEF SenderOK
  <2>7. pc[t] \notin Adding /\ pc'[t] \notin Adding /\ pc'[t] # "walk"
    BY <2>1 DEF Adding
  <2> QED
    BY ONLY Listed, Replies, t \in Thread, <2>1, <2>2, <2>4, <2>5, <2>6, <2>7, ListedQuiet
<1> QED
  BY <1>1, <1>2, <1>3, <1>4, <1>5, <1>6, <1>7

\* s_addnode prepares a node nobody can reach yet.
LEMMA AnswersAddNode ==
    ASSUME IInv, HistoryOK, Listed, Replies, ~exiting, NEW w \in Worker, AddNode(w)
    PROVE  Listed' /\ Replies'
<1> USE PortsAssumption DEF HEAD, Node, Cell, Thread
<1>t. TypeOK /\ Running
  BY DEF IInv
<1> USE DEF AddNode, Goto
<1>1. /\ pc[w] = "walk" /\ pc'[w] = "next->prev" /\ cur[w] = 0
      /\ \A u \in Thread \ {w} : pc'[u] = pc[u]
      /\ new'[w] = used + 1 /\ old'[w] = Top /\ used' = used + 1 /\ used' \in Node
  BY <1>t DEF TypeOK, HistoryOK, Top
<1>2. UNCHANGED <<next, cur, arg, argport, known, first, answer>> /\ Top' = Top
  BY DEF memory, calls, Top
<1>3. /\ ip'[used + 1] = arg[w] /\ port'[used + 1] = argport[w]
      /\ \A n \in 1 .. used : ip'[n] = ip[n] /\ port'[n] = port[n]
  BY <1>t, <1>1 DEF TypeOK, HistoryOK
<1>4. \A v \in Worker \ {w} : pc[v] = "idle"
  BY <1>1 DEF Listed, OneRegisters
<1>5. Top = used /\ Top \in Nat
  <2>1. \A v \in Worker : pc[v] \notin Adding
    BY <1>1, <1>4 DEF Adding
  <2>2. Top = used
    BY <2>1 DEF Listed, Chain
  <2> QED
    BY <1>t, <2>2 DEF TypeOK
<1>6. /\ arg[w] \in Ip /\ known[w] = first[arg[w]]
      /\ \A n \in 1 .. Top : ip[n] # arg[w]
  BY <1>1, <1>5 DEF Listed, WorkerOK, HistoryOK
<1>7. first[arg[w]] = Nil
  BY <1>6 DEF Listed, Chain
<1>8. Chain'
  <2>1. Top' \in 0 .. used'
    BY <1>1, <1>2, <1>5
  <2>2. \A n \in 1 .. Top' : /\ next'[n] = n - 1
                             /\ ip'[n] \in Ip /\ port'[n] \in Port
                             /\ first'[ip'[n]] = port'[n]
    BY <1>2, <1>3, <1>5 DEF Listed, Chain
  <2>3. \A a \in Ip : first'[a] # Nil => \E n \in 1 .. Top' : ip'[n] = a
    BY <1>2, <1>3, <1>5 DEF Listed, Chain
  <2>4. pc'[w] \in Adding
    BY <1>1 DEF Adding
  <2>5. \A t \in Thread : pc'[t] = "walk" => cur'[t] \in 0 .. Top'
    BY <1>1, <1>2 DEF Listed, Chain
  <2> QED
    BY <2>1, <2>2, <2>3, <2>4, <2>5 DEF Chain
<1>9. \A v \in Worker : WorkerOK(v)'
  <2>1. WorkerOK(w)'
    BY <1>1, <1>2, <1>3, <1>5, <1>6, <1>7 DEF WorkerOK, Adding
  <2>2. \A v \in Worker \ {w} : pc'[v] = "idle"
    BY <1>1, <1>4
  <2>3. \A v \in Worker \ {w} : WorkerOK(v)'
    BY <2>2 DEF WorkerOK, Adding
  <2> QED
    BY <2>1, <2>3
<1>10. \A s \in Sender : SenderOK(s)'
  <2> SUFFICES ASSUME NEW s \in Sender, pc[s] # "idle", known[s] # Nil
               PROVE  /\ first[arg[s]] = known[s]
                      /\ pc[s] = "walk" => \E n \in 1 .. cur[s] : ip'[n] = arg[s]
    BY <1>1, <1>2 DEF SenderOK
  <2>1. /\ first[arg[s]] = known[s]
        /\ pc[s] = "walk" => cur[s] \in 0 .. Top /\ \E n \in 1 .. cur[s] : ip[n] = arg[s]
    BY DEF Listed, SenderOK, Chain
  <2> QED
    BY <1>3, <1>5, <2>1
<1>11. OneRegisters'
  BY <1>1, <1>4 DEF OneRegisters
<1>12. Replies'
  BY <1>2 DEF Replies, ReplyOK
<1> QED
  BY <1>8, <1>9, <1>10, <1>11, <1>12 DEF Listed

\* The writes of __list_add to the new node and to the one after it leave the
\* list that the others see as it is.
LEMMA AnswersWrite ==
    ASSUME IInv, HistoryOK, Listed, Replies, ~exiting, NEW w \in Worker,
           WriteNextPrev(w) \/ WriteNewNext(w) \/ WriteNewPrev(w)
    PROVE  Listed' /\ Replies'
<1> USE PortsAssumption DEF HEAD, Node, Cell, Thread
<1>t. TypeOK /\ Running
  BY DEF IInv
<1> USE DEF WriteNextPrev, WriteNewNext, WriteNewPrev, Goto
<1>1. /\ pc[w] \in {"next->prev", "new->next", "new->prev"} /\ pc[w] \in Adding
      /\ pc'[w] \in {"new->next", "new->prev", "prev->next"} /\ pc'[w] \in Adding
      /\ \A u \in Thread \ {w} : pc'[u] = pc[u]
  BY <1>t DEF TypeOK, Adding
<1>2. UNCHANGED <<ip, port, used, cur, arg, argport, known, first, answer, new, old>>
  BY DEF data, calls, adding
<1>3. /\ new[w] = used /\ Top = used - 1 /\ old[w] = Top /\ used \in 1 .. MaxNodes
      /\ first[arg[w]] = Nil /\ ip[used] = arg[w] /\ port[used] = argport[w]
      /\ pc[w] = "new->prev" => next[used] = used - 1
      /\ known[w] = first[arg[w]]
  BY <1>t, <1>1 DEF Listed, WorkerOK, Running, TypeOK, Adding
<1>4. /\ next'[used] = IF pc[w] = "new->next" THEN used - 1 ELSE next[used]
      /\ \A c \in Cell : c # used => next'[c] = next[c]
  BY <1>t, <1>3 DEF TypeOK
<1>5. Top' = Top
  BY <1>3, <1>4 DEF Top
<1>6. \A v \in Worker \ {w} : pc[v] = "idle"
  BY <1>1 DEF Listed, OneRegisters, Adding
<1>7. Chain'
  <2>1. \A n \in 1 .. Top' : n \in Cell /\ n # used /\ n \in 1 .. Top
    BY <1>3, <1>5
  <2>2. \A n \in 1 .. Top' : /\ next'[n] = n - 1
                             /\ ip'[n] \in Ip /\ port'[n] \in Port
                             /\ first'[ip'[n]] = port'[n]
    BY <1>2, <1>4, <2>1 DEF Listed, Chain
  <2>3. /\ Top' \in 0 .. used'
        /\ \A a \in Ip : first'[a] # Nil => \E n \in 1 .. Top' : ip'[n] = a
    BY <1>2, <1>5 DEF Listed, Chain
  <2>4. \A t \in Thread : pc'[t] = "walk" => cur'[t] \in 0 .. Top'
    BY <1>1, <1>2, <1>5 DEF Listed, Chain
  <2> QED
    BY <1>1, <2>2, <2>3, <2>4 DEF Chain
<1>8. \A v \in Worker : WorkerOK(v)'
  <2>1. WorkerOK(w)'
    <3>1. pc'[w] \in {"new->prev", "prev->next"} => next'[used] = used - 1
      BY <1>t, <1>3, <1>4 DEF TypeOK
    <3>2. pc'[w] # "walk"
      BY <1>1
    <3> QED
      BY <1>1, <1>2, <1>3, <1>5, <3>1, <3>2 DEF WorkerOK
  <2>2. \A v \in Worker \ {w} : pc'[v] = "idle"
    BY <1>1, <1>6
  <2>3. \A v \in Worker \ {w} : WorkerOK(v)'
    BY <2>2 DEF WorkerOK, Adding
  <2> QED
    BY <2>1, <2>3
<1>9. \A s \in Sender : SenderOK(s)'
  BY <1>1, <1>2 DEF Listed, SenderOK
<1>10. OneRegisters'
  BY <1>1, <1>6 DEF OneRegisters
<1>11. Replies'
  BY <1>2 DEF Replies, ReplyOK
<1> QED
  BY <1>7, <1>8, <1>9, <1>10, <1>11 DEF Listed

\* The last write of __list_add puts the node in front of the list.
LEMMA AnswersLink ==
    ASSUME IInv, HistoryOK, Listed, Replies, ~exiting, NEW w \in Worker, WritePrevNext(w)
    PROVE  Listed' /\ Replies'
<1> USE PortsAssumption DEF HEAD, Node, Cell, Thread
<1>t. TypeOK /\ Running
  BY DEF IInv
<1> USE DEF WritePrevNext, Goto, Return
<1>1. /\ pc[w] = "prev->next" /\ pc[w] \in Adding /\ pc'[w] = "idle"
      /\ answer'[w] = 0
      /\ \A u \in Thread \ {w} : pc'[u] = pc[u] /\ answer'[u] = answer[u]
  BY <1>t DEF TypeOK, HistoryOK, Adding
<1>2. UNCHANGED <<ip, port, used, cur, arg, argport, known, new, old>>
  BY DEF data, calls, adding
<1>3. /\ new[w] = used /\ Top = used - 1 /\ used \in 1 .. MaxNodes /\ next[used] = used - 1
      /\ first[arg[w]] = Nil /\ ip[used] = arg[w] /\ port[used] = argport[w]
      /\ known[w] = Nil
  BY <1>t, <1>1 DEF Listed, WorkerOK, Running, TypeOK, Adding
<1>4. arg[w] \in Ip /\ argport[w] \in Port
  BY <1>1 DEF HistoryOK
<1>5. /\ Top' = used /\ \A n \in Node : next'[n] = next[n]
  BY <1>t, <1>3 DEF TypeOK, Top
<1>6. /\ first'[arg[w]] = argport[w]
      /\ \A a \in Ip : a # arg[w] => first'[a] = first[a]
  BY <1>3, <1>4 DEF HistoryOK
<1>7. \A a \in Ip : first[a] # Nil => first'[a] = first[a]
  BY <1>3, <1>6
<1>8. \A v \in Worker \ {w} : pc[v] = "idle"
  BY <1>1 DEF Listed, OneRegisters, Adding
<1>9. Chain'
  <2>1. \A n \in 1 .. Top' : /\ next'[n] = n - 1
                             /\ ip'[n] \in Ip /\ port'[n] \in Port
                             /\ first'[ip'[n]] = port'[n]
    <3> SUFFICES ASSUME NEW n \in 1 .. used
                 PROVE  /\ next[n] = n - 1 /\ ip[n] \in Ip /\ port[n] \in Port
                        /\ first'[ip[n]] = port[n]
      BY <1>2, <1>3, <1>5
    <3>1. CASE n = used
      BY <1>3, <1>4, <1>6, <3>1
    <3>2. CASE n # used
      <4>1. n \in 1 .. Top
        BY <1>3, <3>2
      <4>2. /\ next[n] = n - 1 /\ ip[n] \in Ip /\ port[n] \in Port /\ first[ip[n]] = port[n]
        BY <4>1 DEF Listed, Chain
      <4> QED
        BY <4>2, <1>7
    <3> QED
      BY <3>1, <3>2
  <2>2. \A a \in Ip : first'[a] # Nil => \E n \in 1 .. Top' : ip'[n] = a
    <3> SUFFICES ASSUME NEW a \in Ip, first'[a] # Nil PROVE \E n \in 1 .. used : ip[n] = a
      BY <1>2, <1>5
    <3>1. CASE a = arg[w]
      BY <1>3, <3>1
    <3>2. CASE a # arg[w]
      <4>1. \E n \in 1 .. Top : ip[n] = a
        BY <1>6, <3>2 DEF Listed, Chain
      <4> QED
        BY <4>1, <1>3
    <3> QED
      BY <3>1, <3>2
  <2>3. Top' \in 0 .. used' /\ Top' = used'
    BY <1>2, <1>3, <1>5
  <2>4. \A t \in Thread : pc'[t] = "walk" => cur'[t] \in 0 .. Top'
    BY <1>1, <1>2, <1>3, <1>5 DEF Listed, Chain
  <2> QED
    BY <2>1, <2>2, <2>3, <2>4 DEF Chain
<1>10. \A v \in Worker : pc'[v] = "idle"
  BY <1>1, <1>8
<1>11. (\A v \in Worker : WorkerOK(v)') /\ OneRegisters'
  BY <1>10 DEF WorkerOK, OneRegisters, Adding
<1>12. \A s \in Sender : SenderOK(s)'
  <2> SUFFICES ASSUME NEW s \in Sender, pc[s] # "idle", known[s] # Nil
               PROVE  /\ first'[arg[s]] = known[s]
                      /\ pc[s] = "walk" => \E n \in 1 .. cur[s] : ip[n] = arg[s]
    BY <1>1, <1>2 DEF SenderOK
  <2>1. /\ first[arg[s]] = known[s] /\ arg[s] \in Ip
        /\ pc[s] = "walk" => \E n \in 1 .. cur[s] : ip[n] = arg[s]
    BY DEF Listed, SenderOK, HistoryOK
  <2> QED
    BY <1>7, <2>1
<1>13. Replies'
  <2>1. \A s \in Sender : ReplyOK(s)'
    BY <1>1, <1>2, <1>7 DEF Replies, ReplyOK, HistoryOK
  <2>2. ReplyOK(w)'
    BY <1>1, <1>2, <1>3 DEF ReplyOK
  <2>3. \A v \in Worker \ {w} : ReplyOK(v)'
    BY <1>1, <1>2 DEF Replies, ReplyOK
  <2> QED
    BY <2>1, <2>2, <2>3 DEF Replies
<1> QED
  BY <1>9, <1>11, <1>12, <1>13 DEF Listed

LEMMA AnsInvNext == IInv /\ AnsInv /\ [Next]_vars => AnsInv'
<1> SUFFICES ASSUME IInv, AnsInv, [Next]_vars PROVE AnsInv'
  OBVIOUS
<1>1. HistoryOK'
  BY HistoryNext DEF IInv, AnsInv
<1> SUFFICES ASSUME ~overlapped' PROVE Replies' /\ (~exiting' => Listed')
  BY <1>1 DEF AnsInv
<1>2. CASE UNCHANGED vars
  BY <1>2 DEF vars, memory, data, calls, adding, ending, AnsInv, Replies, ReplyOK, Listed,
     OneRegisters, Chain, Top, WorkerOK, SenderOK
<1>3. CASE Exit \/ Clear \/ ClearNode \/ ClearEnd
  <2>1. UNCHANGED <<answer, known, first, arg, overlapped>> /\ exiting'
    BY <1>3, PortsAssumption DEF Exit, Clear, ClearNode, ClearEnd, calls, IInv, Running, Node, HEAD
  <2> QED
    BY <2>1 DEF AnsInv, Replies, ReplyOK
<1>4. ASSUME NEW t \in Thread,
             \/ t \in Worker /\ \E a \in Ip, p \in Port : Register(t, a, p)
             \/ t \in Worker /\ RegisterClear(t)
             \/ t \in Sender /\ \E a \in Ip : Query(t, a)
             \/ Find(t) \/ Walk(t) \/ Found(t)
             \/ t \in Sender /\ NotFound(t)
      PROVE  Replies' /\ Listed'
  <2>1. ~overlapped
    BY <1>4 DEF Register, RegisterClear, Query, Find, Walk, Found, NotFound
  <2>2. ~exiting
    BY <1>4 DEF Register, RegisterClear, Query, Find, Walk, Found, NotFound, Call, Goto, IInv, Ending,
       Thread
  <2> QED
    BY <1>4, <2>1, <2>2, AnswersQuiet DEF AnsInv
<1>5. ASSUME NEW w \in Worker, \/ AddNode(w) \/ WriteNextPrev(w) \/ WriteNewNext(w)
                               \/ WriteNewPrev(w) \/ WritePrevNext(w)
      PROVE  Replies' /\ Listed'
  <2>1. ~overlapped
    BY <1>5 DEF AddNode, WriteNextPrev, WriteNewNext, WriteNewPrev, WritePrevNext
  <2>2. ~exiting
    BY <1>5 DEF AddNode, WriteNextPrev, WriteNewNext, WriteNewPrev, WritePrevNext, Goto, IInv,
       Ending, Thread
  <2> QED
    BY <1>5, <2>1, <2>2, AnswersAddNode, AnswersWrite, AnswersLink DEF AnsInv
<1>6. Next => \/ Exit \/ Clear \/ ClearNode \/ ClearEnd
              \/ \E t \in Thread :
                    \/ t \in Worker /\ \E a \in Ip, p \in Port : Register(t, a, p)
                    \/ t \in Worker /\ RegisterClear(t)
                    \/ t \in Sender /\ \E a \in Ip : Query(t, a)
                    \/ Find(t) \/ Walk(t) \/ Found(t)
                    \/ t \in Sender /\ NotFound(t)
              \/ \E w \in Worker : \/ AddNode(w) \/ WriteNextPrev(w) \/ WriteNewNext(w)
                                   \/ WriteNewPrev(w) \/ WritePrevNext(w)
  BY DEF Next, Thread
<1> QED
  BY <1>2, <1>3, <1>4, <1>5, <1>6

\* Until two workers run jxregportlist_register at a time, jxregportlist_query
\* returns the port the address was first registered with, or says there is none
\* only if none was linked when it began, and jxregportlist_register refuses an
\* address exactly if it had a port: for any number of senders that walk the list
\* while a node is put before it.
THEOREM FirstPortAnswered == Spec => []AnswersRight
<1>1. AnsInv => AnswersRight
  BY DEF AnsInv, Replies, ReplyOK, AnswersRight
<1> QED
  BY InitIInv, IInvNext, InitAnsInv, AnsInvNext, <1>1, PTL DEF Spec
=============================================================================

------------------------ MODULE ServerAccountProofs ------------------------
(***************************************************************************)
(* The account service proved for every number of workers, clients,        *)
(* telephones and requests.                                                *)
(*                                                                         *)
(* A temporary account carries a key; an account made of it keeps the key, *)
(* so that its number and the key together say what is one account, while  *)
(* numbers start anew with the server.  Until two threads have changed the *)
(* first link of the temporary list at a time, a key is in one place only  *)
(* (KeysOnce).  A handler between its two critical sections holds the only *)
(* copy of a new account (NewInHand), and every account number granted     *)
(* stays somewhere (Kept).  What a handler keeps of a login node without   *)
(* the mutex stays until its own client logs out (KeptNodeStays).          *)
(***************************************************************************)
EXTENDS ServerAccount, FiniteSetTheorems, SequenceTheorems, WellFoundedInduction, TLAPS

-----------------------------------------------------------------------------
(* The inductive invariant. *)

Hands == {w \in Worker : call[w].at \in {"verified", "read"}}

\* Keys are given in turn: to a temporary account, and then to its account.
KeysOK ==
    /\ made \in Nat \ {0}
    /\ \A i \in DOMAIN tmp : tmp[i].key \in 1 .. made - 1
    /\ \A w \in Linking :
        /\ call[w].node.key \in 1 .. made - 1
        /\ call[w].next # Nil => call[w].next.key \in 1 .. made - 1
    /\ \A a \in granted : a.id < curmaxid /\ a.key \in 1 .. made - 1

\* A key is in one place only, until the first link was raced for.
KeysOnce ==
    ~raced =>
        /\ \A i, j \in DOMAIN tmp : tmp[i].key = tmp[j].key => i = j
        /\ \A a \in granted : \A i \in DOMAIN tmp : tmp[i].key # a.key
        /\ \A w \in Linking :
            /\ \A i \in DOMAIN tmp : tmp[i].key # call[w].node.key
            /\ \A a \in granted : a.key # call[w].node.key

\* An account is one of an earlier run or was granted.
Known(b) == b.key = 0 \/ \E a \in granted : a.id = b.id /\ a.key = b.key

AllKnown ==
    /\ \A i \in DOMAIN login : Known(login[i].acc)
    /\ \A i \in DOMAIN file : Known(file[i])
    /\ \A w \in Hands : Known(call[w].acc)

\* One account, whatever its fields hold.
Same(a, b) == a.id = b.id /\ a.key = b.key

\* A new account is nowhere but in the hand of the handler that verified it.
NewInHand ==
    \A w \in Worker : call[w].at = "verified" =>
        /\ \A i \in DOMAIN login : ~Same(login[i].acc, call[w].acc)
        /\ \A i \in DOMAIN file : ~Same(file[i], call[w].acc)
        /\ \A v \in Hands : Same(call[v].acc, call[w].acc) => v = w

\* Every number granted is in the login list, the files or a hand.
Stored(id) ==
    \/ \E i \in DOMAIN login : login[i].acc.id = id
    \/ \E i \in DOMAIN file : file[i].id = id
    \/ \E w \in Worker : call[w].at = "verified" /\ call[w].acc.id = id
Kept == \A a \in granted : Stored(a.id)

\* The files hold one record of a number.
OneRecord == \A i, j \in DOMAIN file : file[i].id = file[j].id => i = j

\* No two nodes of the login list are at one address.
Addresses == \A i, j \in DOMAIN login : login[i].addr = login[j].addr => i = j

IInv ==
    /\ TypeOK
    /\ KeysOK /\ KeysOnce /\ OneAccountPerCode /\ AllKnown
    /\ NewInHand /\ OneNodePerAccount
    /\ Kept /\ OneRecord
    /\ Addresses

OwnInv == IInv /\ KeptNodeStays

-----------------------------------------------------------------------------
(* Sequences: the first element that passes a test, one element less, one  *)
(* more at the front, and an address that is free.                         *)

LEMMA LeastNumber ==
    ASSUME NEW S \in SUBSET Nat, S # {}
    PROVE  Min(S) \in S
<1>1. \E x \in S : \A y \in S : ~(<<y, x>> \in OpToRel(<, Nat))
  BY NatLessThanWellFounded, WFMin
<1>2. PICK x \in S : \A y \in S : ~(<<y, x>> \in OpToRel(<, Nat))
  BY <1>1
<1>3. \A y \in S : ~(y < x)
  BY <1>2 DEF OpToRel
<1>4. \A y \in S : x <= y
  BY <1>3
<1> QED
  BY <1>4 DEF Min

LEMMA PositionFacts ==
    ASSUME Len(login) \in Nat, NEW addr
    PROVE  \/ /\ Position(addr) = 0
              /\ \A i \in 1 .. Len(login) : login[i].addr # addr
           \/ /\ Position(addr) \in 1 .. Len(login)
              /\ login[Position(addr)].addr = addr
<1> DEFINE I == {i \in 1 .. Len(login) : login[i].addr = addr}
<1>1. Position(addr) = IF I # {} THEN Min(I) ELSE 0
  BY DEF Position, SelectInSeq
<1>2. I # {} => Min(I) \in I
  <2>1. I \in SUBSET Nat
    OBVIOUS
  <2> HIDE DEF I
  <2> QED
    BY <2>1, LeastNumber
<1> QED
  BY <1>1, <1>2

LEMMA TmpPositionFacts ==
    ASSUME Len(tmp) \in Nat, NEW key
    PROVE  \/ TmpPosition(key) = 0
           \/ /\ TmpPosition(key) \in 1 .. Len(tmp)
              /\ tmp[TmpPosition(key)].key = key
<1> DEFINE I == {i \in 1 .. Len(tmp) : tmp[i].key = key}
<1>1. TmpPosition(key) = IF I # {} THEN Min(I) ELSE 0
  BY DEF TmpPosition, SelectInSeq
<1>2. I # {} => Min(I) \in I
  <2>1. I \in SUBSET Nat
    OBVIOUS
  <2> HIDE DEF I
  <2> QED
    BY <2>1, LeastNumber
<1> QED
  BY <1>1, <1>2

LEMMA FindIdFacts ==
    ASSUME Len(login) \in Nat, NEW id
    PROVE  \/ /\ FindId(id) = 0
              /\ \A i \in 1 .. Len(login) : login[i].acc.id # id
           \/ /\ FindId(id) \in 1 .. Len(login)
              /\ login[FindId(id)].acc.id = id
<1> DEFINE I == {i \in 1 .. Len(login) : login[i].acc.id = id}
<1>1. FindId(id) = IF I # {} THEN Min(I) ELSE 0
  BY DEF FindId, SelectInSeq
<1>2. I # {} => Min(I) \in I
  <2>1. I \in SUBSET Nat
    OBVIOUS
  <2> HIDE DEF I
  <2> QED
    BY <2>1, LeastNumber
<1> QED
  BY <1>1, <1>2

LEMMA FindLoginFacts ==
    ASSUME Len(file) \in Nat, NEW tel
    PROVE  FindLogin(tel) = 0 \/ FindLogin(tel) \in 1 .. Len(file)
<1> DEFINE I == {i \in 1 .. Len(file) : file[i].tel = tel}
<1>1. FindLogin(tel) = IF I # {} THEN Min(I) ELSE 0
  BY DEF FindLogin, SelectInSeq
<1>2. I # {} => Min(I) \in I
  <2>1. I \in SUBSET Nat
    OBVIOUS
  <2> HIDE DEF I
  <2> QED
    BY <2>1, LeastNumber
<1> QED
  BY <1>1, <1>2

LEMMA RemoveFacts ==
    ASSUME NEW S, NEW s \in Seq(S), NEW i \in 1 .. Len(s)
    PROVE  /\ RemoveAt(s, i) \in Seq(S)
           /\ Len(RemoveAt(s, i)) = Len(s) - 1
           /\ \A j \in 1 .. Len(s) - 1 :
                RemoveAt(s, i)[j] = IF j < i THEN s[j] ELSE s[j + 1]
<1> DEFINE front == SubSeq(s, 1, i - 1)
           back  == SubSeq(s, i + 1, Len(s))
<1>1. Len(s) \in Nat /\ i \in Nat /\ 1 <= i /\ i <= Len(s)
  OBVIOUS
<1>2. /\ front \in Seq(S) /\ Len(front) = i - 1
      /\ \A j \in 1 .. i - 1 : front[j] = s[j]
  BY <1>1
<1>3. /\ back \in Seq(S) /\ Len(back) = Len(s) - i
      /\ \A j \in 1 .. Len(s) - i : back[j] = s[i + j]
  BY <1>1
<1>4. RemoveAt(s, i) = front \o back
  BY DEF RemoveAt
<1> HIDE DEF front, back
<1>5. /\ front \o back \in Seq(S) /\ Len(front \o back) = Len(s) - 1
      /\ \A j \in 1 .. Len(front) + Len(back) :
            (front \o back)[j] = IF j <= Len(front) THEN front[j] ELSE back[j - Len(front)]
  <2>1. front \in Seq(S) /\ back \in Seq(S)
    BY <1>2, <1>3
  <2>2. /\ front \o back \in Seq(S) /\ Len(front \o back) = Len(front) + Len(back)
        /\ \A j \in 1 .. Len(front) + Len(back) :
              (front \o back)[j] = IF j <= Len(front) THEN front[j] ELSE back[j - Len(front)]
    BY <2>1, ConcatProperties
  <2> QED
    BY <1>1, <1>2, <1>3, <2>2
<1>6. ASSUME NEW j \in 1 .. Len(s) - 1
      PROVE  RemoveAt(s, i)[j] = IF j < i THEN s[j] ELSE s[j + 1]
  <2>1. CASE j < i
    BY <1>1, <1>2, <1>3, <1>4, <1>5, <2>1
  <2>2. CASE ~(j < i)
    <3>1. j - (i - 1) \in 1 .. Len(s) - i /\ i + (j - (i - 1)) = j + 1
      BY <1>1, <2>2
    <3>2. RemoveAt(s, i)[j] = back[j - (i - 1)]
      BY <1>1, <1>2, <1>3, <1>4, <1>5, <2>2
    <3> QED
      BY <1>3, <2>2, <3>1, <3>2
  <2> QED
    BY <2>1, <2>2
<1> QED
  BY <1>4, <1>5, <1>6

LEMMA PutFirstFacts ==
    ASSUME NEW S, NEW s \in Seq(S), NEW x \in S
    PROVE  /\ <<x>> \o s \in Seq(S)
           /\ Len(<<x>> \o s) = Len(s) + 1
           /\ (<<x>> \o s)[1] = x
           /\ \A j \in 1 .. Len(s) : (<<x>> \o s)[j + 1] = s[j]
<1>1. <<x>> \in Seq(S) /\ Len(<<x>>) = 1 /\ <<x>>[1] = x
  OBVIOUS
<1> QED
  BY <1>1, ConcatProperties

LEMMA IntervalSize ==
    ASSUME NEW n \in Nat
    PROVE  IsFiniteSet(1 .. n) /\ Cardinality(1 .. n) = n
<1>1. 1 \in Int /\ n \in Int
  OBVIOUS
<1>2. /\ IsFiniteSet(1 .. n)
      /\ Cardinality(1 .. n) = IF 1 > n THEN 0 ELSE n - 1 + 1
  BY <1>1, FS_Interval
<1> QED
  BY <1>2

LEMMA Pigeons ==
    ASSUME NEW n \in Nat, NEW f \in [1 .. n + 1 -> 1 .. n]
    PROVE  \E x, y \in 1 .. n + 1 : x # y /\ f[x] = f[y]
<1>1. /\ IsFiniteSet(1 .. n) /\ IsFiniteSet(1 .. n + 1)
      /\ Cardinality(1 .. n) < Cardinality(1 .. n + 1)
  BY IntervalSize
<1> QED
  BY <1>1, FS_PigeonHole

\* A list of n nodes leaves one of n + 1 addresses free.
LEMMA FreshFacts ==
    ASSUME NEW list, Len(list) \in Nat, DOMAIN list = 1 .. Len(list)
    PROVE  /\ Fresh(list) \in 1 .. Len(list) + 1
           /\ \A i \in 1 .. Len(list) : list[i].addr # Fresh(list)
<1> DEFINE n == Len(list)
<1>1. \E a \in 1 .. n + 1 : \A i \in 1 .. n : list[i].addr # a
  <2> SUFFICES ASSUME \A a \in 1 .. n + 1 : \E i \in 1 .. n : list[i].addr = a
               PROVE  FALSE
    OBVIOUS
  <2> DEFINE f == [a \in 1 .. n + 1 |-> CHOOSE i \in 1 .. n : list[i].addr = a]
  <2>1. \A a \in 1 .. n + 1 : f[a] \in 1 .. n /\ list[f[a]].addr = a
    OBVIOUS
  <2>2. f \in [1 .. n + 1 -> 1 .. n]
    BY <2>1
  <2>3. \E x, y \in 1 .. n + 1 : x # y /\ f[x] = f[y]
    <3> HIDE DEF f
    <3> QED
      BY <2>2, Pigeons
  <2> QED
    BY <2>1, <2>3
<1> QED
  BY <1>1 DEF Fresh
-----------------------------------------------------------------------------
(* What a handler holds. *)

Walking  == [at : {"walk"}, tel : Tel, num : Usernum \union {Empty}, addr : Nat]
Search   == [at : {"search", "number", "copy"}, tel : Tel, num : Usernum \union {Empty}]
Adding   == [at : {"add"}, tel : Tel, num : Usernum \union Nat]
Inserted == [at : {"link"}, node : TmpNode, next : TmpNode \union {Nil}]
Holding  == [at : {"verified", "read"}, acc : Account, host : Host]
Changing == [at : {"compare", "write"}, addr : Nat, host : Host, passwd : Value,
             field : Field, new : New]

LEMMA StepFacts ==
    ASSUME NEW s \in Step
    PROVE  /\ s.at = "walk" => s \in Walking
           /\ s.at \in {"search", "number", "copy"} => s \in Search
           /\ s.at = "add" => s \in Adding
           /\ s.at = "link" => s \in Inserted
           /\ s.at \in {"verified", "read"} => s \in Holding
           /\ s.at \in {"compare", "write"} => s \in Changing
  BY DEF Step, Idle, Walking, Search, Adding, Inserted, Holding, Changing

LEMMA Steps ==
    /\ Idle \in Step /\ [at |-> "spin"] \in Step /\ [at |-> "stuck"] \in Step
    /\ Walking \subseteq Step /\ Search \subseteq Step /\ Adding \subseteq Step
    /\ Inserted \subseteq Step /\ Holding \subseteq Step /\ Changing \subseteq Step
  BY DEF Step, Walking, Search, Adding, Inserted, Holding, Changing

LEMMA GotoFacts ==
    ASSUME TypeOK, NEW w \in Worker, NEW step \in Step, Goto(w, step)
    PROVE  /\ call' \in [Worker -> Step]
           /\ call'[w] = step
           /\ \A v \in Worker \ {w} : call'[v] = call[v]
  BY DEF TypeOK, Goto

\* No handler takes an account into its hand or lets go of a new one; no
\* handler begins to link a node.
HandsAlone ==
    \A v \in Worker :
        /\ call'[v].at \in {"verified", "read"} => call'[v] = call[v]
        /\ call[v].at = "verified" => call'[v] = call[v]
LinksAlone == \A v \in Worker : call'[v].at = "link" => call'[v] = call[v]

LEMMA GotoHandsAlone ==
    ASSUME TypeOK, NEW w \in Worker, NEW step \in Step, Goto(w, step),
           step.at \notin {"verified", "read"}, call[w].at # "verified"
    PROVE  HandsAlone
<1>1. call'[w] = step /\ \A v \in Worker \ {w} : call'[v] = call[v]
  BY GotoFacts
<1> SUFFICES ASSUME NEW v \in Worker
             PROVE  /\ call'[v].at \in {"verified", "read"} => call'[v] = call[v]
                    /\ call[v].at = "verified" => call'[v] = call[v]
  BY DEF HandsAlone
<1>2. CASE v = w
  BY <1>1, <1>2
<1>3. CASE v # w
  BY <1>1, <1>3
<1> QED
  BY <1>2, <1>3

LEMMA GotoLinksAlone ==
    ASSUME TypeOK, NEW w \in Worker, NEW step \in Step, Goto(w, step), step.at # "link"
    PROVE  LinksAlone
<1>1. call'[w] = step /\ \A v \in Worker \ {w} : call'[v] = call[v]
  BY GotoFacts
<1> QED
  BY <1>1 DEF LinksAlone

\* As long as the lists, the files and the hands stay, so do the accounts.
LEMMA AccountsAlone ==
    ASSUME IInv, UNCHANGED <<login, file, granted>>, raced => raced', HandsAlone
    PROVE  /\ OneAccountPerCode' /\ AllKnown' /\ NewInHand' /\ OneNodePerAccount'
           /\ Kept' /\ OneRecord' /\ Addresses'
<1>1. OneNodePerAccount' /\ OneRecord' /\ Addresses'
  BY DEF IInv, OneNodePerAccount, OneRecord, Addresses
<1>2. OneAccountPerCode'
  BY DEF IInv, OneAccountPerCode
<1>3. \A v \in Hands' : v \in Hands /\ call'[v].acc = call[v].acc
  BY DEF HandsAlone, Hands
<1>4. AllKnown'
  BY <1>3 DEF IInv, AllKnown, Known
<1>5. NewInHand'
  BY <1>3 DEF IInv, NewInHand, HandsAlone, Same
<1>6. \A id : Stored(id) => Stored(id)'
  BY DEF Stored, HandsAlone
<1>7. Kept'
  BY <1>6 DEF IInv, Kept
<1> QED
  BY <1>1, <1>2, <1>4, <1>5, <1>7

\* As long as the temporary list stays, so do the keys.
LEMMA KeysAlone ==
    ASSUME IInv, UNCHANGED <<tmp, raced, made, granted, curmaxid>>, LinksAlone
    PROVE  KeysOK' /\ KeysOnce'
<1>1. \A v \in Linking' : v \in Linking /\ call'[v] = call[v]
  BY DEF LinksAlone, Linking
<1>2. KeysOK /\ KeysOnce
  BY DEF IInv
<1> QED
  BY <1>1, <1>2 DEF KeysOK, KeysOnce

Stages == {"running", "closed", "cleared", "joining", "destroyed", "ended"}

\* A step of a handler that changes neither the lists nor the accounts.
LEMMA CallOnly ==
    ASSUME IInv, NEW w \in Worker, NEW step \in Step, Goto(w, step),
           step.at \notin {"verified", "read", "link"}, call[w].at # "verified",
           UNCHANGED <<tmp, raced, login, file, curmaxid, made, granted, sweep>>,
           filelocked' \in BOOLEAN, curmaxnum' \in Nat, dead' \in BOOLEAN,
           stage' \in Stages, left' \subseteq Worker
    PROVE  IInv'
<1>1. TypeOK
  BY DEF IInv
<1>2. HandsAlone /\ LinksAlone
  BY <1>1, GotoHandsAlone, GotoLinksAlone
<1>3. TypeOK'
  BY <1>1, GotoFacts DEF TypeOK, Stages
<1> QED
  BY <1>2, <1>3, AccountsAlone, KeysAlone DEF IInv

LEMMA UndefinedType ==
    ASSUME NEW happens, Undefined(happens)
    PROVE  dead' \in BOOLEAN
  BY DEF Undefined

-----------------------------------------------------------------------------
(* The invariant at first. *)

LEMMA InvInit == Init => IInv
<1> SUFFICES ASSUME Init PROVE IInv
  OBVIOUS
<1> USE DEF Init
<1>1. /\ Len(login) = 0 /\ DOMAIN login = {} /\ DOMAIN tmp = {}
      /\ \A w \in Worker : call[w].at = "idle"
  BY DEF Idle
<1>2. \A tel \in FormerTel, id \in Nat :
        Former(tel, id) \in Account /\ Former(tel, id).key = 0 /\ Former(tel, id).id = id
  BY ServerAssumption DEF Former, Account
<1>3. /\ file \in Seq(Account)
      /\ \A i \in DOMAIN file : file[i].key = 0
      /\ \A i, j \in DOMAIN file : file[i].id = file[j].id => i = j
  <2>1. CASE file = <<>>
    BY <2>1
  <2>2. ASSUME NEW tel \in FormerTel, file = <<Former(tel, 0)>>
        PROVE  /\ file \in Seq(Account)
               /\ \A i \in DOMAIN file : file[i].key = 0
               /\ \A i, j \in DOMAIN file : file[i].id = file[j].id => i = j
    <3>1. DOMAIN file = {1} /\ file[1] = Former(tel, 0) /\ Former(tel, 0) \in Account
      BY <1>2, <2>2
    <3>2. file \in Seq(Account)
      BY <2>2, <3>1
    <3> QED
      BY <1>2, <3>1, <3>2
  <2>3. ASSUME NEW s \in FormerTel, NEW t \in FormerTel,
               file = <<Former(s, 1), Former(t, 0)>>
        PROVE  /\ file \in Seq(Account)
               /\ \A i \in DOMAIN file : file[i].key = 0
               /\ \A i, j \in DOMAIN file : file[i].id = file[j].id => i = j
    <3> DEFINE a == Former(s, 1)
               b == Former(t, 0)
    <3>1. /\ a \in Account /\ a.key = 0 /\ a.id = 1
          /\ b \in Account /\ b.key = 0 /\ b.id = 0
      BY <1>2
    <3>2. file = <<a, b>>
      BY <2>3
    <3> HIDE DEF a, b
    <3>3. DOMAIN file = {1, 2} /\ file[1] = a /\ file[2] = b
      BY <3>2
    <3>4. file \in Seq(Account)
      BY <3>1, <3>2
    <3> QED
      BY <3>1, <3>3, <3>4
  <2> QED
    BY <2>1, <2>2, <2>3 DEF FormerFiles
<1>4. TypeOK
  <2>1. tmp \in Seq(TmpNode) /\ login \in Seq(Login)
    OBVIOUS
  <2>2. call \in [Worker -> Step]
    BY Steps
  <2> QED
    BY <1>3, <2>1, <2>2 DEF TypeOK
<1>5. KeysOK /\ KeysOnce /\ OneAccountPerCode /\ OneNodePerAccount /\ Addresses
  BY <1>1 DEF KeysOK, KeysOnce, Linking, OneAccountPerCode, OneNodePerAccount, Addresses
<1>6. AllKnown /\ NewInHand /\ Kept /\ OneRecord
  BY <1>1, <1>3 DEF AllKnown, Known, NewInHand, Hands, Kept, OneRecord
<1> QED
  BY <1>4, <1>5, <1>6 DEF IInv

-----------------------------------------------------------------------------
(* Steps that leave the accounts where they are. *)

LEMMA InvCreate ==
    ASSUME IInv, NEW w \in Worker, NEW tel \in Tel, NEW num \in Usernum \union {Empty},
           Create(w, tel, num)
    PROVE  IInv'
<1> DEFINE step == IF login = <<>> THEN [at |-> "search", tel |-> tel, num |-> num]
                   ELSE [at |-> "walk", tel |-> tel, num |-> num, addr |-> Head(login).addr]
<1>1. TypeOK /\ call[w].at = "idle" /\ login \in Seq(Login)
  BY DEF IInv, TypeOK, Create, Begin
<1>2. login # <<>> => Head(login).addr \in Nat
  <2>1. login # <<>> => Head(login) \in Login
    BY <1>1
  <2> QED
    BY <2>1 DEF Login
<1>3. step \in Search \union Walking
  BY <1>2 DEF Search, Walking
<1>4. Goto(w, step)
  BY DEF Create
<1> HIDE DEF step
<1>5. step \in Step /\ step.at \notin {"verified", "read", "link"}
  BY <1>3, Steps DEF Search, Walking
<1>6. /\ UNCHANGED <<tmp, raced, login, file, curmaxid, made, granted, sweep>>
      /\ UNCHANGED <<filelocked, curmaxnum, dead, stage, left>>
  BY DEF Create, Rest, lists, files, numbers, history
<1> QED
  BY <1>1, <1>4, <1>5, <1>6, CallOnly DEF TypeOK, Stages

LEMMA InvWalk ==
    ASSUME IInv, NEW w \in Worker, Walk(w)
    PROVE  IInv'
<1> DEFINE i == Position(call[w].addr)
           search == [at |-> "search", tel |-> call[w].tel, num |-> call[w].num]
<1>1. /\ TypeOK /\ call[w] \in Walking /\ call[w].at = "walk"
      /\ login \in Seq(Login) /\ Len(login) \in Nat /\ DOMAIN login = 1 .. Len(login)
  BY StepFacts, LenProperties DEF IInv, TypeOK, Walk, At
<1>2. PICK step \in Search \union Walking \union {Idle} : Goto(w, step)
  <2>1. search \in Search
    BY <1>1 DEF Search, Walking
  <2>2. CASE i = 0
    BY <2>1, <2>2 DEF Walk, Return
  <2>3. CASE i # 0
    <3>1. i \in 1 .. Len(login)
      BY <1>1, <2>3, PositionFacts
    <3>2. i # Len(login) => [call[w] EXCEPT !.addr = login[i + 1].addr] \in Walking
      <4>1. i # Len(login) => login[i + 1] \in Login
        BY <1>1, <3>1, ElementOfSeq
      <4>2. i # Len(login) => login[i + 1].addr \in Nat
        BY <4>1 DEF Login
      <4> QED
        BY <1>1, <4>2 DEF Walking
    <3>3. CASE login[i].acc.tel = call[w].tel
      BY <2>3, <3>3 DEF Walk
    <3>4. CASE login[i].acc.tel # call[w].tel /\ i = Len(login)
      BY <2>1, <2>3, <3>4 DEF Walk
    <3>5. CASE login[i].acc.tel # call[w].tel /\ i # Len(login)
      <4>1. Goto(w, [call[w] EXCEPT !.addr = login[i + 1].addr])
        BY <2>3, <3>5 DEF Walk
      <4> QED
        BY <3>2, <3>5, <4>1
    <3> QED
      BY <3>3, <3>4, <3>5
  <2> QED
    BY <2>2, <2>3
<1>3. step \in Step /\ step.at \notin {"verified", "read", "link"}
  BY <1>2, Steps DEF Search, Walking, Idle
<1>4. dead' \in BOOLEAN
  BY UndefinedType DEF Walk
<1>5. /\ UNCHANGED <<tmp, raced, login, file, curmaxid, made, granted, sweep>>
      /\ UNCHANGED <<filelocked, curmaxnum, stage, left>>
  BY DEF Walk, Rest, lists, files, numbers, history
<1> QED
  BY <1>1, <1>2, <1>3, <1>4, <1>5, CallOnly DEF TypeOK, Stages

LEMMA InvSearchFile ==
    ASSUME IInv, NEW w \in Worker, SearchFile(w)
    PROVE  IInv'
<1>1. TypeOK /\ call[w] \in Search /\ call[w].at = "search"
  BY StepFacts DEF IInv, TypeOK, SearchFile, At
<1>2. PICK step \in Search \union Adding \union {Idle} : Goto(w, step)
  <2>1. CASE stage # "running"
    <3>1. Goto(w, call[w])
      BY <1>1, <2>1 DEF Goto, TypeOK, SearchFile
    <3> QED
      BY <1>1, <3>1
  <2>2. CASE stage = "running" /\ FindLogin(call[w].tel) # 0
    BY <2>2 DEF SearchFile
  <2>3. CASE stage = "running" /\ FindLogin(call[w].tel) = 0 /\ call[w].num = Empty
    <3>1. Goto(w, [call[w] EXCEPT !.at = "number"])
      BY <2>3 DEF SearchFile
    <3>2. [call[w] EXCEPT !.at = "number"] \in Search
      BY <1>1 DEF Search
    <3> QED
      BY <3>1, <3>2
  <2>4. CASE stage = "running" /\ FindLogin(call[w].tel) = 0 /\ call[w].num # Empty
    <3>1. Goto(w, [call[w] EXCEPT !.at = "add"])
      BY <2>4 DEF SearchFile
    <3>2. [call[w] EXCEPT !.at = "add"] \in Adding
      BY <1>1, <2>4 DEF Search, Adding
    <3> QED
      BY <3>1, <3>2
  <2> QED
    BY <2>1, <2>2, <2>3, <2>4
<1>3. step \in Step /\ step.at \notin {"verified", "read", "link"}
  BY <1>2, Steps DEF Search, Adding, Idle
<1>4. dead' \in BOOLEAN
  BY <1>1 DEF SearchFile, TypeOK
<1>5. /\ UNCHANGED <<tmp, raced, login, file, curmaxid, made, granted, sweep>>
      /\ UNCHANGED <<filelocked, curmaxnum, stage, left>>
  BY DEF SearchFile, Rest, lists, files, numbers, history
<1> QED
  BY <1>1, <1>2, <1>3, <1>4, <1>5, CallOnly DEF TypeOK, Stages

LEMMA InvNextNumber ==
    ASSUME IInv, NEW w \in Worker, NextNumber(w)
    PROVE  IInv'
<1> DEFINE step == [call[w] EXCEPT !.at = "copy"]
<1>1. TypeOK /\ call[w] \in Search /\ call[w].at = "number"
  BY StepFacts DEF IInv, TypeOK, NextNumber, At
<1>2. step \in Search /\ step.at = "copy" /\ Goto(w, step)
  BY <1>1 DEF NextNumber, Search
<1> HIDE DEF step
<1>3. /\ UNCHANGED <<tmp, raced, login, file, curmaxid, made, granted, sweep>>
      /\ UNCHANGED <<filelocked, dead, stage, left>> /\ curmaxnum' \in Nat
  BY <1>1 DEF NextNumber, Rest, lists, files, history, TypeOK
<1> QED
  BY <1>1, <1>2, <1>3, CallOnly, Steps DEF TypeOK, Stages

LEMMA InvCopyNumber ==
    ASSUME IInv, NEW w \in Worker, CopyNumber(w)
    PROVE  IInv'
<1> DEFINE step == [call[w] EXCEPT !.at = "add", !.num = curmaxnum]
<1>1. TypeOK /\ call[w] \in Search /\ call[w].at = "copy"
  BY StepFacts DEF IInv, TypeOK, CopyNumber, At
<1>2. step \in Adding /\ step.at = "add" /\ Goto(w, step)
  BY <1>1 DEF CopyNumber, Search, Adding, TypeOK
<1> HIDE DEF step
<1>3. /\ UNCHANGED <<tmp, raced, login, file, curmaxid, made, granted, sweep>>
      /\ UNCHANGED <<filelocked, curmaxnum, dead, stage, left>>
  BY DEF CopyNumber, Rest, lists, files, numbers, history
<1> QED
  BY <1>1, <1>2, <1>3, CallOnly, Steps DEF TypeOK, Stages

\* The key of a new node is new, wherever its link leads.
LEMMA InvAddTmp ==
    ASSUME IInv, NEW w \in Worker, AddTmp(w)
    PROVE  IInv'
<1> DEFINE node == [key |-> made, tel |-> call[w].tel, num |-> call[w].num,
                    old |-> FALSE, freed |-> FALSE]
           step == [at |-> "link", next |-> Head1, node |-> node]
<1>1. /\ TypeOK /\ KeysOK /\ KeysOnce /\ call[w] \in Adding /\ call[w].at = "add"
      /\ tmp \in Seq(TmpNode) /\ made \in Nat \ {0}
  BY StepFacts DEF IInv, TypeOK, AddTmp, At, KeysOK
<1>2. node \in TmpNode /\ node.key = made
  BY <1>1 DEF TmpNode, Adding
<1>3. /\ Head1 \in TmpNode \union {Nil}
      /\ Head1 # Nil => Head1.key \in 1 .. made - 1
  <2>1. tmp # <<>> => Head(tmp) = tmp[1] /\ 1 \in DOMAIN tmp /\ tmp[1] \in TmpNode
    BY <1>1
  <2>2. \A i \in DOMAIN tmp : tmp[i].key \in 1 .. made - 1
    BY <1>1 DEF KeysOK
  <2>3. CASE tmp = <<>>
    BY <2>3 DEF Head1
  <2>4. CASE tmp # <<>>
    BY <2>1, <2>2, <2>4 DEF Head1
  <2> QED
    BY <2>3, <2>4
<1>4. Goto(w, step) /\ made' = made + 1
  BY DEF AddTmp
<1> HIDE DEF node
<1>5. step \in Inserted /\ step.at = "link" /\ step.node = node /\ step.next = Head1
  BY <1>2, <1>3 DEF Inserted
<1> HIDE DEF step
<1>6. /\ call' \in [Worker -> Step] /\ call'[w] = step
      /\ \A v \in Worker \ {w} : call'[v] = call[v]
  BY <1>1, <1>4, <1>5, GotoFacts, Steps
<1>7. HandsAlone
  BY <1>1, <1>4, <1>5, GotoHandsAlone, Steps
<1>8. /\ UNCHANGED <<tmp, raced, login, file, filelocked, curmaxid, curmaxnum, granted>>
      /\ UNCHANGED <<dead, stage, left, sweep>>
  BY DEF AddTmp, Rest, lists, files, history
<1>9. TypeOK'
  BY <1>1, <1>6, <1>8 DEF TypeOK
<1>10. Linking' = Linking \union {w} /\ \A v \in Linking : call'[v] = call[v]
  BY <1>1, <1>5, <1>6 DEF Linking
<1>11. KeysOK'
  <2>1. \A n \in 1 .. made - 1 : n \in 1 .. made' - 1
    BY <1>1, <1>4
  <2>2. made' \in Nat \ {0} /\ made \in 1 .. made' - 1
    BY <1>1, <1>4
  <2>3. \A i \in DOMAIN tmp' : tmp'[i].key \in 1 .. made' - 1
    BY <1>1, <1>8, <2>1 DEF KeysOK
  <2>4. \A a \in granted' : a.id < curmaxid' /\ a.key \in 1 .. made' - 1
    BY <1>1, <1>8, <2>1 DEF KeysOK
  <2>5. ASSUME NEW v \in Linking'
        PROVE  /\ call'[v].node.key \in 1 .. made' - 1
               /\ call'[v].next # Nil => call'[v].next.key \in 1 .. made' - 1
    <3>1. CASE v = w
      BY <1>2, <1>3, <1>5, <1>6, <2>1, <2>2, <3>1
    <3>2. CASE v \in Linking /\ v # w
      BY <1>1, <1>10, <2>1, <3>2 DEF KeysOK
    <3> QED
      BY <1>10, <3>1, <3>2
  <2> QED
    BY <2>2, <2>3, <2>4, <2>5 DEF KeysOK
<1>12. KeysOnce'
  <2> SUFFICES ASSUME ~raced
               PROVE  \A v \in Linking' :
                        /\ \A i \in DOMAIN tmp : tmp[i].key # call'[v].node.key
                        /\ \A a \in granted : a.key # call'[v].node.key
    BY <1>1, <1>8 DEF KeysOnce
  <2>1. /\ \A i \in DOMAIN tmp : tmp[i].key # made
        /\ \A a \in granted : a.key # made
    BY <1>1 DEF KeysOK
  <2> TAKE v \in Linking'
  <2>2. CASE v = w
    BY <1>2, <1>5, <1>6, <2>1, <2>2
  <2>3. CASE v \in Linking /\ v # w
    BY <1>1, <1>10, <2>3 DEF KeysOnce
  <2> QED
    BY <1>10, <2>2, <2>3
<1> QED
  BY <1>7, <1>8, <1>9, <1>11, <1>12, AccountsAlone DEF IInv

\* What a new node is put in front of: nodes of the list, or one that was freed.
LEMMA BehindFacts ==
    ASSUME IInv, NEW next, next # Nil => next \in TmpNode /\ next.key \in 1 .. made - 1,
           NEW behind \in Behind(next)
    PROVE  /\ behind \in Seq(TmpNode)
           /\ \A j \in DOMAIN behind : behind[j].key \in 1 .. made - 1
           /\ /\ ~raced /\ (next = Nil <=> tmp = <<>>)
              /\ tmp # <<>> => Head(tmp).key = next.key
              => /\ DOMAIN behind = DOMAIN tmp
                 /\ \A j \in DOMAIN behind : behind[j] = tmp[j]
<1> DEFINE i == TmpPosition(next.key)
<1>1. /\ TypeOK /\ KeysOK /\ KeysOnce /\ tmp \in Seq(TmpNode)
      /\ Len(tmp) \in Nat /\ DOMAIN tmp = 1 .. Len(tmp)
  BY LenProperties DEF IInv, TypeOK
<1>2. \A k \in DOMAIN tmp : tmp[k].key \in 1 .. made - 1
  BY <1>1 DEF KeysOK
<1>3. CASE next = Nil
  <2>1. behind = <<>>
    BY <1>3 DEF Behind
  <2>2. behind \in Seq(TmpNode) /\ DOMAIN behind = {}
    BY <2>1
  <2> QED
    BY <1>3, <2>2
<1>4. CASE next # Nil /\ i # 0
  <2>1. i \in 1 .. Len(tmp) /\ tmp[i].key = next.key
    BY <1>1, <1>4, TmpPositionFacts
  <2>2. behind = SubSeq(tmp, i, Len(tmp))
    BY <1>4 DEF Behind
  <2>3. (tmp # <<>> => Head(tmp).key = next.key) /\ ~raced => i = 1
    <3>1. tmp # <<>> /\ Head(tmp) = tmp[1] /\ 1 \in DOMAIN tmp
      BY <1>1, <2>1
    <3> QED
      BY <1>1, <2>1, <3>1 DEF KeysOnce
  <2> HIDE DEF i
  <2>4. /\ behind \in Seq(TmpNode) /\ Len(behind) = Len(tmp) - i + 1
        /\ \A j \in 1 .. Len(tmp) - i + 1 : behind[j] = tmp[i + j - 1]
    BY <1>1, <2>1, <2>2
  <2>5. DOMAIN behind = 1 .. Len(tmp) - i + 1
    BY <2>4, LenProperties
  <2>6. \A j \in DOMAIN behind : i + j - 1 \in DOMAIN tmp /\ behind[j] = tmp[i + j - 1]
    BY <1>1, <2>1, <2>4, <2>5
  <2>7. i = 1 => DOMAIN behind = DOMAIN tmp /\ \A j \in DOMAIN behind : behind[j] = tmp[j]
    <3> SUFFICES ASSUME i = 1
                 PROVE  DOMAIN behind = DOMAIN tmp /\ \A j \in DOMAIN behind : behind[j] = tmp[j]
      OBVIOUS
    <3>1. DOMAIN behind = DOMAIN tmp
      BY <1>1, <2>5
    <3>2. \A j \in DOMAIN behind : i + j - 1 = j
      BY <2>5
    <3> QED
      BY <2>6, <3>1, <3>2
  <2> QED
    BY <1>2, <2>3, <2>4, <2>6, <2>7
<1>5. CASE next # Nil /\ i = 0
  <2> DEFINE f == [next EXCEPT !.freed = TRUE]
  <2>1. f \in TmpNode /\ f.key = next.key
    BY <1>5 DEF TmpNode
  <2>2. behind = tmp \/ behind = <<f>>
    BY <1>5 DEF Behind
  <2> HIDE DEF f
  <2>3. behind = <<f>> => behind \in Seq(TmpNode) /\ DOMAIN behind = {1} /\ behind[1] = f
    BY <2>1
  <2>4. /\ behind \in Seq(TmpNode)
        /\ \A j \in DOMAIN behind : behind[j].key \in 1 .. made - 1
    BY <1>1, <1>2, <1>5, <2>1, <2>2, <2>3
  <2>5. tmp = <<>> \/ Head(tmp).key # next.key
    <3> SUFFICES ASSUME tmp # <<>> PROVE Head(tmp).key # next.key
      OBVIOUS
    <3>1. Head(tmp) = tmp[1] /\ 1 \in 1 .. Len(tmp)
      BY <1>1
    <3> DEFINE I == {k \in 1 .. Len(tmp) : tmp[k].key = next.key}
    <3>2. i = IF I # {} THEN Min(I) ELSE 0
      BY DEF TmpPosition, SelectInSeq
    <3>3. I # {} => Min(I) \in I
      <4>1. I \in SUBSET Nat
        OBVIOUS
      <4> HIDE DEF I
      <4> QED
        BY <4>1, LeastNumber
    <3>4. I = {}
      BY <1>1, <1>5, <3>2, <3>3
    <3> QED
      BY <3>1, <3>4
  <2> QED
    BY <1>5, <2>4, <2>5
<1> QED
  BY <1>3, <1>4, <1>5

LEMMA InvLinkTmp ==
    ASSUME IInv, NEW w \in Worker, LinkTmp(w)
    PROVE  IInv'
<1> DEFINE node == call[w].node
           next == call[w].next
<1>1. /\ TypeOK /\ KeysOK /\ KeysOnce /\ call[w] \in Inserted /\ call[w].at = "link"
      /\ w \in Linking /\ raced \in BOOLEAN
  BY StepFacts DEF IInv, TypeOK, LinkTmp, At, Linking
<1>2. /\ node \in TmpNode /\ node.key \in 1 .. made - 1
      /\ next # Nil => next \in TmpNode /\ next.key \in 1 .. made - 1
  BY <1>1 DEF Inserted, KeysOK
<1>3. PICK behind \in Behind(next) : tmp' = <<node>> \o behind
  BY DEF LinkTmp
<1>4. /\ raced' \in BOOLEAN /\ (raced => raced')
      /\ ~raced' => /\ ~raced /\ Linking = {w} /\ (next = Nil <=> tmp = <<>>)
                    /\ tmp # <<>> => Head(tmp).key = next.key
  BY <1>1 DEF LinkTmp
<1>5. Goto(w, Idle)
  BY DEF LinkTmp, Return
<1>6. /\ UNCHANGED <<login, file, filelocked, curmaxid, curmaxnum, made, granted>>
      /\ UNCHANGED <<stage, dead, left, sweep>>
  BY DEF LinkTmp, Rest, files, numbers, history
<1> HIDE DEF node, next
<1>7. /\ behind \in Seq(TmpNode)
      /\ \A j \in DOMAIN behind : behind[j].key \in 1 .. made - 1
      /\ ~raced' => /\ DOMAIN behind = DOMAIN tmp
                    /\ \A j \in DOMAIN behind : behind[j] = tmp[j]
  BY <1>2, <1>4, BehindFacts
<1>8. /\ tmp' \in Seq(TmpNode) /\ Len(tmp') = Len(behind) + 1 /\ tmp'[1] = node
      /\ \A j \in 1 .. Len(behind) : tmp'[j + 1] = behind[j]
  BY <1>2, <1>3, <1>7, PutFirstFacts
<1>9. /\ Len(behind) \in Nat /\ DOMAIN behind = 1 .. Len(behind)
      /\ DOMAIN tmp' = 1 .. Len(behind) + 1
  BY <1>7, <1>8, LenProperties
<1>10. \A j \in DOMAIN tmp' : \/ j = 1 /\ tmp'[j] = node
                              \/ j - 1 \in DOMAIN behind /\ tmp'[j] = behind[j - 1]
  BY <1>8, <1>9
<1>11. /\ call' \in [Worker -> Step] /\ call'[w] = Idle
       /\ \A v \in Worker \ {w} : call'[v] = call[v]
  BY <1>1, <1>5, GotoFacts, Steps
<1>12. HandsAlone /\ LinksAlone
  BY <1>1, <1>5, GotoHandsAlone, GotoLinksAlone, Steps DEF Idle
<1>13. TypeOK'
  BY <1>1, <1>4, <1>6, <1>8, <1>11 DEF TypeOK
<1>14. \A v \in Linking' : v \in Linking \ {w} /\ call'[v] = call[v]
  BY <1>11 DEF Linking, Idle
<1>15. KeysOK'
  <2>1. \A i \in DOMAIN tmp' : tmp'[i].key \in 1 .. made - 1
    BY <1>2, <1>7, <1>10
  <2> QED
    BY <1>1, <1>6, <1>14, <2>1 DEF KeysOK
<1>16. KeysOnce'
  <2> SUFFICES ASSUME ~raced'
               PROVE  /\ \A i, j \in DOMAIN tmp' : tmp'[i].key = tmp'[j].key => i = j
                      /\ \A a \in granted : \A i \in DOMAIN tmp' : tmp'[i].key # a.key
                      /\ Linking' = {}
    BY <1>6 DEF KeysOnce
  <2>1. Linking' = {}
    BY <1>4, <1>14
  <2>2. /\ \A i, j \in DOMAIN tmp : tmp[i].key = tmp[j].key => i = j
        /\ \A a \in granted : \A i \in DOMAIN tmp : tmp[i].key # a.key
        /\ \A i \in DOMAIN tmp : tmp[i].key # node.key
        /\ \A a \in granted : a.key # node.key
    BY <1>1, <1>4 DEF KeysOnce, node
  <2>3. \A j \in DOMAIN tmp' : \/ j = 1 /\ tmp'[j] = node
                               \/ j - 1 \in DOMAIN tmp /\ tmp'[j] = tmp[j - 1]
    BY <1>7, <1>10
  <2>4. \A j \in DOMAIN tmp' : j \in Nat
    BY <1>9
  <2>5. ASSUME NEW i \in DOMAIN tmp', NEW j \in DOMAIN tmp', tmp'[i].key = tmp'[j].key
        PROVE  i = j
    <3>1. CASE i = 1 \/ j = 1
      BY <2>2, <2>3, <2>4, <2>5, <3>1
    <3>2. CASE i # 1 /\ j # 1
      <4>1. i - 1 = j - 1
        BY <2>2, <2>3, <2>5, <3>2
      <4> QED
        BY <2>4, <4>1
    <3> QED
      BY <3>1, <3>2
  <2>6. \A a \in granted : \A i \in DOMAIN tmp' : tmp'[i].key # a.key
    BY <2>2, <2>3
  <2> QED
    BY <2>1, <2>5, <2>6
<1> QED
  BY <1>4, <1>6, <1>12, <1>13, <1>15, <1>16, AccountsAlone DEF IInv

\* The handlers that change a field keep the address of the node they found.
LEMMA FindVerifiedFacts ==
    ASSUME login \in Seq(Login), NEW id, NEW host, FindVerified(id, host) # Nil
    PROVE  /\ FindVerified(id, host) \in Nat
           /\ \E i \in DOMAIN login :
                login[i].addr = FindVerified(id, host) /\ login[i].host = host
<1>1. FindId(id) # 0 /\ FindVerified(id, host) = login[FindId(id)].addr
      /\ login[FindId(id)].host = host
  BY DEF FindVerified
<1>2. Len(login) \in Nat /\ DOMAIN login = 1 .. Len(login)
  BY LenProperties
<1>3. FindId(id) \in DOMAIN login
  BY <1>1, <1>2, FindIdFacts
<1>4. login[FindId(id)] \in Login
  BY <1>2, <1>3, ElementOfSeq
<1> QED
  BY <1>1, <1>3, <1>4 DEF Login

LEMMA InvChange ==
    ASSUME IInv, NEW w \in Worker, NEW h \in Host, NEW field \in Field, NEW id \in Id,
           NEW passwd \in Value, NEW new \in New, Change(w, h, field, id, passwd, new)
    PROVE  IInv'
<1> DEFINE addr == FindVerified(id, h)
           step == IF addr = Nil THEN Idle
                   ELSE [at |-> "compare", addr |-> addr, host |-> h, passwd |-> passwd,
                         field |-> field, new |-> new]
<1>1. TypeOK /\ call[w].at = "idle"
  BY DEF IInv, Change, Begin
<1>2. step \in Step /\ step.at \notin {"verified", "read", "link"} /\ Goto(w, step)
  <2>1. addr # Nil => addr \in Nat
    BY <1>1, FindVerifiedFacts DEF TypeOK
  <2>2. Goto(w, step)
    BY DEF Change
  <2> HIDE DEF addr
  <2>3. addr # Nil => step \in Changing /\ step.at = "compare"
    BY <2>1 DEF Changing
  <2>4. addr = Nil => step = Idle
    OBVIOUS
  <2> HIDE DEF step
  <2> QED
    BY <2>2, <2>3, <2>4, Steps DEF Idle
<1> HIDE DEF step
<1>3. dead' \in BOOLEAN
  BY UndefinedType DEF Change
<1>4. /\ UNCHANGED <<tmp, raced, login, file, curmaxid, made, granted, sweep>>
      /\ UNCHANGED <<filelocked, curmaxnum, stage>> /\ left' \subseteq Worker
  BY <1>1 DEF Change, Rest, lists, files, numbers, TypeOK
<1> QED
  BY <1>1, <1>2, <1>3, <1>4, CallOnly DEF TypeOK, Stages

LEMMA InvCompare ==
    ASSUME IInv, NEW w \in Worker, Compare(w)
    PROVE  IInv'
<1> DEFINE step == [call[w] EXCEPT !.at = "write"]
<1>1. TypeOK /\ call[w] \in Changing /\ call[w].at = "compare"
  BY StepFacts DEF IInv, TypeOK, Compare, At
<1>2. Goto(w, step) \/ Goto(w, Idle)
  BY DEF Compare, Return
<1>3. step \in Changing /\ step.at = "write"
  BY <1>1 DEF Changing
<1>4. dead' \in BOOLEAN
  BY UndefinedType DEF Compare
<1>5. /\ UNCHANGED <<tmp, raced, login, file, curmaxid, made, granted, sweep>>
      /\ UNCHANGED <<filelocked, curmaxnum, stage, left>>
  BY DEF Compare, Rest, lists, files, numbers, history
<1> HIDE DEF step
<1>6. CASE Goto(w, step)
  BY <1>1, <1>3, <1>4, <1>5, <1>6, CallOnly, Steps DEF TypeOK, Stages
<1>7. CASE Goto(w, Idle)
  <2>1. Idle \in Step /\ Idle.at \notin {"verified", "read", "link"}
    BY Steps DEF Idle
  <2> QED
    BY <1>1, <1>4, <1>5, <1>7, <2>1, CallOnly DEF TypeOK, Stages
<1> QED
  BY <1>2, <1>6, <1>7

\* What the cleaner, the clock and the shutdown change of the temporary list.
LEMMA FewerTmp ==
    ASSUME IInv, UNCHANGED handlers, tmp' \in Seq(TmpNode),
           raced' \in BOOLEAN, raced => raced',
           sweep' \in Nat \union {Nil}, dead' \in BOOLEAN, stage' \in Stages,
           \A i \in DOMAIN tmp' : \E k \in DOMAIN tmp : tmp'[i].key = tmp[k].key,
           ~raced' => \A i, j \in DOMAIN tmp' : tmp'[i].key = tmp'[j].key => i = j
    PROVE  IInv'
<1>1. /\ UNCHANGED <<login, file, filelocked, curmaxid, curmaxnum, made>>
      /\ UNCHANGED <<call, left, granted>>
  BY DEF handlers, files, numbers, history
<1>2. TypeOK'
  BY <1>1 DEF IInv, TypeOK, Stages
<1>3. Linking' = Linking
  BY <1>1 DEF Linking
<1>4. KeysOK'
  BY <1>1, <1>3 DEF IInv, KeysOK
<1>5. KeysOnce'
  BY <1>1, <1>3 DEF IInv, KeysOnce
<1>6. HandsAlone
  BY <1>1 DEF HandsAlone
<1> QED
  BY <1>1, <1>2, <1>4, <1>5, <1>6, AccountsAlone DEF IInv

LEMMA KeyAtType ==
    ASSUME tmp \in Seq(TmpNode), NEW i
    PROVE  KeyAt(i) \in Nat \union {Nil}
<1>1. i \in DOMAIN tmp => tmp[i] \in TmpNode
  BY LenProperties, ElementOfSeq
<1> QED
  BY <1>1 DEF KeyAt, TmpNode

LEMMA TmpRemoved ==
    ASSUME IInv, NEW i \in DOMAIN tmp, TmpRemove(i)
    PROVE  /\ raced' \in BOOLEAN /\ (raced => raced') /\ tmp' \in Seq(TmpNode)
           /\ \A j \in DOMAIN tmp' : \E k \in DOMAIN tmp : tmp'[j].key = tmp[k].key
           /\ ~raced' =>
                /\ i = 1 => Linking = {}
                /\ \A j \in DOMAIN tmp' : tmp'[j].key # tmp[i].key
                /\ \A j, k \in DOMAIN tmp' : tmp'[j].key = tmp'[k].key => j = k
<1>1. /\ KeysOnce /\ tmp \in Seq(TmpNode) /\ raced \in BOOLEAN
      /\ Len(tmp) \in Nat /\ DOMAIN tmp = 1 .. Len(tmp)
  BY LenProperties DEF IInv, TypeOK
<1>2. /\ raced' \in BOOLEAN /\ (raced => raced')
      /\ ~raced' => ~raced /\ (i = 1 => Linking = {})
  BY <1>1 DEF TmpRemove
<1>3. CASE tmp' = RemoveAt(tmp, i)
  <2>1. /\ tmp' \in Seq(TmpNode) /\ Len(tmp') = Len(tmp) - 1
        /\ \A j \in 1 .. Len(tmp) - 1 : tmp'[j] = IF j < i THEN tmp[j] ELSE tmp[j + 1]
    BY <1>1, <1>3, RemoveFacts
  <2>2. DOMAIN tmp' = 1 .. Len(tmp) - 1
    BY <2>1, LenProperties
  <2> DEFINE from(j) == IF j < i THEN j ELSE j + 1
  <2>3. \A j \in DOMAIN tmp' : from(j) \in DOMAIN tmp \ {i} /\ tmp'[j] = tmp[from(j)]
    BY <1>1, <2>1, <2>2
  <2>4. \A j, k \in DOMAIN tmp' : from(j) = from(k) => j = k
    BY <1>1, <2>2
  <2> HIDE DEF from
  <2>5. ~raced => \A j, k \in DOMAIN tmp' : tmp'[j].key = tmp'[k].key => j = k
    BY <1>1, <2>3, <2>4 DEF KeysOnce
  <2>6. ~raced => \A j \in DOMAIN tmp' : tmp'[j].key # tmp[i].key
    BY <1>1, <2>3 DEF KeysOnce
  <2> QED
    BY <1>2, <2>1, <2>3, <2>5, <2>6
<1>4. CASE raced' /\ tmp' = Append(SubSeq(tmp, 1, i - 1), [tmp[i] EXCEPT !.freed = TRUE])
  <2> DEFINE f    == [tmp[i] EXCEPT !.freed = TRUE]
             left1 == SubSeq(tmp, 1, i - 1)
  <2>1. f \in TmpNode /\ f.key = tmp[i].key
    <3>1. tmp[i] \in TmpNode
      BY <1>1, ElementOfSeq
    <3> QED
      BY <3>1 DEF TmpNode
  <2>2. i \in Nat /\ 1 <= i /\ i <= Len(tmp)
    BY <1>1
  <2>3. /\ left1 \in Seq(TmpNode) /\ Len(left1) = i - 1
        /\ \A j \in 1 .. i - 1 : left1[j] = tmp[j]
    BY <1>1, <2>2
  <2>4. tmp' = Append(left1, f)
    BY <1>4
  <2> HIDE DEF f, left1
  <2>5. /\ tmp' \in Seq(TmpNode) /\ Len(tmp') = i
        /\ \A j \in 1 .. i : tmp'[j] = IF j = i THEN f ELSE left1[j]
    BY <2>1, <2>2, <2>3, <2>4, AppendProperties
  <2>6. DOMAIN tmp' = 1 .. i
    BY <2>5, LenProperties
  <2>7. \A j \in DOMAIN tmp' : j \in DOMAIN tmp /\ tmp'[j].key = tmp[j].key
    BY <1>1, <2>1, <2>2, <2>3, <2>5, <2>6
  <2> QED
    BY <1>2, <1>4, <2>5, <2>7
<1> QED
  BY <1>3, <1>4 DEF TmpRemove

LEMMA InvSweep == IInv /\ Sweep => IInv'
<1> SUFFICES ASSUME IInv, Sweep PROVE IInv'
  OBVIOUS
<1>1. TypeOK /\ UNCHANGED <<handlers, tmp, raced, stage, dead>>
  BY DEF IInv, Sweep
<1>2. sweep' \in Nat \union {Nil}
  BY <1>1, KeyAtType DEF Sweep, TypeOK
<1> QED
  BY <1>1, <1>2, FewerTmp DEF TypeOK, IInv, KeysOnce, Stages

LEMMA InvSweepNode == IInv /\ SweepNode => IInv'
<1> SUFFICES ASSUME IInv, SweepNode PROVE IInv'
  OBVIOUS
<1> DEFINE i == TmpPosition(sweep)
<1>1. /\ TypeOK /\ KeysOnce /\ tmp \in Seq(TmpNode) /\ UNCHANGED <<handlers, stage>>
      /\ Len(tmp) \in Nat /\ DOMAIN tmp = 1 .. Len(tmp)
  BY LenProperties DEF IInv, TypeOK, SweepNode
<1>2. CASE i = 0
  <2>1. /\ UNCHANGED <<tmp, raced>> /\ Undefined(TRUE)
        /\ sweep' \in {Nil} \union {tmp[j].key : j \in DOMAIN tmp}
    BY <1>2 DEF SweepNode
  <2>2. \A j \in DOMAIN tmp : tmp[j] \in TmpNode
    BY <1>1, ElementOfSeq
  <2>3. sweep' \in Nat \union {Nil} /\ dead' \in BOOLEAN
    BY <2>1, <2>2, UndefinedType DEF TmpNode
  <2> QED
    BY <1>1, <2>1, <2>3, FewerTmp DEF TypeOK, KeysOnce, Stages
<1>3. CASE i # 0
  <2>1. i \in DOMAIN tmp
    BY <1>1, <1>3, TmpPositionFacts
  <2>2. /\ Undefined(tmp[i].freed) /\ sweep' = KeyAt(i + 1)
        /\ IF tmp[i].old THEN TmpRemove(i) ELSE UNCHANGED <<tmp, raced>>
    BY <1>3 DEF SweepNode
  <2>3. sweep' \in Nat \union {Nil} /\ dead' \in BOOLEAN
    BY <1>1, <2>2, KeyAtType, UndefinedType
  <2> HIDE DEF i
  <2>4. CASE tmp[i].old
    <3>1. TmpRemove(i)
      BY <2>2, <2>4
    <3>2. /\ raced' \in BOOLEAN /\ (raced => raced') /\ tmp' \in Seq(TmpNode)
          /\ \A j \in DOMAIN tmp' : \E k \in DOMAIN tmp : tmp'[j].key = tmp[k].key
          /\ ~raced' => \A j, k \in DOMAIN tmp' : tmp'[j].key = tmp'[k].key => j = k
      BY <2>1, <3>1, TmpRemoved
    <3> QED
      BY <1>1, <2>3, <3>2, FewerTmp DEF TypeOK, Stages
  <2>5. CASE ~tmp[i].old
    BY <1>1, <2>2, <2>3, <2>5, FewerTmp DEF TypeOK, KeysOnce, Stages
  <2> QED
    BY <2>4, <2>5
<1> QED
  BY <1>2, <1>3

LEMMA InvExpire == IInv /\ (\E i \in DOMAIN tmp : Expire(i)) => IInv'
<1> SUFFICES ASSUME IInv, NEW i \in DOMAIN tmp, Expire(i) PROVE IInv'
  OBVIOUS
<1> DEFINE aged(j) == IF j < i THEN tmp[j] ELSE [tmp[j] EXCEPT !.old = TRUE]
<1>1. /\ TypeOK /\ KeysOnce /\ tmp \in Seq(TmpNode)
      /\ UNCHANGED <<handlers, raced, sweep, stage, dead>>
      /\ Len(tmp) \in Nat /\ DOMAIN tmp = 1 .. Len(tmp)
  BY LenProperties DEF IInv, TypeOK, Expire
<1>2. tmp' = [j \in 1 .. Len(tmp) |-> aged(j)]
  BY <1>1 DEF Expire
<1>3. \A j \in 1 .. Len(tmp) : aged(j) \in TmpNode /\ aged(j).key = tmp[j].key
  <2> SUFFICES ASSUME NEW j \in 1 .. Len(tmp)
               PROVE  aged(j) \in TmpNode /\ aged(j).key = tmp[j].key
    OBVIOUS
  <2>1. tmp[j] \in TmpNode
    BY <1>1, ElementOfSeq
  <2> QED
    BY <2>1 DEF TmpNode
<1> HIDE DEF aged
<1>4. /\ tmp' \in Seq(TmpNode) /\ DOMAIN tmp' = DOMAIN tmp
      /\ \A j \in DOMAIN tmp : tmp'[j].key = tmp[j].key
  BY <1>1, <1>2, <1>3
<1> QED
  BY <1>1, <1>4, FewerTmp DEF TypeOK, KeysOnce, Stages

LEMMA InvCloseFiles == IInv /\ CloseFiles => IInv'
  BY FewerTmp DEF IInv, TypeOK, KeysOnce, CloseFiles, Stages

LEMMA InvShutdown == IInv /\ Shutdown => IInv'
<1> SUFFICES ASSUME IInv, Shutdown PROVE IInv'
  OBVIOUS
<1>1. TypeOK /\ KeysOnce
  BY DEF IInv
<1>2. CASE ClearLogin
  <2>1. dead' \in BOOLEAN /\ stage' \in Stages /\ UNCHANGED <<handlers, tmp, raced, sweep>>
    BY <1>1, <1>2 DEF ClearLogin, TypeOK, Stages
  <2> QED
    BY <1>1, <2>1, FewerTmp DEF TypeOK, KeysOnce
<1>3. CASE ClearTmp
  <2>1. /\ tmp' \in Seq(TmpNode) /\ DOMAIN tmp' = {} /\ UNCHANGED <<handlers, sweep>>
        /\ raced' \in BOOLEAN /\ (raced => raced') /\ stage' \in Stages
    BY <1>1, <1>3 DEF ClearTmp, TypeOK, Stages
  <2>2. dead' \in BOOLEAN
    BY <1>3, UndefinedType DEF ClearTmp
  <2> QED
    BY <1>1, <2>1, <2>2, FewerTmp DEF TypeOK
<1>4. CASE JoinCleaner
  BY <1>1, <1>4, FewerTmp DEF TypeOK, KeysOnce, JoinCleaner, Stages
<1>5. CASE JoinWorkers
  BY <1>1, <1>5, FewerTmp DEF TypeOK, KeysOnce, JoinWorkers, Stages
<1> QED
  BY <1>2, <1>3, <1>4, <1>5 DEF Shutdown

-----------------------------------------------------------------------------
(* Steps that create an account or move one. *)

LEMMA NewAccountType ==
    ASSUME TypeOK, NEW node \in TmpNode
    PROVE  NewAccount(node) \in Account
<1>1. [f \in Field |-> First] \in [Field -> Value]
  BY ServerAssumption
<1> QED
  BY <1>1, ServerAssumption DEF TypeOK, TmpNode, NewAccount, Account

\* The number of a new account is in no account that has a key.
LEMMA NumberIsNew ==
    ASSUME IInv, NEW b, Known(b), b.key # 0
    PROVE  b.id # curmaxid
<1>1. TypeOK /\ KeysOK
  BY DEF IInv
<1>2. \A a \in granted : a.id \in Nat /\ a.id < curmaxid
  BY <1>1 DEF TypeOK, Account, KeysOK
<1> QED
  BY <1>1, <1>2 DEF Known, TypeOK

LEMMA InvGrant ==
    ASSUME IInv, NEW w \in Worker, NEW h \in Host, call[w].at = "idle", NEW acc,
           1 \in DOMAIN tmp, acc = NewAccount(tmp[1]),
           Goto(w, [at |-> "verified", acc |-> acc, host |-> h]),
           granted' = granted \union {acc}, curmaxid' = curmaxid + 1, TmpRemove(1),
           dead' \in BOOLEAN,
           UNCHANGED <<login, file, filelocked, curmaxnum, made, stage, left, sweep>>
    PROVE  IInv'
<1> DEFINE step == [at |-> "verified", acc |-> acc, host |-> h]
<1>1. /\ TypeOK /\ KeysOK /\ KeysOnce /\ tmp \in Seq(TmpNode) /\ curmaxid \in Nat
      /\ made \in Nat \ {0}
  BY DEF IInv, TypeOK, KeysOK
<1>2. /\ raced' \in BOOLEAN /\ (raced => raced') /\ tmp' \in Seq(TmpNode)
      /\ \A j \in DOMAIN tmp' : \E k \in DOMAIN tmp : tmp'[j].key = tmp[k].key
      /\ ~raced' => /\ Linking = {}
                    /\ \A j \in DOMAIN tmp' : tmp'[j].key # tmp[1].key
                    /\ \A j, k \in DOMAIN tmp' : tmp'[j].key = tmp'[k].key => j = k
  BY TmpRemoved
<1>3. tmp[1] \in TmpNode
  BY <1>1, LenProperties, ElementOfSeq
<1>4. /\ acc \in Account /\ acc.id = curmaxid /\ acc.key = tmp[1].key
      /\ acc.key \in 1 .. made - 1 /\ acc.key # 0
  BY <1>1, <1>3, NewAccountType DEF NewAccount, KeysOK
<1>5. \A b : Known(b) => ~Same(b, acc)
  BY <1>4, NumberIsNew DEF Same
<1>6. step \in Step /\ step.at = "verified" /\ step.acc = acc /\ Goto(w, step)
  BY <1>4, Steps DEF Holding
<1> HIDE DEF step
<1>7. /\ call' \in [Worker -> Step] /\ call'[w] = step
      /\ \A v \in Worker \ {w} : call'[v] = call[v]
  BY <1>1, <1>6, GotoFacts
<1>8. TypeOK'
  BY <1>1, <1>2, <1>4, <1>7 DEF TypeOK
<1>9. Linking' = Linking /\ \A v \in Linking : call'[v] = call[v]
  BY <1>6, <1>7 DEF Linking
<1>10. \A a \in granted : a.id \in Nat /\ a.id < curmaxid /\ a.key \in 1 .. made - 1
  BY <1>1 DEF TypeOK, Account, KeysOK
<1>11. KeysOK'
  <2>1. \A i \in DOMAIN tmp' : tmp'[i].key \in 1 .. made - 1
    BY <1>1, <1>2 DEF KeysOK
  <2>2. \A a \in granted' : a.id < curmaxid' /\ a.key \in 1 .. made - 1
    BY <1>1, <1>4, <1>10
  <2> QED
    BY <1>1, <1>9, <2>1, <2>2 DEF KeysOK
<1>12. KeysOnce'
  <2> SUFFICES ASSUME ~raced'
               PROVE  /\ \A i, j \in DOMAIN tmp' : tmp'[i].key = tmp'[j].key => i = j
                      /\ \A a \in granted' : \A i \in DOMAIN tmp' : tmp'[i].key # a.key
                      /\ Linking' = {}
    BY DEF KeysOnce
  <2>1. ~raced
    BY <1>2
  <2>2. \A a \in granted : \A i \in DOMAIN tmp' : tmp'[i].key # a.key
    BY <1>1, <1>2, <2>1 DEF KeysOnce
  <2>3. \A i \in DOMAIN tmp' : tmp'[i].key # acc.key
    BY <1>2, <1>4
  <2> QED
    BY <1>2, <1>9, <2>2, <2>3
<1>13. OneAccountPerCode'
  <2>1. \A a \in granted : a.id # acc.id
    BY <1>1, <1>4, <1>10
  <2>2. ~raced => \A a \in granted : a.key # acc.key
    BY <1>1, <1>4 DEF KeysOnce
  <2>3. OneAccountPerCode
    BY DEF IInv
  <2> QED
    BY <1>2, <2>1, <2>2, <2>3 DEF OneAccountPerCode
<1>14. Hands' = Hands \union {w} /\ w \notin Hands
  BY <1>6, <1>7 DEF Hands
<1>15. AllKnown'
  <2>1. (\A b : Known(b) => Known(b)') /\ Known(acc)'
    BY DEF Known
  <2>2. AllKnown
    BY DEF IInv
  <2>3. \A v \in Hands : call'[v] = call[v]
    BY <1>7, <1>14 DEF Hands
  <2>4. \A v \in Hands' : Known(call[v].acc)'
    BY <1>6, <1>7, <1>14, <2>1, <2>2, <2>3 DEF AllKnown
  <2>5. /\ \A i \in DOMAIN login : Known(login[i].acc)'
        /\ \A i \in DOMAIN file : Known(file[i])'
    BY <2>1, <2>2 DEF AllKnown
  <2> QED
    BY <2>4, <2>5 DEF AllKnown
<1>16. NewInHand'
  <2>1. AllKnown /\ NewInHand
    BY DEF IInv
  <2>2. /\ \A i \in DOMAIN login : ~Same(login[i].acc, acc)
        /\ \A i \in DOMAIN file : ~Same(file[i], acc)
        /\ \A v \in Hands : ~Same(call[v].acc, acc)
    BY <1>5, <2>1 DEF AllKnown
  <2> SUFFICES ASSUME NEW v \in Worker, call'[v].at = "verified"
               PROVE  /\ \A i \in DOMAIN login : ~Same(login[i].acc, call'[v].acc)
                      /\ \A i \in DOMAIN file : ~Same(file[i], call'[v].acc)
                      /\ \A u \in Hands' : Same(call'[u].acc, call'[v].acc) => u = v
    BY DEF NewInHand, Same
  <2>3. \A u \in Hands : call'[u] = call[u]
    BY <1>7, <1>14 DEF Hands
  <2>4. CASE v = w
    BY <1>6, <1>7, <1>14, <2>2, <2>3, <2>4
  <2>5. CASE v # w
    <3>1. v \in Hands /\ call'[v] = call[v]
      BY <1>7, <2>5 DEF Hands
    <3>2. ~Same(acc, call[v].acc)
      BY <2>2, <3>1 DEF Same
    <3> QED
      BY <1>6, <1>7, <1>14, <2>1, <2>3, <3>1, <3>2 DEF NewInHand
  <2> QED
    BY <2>4, <2>5
<1>17. Kept'
  <2>1. \A id : Stored(id) => Stored(id)'
    BY <1>7 DEF Stored
  <2>2. Stored(acc.id)'
    BY <1>6, <1>7 DEF Stored
  <2>3. Kept
    BY DEF IInv
  <2> QED
    BY <2>1, <2>2, <2>3 DEF Kept
<1>18. OneNodePerAccount' /\ OneRecord' /\ Addresses'
  BY DEF IInv, OneNodePerAccount, OneRecord, Addresses
<1> QED
  BY <1>8, <1>11, <1>12, <1>13, <1>15, <1>16, <1>17, <1>18 DEF IInv

LEMMA InvVerify ==
    ASSUME IInv, NEW w \in Worker, NEW h \in Host, NEW tel \in VerifyTel,
           NEW code \in BOOLEAN, Verify(w, h, tel, code)
    PROVE  IInv'
<1> DEFINE found == TmpFind(tel) = "found" /\ ~Head(tmp).old /\ code
<1>1. TypeOK /\ call[w].at = "idle" /\ tmp \in Seq(TmpNode)
  BY DEF IInv, TypeOK, Verify, Begin
<1>2. dead' \in BOOLEAN
  BY UndefinedType DEF Verify
<1>3. UNCHANGED <<login, file, filelocked, curmaxnum, made, stage, left, sweep>>
  BY DEF Verify, Rest, files
<1>4. CASE found
  <2>1. tmp # <<>>
    BY <1>4 DEF TmpFind
  <2>2. 1 \in DOMAIN tmp /\ Head(tmp) = tmp[1]
    BY <1>1, <2>1
  <2> DEFINE acc == NewAccount(Head(tmp))
  <2>3. /\ Goto(w, [at |-> "verified", acc |-> acc, host |-> h])
        /\ granted' = granted \union {acc} /\ curmaxid' = curmaxid + 1 /\ TmpRemove(1)
    BY <1>4 DEF Verify
  <2>4. acc = NewAccount(tmp[1])
    BY <2>2
  <2> HIDE DEF acc
  <2> QED
    BY <1>1, <1>2, <1>3, <2>2, <2>3, <2>4, InvGrant
<1>5. CASE ~found
  <2> DEFINE step == IF TmpFind(tel) = "spins" THEN [at |-> "spin"] ELSE Idle
  <2>1. step \in Step /\ step.at \notin {"verified", "read", "link"}
    BY Steps DEF Idle
  <2>2. Goto(w, step) /\ UNCHANGED <<granted, curmaxid, tmp, raced>>
    BY <1>5 DEF Verify
  <2> HIDE DEF step
  <2> QED
    BY <1>1, <1>2, <1>3, <2>1, <2>2, CallOnly DEF TypeOK, Stages
<1> QED
  BY <1>4, <1>5

LEMMA LoginAddFacts ==
    ASSUME IInv, NEW acc \in Account, NEW host \in Host, login' = LoginAdd(acc, host),
           \A i \in DOMAIN login : ~Same(login[i].acc, acc)
    PROVE  /\ login' \in Seq(Login)
           /\ 1 \in DOMAIN login' /\ login'[1].acc = acc
           /\ \A j \in DOMAIN login' :
              j = 1 \/ (j - 1 \in DOMAIN login /\ login'[j] = login[j - 1])
           /\ \A i \in DOMAIN login : i + 1 \in DOMAIN login' /\ login'[i + 1] = login[i]
           /\ \A i \in DOMAIN login : login[i].addr # login'[1].addr
           /\ OneNodePerAccount' /\ Addresses'
<1> DEFINE node == [addr |-> Fresh(login), acc |-> acc, host |-> host]
<1>1. login \in Seq(Login) /\ Len(login) \in Nat /\ DOMAIN login = 1 .. Len(login)
  BY LenProperties DEF IInv, TypeOK
<1>2. /\ Fresh(login) \in Nat
      /\ \A i \in 1 .. Len(login) : login[i].addr # Fresh(login)
  BY <1>1, FreshFacts
<1>3. /\ node \in Login /\ node.acc = acc
      /\ \A i \in 1 .. Len(login) : login[i].addr # node.addr
  BY <1>2 DEF Login
<1>4. login' = <<node>> \o login
  BY DEF LoginAdd
<1> HIDE DEF node
<1>5. /\ login' \in Seq(Login) /\ Len(login') = Len(login) + 1 /\ login'[1] = node
      /\ \A j \in 1 .. Len(login) : login'[j + 1] = login[j]
  BY <1>1, <1>3, <1>4, PutFirstFacts
<1>6. DOMAIN login' = 1 .. Len(login) + 1
  BY <1>5, LenProperties
<1>7. \A j \in DOMAIN login' :
              j = 1 \/ (j - 1 \in DOMAIN login /\ login'[j] = login[j - 1])
  BY <1>1, <1>5, <1>6
<1>8. OneNodePerAccount' /\ Addresses'
  <2> SUFFICES ASSUME NEW i \in DOMAIN login', NEW j \in DOMAIN login',
                      \/ Same(login'[i].acc, login'[j].acc)
                      \/ login'[i].addr = login'[j].addr
               PROVE  i = j
    BY DEF OneNodePerAccount, Addresses, Same
  <2>1. CASE i = 1 \/ j = 1
    <3>1. \A k \in DOMAIN login : login[k].addr # node.addr /\ ~Same(login[k].acc, node.acc)
      BY <1>1, <1>3
    <3>2. \A k \in DOMAIN login' :
            k = 1 \/ (login'[k].addr # node.addr /\ ~Same(login'[k].acc, node.acc))
      BY <1>7, <3>1
    <3> QED
      BY <1>5, <2>1, <3>2 DEF Same
  <2>2. CASE i # 1 /\ j # 1
    <3>1. OneNodePerAccount /\ Addresses
      BY DEF IInv
    <3>2. i - 1 = j - 1
      BY <1>7, <2>2, <3>1 DEF OneNodePerAccount, Addresses, Same
    <3> QED
      BY <1>6, <3>2
  <2> QED
    BY <2>1, <2>2
<1> QED
  BY <1>1, <1>3, <1>5, <1>6, <1>7, <1>8

\* A handler puts the account it holds into the login list.
LEMMA InvAdded ==
    ASSUME IInv, NEW w \in Worker, call[w].at \in {"verified", "read"},
           login' = LoginAdd(call[w].acc, call[w].host),
           \A i \in DOMAIN login : ~Same(login[i].acc, call[w].acc),
           Goto(w, Idle), dead' \in BOOLEAN,
           UNCHANGED <<tmp, raced, file, filelocked, curmaxid, curmaxnum, made, stage>>,
           UNCHANGED <<left, granted, sweep>>
    PROVE  IInv'
<1> DEFINE acc == call[w].acc
<1>1. TypeOK /\ w \in Hands /\ acc \in Account /\ call[w].host \in Host
  BY StepFacts DEF IInv, TypeOK, Hands, Holding
<1>2. /\ login' \in Seq(Login)
      /\ 1 \in DOMAIN login' /\ login'[1].acc = acc
      /\ \A j \in DOMAIN login' :
              j = 1 \/ (j - 1 \in DOMAIN login /\ login'[j] = login[j - 1])
      /\ \A i \in DOMAIN login : i + 1 \in DOMAIN login' /\ login'[i + 1] = login[i]
      /\ OneNodePerAccount' /\ Addresses'
  BY <1>1, LoginAddFacts
<1>3. /\ call' \in [Worker -> Step] /\ call'[w].at = "idle"
      /\ \A v \in Worker \ {w} : call'[v] = call[v]
  BY <1>1, GotoFacts, Steps DEF Idle
<1>4. \A v \in Hands' : v \in Hands \ {w} /\ call'[v] = call[v]
  BY <1>3 DEF Hands
<1>5. LinksAlone
  BY <1>3 DEF LinksAlone
<1> HIDE DEF acc
<1>6. TypeOK'
  BY <1>1, <1>2, <1>3 DEF TypeOK
<1>7. KeysOK' /\ KeysOnce' /\ OneAccountPerCode' /\ OneRecord'
  BY <1>5, KeysAlone DEF IInv, OneAccountPerCode, OneRecord
<1>8. AllKnown'
  <2>1. AllKnown /\ Known(acc)
    BY <1>1 DEF IInv, AllKnown, acc
  <2>2. \A b : Known(b) => Known(b)'
    BY DEF Known
  <2>3. \A j \in DOMAIN login' : Known(login'[j].acc)
    BY <1>2, <2>1 DEF AllKnown
  <2>4. \A v \in Hands' : Known(call'[v].acc)
    BY <1>4, <2>1 DEF AllKnown
  <2> QED
    BY <2>1, <2>2, <2>3, <2>4 DEF AllKnown
<1>9. NewInHand'
  <2> SUFFICES ASSUME NEW v \in Worker, call'[v].at = "verified"
               PROVE  /\ \A i \in DOMAIN login' : ~Same(login'[i].acc, call'[v].acc)
                      /\ \A i \in DOMAIN file : ~Same(file[i], call'[v].acc)
                      /\ \A u \in Hands' : Same(call'[u].acc, call'[v].acc) => u = v
    BY DEF NewInHand, Same
  <2>1. v # w /\ call'[v] = call[v]
    BY <1>3
  <2>2. /\ \A i \in DOMAIN login : ~Same(login[i].acc, call[v].acc)
        /\ \A i \in DOMAIN file : ~Same(file[i], call[v].acc)
        /\ \A u \in Hands : Same(call[u].acc, call[v].acc) => u = v
    BY <2>1 DEF IInv, NewInHand
  <2>3. ~Same(acc, call[v].acc)
    BY <1>1, <2>1, <2>2 DEF acc
  <2> QED
    BY <1>2, <1>4, <2>1, <2>2, <2>3
<1>10. Kept'
  <2> SUFFICES ASSUME NEW a \in granted PROVE Stored(a.id)'
    BY DEF Kept
  <2>1. Stored(a.id)
    BY DEF IInv, Kept
  <2>2. CASE \E i \in DOMAIN login : login[i].acc.id = a.id
    BY <1>2, <2>2 DEF Stored
  <2>3. CASE \E i \in DOMAIN file : file[i].id = a.id
    BY <2>3 DEF Stored
  <2>4. CASE \E v \in Worker : call[v].at = "verified" /\ call[v].acc.id = a.id
    BY <1>2, <1>3, <2>4 DEF Stored, acc
  <2> QED
    BY <2>1, <2>2, <2>3, <2>4 DEF Stored
<1> QED
  BY <1>2, <1>6, <1>7, <1>8, <1>9, <1>10 DEF IInv

LEMMA InvAddVerified ==
    ASSUME IInv, NEW w \in Worker, AddVerified(w)
    PROVE  IInv'
<1>1. call[w].at = "verified" /\ Goto(w, Idle) /\ dead' \in BOOLEAN
  BY UndefinedType DEF AddVerified, At, Return
<1>2. \A i \in DOMAIN login : ~Same(login[i].acc, call[w].acc)
  BY <1>1 DEF IInv, NewInHand
<1>3. /\ UNCHANGED <<tmp, raced, file, filelocked, curmaxid, curmaxnum, made, stage>>
      /\ UNCHANGED <<left, granted, sweep>> /\ login' = LoginAdd(call[w].acc, call[w].host)
  BY DEF AddVerified, Rest, files, numbers, history
<1> QED
  BY <1>1, <1>2, <1>3, InvAdded

\* The list is searched by the number of the account.
LEMMA NotLoggedIn ==
    ASSUME IInv, NEW acc, FindId(acc.id) = 0
    PROVE  \A i \in DOMAIN login : ~Same(login[i].acc, acc)
<1>1. Len(login) \in Nat /\ DOMAIN login = 1 .. Len(login)
  BY LenProperties DEF IInv, TypeOK
<1> QED
  BY <1>1, FindIdFacts DEF Same

LEMMA InvTryAdd ==
    ASSUME IInv, NEW w \in Worker, TryAdd(w)
    PROVE  IInv'
<1>1. call[w].at = "read" /\ Goto(w, Idle) /\ TypeOK /\ dead' \in BOOLEAN
  BY UndefinedType DEF TryAdd, At, Return, IInv
<1>2. /\ UNCHANGED <<tmp, raced, file, filelocked, curmaxid, curmaxnum, made, stage>>
      /\ UNCHANGED <<left, granted, sweep>>
  BY DEF TryAdd, Rest, files, numbers, history
<1>3. CASE FindId(call[w].acc.id) = 0
  <2>1. login' = LoginAdd(call[w].acc, call[w].host)
    BY <1>3 DEF TryAdd
  <2> QED
    BY <1>1, <1>2, <1>3, <2>1, InvAdded, NotLoggedIn
<1>4. CASE FindId(call[w].acc.id) # 0
  <2>1. login' = login
    BY <1>4 DEF TryAdd
  <2>2. Idle \in Step /\ Idle.at \notin {"verified", "read", "link"}
    BY Steps DEF Idle
  <2> QED
    BY <1>1, <1>2, <2>1, <2>2, CallOnly DEF TypeOK, Stages
<1> QED
  BY <1>3, <1>4

LEMMA InvLoginRead ==
    ASSUME IInv, NEW w \in Worker, NEW h \in Host, NEW tel \in VerifyTel,
           NEW passwd \in Value, LoginRead(w, h, tel, passwd)
    PROVE  IInv'
<1> DEFINE i == FindLogin(tel)
<1>1. TypeOK /\ call[w].at = "idle" /\ file \in Seq(Account)
  BY DEF IInv, TypeOK, LoginRead, Begin
<1>2. /\ UNCHANGED <<tmp, raced, login, file, filelocked, curmaxid, curmaxnum, made>>
      /\ UNCHANGED <<stage, left, granted, sweep>>
  BY DEF LoginRead, Rest, lists, files, numbers, history
<1>3. dead' \in BOOLEAN
  BY <1>1 DEF LoginRead, TypeOK
<1>4. CASE stage # "running"
  <2>1. Goto(w, call[w]) /\ call[w] \in Step
    BY <1>1, <1>4 DEF LoginRead, Goto, TypeOK
  <2> QED
    BY <1>1, <1>2, <1>3, <2>1, CallOnly DEF TypeOK, Stages
<1>5. CASE stage = "running" /\ ~(i # 0 /\ file[i].val["passwd"] = passwd)
  <2>1. Goto(w, Idle)
    BY <1>5 DEF LoginRead
  <2>2. Idle \in Step /\ Idle.at \notin {"verified", "read", "link"}
    BY Steps DEF Idle
  <2> QED
    BY <1>1, <1>2, <1>3, <2>1, <2>2, CallOnly DEF TypeOK, Stages
<1>6. CASE stage = "running" /\ i # 0 /\ file[i].val["passwd"] = passwd
  <2> DEFINE step == [at |-> "read", acc |-> file[i], host |-> h]
  <2>1. Len(file) \in Nat /\ DOMAIN file = 1 .. Len(file)
    BY <1>1, LenProperties
  <2>2. i \in DOMAIN file /\ file[i] \in Account
    BY <1>1, <1>6, <2>1, FindLoginFacts, ElementOfSeq
  <2>3. Goto(w, step)
    BY <1>6 DEF LoginRead
  <2> HIDE DEF i
  <2>4. step \in Step /\ step.at = "read" /\ step.acc = file[i]
    BY <2>2, Steps DEF Holding
  <2> HIDE DEF step
  <2>5. /\ call' \in [Worker -> Step] /\ call'[w] = step
        /\ \A v \in Worker \ {w} : call'[v] = call[v]
    BY <1>1, <2>3, <2>4, GotoFacts
  <2>6. Hands' = Hands \union {w} /\ w \notin Hands
    BY <1>1, <2>4, <2>5 DEF Hands
  <2>7. \A v \in Hands : call'[v] = call[v]
    BY <2>5, <2>6 DEF Hands
  <2>8. TypeOK'
    BY <1>1, <1>2, <1>3, <2>5 DEF TypeOK
  <2>9. LinksAlone
    BY <2>4, <2>5 DEF LinksAlone
  <2>10. AllKnown'
    <3>1. AllKnown /\ Known(file[i])
      BY <2>2 DEF IInv, AllKnown
    <3>2. \A v \in Hands' : Known(call'[v].acc)
      BY <2>4, <2>5, <2>6, <2>7, <3>1 DEF AllKnown
    <3>3. \A b : Known(b) => Known(b)'
      BY <1>2 DEF Known
    <3> QED
      BY <1>2, <3>1, <3>2, <3>3 DEF AllKnown
  <2>11. NewInHand'
    <3> SUFFICES ASSUME NEW v \in Worker, call'[v].at = "verified"
                 PROVE  /\ \A k \in DOMAIN login : ~Same(login[k].acc, call'[v].acc)
                        /\ \A k \in DOMAIN file : ~Same(file[k], call'[v].acc)
                        /\ \A u \in Hands' : Same(call'[u].acc, call'[v].acc) => u = v
      BY <1>2 DEF NewInHand, Same
    <3>1. v # w /\ call'[v] = call[v]
      BY <2>4, <2>5
    <3>2. /\ \A k \in DOMAIN login : ~Same(login[k].acc, call[v].acc)
          /\ \A k \in DOMAIN file : ~Same(file[k], call[v].acc)
          /\ \A u \in Hands : Same(call[u].acc, call[v].acc) => u = v
      BY <3>1 DEF IInv, NewInHand
    <3> QED
      BY <2>2, <2>4, <2>5, <2>6, <2>7, <3>1, <3>2
  <2>12. Kept'
    <3>1. \A id : Stored(id) => Stored(id)'
      BY <1>1, <1>2, <2>5 DEF Stored
    <3> QED
      BY <1>2, <3>1 DEF IInv, Kept
  <2>13. KeysOK' /\ KeysOnce'
    BY <1>2, <2>9, KeysAlone
  <2>14. OneAccountPerCode' /\ OneNodePerAccount' /\ OneRecord' /\ Addresses'
    BY <1>2 DEF IInv, OneAccountPerCode, OneNodePerAccount, OneRecord, Addresses
  <2> QED
    BY <2>8, <2>10, <2>11, <2>12, <2>13, <2>14 DEF IInv
<1> QED
  BY <1>4, <1>5, <1>6

\* An element less: the others keep their order.
LEMMA RemovedFacts ==
    ASSUME NEW S, NEW s \in Seq(S), NEW i \in DOMAIN s, NEW r, r = RemoveAt(s, i)
    PROVE  /\ r \in Seq(S)
           /\ \A j \in DOMAIN r : \E a \in DOMAIN s \ {i} : r[j] = s[a]
           /\ \A a \in DOMAIN s \ {i} : \E j \in DOMAIN r : r[j] = s[a]
           /\ \A j, k \in DOMAIN r :
                j # k => \E a, b \in DOMAIN s \ {i} : a # b /\ r[j] = s[a] /\ r[k] = s[b]
<1>1. Len(s) \in Nat /\ DOMAIN s = 1 .. Len(s)
  BY LenProperties
<1>2. /\ r \in Seq(S) /\ Len(r) = Len(s) - 1
      /\ \A j \in 1 .. Len(s) - 1 : r[j] = IF j < i THEN s[j] ELSE s[j + 1]
  BY <1>1, RemoveFacts
<1>3. DOMAIN r = 1 .. Len(s) - 1
  BY <1>2, LenProperties
<1> DEFINE f == [j \in DOMAIN r |-> IF j < i THEN j ELSE j + 1]
<1>4. f \in [DOMAIN r -> DOMAIN s \ {i}]
  BY <1>1, <1>3
<1>5. \A j \in DOMAIN r : r[j] = s[f[j]]
  BY <1>1, <1>2, <1>3
<1>6. \A j, k \in DOMAIN r : f[j] = f[k] => j = k
  BY <1>1, <1>3
<1>7. ASSUME NEW k \in DOMAIN s \ {i} PROVE \E j \in DOMAIN r : f[j] = k
  <2>1. CASE k < i
    <3>1. k \in DOMAIN r /\ f[k] = k
      BY <1>1, <1>3, <2>1
    <3> HIDE DEF f
    <3> QED
      BY <3>1
  <2>2. CASE k > i
    <3>1. k - 1 \in DOMAIN r /\ f[k - 1] = k
      BY <1>1, <1>3, <2>2
    <3> HIDE DEF f
    <3> QED
      BY <3>1
  <2> QED
    BY <1>1, <2>1, <2>2
<1> HIDE DEF f
<1> QED
  BY <1>2, <1>4, <1>5, <1>6, <1>7

\* What am_account_update writes: the account, and each other record once.
LEMMA UpdatedFacts ==
    ASSUME file \in Seq(Account), OneRecord, NEW acc \in Account, NEW u, u = Updated(acc)
    PROVE  /\ u \in Seq(Account)
           /\ 1 \in DOMAIN u /\ u[1] = acc
           /\ \A j \in DOMAIN u :
                j = 1 \/ \E k \in DOMAIN file : u[j] = file[k] /\ file[k].id # acc.id
           /\ \A k \in DOMAIN file :
                file[k].id # acc.id => \E j \in DOMAIN u : u[j] = file[k]
           /\ \A j, k \in DOMAIN u : u[j].id = u[k].id => j = k
<1> DEFINE Test(a) == a.id = acc.id
           rest == RemoveFirstMatch(file, Test)
           m    == SelectInSeq(file, Test)
<1>1. Len(file) \in Nat /\ DOMAIN file = 1 .. Len(file)
  BY LenProperties
<1>2. u = <<acc>> \o rest
  BY DEF Updated
<1>3. /\ rest \in Seq(Account)
      /\ \A j \in DOMAIN rest : \E k \in DOMAIN file : rest[j] = file[k] /\ file[k].id # acc.id
      /\ \A k \in DOMAIN file : file[k].id # acc.id => \E j \in DOMAIN rest : rest[j] = file[k]
      /\ \A j, k \in DOMAIN rest : rest[j].id = rest[k].id => j = k
  <2>1. CASE ~ \E k \in 1 .. Len(file) : file[k].id = acc.id
    <3>1. rest = file
      BY <2>1 DEF RemoveFirstMatch
    <3> HIDE DEF rest
    <3> QED
      BY <1>1, <2>1, <3>1 DEF OneRecord
  <2>2. CASE \E k \in 1 .. Len(file) : file[k].id = acc.id
    <3>1. rest = RemoveAt(file, m)
      BY <2>2 DEF RemoveFirstMatch
    <3>2. m \in DOMAIN file /\ file[m].id = acc.id
      <4> DEFINE I == {k \in 1 .. Len(file) : file[k].id = acc.id}
      <4>1. m = IF I # {} THEN Min(I) ELSE 0
        BY DEF SelectInSeq
      <4>2. I # {} => Min(I) \in I
        <5>1. I \in SUBSET Nat
          OBVIOUS
        <5> HIDE DEF I
        <5> QED
          BY <5>1, LeastNumber
      <4> QED
        BY <1>1, <2>2, <4>1, <4>2
    <3> HIDE DEF rest, m
    <3>3. rest \in Seq(Account)
      BY <3>1, <3>2, RemovedFacts
    <3>4. /\ \A j \in DOMAIN rest : \E a \in DOMAIN file \ {m} : rest[j] = file[a]
          /\ \A a \in DOMAIN file \ {m} : \E j \in DOMAIN rest : rest[j] = file[a]
          /\ \A j, k \in DOMAIN rest :
               j # k => \E a, b \in DOMAIN file \ {m} :
                          a # b /\ rest[j] = file[a] /\ rest[k] = file[b]
      BY <3>1, <3>2, RemovedFacts
    <3>5. \A k \in DOMAIN file \ {m} : file[k].id # acc.id
      BY <3>2 DEF OneRecord
    <3>6. ASSUME NEW j \in DOMAIN rest, NEW k \in DOMAIN rest, j # k
          PROVE  rest[j].id # rest[k].id
      <4>1. PICK a \in DOMAIN file, b \in DOMAIN file :
              a # b /\ rest[j] = file[a] /\ rest[k] = file[b]
        BY <3>4, <3>6
      <4> QED
        BY <4>1 DEF OneRecord
    <3>7. ASSUME NEW k \in DOMAIN file, file[k].id # acc.id
          PROVE  \E j \in DOMAIN rest : rest[j] = file[k]
      BY <3>2, <3>4, <3>7
    <3> QED
      BY <3>3, <3>4, <3>5, <3>6, <3>7
  <2> QED
    BY <2>1, <2>2
<1> HIDE DEF rest
<1>4. /\ u \in Seq(Account) /\ Len(u) = Len(rest) + 1 /\ u[1] = acc
      /\ \A j \in 1 .. Len(rest) : u[j + 1] = rest[j]
  BY <1>2, <1>3, PutFirstFacts
<1>5. Len(rest) \in Nat /\ DOMAIN rest = 1 .. Len(rest) /\ DOMAIN u = 1 .. Len(rest) + 1
  BY <1>3, <1>4, LenProperties
<1>6. \A j \in DOMAIN u : j = 1 \/ (j - 1 \in DOMAIN rest /\ u[j] = rest[j - 1])
  BY <1>4, <1>5
<1>7. \A j \in DOMAIN rest : j + 1 \in DOMAIN u /\ u[j + 1] = rest[j]
  BY <1>4, <1>5
<1>8. \A j \in DOMAIN u :
        j = 1 \/ \E k \in DOMAIN file : u[j] = file[k] /\ file[k].id # acc.id
  BY <1>3, <1>6
<1>9. \A k \in DOMAIN file : file[k].id # acc.id => \E j \in DOMAIN u : u[j] = file[k]
  BY <1>3, <1>7
<1>10. ASSUME NEW j \in DOMAIN u, NEW k \in DOMAIN u, u[j].id = u[k].id PROVE j = k
  <2>1. CASE j = 1 \/ k = 1
    BY <1>4, <1>8, <1>10, <2>1
  <2>2. CASE j # 1 /\ k # 1
    <3>1. j - 1 = k - 1
      BY <1>3, <1>6, <1>10, <2>2
    <3> QED
      BY <1>5, <3>1
  <2> QED
    BY <2>1, <2>2
<1> QED
  BY <1>4, <1>5, <1>8, <1>9, <1>10

\* The files hold the record of an account that logs out, in whatever follows:
\* the node leaves the list, or stays because the file could not be opened again.
LEMMA InvUpdated ==
    ASSUME IInv, NEW i \in DOMAIN login,
           file' = Updated(login[i].acc), login' \in {login, RemoveAt(login, i)},
           call' \in [Worker -> Step], HandsAlone, LinksAlone, stage' \in Stages,
           left' \subseteq Worker, dead' \in BOOLEAN,
           UNCHANGED <<tmp, raced, filelocked, curmaxid, curmaxnum, made, granted, sweep>>
    PROVE  IInv'
<1> DEFINE acc == login[i].acc
<1>1. TypeOK /\ login \in Seq(Login) /\ file \in Seq(Account) /\ OneRecord
  BY DEF IInv, TypeOK
<1>2. acc \in Account
  <2>1. login[i] \in Login
    BY <1>1, LenProperties, ElementOfSeq
  <2> QED
    BY <2>1 DEF Login
<1>3. /\ file' \in Seq(Account)
      /\ 1 \in DOMAIN file' /\ file'[1] = acc
      /\ \A j \in DOMAIN file' :
           j = 1 \/ \E k \in DOMAIN file : file'[j] = file[k] /\ file[k].id # acc.id
      /\ \A k \in DOMAIN file :
           file[k].id # acc.id => \E j \in DOMAIN file' : file'[j] = file[k]
      /\ \A j, k \in DOMAIN file' : file'[j].id = file'[k].id => j = k
  <2>1. file' = Updated(acc)
    OBVIOUS
  <2> HIDE DEF acc
  <2> QED
    BY <1>1, <1>2, <2>1, UpdatedFacts
<1>4. /\ login' \in Seq(Login)
      /\ \A j \in DOMAIN login' : \E a \in DOMAIN login : login'[j] = login[a]
      /\ \A a \in DOMAIN login \ {i} : \E j \in DOMAIN login' : login'[j] = login[a]
      /\ \A j, k \in DOMAIN login' :
           j # k => \E a, b \in DOMAIN login :
                      a # b /\ login'[j] = login[a] /\ login'[k] = login[b]
  <2>1. CASE login' = login
    BY <1>1, <2>1
  <2>2. CASE login' = RemoveAt(login, i)
    <3>1. login' \in Seq(Login)
      BY <1>1, <2>2, RemovedFacts
    <3>2. /\ \A j \in DOMAIN login' : \E a \in DOMAIN login \ {i} : login'[j] = login[a]
          /\ \A a \in DOMAIN login \ {i} : \E j \in DOMAIN login' : login'[j] = login[a]
          /\ \A j, k \in DOMAIN login' :
               j # k => \E a, b \in DOMAIN login \ {i} :
                          a # b /\ login'[j] = login[a] /\ login'[k] = login[b]
      BY <1>1, <2>2, RemovedFacts
    <3>3. ASSUME NEW j \in DOMAIN login', NEW k \in DOMAIN login', j # k
          PROVE  \E a, b \in DOMAIN login :
                   a # b /\ login'[j] = login[a] /\ login'[k] = login[b]
      <4>1. PICK a \in DOMAIN login, b \in DOMAIN login :
              a # b /\ login'[j] = login[a] /\ login'[k] = login[b]
        BY <3>2, <3>3
      <4> QED
        BY <4>1
    <3> QED
      BY <3>1, <3>2, <3>3
  <2> QED
    BY <2>1, <2>2
<1> HIDE DEF acc
<1>5. TypeOK'
  BY <1>1, <1>3, <1>4 DEF TypeOK, Stages
<1>6. KeysOK' /\ KeysOnce' /\ OneAccountPerCode'
  BY KeysAlone DEF IInv, OneAccountPerCode
<1>7. OneNodePerAccount' /\ Addresses'
  <2> SUFFICES ASSUME NEW j \in DOMAIN login', NEW k \in DOMAIN login', j # k
               PROVE  /\ ~Same(login'[j].acc, login'[k].acc)
                      /\ login'[j].addr # login'[k].addr
    BY DEF OneNodePerAccount, Addresses, Same
  <2>1. OneNodePerAccount /\ Addresses
    BY DEF IInv
  <2>2. PICK a \in DOMAIN login, b \in DOMAIN login :
          a # b /\ login'[j] = login[a] /\ login'[k] = login[b]
    BY <1>4
  <2> QED
    BY <2>1, <2>2 DEF OneNodePerAccount, Addresses, Same
<1>8. OneRecord'
  BY <1>3 DEF OneRecord
<1>9. \A v \in Hands' : v \in Hands /\ call'[v] = call[v]
  BY DEF Hands, HandsAlone
<1>10. AllKnown'
  <2>1. AllKnown /\ Known(acc)
    BY DEF IInv, AllKnown, acc
  <2>2. \A b : Known(b) => Known(b)'
    BY DEF Known
  <2>3. \A j \in DOMAIN login' : Known(login'[j].acc)
    BY <1>4, <2>1 DEF AllKnown
  <2>4. \A j \in DOMAIN file' : Known(file'[j])
    BY <1>3, <2>1 DEF AllKnown
  <2>5. \A v \in Hands' : Known(call'[v].acc)
    BY <1>9, <2>1 DEF AllKnown
  <2> QED
    BY <2>2, <2>3, <2>4, <2>5 DEF AllKnown
<1>11. NewInHand'
  <2> SUFFICES ASSUME NEW v \in Worker, call'[v].at = "verified"
               PROVE  /\ \A k \in DOMAIN login' : ~Same(login'[k].acc, call'[v].acc)
                      /\ \A k \in DOMAIN file' : ~Same(file'[k], call'[v].acc)
                      /\ \A u \in Hands' : Same(call'[u].acc, call'[v].acc) => u = v
    BY DEF NewInHand, Same
  <2>1. call'[v] = call[v]
    BY DEF HandsAlone
  <2>2. /\ \A k \in DOMAIN login : ~Same(login[k].acc, call[v].acc)
        /\ \A k \in DOMAIN file : ~Same(file[k], call[v].acc)
        /\ \A u \in Hands : Same(call[u].acc, call[v].acc) => u = v
    BY <2>1 DEF IInv, NewInHand
  <2>3. ~Same(acc, call[v].acc)
    BY <2>2 DEF acc
  <2> QED
    BY <1>3, <1>4, <1>9, <2>1, <2>2, <2>3
<1>12. Kept'
  <2> SUFFICES ASSUME NEW a \in granted PROVE Stored(a.id)'
    BY DEF Kept
  <2>1. Stored(a.id)
    BY DEF IInv, Kept
  <2>2. CASE acc.id = a.id
    BY <1>3, <2>2 DEF Stored
  <2>3. CASE acc.id # a.id
    <3>1. CASE \E k \in DOMAIN login : login[k].acc.id = a.id
      <4>1. PICK k \in DOMAIN login : login[k].acc.id = a.id
        BY <3>1
      <4>2. k \in DOMAIN login \ {i}
        BY <2>3, <4>1 DEF acc
      <4>3. PICK j \in DOMAIN login' : login'[j] = login[k]
        BY <1>4, <4>2
      <4> QED
        BY <4>1, <4>3 DEF Stored
    <3>2. CASE \E k \in DOMAIN file : file[k].id = a.id
      <4>1. PICK k \in DOMAIN file : file[k].id = a.id
        BY <3>2
      <4>2. PICK j \in DOMAIN file' : file'[j] = file[k]
        BY <1>3, <2>3, <4>1
      <4> QED
        BY <4>1, <4>2 DEF Stored
    <3>3. CASE \E v \in Worker : call[v].at = "verified" /\ call[v].acc.id = a.id
      BY <3>3 DEF Stored, HandsAlone
    <3> QED
      BY <2>1, <3>1, <3>2, <3>3 DEF Stored
  <2> QED
    BY <2>2, <2>3
<1> QED
  BY <1>5, <1>6, <1>7, <1>8, <1>10, <1>11, <1>12 DEF IInv

LEMMA InvLogout ==
    ASSUME IInv, NEW w \in Worker, NEW h \in Host, NEW id \in Id, Logout(w, h, id)
    PROVE  IInv'
<1> DEFINE i == FindId(id)
           stuck == [at |-> "stuck"]
<1>1. /\ TypeOK /\ call[w].at = "idle" /\ call \in [Worker -> Step]
      /\ UNCHANGED <<tmp, raced, curmaxid, curmaxnum, made, granted, sweep>>
      /\ filelocked \in BOOLEAN /\ left \subseteq Worker /\ stage \in Stages
      /\ curmaxnum \in Nat
      /\ Len(login) \in Nat /\ DOMAIN login = 1 .. Len(login)
  BY LenProperties DEF IInv, TypeOK, Logout, Begin, Rest, numbers, Stages
<1>2. stuck \in Step /\ stuck.at \notin {"verified", "read", "link"}
  BY Steps
<1>3. ASSUME call' = call, UNCHANGED <<file, login, left, stage>>,
             filelocked' \in BOOLEAN, dead' \in BOOLEAN
      PROVE  IInv'
  <2>1. Goto(w, call[w]) /\ call[w] \in Step
    BY <1>1, <1>3 DEF Goto
  <2> QED
    BY <1>1, <1>3, <2>1, CallOnly
<1>4. CASE ~(i # 0 /\ login[i].host = h)
  <2>1. Undefined(Destroyed) /\ UNCHANGED <<file, filelocked, login, left, call, stage>>
    BY <1>4 DEF Logout, files
  <2>2. dead' \in BOOLEAN
    BY <2>1, UndefinedType
  <2> QED
    BY <1>1, <1>3, <2>1, <2>2
<1>5. CASE i # 0 /\ login[i].host = h /\ stage # "running"
  <2>1. dead' = TRUE /\ UNCHANGED <<file, filelocked, login, left, call, stage>>
    BY <1>5 DEF Logout, files
  <2> QED
    BY <1>1, <1>3, <2>1
<1>6. CASE i # 0 /\ login[i].host = h /\ stage = "running"
  <2>1. LoginRemove(w, h, i) /\ dead' \in BOOLEAN
    BY <1>1, <1>6 DEF Logout, TypeOK
  <2>2. i \in DOMAIN login
    BY <1>1, <1>6, FindIdFacts
  <2>3. Keeping(h) \subseteq Worker
    BY DEF Keeping
  <2> HIDE DEF i, stuck
  <2>4. CASE /\ file' = Updated(login[i].acc) /\ login' = RemoveAt(login, i)
             /\ left' = left \union Keeping(h)
             /\ UNCHANGED <<filelocked, call, stage>>
    <3>1. HandsAlone /\ LinksAlone
      BY <2>4 DEF HandsAlone, LinksAlone
    <3> QED
      BY <1>1, <2>1, <2>2, <2>3, <2>4, <3>1, InvUpdated
  <2>5. CASE UNCHANGED <<files, login, left, call, stage>>
    BY <1>1, <1>3, <2>1, <2>5 DEF files
  <2>6. CASE filelocked' = TRUE /\ UNCHANGED <<file, login, left, call, stage>>
    BY <1>1, <1>3, <2>1, <2>6
  <2>7. CASE /\ file' = Updated(login[i].acc) /\ stage' = "closed" /\ Goto(w, stuck)
             /\ UNCHANGED <<filelocked, login, left>>
    <3>1. HandsAlone /\ LinksAlone
      BY <1>1, <1>2, <2>7, GotoHandsAlone, GotoLinksAlone
    <3>2. call' \in [Worker -> Step]
      BY <1>1, <1>2, <2>7, GotoFacts
    <3> QED
      BY <1>1, <2>1, <2>2, <2>7, <3>1, <3>2, InvUpdated DEF Stages
  <2>8. CASE Goto(w, stuck) /\ UNCHANGED <<files, login, left, stage>>
    BY <1>1, <1>2, <2>1, <2>8, CallOnly DEF files
  <2> QED
    BY <2>1, <2>4, <2>5, <2>6, <2>7, <2>8 DEF LoginRemove, stuck
<1> QED
  BY <1>4, <1>5, <1>6

\* A field of a node is written; its account and its client stay.
LEMMA WriteFacts ==
    ASSUME TypeOK, NEW i \in DOMAIN login, NEW field \in Field, NEW new \in Value,
           login' = [login EXCEPT ![i].acc.val[field] = new]
    PROVE  /\ login' \in Seq(Login) /\ DOMAIN login' = DOMAIN login
           /\ \A k \in DOMAIN login \ {i} : login'[k] = login[k]
           /\ \A k \in DOMAIN login :
                /\ login'[k].addr = login[k].addr /\ login'[k].host = login[k].host
                /\ login'[k].acc.id = login[k].acc.id /\ login'[k].acc.key = login[k].acc.key
<1>1. login \in Seq(Login) /\ Len(login) \in Nat /\ DOMAIN login = 1 .. Len(login)
  BY LenProperties DEF TypeOK
<1>2. login[i] \in Login
  BY <1>1, ElementOfSeq
<1> DEFINE node == [login[i] EXCEPT !.acc.val[field] = new]
<1>3. node \in Login /\ node.addr = login[i].addr /\ node.host = login[i].host
      /\ node.acc.id = login[i].acc.id /\ node.acc.key = login[i].acc.key
  <2>1. [login[i].acc.val EXCEPT ![field] = new] \in [Field -> Value]
    BY <1>2 DEF Login, Account
  <2> QED
    BY <1>2, <2>1 DEF Login, Account
<1>4. login' = [login EXCEPT ![i] = node]
  OBVIOUS
<1> HIDE DEF node
<1>5. login' \in Seq(Login) /\ DOMAIN login' = DOMAIN login
  BY <1>1, <1>3, <1>4
<1>6. login'[i] = node /\ \A k \in DOMAIN login \ {i} : login'[k] = login[k]
  BY <1>1, <1>4
<1> QED
  BY <1>3, <1>5, <1>6

LEMMA InvWritten ==
    ASSUME IInv, NEW w \in Worker, call[w].at = "write", NEW i \in DOMAIN login,
           login' = [login EXCEPT ![i].acc.val[call[w].field] = call[w].new],
           call[w].new # TooLong, Goto(w, Idle), dead' \in BOOLEAN,
           UNCHANGED <<tmp, raced, file, filelocked, curmaxid, curmaxnum, made, stage>>,
           UNCHANGED <<left, granted, sweep>>
    PROVE  IInv'
<1>1. TypeOK /\ call[w] \in Changing
  BY StepFacts DEF IInv, TypeOK
<1>2. call[w].field \in Field /\ call[w].new \in Value
  BY <1>1, ServerAssumption DEF Changing
<1>3. /\ login' \in Seq(Login) /\ DOMAIN login' = DOMAIN login
      /\ \A k \in DOMAIN login :
           /\ login'[k].addr = login[k].addr
           /\ login'[k].acc.id = login[k].acc.id /\ login'[k].acc.key = login[k].acc.key
  BY <1>1, <1>2, WriteFacts
<1>4. Idle \in Step /\ Idle.at \notin {"verified", "read", "link"}
  BY Steps DEF Idle
<1>5. HandsAlone /\ LinksAlone /\ call' \in [Worker -> Step]
  BY <1>1, <1>4, GotoFacts, GotoHandsAlone, GotoLinksAlone
<1>6. TypeOK'
  BY <1>1, <1>3, <1>5 DEF TypeOK
<1>7. KeysOK' /\ KeysOnce' /\ OneAccountPerCode' /\ OneRecord'
  BY <1>5, KeysAlone DEF IInv, OneAccountPerCode, OneRecord
<1>8. OneNodePerAccount' /\ Addresses'
  BY <1>3 DEF IInv, OneNodePerAccount, Addresses
<1>9. \A v \in Hands' : v \in Hands /\ call'[v].acc = call[v].acc
  BY <1>5 DEF HandsAlone, Hands
<1>10. AllKnown'
  <2>1. AllKnown
    BY DEF IInv
  <2>2. \A j \in DOMAIN login' : Known(login'[j].acc)
    BY <1>3, <2>1 DEF AllKnown, Known
  <2>3. \A v \in Hands' : Known(call'[v].acc)
    BY <1>9, <2>1 DEF AllKnown
  <2>4. \A b : Known(b) => Known(b)'
    BY DEF Known
  <2> QED
    BY <2>1, <2>2, <2>3, <2>4 DEF AllKnown
<1>11. NewInHand'
  <2>1. \A v \in Worker : call'[v].at = "verified" => call'[v] = call[v]
    BY <1>5 DEF HandsAlone
  <2> QED
    BY <1>3, <1>9, <2>1 DEF IInv, NewInHand, Same
<1>12. Kept'
  <2>1. \A id : Stored(id) => Stored(id)'
    BY <1>3, <1>5 DEF Stored, HandsAlone
  <2> QED
    BY <2>1 DEF IInv, Kept
<1> QED
  BY <1>6, <1>7, <1>8, <1>10, <1>11, <1>12 DEF IInv

LEMMA InvWrite ==
    ASSUME IInv, NEW w \in Worker, Write(w)
    PROVE  IInv'
<1> DEFINE i == Position(call[w].addr)
<1>1. TypeOK /\ call[w].at = "write" /\ Goto(w, Idle) /\ dead' \in BOOLEAN
  BY UndefinedType DEF IInv, Write, At, Return
<1>2. /\ UNCHANGED <<tmp, raced, file, filelocked, curmaxid, curmaxnum, made, stage>>
      /\ UNCHANGED <<left, granted, sweep>>
  BY DEF Write, Rest, files, numbers, history
<1>3. login' = IF i = 0 \/ call[w].new = TooLong THEN login
               ELSE [login EXCEPT ![i].acc.val[call[w].field] = call[w].new]
  BY DEF Write
<1>4. i # 0 => i \in DOMAIN login
  <2>1. Len(login) \in Nat /\ DOMAIN login = 1 .. Len(login)
    BY <1>1, LenProperties DEF TypeOK
  <2> QED
    BY <2>1, PositionFacts
<1> HIDE DEF i
<1>5. CASE i = 0 \/ call[w].new = TooLong
  <2>1. Idle \in Step /\ Idle.at \notin {"verified", "read", "link"}
    BY Steps DEF Idle
  <2>2. login' = login
    BY <1>3, <1>5
  <2> QED
    BY <1>1, <1>2, <2>1, <2>2, CallOnly DEF TypeOK, Stages
<1>6. CASE i # 0 /\ call[w].new # TooLong
  <2>1. login' = [login EXCEPT ![i].acc.val[call[w].field] = call[w].new]
    BY <1>3, <1>6
  <2> QED
    BY <1>1, <1>2, <1>4, <1>6, <2>1, InvWritten
<1> QED
  BY <1>5, <1>6

-----------------------------------------------------------------------------
(* The invariant of every step. *)

LEMMA InvStutter == IInv /\ UNCHANGED vars => IInv'
<1> SUFFICES ASSUME IInv, UNCHANGED vars PROVE IInv'
  OBVIOUS
<1>1. /\ UNCHANGED <<tmp, raced, login, file, filelocked, curmaxid, curmaxnum, call>>
      /\ UNCHANGED <<sweep, stage, dead, made, left, granted>>
  BY DEF vars, memory, lists, history
<1>2. TypeOK' /\ HandsAlone /\ LinksAlone
  BY <1>1 DEF IInv, TypeOK, HandsAlone, LinksAlone
<1> QED
  BY <1>1, <1>2, AccountsAlone, KeysAlone DEF IInv

LEMMA InvRequest == IInv /\ (\E w \in Worker : Request(w)) => IInv'
<1> SUFFICES ASSUME IInv, NEW w \in Worker, Request(w) PROVE IInv'
  OBVIOUS
<1>1. CASE \E h \in Host, id \in Id, passwd \in Value, new \in New :
              \/ ChangeUsername(w, h, id, passwd, new)
              \/ ChangePasswd(w, h, id, passwd, new)
              \/ ChangeGrade(w, h, id, passwd, new)
  BY <1>1, InvChange DEF ChangeUsername, ChangePasswd, ChangeGrade, Field
<1> QED
  BY <1>1, InvCreate, InvVerify, InvLoginRead, InvLogout DEF Request

LEMMA InvNext == IInv /\ [Next]_vars => IInv'
<1> SUFFICES ASSUME IInv, [Next]_vars PROVE IInv'
  OBVIOUS
<1>1. ASSUME NEW w \in Worker, Continue(w) PROVE IInv'
  BY <1>1, InvWalk, InvSearchFile, InvNextNumber, InvCopyNumber, InvAddTmp, InvLinkTmp,
     InvAddVerified, InvTryAdd, InvCompare, InvWrite
  DEF Continue
<1> QED
  BY <1>1, InvStutter, InvRequest, InvSweep, InvSweepNode, InvExpire, InvCloseFiles,
     InvShutdown
  DEF Next

\* The accounts of the server stay what they are, whatever the workers, the
\* cleaner and the shutdown do in turn.
THEOREM Invariant == Spec => []IInv
  BY InvInit, InvNext, PTL DEF Spec

-----------------------------------------------------------------------------
(* What a step does to the login list. *)

Added ==
    /\ \A j \in DOMAIN login' : j = 1 \/ (j - 1 \in DOMAIN login /\ login'[j] = login[j - 1])
    /\ \A i \in DOMAIN login : i + 1 \in DOMAIN login' /\ login'[i + 1] = login[i]
    /\ \A i \in DOMAIN login : login[i].addr # login'[1].addr

\* A client logs out; what its handlers keep may be the node that goes.
Removed(i) ==
    /\ call' = call /\ login' = RemoveAt(login, i)
    /\ left' = left \union Keeping(login[i].host)

Written(w, i) ==
    /\ call[w].at = "write" /\ login[i].addr = call[w].addr
    /\ DOMAIN login' = DOMAIN login
    /\ \A k \in DOMAIN login \ {i} : login'[k] = login[k]
    /\ \A k \in DOMAIN login : login'[k].addr = login[k].addr /\ login'[k].host = login[k].host

LoginStep ==
    \/ login' = login
    \/ Added
    \/ \E i \in DOMAIN login : Removed(i) \/ \E w \in Worker : Written(w, i)

LEMMA AddedByHandler ==
    ASSUME IInv, NEW w \in Worker, AddVerified(w) \/ TryAdd(w)
    PROVE  login' = login \/ Added
<1>1. TypeOK /\ call[w] \in Holding
  BY StepFacts DEF IInv, TypeOK, AddVerified, TryAdd, At
<1>2. call[w].acc \in Account /\ call[w].host \in Host
  BY <1>1 DEF Holding
<1> SUFFICES ASSUME login' = LoginAdd(call[w].acc, call[w].host),
                    \A i \in DOMAIN login : ~Same(login[i].acc, call[w].acc)
             PROVE  Added
  <2>1. CASE AddVerified(w)
    BY <2>1 DEF AddVerified, At, IInv, NewInHand
  <2>2. CASE TryAdd(w) /\ FindId(call[w].acc.id) # 0
    BY <2>2 DEF TryAdd
  <2>3. CASE TryAdd(w) /\ FindId(call[w].acc.id) = 0
    BY <2>3, NotLoggedIn DEF TryAdd
  <2> QED
    BY <2>1, <2>2, <2>3
<1> QED
  BY <1>2, LoginAddFacts DEF Added

LEMMA RemovedByLogout ==
    ASSUME IInv, NEW w \in Worker, NEW h \in Host, NEW id \in Id, Logout(w, h, id)
    PROVE  login' = login \/ \E i \in DOMAIN login : Removed(i)
<1>1. Len(login) \in Nat /\ DOMAIN login = 1 .. Len(login)
  BY LenProperties DEF IInv, TypeOK
<1> DEFINE i == FindId(id)
<1>2. \/ login' = login
      \/ i # 0 /\ login[i].host = h /\ LoginRemove(w, h, i)
  BY DEF Logout
<1>3. i # 0 => i \in DOMAIN login
  BY <1>1, FindIdFacts
<1> HIDE DEF i
<1> QED
  BY <1>2, <1>3 DEF LoginRemove, Removed

LEMMA WrittenByHandler ==
    ASSUME IInv, NEW w \in Worker, Write(w)
    PROVE  login' = login \/ \E i \in DOMAIN login : Written(w, i)
<1> DEFINE i == Position(call[w].addr)
<1>1. /\ TypeOK /\ call[w] \in Changing /\ call[w].at = "write"
      /\ Len(login) \in Nat /\ DOMAIN login = 1 .. Len(login)
  BY StepFacts, LenProperties DEF IInv, TypeOK, Write, At
<1>2. login' = IF i = 0 \/ call[w].new = TooLong THEN login
               ELSE [login EXCEPT ![i].acc.val[call[w].field] = call[w].new]
  BY DEF Write
<1>3. i # 0 => i \in DOMAIN login /\ login[i].addr = call[w].addr
  BY <1>1, PositionFacts
<1> HIDE DEF i
<1>4. CASE i # 0 /\ call[w].new # TooLong
  <2>1. call[w].field \in Field /\ call[w].new \in Value
    BY <1>1, <1>4, ServerAssumption DEF Changing
  <2>2. login' = [login EXCEPT ![i].acc.val[call[w].field] = call[w].new]
    BY <1>2, <1>4
  <2>3. Written(w, i)
    BY <1>1, <1>3, <1>4, <2>1, <2>2, WriteFacts DEF Written
  <2> QED
    BY <1>3, <1>4, <2>3
<1> QED
  BY <1>2, <1>4

LEMMA LoginSteps == IInv /\ [Next]_vars => LoginStep
<1> SUFFICES ASSUME IInv, [Next]_vars PROVE LoginStep
  OBVIOUS
<1>1. CASE UNCHANGED vars
  BY <1>1 DEF vars, memory, lists, LoginStep
<1>2. ASSUME NEW w \in Worker, Request(w) PROVE LoginStep
  <2>1. CASE \E tel \in Tel, num \in Usernum \union {Empty} : Create(w, tel, num)
    BY <2>1 DEF Create, lists, LoginStep
  <2>2. CASE \E h \in Host, tel \in VerifyTel, code \in BOOLEAN : Verify(w, h, tel, code)
    BY <2>2 DEF Verify, LoginStep
  <2>3. CASE \E h \in Host, tel \in VerifyTel, passwd \in Value : LoginRead(w, h, tel, passwd)
    BY <2>3 DEF LoginRead, lists, LoginStep
  <2>4. CASE \E h \in Host, id \in Id : Logout(w, h, id)
    BY <2>4, RemovedByLogout DEF LoginStep
  <2>5. CASE \E h \in Host, id \in Id, passwd \in Value, new \in New :
                \/ ChangeUsername(w, h, id, passwd, new)
                \/ ChangePasswd(w, h, id, passwd, new)
                \/ ChangeGrade(w, h, id, passwd, new)
    BY <2>5 DEF ChangeUsername, ChangePasswd, ChangeGrade, Change, lists, LoginStep
  <2> QED
    BY <1>2, <2>1, <2>2, <2>3, <2>4, <2>5 DEF Request
<1>3. ASSUME NEW w \in Worker, Continue(w) PROVE LoginStep
  <2>1. CASE Walk(w) \/ SearchFile(w) \/ NextNumber(w) \/ CopyNumber(w) \/ AddTmp(w)
             \/ LinkTmp(w) \/ Compare(w)
    BY <2>1
    DEF Walk, SearchFile, NextNumber, CopyNumber, AddTmp, LinkTmp, Compare, lists, LoginStep
  <2>2. CASE AddVerified(w) \/ TryAdd(w)
    BY <2>2, AddedByHandler DEF LoginStep
  <2>3. CASE Write(w)
    BY <2>3, WrittenByHandler DEF LoginStep
  <2> QED
    BY <1>3, <2>1, <2>2, <2>3 DEF Continue
<1>4. CASE Sweep \/ SweepNode \/ (\E i \in DOMAIN tmp : Expire(i)) \/ CloseFiles \/ Shutdown
  BY <1>4
  DEF Sweep, SweepNode, Expire, CloseFiles, Shutdown, ClearLogin, ClearTmp, JoinCleaner,
      JoinWorkers, handlers, LoginStep
<1> QED
  BY <1>1, <1>2, <1>3, <1>4 DEF Next

-----------------------------------------------------------------------------
(* What a step does to the nodes that handlers keep. *)

Keeps(s) == s.at \in {"compare", "write"}
IsThere(addr, host) == \E i \in DOMAIN login : login[i].addr = addr /\ login[i].host = host

\* A handler goes on with what it kept, or has just found it.
CallStep ==
    \A v \in Worker : Keeps(call'[v]) /\ v \notin left' =>
        \/ /\ Keeps(call[v]) /\ v \notin left
           /\ call'[v].addr = call[v].addr /\ call'[v].host = call[v].host
        \/ login' = login /\ IsThere(call'[v].addr, call'[v].host)

LEMMA GotoElsewhere ==
    ASSUME TypeOK, NEW w \in Worker, NEW step, Goto(w, step), ~Keeps(step), left \subseteq left'
    PROVE  CallStep
<1>1. call'[w] = step /\ \A v \in Worker \ {w} : call'[v] = call[v]
  BY DEF TypeOK, Goto
<1> SUFFICES ASSUME NEW v \in Worker, Keeps(call'[v]), v \notin left'
             PROVE  /\ Keeps(call[v]) /\ v \notin left
                    /\ call'[v].addr = call[v].addr /\ call'[v].host = call[v].host
  BY DEF CallStep
<1>2. v # w
  BY <1>1
<1> QED
  BY <1>1, <1>2

LEMMA CallStays == call' = call /\ left \subseteq left' => CallStep
  BY DEF CallStep

LEMMA CallRequest ==
    ASSUME IInv, NEW w \in Worker, Request(w)
    PROVE  CallStep
<1>1. TypeOK /\ login \in Seq(Login)
  BY DEF IInv, TypeOK
<1>2. ASSUME NEW tel \in Tel, NEW num \in Usernum \union {Empty}, Create(w, tel, num)
      PROVE  CallStep
  <2> DEFINE search == [at |-> "search", tel |-> tel, num |-> num]
             walk   == [at |-> "walk", tel |-> tel, num |-> num, addr |-> Head(login).addr]
  <2>1. left' = left /\ (Goto(w, search) \/ Goto(w, walk))
    BY <1>2 DEF Create, history
  <2>2. ~Keeps(search) /\ ~Keeps(walk)
    BY DEF Keeps
  <2> HIDE DEF search, walk
  <2> QED
    BY <1>1, <2>1, <2>2, GotoElsewhere
<1>3. ASSUME NEW h \in Host, NEW tel \in VerifyTel, NEW code \in BOOLEAN, Verify(w, h, tel, code)
      PROVE  CallStep
  <2> DEFINE step1 == [at |-> "verified", acc |-> NewAccount(Head(tmp)), host |-> h]
             step2 == IF TmpFind(tel) = "spins" THEN [at |-> "spin"] ELSE Idle
  <2>1. left' = left /\ (Goto(w, step1) \/ Goto(w, step2))
    BY <1>3 DEF Verify
  <2>2. ~Keeps(step1) /\ ~Keeps(step2)
    BY DEF Keeps, Idle
  <2> HIDE DEF step1, step2
  <2> QED
    BY <1>1, <2>1, <2>2, GotoElsewhere
<1>4. ASSUME NEW h \in Host, NEW tel \in VerifyTel, NEW passwd \in Value,
             LoginRead(w, h, tel, passwd)
      PROVE  CallStep
  <2> DEFINE step == [at |-> "read", acc |-> file[FindLogin(tel)], host |-> h]
  <2>1. /\ left' = left
        /\ Goto(w, step) \/ Goto(w, Idle) \/ call' = call
    BY <1>4 DEF LoginRead, history
  <2>2. ~Keeps(step) /\ ~Keeps(Idle)
    BY DEF Keeps, Idle
  <2> HIDE DEF step
  <2> QED
    BY <1>1, <2>1, <2>2, GotoElsewhere, CallStays
<1>5. ASSUME NEW h \in Host, NEW id \in Id, Logout(w, h, id) PROVE CallStep
  <2> DEFINE stuck == [at |-> "stuck"]
  <2>1. left \subseteq left' /\ (Goto(w, stuck) \/ call' = call)
    BY <1>5 DEF Logout, LoginRemove
  <2>2. ~Keeps(stuck)
    BY DEF Keeps
  <2> HIDE DEF stuck
  <2> QED
    BY <1>1, <2>1, <2>2, GotoElsewhere, CallStays
<1>6. ASSUME NEW h \in Host, NEW field \in Field, NEW id \in Id, NEW passwd \in Value,
             NEW new \in New, Change(w, h, field, id, passwd, new)
      PROVE  CallStep
  <2> DEFINE addr == FindVerified(id, h)
             step == IF addr = Nil THEN Idle
                     ELSE [at |-> "compare", addr |-> addr, host |-> h, passwd |-> passwd,
                           field |-> field, new |-> new]
  <2>1. Goto(w, step) /\ left' = left \ {w} /\ login' = login
    BY <1>6 DEF Change, lists
  <2>2. Keeps(step) => step.addr = addr /\ step.host = h /\ addr # Nil
    BY DEF Keeps, Idle
  <2>3. addr # Nil => IsThere(addr, h)
    BY <1>1, FindVerifiedFacts DEF IsThere
  <2> HIDE DEF addr, step
  <2>4. call'[w] = step /\ \A v \in Worker \ {w} : call'[v] = call[v]
    BY <1>1, <2>1 DEF TypeOK, Goto
  <2> SUFFICES ASSUME NEW v \in Worker, Keeps(call'[v]), v \notin left'
               PROVE  \/ /\ Keeps(call[v]) /\ v \notin left
                         /\ call'[v].addr = call[v].addr /\ call'[v].host = call[v].host
                      \/ IsThere(call'[v].addr, call'[v].host)
    BY <2>1 DEF CallStep
  <2>5. CASE v = w
    BY <2>2, <2>3, <2>4, <2>5
  <2>6. CASE v # w
    BY <2>1, <2>4, <2>6
  <2> QED
    BY <2>5, <2>6
<1>7. CASE \E h \in Host, id \in Id, passwd \in Value, new \in New :
              \/ ChangeUsername(w, h, id, passwd, new)
              \/ ChangePasswd(w, h, id, passwd, new)
              \/ ChangeGrade(w, h, id, passwd, new)
  BY <1>6, <1>7 DEF ChangeUsername, ChangePasswd, ChangeGrade, Field
<1> QED
  BY <1>2, <1>3, <1>4, <1>5, <1>7 DEF Request

LEMMA CallContinue ==
    ASSUME IInv, NEW w \in Worker, Continue(w)
    PROVE  CallStep
<1>1. TypeOK /\ call \in [Worker -> Step] /\ call[w] \in Step
  BY DEF IInv, TypeOK
<1>2. ~Keeps(Idle)
  BY DEF Keeps, Idle
<1>3. left' = left
  BY DEF Continue, Walk, SearchFile, NextNumber, CopyNumber, AddTmp, LinkTmp, AddVerified,
         TryAdd, Compare, Write, history
<1>4. CASE LinkTmp(w) \/ AddVerified(w) \/ TryAdd(w) \/ Write(w)
  <2>1. Goto(w, Idle)
    BY <1>4 DEF LinkTmp, AddVerified, TryAdd, Write, Return
  <2> QED
    BY <1>1, <1>2, <1>3, <2>1, GotoElsewhere
<1>5. CASE Walk(w)
  <2> DEFINE i == Position(call[w].addr)
             search == [at |-> "search", tel |-> call[w].tel, num |-> call[w].num]
             on == [call[w] EXCEPT !.addr = login[i + 1].addr]
  <2>1. Goto(w, Idle) \/ Goto(w, search) \/ Goto(w, on)
    BY <1>5 DEF Walk, Return
  <2>2. call[w] \in Walking
    BY <1>1, <1>5, StepFacts DEF Walk, At
  <2>3. ~Keeps(search) /\ ~Keeps(on)
    BY <2>2 DEF Keeps, Walking
  <2> HIDE DEF search, on
  <2> QED
    BY <1>1, <1>2, <1>3, <2>1, <2>3, GotoElsewhere
<1>6. CASE SearchFile(w) \/ NextNumber(w) \/ CopyNumber(w)
  <2> DEFINE number == [call[w] EXCEPT !.at = "number"]
             copy   == [call[w] EXCEPT !.at = "copy"]
             add    == [call[w] EXCEPT !.at = "add"]
             filled == [call[w] EXCEPT !.at = "add", !.num = curmaxnum]
  <2>1. \/ call' = call \/ Goto(w, Idle) \/ Goto(w, number) \/ Goto(w, copy)
        \/ Goto(w, add) \/ Goto(w, filled)
    BY <1>6 DEF SearchFile, NextNumber, CopyNumber
  <2>2. call[w] \in Search
    BY <1>1, <1>6, StepFacts DEF SearchFile, NextNumber, CopyNumber, At
  <2>3. ~Keeps(number) /\ ~Keeps(copy) /\ ~Keeps(add) /\ ~Keeps(filled)
    BY <2>2 DEF Keeps, Search
  <2> HIDE DEF number, copy, add, filled
  <2> QED
    BY <1>1, <1>2, <1>3, <2>1, <2>3, GotoElsewhere, CallStays
<1>7. CASE AddTmp(w)
  <2> DEFINE step == [at |-> "link", next |-> Head1,
                      node |-> [key |-> made, tel |-> call[w].tel, num |-> call[w].num,
                                old |-> FALSE, freed |-> FALSE]]
  <2>1. Goto(w, step)
    BY <1>7 DEF AddTmp
  <2>2. ~Keeps(step)
    BY DEF Keeps
  <2> HIDE DEF step
  <2> QED
    BY <1>1, <1>3, <2>1, <2>2, GotoElsewhere
<1>8. CASE Compare(w)
  <2> DEFINE step == [call[w] EXCEPT !.at = "write"]
  <2>1. call[w] \in Changing /\ Keeps(call[w])
    BY <1>1, <1>8, StepFacts DEF Compare, At, Keeps
  <2>2. Goto(w, Idle) \/ Goto(w, step)
    BY <1>8 DEF Compare, Return
  <2>3. step.addr = call[w].addr /\ step.host = call[w].host
    BY <2>1 DEF Changing
  <2> HIDE DEF step
  <2>4. CASE Goto(w, Idle)
    BY <1>1, <1>2, <1>3, <2>4, GotoElsewhere
  <2>5. CASE Goto(w, step)
    <3>1. call'[w] = step /\ \A v \in Worker \ {w} : call'[v] = call[v]
      BY <1>1, <2>5 DEF Goto
    <3> SUFFICES ASSUME NEW v \in Worker, Keeps(call'[v]), v \notin left'
                 PROVE  /\ Keeps(call[v]) /\ v \notin left
                        /\ call'[v].addr = call[v].addr /\ call'[v].host = call[v].host
      BY DEF CallStep
    <3>2. CASE v = w
      BY <1>3, <2>1, <2>3, <3>1, <3>2
    <3>3. CASE v # w
      BY <1>3, <3>1, <3>3
    <3> QED
      BY <3>2, <3>3
  <2> QED
    BY <2>2, <2>4, <2>5
<1> QED
  BY <1>4, <1>5, <1>6, <1>7, <1>8 DEF Continue

LEMMA CallSteps == IInv /\ [Next]_vars => CallStep
<1> SUFFICES ASSUME IInv, [Next]_vars PROVE CallStep
  OBVIOUS
<1>1. CASE UNCHANGED vars
  BY <1>1, CallStays DEF vars, memory, history
<1>2. CASE Sweep \/ SweepNode \/ (\E i \in DOMAIN tmp : Expire(i)) \/ CloseFiles \/ Shutdown
  <2>1. UNCHANGED <<call, left>>
    BY <1>2
    DEF Sweep, SweepNode, Expire, CloseFiles, Shutdown, ClearLogin, ClearTmp, JoinCleaner,
        JoinWorkers, handlers, history
  <2> QED
    BY <2>1, CallStays
<1> QED
  BY <1>1, <1>2, CallRequest, CallContinue DEF Next

\* Only its client logs an account out, and then the handlers of this client may
\* be left with a node that is gone.
LEMMA NodesStayOwned ==
    ASSUME IInv, KeptNodeStays, [Next]_vars
    PROVE  KeptNodeStays'
<1>1. LoginStep /\ CallStep
  BY LoginSteps, CallSteps
<1> SUFFICES ASSUME NEW v \in Worker, Keeps(call'[v]), v \notin left'
             PROVE  \E j \in DOMAIN login' :
                      login'[j].addr = call'[v].addr /\ login'[j].host = call'[v].host
  BY DEF KeptNodeStays, Keeps
<1>2. CASE login' = login /\ IsThere(call'[v].addr, call'[v].host)
  BY <1>2 DEF IsThere
<1>3. CASE /\ Keeps(call[v]) /\ v \notin left
           /\ call'[v].addr = call[v].addr /\ call'[v].host = call[v].host
  <2>1. PICK i \in DOMAIN login : login[i].addr = call[v].addr /\ login[i].host = call[v].host
    BY <1>3 DEF KeptNodeStays, Keeps
  <2>2. CASE login' = login
    BY <1>3, <2>1, <2>2
  <2>3. CASE Added
    BY <1>3, <2>1, <2>3 DEF Added
  <2>4. ASSUME NEW k \in DOMAIN login, Removed(k)
        PROVE  \E j \in DOMAIN login' :
                 login'[j].addr = call'[v].addr /\ login'[j].host = call'[v].host
    <3>1. i # k
      BY <1>3, <2>1, <2>4 DEF Removed, Keeping, Keeps
    <3>2. login \in Seq(Login) /\ login' = RemoveAt(login, k)
      BY <2>4 DEF Removed, IInv, TypeOK
    <3>3. \A a \in DOMAIN login \ {k} : \E j \in DOMAIN login' : login'[j] = login[a]
      BY <3>2, RemovedFacts
    <3>4. PICK j \in DOMAIN login' : login'[j] = login[i]
      BY <3>1, <3>3
    <3> QED
      BY <1>3, <2>1, <3>4
  <2>5. ASSUME NEW w \in Worker, NEW k \in DOMAIN login, Written(w, k)
        PROVE  \E j \in DOMAIN login' :
                 login'[j].addr = call'[v].addr /\ login'[j].host = call'[v].host
    BY <1>3, <2>1, <2>5 DEF Written
  <2> QED
    BY <1>1, <2>2, <2>3, <2>4, <2>5 DEF LoginStep
<1> QED
  BY <1>1, <1>2, <1>3 DEF CallStep

LEMMA Owned == Spec => []OwnInv
<1>1. Init => OwnInv
  BY InvInit DEF Init, Idle, KeptNodeStays, OwnInv
<1>2. OwnInv /\ [Next]_vars => OwnInv'
  BY InvNext, NodesStayOwned DEF OwnInv
<1> QED
  BY <1>1, <1>2, PTL DEF Spec

-----------------------------------------------------------------------------
(* The theorems. *)

\* The state of the service is always of its type: in particular a temporary
\* account has a number, and what a handler holds is what its place needs.
THEOREM TypeCorrect == Spec => []TypeOK
<1>1. IInv => TypeOK
  BY DEF IInv
<1> QED
  BY <1>1, Invariant, PTL

\* However many requests verify a temporary account, it becomes one account, with
\* a number of its own in this run of the server (am_account_verify_reply), as
\* long as no insertion into the temporary list, which takes no mutex, has met
\* another one or the removal of the first node; the number stays its own even
\* then.
THEOREM CodeUsedOnce == Spec => []OneAccountPerCode
<1>1. IInv => OneAccountPerCode
  BY DEF IInv
<1> QED
  BY <1>1, Invariant, PTL

\* However many clients log in with an account at a time, on records however old,
\* the login list has one node of it (am_login_tryadd).
THEOREM LoggedInOnce == Spec => []OneNodePerAccount
<1>1. IInv => OneNodePerAccount
  BY DEF IInv
<1> QED
  BY <1>1, Invariant, PTL

\* An account that was granted stays in the login list, the files or the hand of
\* its handler, unless an account of an earlier run has its number.
THEOREM AccountsStay == Spec => []NothingLost
<1>1. IInv => NothingLost
  <2> SUFFICES ASSUME IInv, \A b \in Everywhere : b.key # 0, NEW a \in granted
               PROVE  \E b \in Everywhere : a.id = b.id /\ a.key = b.key
    BY DEF NothingLost
  <2>1. Kept /\ AllKnown /\ OneAccountPerCode
    BY DEF IInv
  <2>2. \A b \in Everywhere : Known(b)
    BY <2>1 DEF Everywhere, InHand, AllKnown, Hands
  <2>3. \E b \in Everywhere : b.id = a.id
    BY <2>1 DEF Kept, Stored, Everywhere, InHand
  <2>4. PICK b \in Everywhere : b.id = a.id
    BY <2>3
  <2>5. PICK c \in granted : c.id = b.id /\ c.key = b.key
    BY <2>2 DEF Known
  <2>6. c.key = a.key
    BY <2>1, <2>4, <2>5 DEF OneAccountPerCode
  <2> QED
    BY <2>4, <2>5, <2>6
<1> QED
  BY <1>1, Invariant, PTL

\* What a handler of am_account_change_*_reply keeps of the login list without
\* the mutex is freed by requests of its own client only, however many requests
\* of however many clients are at work.
THEOREM NodesKept == Spec => []KeptNodeStays
<1>1. OwnInv => KeptNodeStays
  BY DEF OwnInv
<1> QED
  BY <1>1, Owned, PTL

\* What the login list holds of an account at an address is changed by requests
\* of the client that logged in, or of one that has logged an account out while
\* the request was at work, and by no other.
THEOREM OwnerAloneChanges == Spec => OnlyOwnerChanges
<1> DEFINE OwnerWrites(i, j) ==
      login[i].addr = login'[j].addr /\ login[i].acc # login'[j].acc
      => \E w \in Worker : /\ call[w].at = "write"
                           /\ call[w].host = login[i].host \/ w \in left
<1>1. OwnInv /\ [Next]_vars => \A i \in DOMAIN login, j \in DOMAIN login' : OwnerWrites(i, j)
  <2> SUFFICES ASSUME OwnInv, [Next]_vars, NEW i \in DOMAIN login, NEW j \in DOMAIN login',
                      login[i].addr = login'[j].addr, login[i].acc # login'[j].acc
               PROVE  \E w \in Worker : /\ call[w].at = "write"
                                        /\ call[w].host = login[i].host \/ w \in left
    OBVIOUS
  <2>1. IInv /\ KeptNodeStays /\ Addresses /\ login \in Seq(Login) /\ LoginStep
    BY LoginSteps DEF OwnInv, IInv, TypeOK
  <2>2. CASE login' = login
    BY <2>1, <2>2 DEF Addresses
  <2>3. CASE Added
    BY <2>1, <2>3 DEF Added, Addresses
  <2>4. ASSUME NEW k \in DOMAIN login, Removed(k) PROVE FALSE
    <3>1. login' = RemoveAt(login, k)
      BY <2>4 DEF Removed
    <3>2. \A b \in DOMAIN login' : \E a \in DOMAIN login \ {k} : login'[b] = login[a]
      BY <2>1, <3>1, RemovedFacts
    <3> QED
      BY <2>1, <3>2 DEF Addresses
  <2>5. ASSUME NEW w \in Worker, NEW k \in DOMAIN login, Written(w, k)
        PROVE  call[w].host = login[i].host \/ w \in left
    <3>1. i = j /\ i = k
      BY <2>1, <2>5 DEF Written, Addresses
    <3>2. w \notin left =>
            \E m \in DOMAIN login : login[m].addr = call[w].addr /\ login[m].host = call[w].host
      BY <2>1, <2>5 DEF Written, KeptNodeStays
    <3> QED
      BY <2>1, <2>5, <3>1, <3>2 DEF Written, Addresses
  <2> QED
    BY <2>1, <2>2, <2>3, <2>4, <2>5 DEF LoginStep, Written
<1>2. Spec => [][Next]_vars
  BY PTL DEF Spec
<1> QED
  BY <1>1, <1>2, Owned, PTL DEF OnlyOwnerChanges
=============================================================================

----------------------------- MODULE AccountMap -----------------------------
(***************************************************************************)
(* What the record files of src/am/common/account_file.c promise: a map    *)
(* from account numbers to account data that an update changes in one step *)
(* and a search reads in one step.                                         *)
(***************************************************************************)
CONSTANTS Id, Value, None, Pending, Searcher

VARIABLES
    accounts,   \* [Id -> Value \union {None}]
    asked,      \* [Searcher -> the number it last asked for]
    answer      \* [Searcher -> what it found, or Pending]

Init ==
    /\ accounts = [i \in Id |-> None]
    /\ asked = [s \in Searcher |-> None]
    /\ answer = [s \in Searcher |-> None]

Update(i, v) ==
    /\ accounts' = [accounts EXCEPT ![i] = v]
    /\ UNCHANGED <<asked, answer>>

Ask(s, i) ==
    /\ answer[s] # Pending
    /\ asked' = [asked EXCEPT ![s] = i]
    /\ answer' = [answer EXCEPT ![s] = Pending]
    /\ UNCHANGED accounts

Answer(s) ==
    /\ answer[s] = Pending
    /\ answer' = [answer EXCEPT ![s] = accounts[asked[s]]]
    /\ UNCHANGED <<accounts, asked>>

Next ==
    \/ \E i \in Id, v \in Value : Update(i, v)
    \/ \E s \in Searcher : Answer(s) \/ \E i \in Id : Ask(s, i)

Spec == Init /\ [][Next]_<<accounts, asked, answer>>
=============================================================================

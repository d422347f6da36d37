--------------------------- MODULE AccountMethods ---------------------------
(***************************************************************************)
(* The table of the account methods (src/am/common/account.c), whose       *)
(* positions are the ids the messages carry, and its two searches.         *)
(***************************************************************************)
EXTENDS Integers, SequencesExt

MethodTable == <<"create", "verify", "login", "logout",
                 "changeusername", "changepasswd", "changegrade">>

\* The table after am_method_sort.
SortedTable == <<"changegrade", "changepasswd", "changeusername",
                 "create", "login", "logout", "verify">>

INVALID_METHOD_ID == -1

\* am_method_get, whose ids count from 0.
MethodGet(id) == MethodTable[id + 1]

\* s_findmethod_unsorted
FindUnsorted(table, name) == SelectInSeq(table, LAMBDA m : m = name) - 1

\* s_findmethod_sorted over an ascending table of keys: each round moves high
\* down while the key is smaller than the one at mid, then low up while it is
\* greater.  A key the moves do not meet is not there.
FindSorted(keys, key) ==
    LET n == Len(keys)
        at(mid) == keys[mid + 1]
        down[low, mid, high \in -1 .. n] ==
            IF key < at(mid) /\ low < high
            THEN down[low, (low + mid - 1) \div 2, mid - 1] ELSE [mid |-> mid, high |-> high]
        up[low, mid, high \in -1 .. n] ==
            IF key > at(mid) /\ low < high
            THEN up[mid + 1, (mid + 1 + high) \div 2, high] ELSE [mid |-> mid, low |-> low]
        find[low, mid, high \in -1 .. n] ==
            IF low >= high THEN INVALID_METHOD_ID
            ELSE LET d == down[low, mid, high]
                     u == up[low, d.mid, d.high]
                 IN  IF at(d.mid) = key THEN d.mid
                     ELSE IF at(u.mid) = key THEN u.mid
                     ELSE find[u.low, u.mid, d.high]
    IN  find[0, n \div 2, n - 1]

\* am_method_getid: nobody sorts the table.
GetId(name) == FindUnsorted(MethodTable, name)

\* The two searches agree on the sorted table: with as many keys as there are
\* methods, every even key is where it is and no odd one is found.
ASSUME SearchesAgree ==
    LET keys == [i \in DOMAIN SortedTable |-> 2 * i]
    IN  \A key \in 1 .. 2 * Len(keys) + 1 :
            FindSorted(keys, key) = FindUnsorted(keys, key)

\* Both tables have the same methods, each once.
ASSUME SameMethods ==
    /\ ToSet(SortedTable) = ToSet(MethodTable)
    /\ IsInjective(SortedTable) /\ IsInjective(MethodTable)
=============================================================================

------------------------- MODULE AccountFileProofs -------------------------
(***************************************************************************)
(* The record files proved for every number of accounts, files, searchers, *)
(* records and updates, and for every size of the buffer of stdio.         *)
(*                                                                         *)
(* Without failures a file is replaced as if by one step (MapInv): what    *)
(* the temporary file and the buffer answer together is what the records   *)
(* copied so far answer, and the new value (Replacing).  With crashes, a   *)
(* full disk and closed streams only a weaker fact is left (KeptInv): what *)
(* was copied is in the temporary file or the buffer, wherever it stands   *)
(* (Gathering), unless they follow a part of a record or are cut short.    *)
(***************************************************************************)
EXTENDS AccountFile, SequenceTheorems, WellFoundedInduction, TLAPS

-----------------------------------------------------------------------------
(* The inductive invariant. *)

Updating == pc # "idle"

\* Who has which file: a file is gone only between the remove and the rename,
\* the temporary file is there while it is written, and a file is changed under
\* its mutex.
FilesOK ==
    /\ \A f \in File : cfg[f] = NoFile <=> pc = "rename" /\ target = f
    /\ pc \in {"lock", "copy", "remove", "rename"} => tmp[target] # NoFile
    /\ pc \in {"copy", "remove", "rename", "reopen"} => locked[target]
    /\ pc = "lock" => copied = 0
    /\ pc \in {"lock", "copy"} => copied <= Len(cfg[target])

IInv == TypeOK /\ FilesOK

\* The new record and the first n records of the file, but the one it replaces,
\* are in S.
Gathered(n, S) ==
    /\ rec \in S
    /\ \A k \in 1 .. n : cfg[target][k].id # rec.id => cfg[target][k] \in S

\* How far the new file is, unless it follows a part of a record or is cut short.
Gathering ==
    /\ Updating => rec.value \in may[rec.id]
    /\ pc \in {"lock", "copy"} /\ ~shifted =>
          Gathered(copied, Elements(tmp[target]) \union Elements(buffer))
    /\ pc = "remove" /\ ~cut => Gathered(Len(cfg[target]), Elements(tmp[target]))
    /\ pc = "rename" /\ ~cut => rec \in Elements(tmp[target])
    /\ pc = "reopen" /\ ~cut => rec \in Elements(cfg[target])

KeptInv == IInv /\ Gathering /\ NothingLost

\* Nothing fails: no crash, no full disk, no closing of the files.
NoFailure == MaxCrashes = 0 /\ ~FilesMayFail /\ ~MayClear

\* Then a temporary file is there only while it is written, and complete.
Quiet ==
    /\ ~dead /\ ~shifted /\ pc # "fatal"
    /\ \A f \in File : /\ open[f]
                       /\ torn[f] => pc = "copy" /\ target = f
                       /\ tmp[f] # NoFile =>
                            pc \in {"lock", "copy", "remove", "rename"} /\ target = f

\* Every record is in the file of its number.
InPlace(records, f) == \A k \in 1 .. Len(records) : FileOf(records[k].id) = f
Placed ==
    /\ \A f \in File : /\ cfg[f] # NoFile => InPlace(cfg[f], f)
                       /\ tmp[f] # NoFile => InPlace(tmp[f], f)
    /\ Updating => InPlace(buffer, target)

\* A search that goes on has found nothing, and the file of its number is not
\* behind its last.
Searching ==
    \A s \in Searcher : search[s].at < FileNum =>
        /\ search[s].id \in Id /\ search[s].got = None
        /\ search[s].at <= search[s].last /\ FileOf(search[s].id) <= search[s].last

\* What the new file answers: the new value, and what old answers else.
Replaces(new, old) ==
    /\ Lookup(new, rec.id) = rec.value
    /\ \A i \in Id \ {rec.id} : Lookup(new, i) = Lookup(old, i)

Replacing ==
    /\ pc \in {"lock", "copy"} =>
          Replaces(tmp[target] \o buffer, SubSeq(cfg[target], 1, copied))
    /\ pc = "remove" => Replaces(tmp[target], cfg[target])

MapInv == IInv /\ Quiet /\ Placed /\ Searching /\ Replacing

-----------------------------------------------------------------------------
(* Files, records and what is found in them. *)

LEMMA FileFacts == \A id \in Id : FileOf(id) \in File
<1> SUFFICES ASSUME NEW id \in Id PROVE FileOf(id) \in File
  OBVIOUS
<1> DEFINE q == id \div PerFile
<1>1. /\ PerFile \in Nat \ {0} /\ FileNum \in Nat \ {0}
      /\ id \in Nat /\ id <= PerFile * FileNum - 1 /\ PerFile * FileNum \in Nat
  BY FileAssumption
<1>2. q \in Nat /\ PerFile * q <= id
  BY <1>1
<1>3. q < FileNum
  <2> SUFFICES ASSUME FileNum <= q PROVE FALSE
    BY <1>1, <1>2
  <2> HIDE DEF q
  <2>1. PerFile * FileNum <= PerFile * q
    BY <1>1, <1>2
  <2> QED
    BY <1>1, <1>2, <2>1
<1> QED
  BY <1>1, <1>2, <1>3 DEF FileOf, File

LEMMA LeastNumber ==
    ASSUME NEW S \in SUBSET Nat, S # {}
    PROVE  Min(S) \in S /\ \A y \in S : Min(S) <= y
<1>1. \E x \in S : \A y \in S : ~(<<y, x>> \in OpToRel(<, Nat))
  BY NatLessThanWellFounded, WFMin
<1>2. PICK x \in S : \A y \in S : ~(<<y, x>> \in OpToRel(<, Nat))
  BY <1>1
<1>3. \A y \in S : ~(y < x)
  BY <1>2 DEF OpToRel
<1>4. \A y \in S : x <= y
  BY <1>3
<1> QED
  BY <1>4 DEF Min

\* The value of the first record with a number.
LEMMA LookupFacts ==
    ASSUME NEW file, NEW id, Len(file) \in Nat
    PROVE  \/ /\ Lookup(file, id) = None
              /\ \A k \in 1 .. Len(file) : file[k].id # id
           \/ \E k \in 1 .. Len(file) :
                /\ Lookup(file, id) = file[k].value
                /\ file[k].id = id
                /\ \A j \in 1 .. Len(file) : file[j].id = id => k <= j
<1> DEFINE found == {k \in 1 .. Len(file) : file[k].id = id}
<1>1. Lookup(file, id) = IF found = {} THEN None ELSE file[Min(found)].value
  BY DEF Lookup
<1>2. CASE found = {}
  BY <1>1, <1>2
<1>3. CASE found # {}
  <2> DEFINE m == Min(found)
  <2>1. m \in found /\ \A j \in found : m <= j
    <3>1. found \in SUBSET Nat
      OBVIOUS
    <3> HIDE DEF found
    <3> QED
      BY <1>3, <3>1, LeastNumber
  <2>2. Lookup(file, id) = file[m].value
    BY <1>1, <1>3
  <2>3. m \in 1 .. Len(file) /\ file[m].id = id
    BY <2>1
  <2>4. \A j \in 1 .. Len(file) : file[j].id = id => m <= j
    BY <2>1
  <2> HIDE DEF m
  <2> QED
    BY <2>2, <2>3, <2>4
<1> QED
  BY <1>2, <1>3

LEMMA LookupType ==
    ASSUME NEW file \in Seq(Record), NEW id
    PROVE  Lookup(file, id) \in Value \union {None}
<1>1. Len(file) \in Nat /\ \A k \in 1 .. Len(file) : file[k] \in Record
  OBVIOUS
<1>2. \A r \in Record : r.value \in Value
  BY DEF Record
<1>3. \/ Lookup(file, id) = None
      \/ \E k \in 1 .. Len(file) : Lookup(file, id) = file[k].value
  BY <1>1, LookupFacts
<1> QED
  BY <1>1, <1>2, <1>3

-----------------------------------------------------------------------------
(* Types. *)

LEMMA InitIInv == Init => IInv
<1> SUFFICES ASSUME Init PROVE IInv
  OBVIOUS
<1>1. <<>> \in Seq(Record) /\ NoFile \notin Seq(Record) /\ FileNum \in Nat \ {0}
  BY FileAssumption DEF Record
<1>2. FilesOK
  BY <1>1 DEF Init, FilesOK
<1>3. \A s \in Searcher : search[s] \in [at : 0 .. FileNum, last : 0 .. FileNum - 1,
                                         id : Id \union {None}, got : Value \union {None}]
  BY <1>1 DEF Init, Resting
<1>4. search \in [Searcher -> [at : 0 .. FileNum, last : 0 .. FileNum - 1,
                               id : Id \union {None}, got : Value \union {None}]]
  BY <1>3 DEF Init
<1>5. /\ updates \in 0 .. MaxUpdates /\ crashes \in 0 .. MaxCrashes
      /\ Len(buffer) <= BufRecords
  BY FileAssumption DEF Init
<1> QED
  BY <1>1, <1>2, <1>4, <1>5 DEF Init, IInv, TypeOK

LEMMA Sizes ==
    /\ NoFile \notin Seq(Record) /\ <<>> \in Seq(Record)
    /\ BufRecords \in Nat \ {0} /\ FileNum \in Nat \ {0}
  BY FileAssumption DEF Record

\* While an update runs it has a record, and a file for it.
LEMMA TargetFacts ==
    ASSUME TypeOK, Updating
    PROVE  /\ rec \in Record /\ rec.id \in Id /\ rec.value \in Value
           /\ target \in File
<1>1. rec \in Record
  BY DEF TypeOK, Updating
<1> QED
  BY <1>1, FileFacts DEF Record, target

\* The search and the flags.
LEMMA ScanTypes ==
    ASSUME IInv, NEW s \in Searcher, Scan(s)
    PROVE  IInv'
<1> DEFINE at == search[s].at
           got == Lookup(cfg[at], search[s].id)
<1>1. /\ search[s] \in [at : 0 .. FileNum, last : 0 .. FileNum - 1,
                        id : Id \union {None}, got : Value \union {None}]
      /\ at < FileNum /\ ~locked[at]
  BY DEF IInv, TypeOK, Scan
<1>2. at \in File
  BY <1>1, FileAssumption DEF File
<1>3. cfg[at] \in Seq(Record)
  BY <1>1, <1>2 DEF IInv, TypeOK, FilesOK
<1>4. got \in Value \union {None}
  BY <1>3, LookupType
<1>5. at + 1 \in 0 .. FileNum /\ FileNum \in 0 .. FileNum
  BY <1>1, <1>2, FileAssumption DEF File
<1>6. search' = [search EXCEPT
        ![s].got = got,
        ![s].at = IF got # None \/ at = search[s].last THEN FileNum ELSE at + 1]
  BY DEF Scan
<1> HIDE DEF at, got
<1>7. search' \in [Searcher -> [at : 0 .. FileNum, last : 0 .. FileNum - 1,
                                id : Id \union {None}, got : Value \union {None}]]
  BY <1>1, <1>4, <1>5, <1>6 DEF IInv, TypeOK
<1>8. UNCHANGED <<disk, open, locked, pc, locals, dead, bounds, may, cut>>
  BY DEF Scan
<1> QED
  BY <1>7, <1>8 DEF IInv, TypeOK, FilesOK, target, disk, locals, bounds

\* What is written to the temporary file keeps it one.
LEMMA WriteTypes ==
    ASSUME IInv, pc = "copy", NEW records \in Seq(Record),
           tmp' = [tmp EXCEPT ![target] = Written(records)]
    PROVE  /\ tmp' \in [File -> Seq(Record) \union {NoFile}]
           /\ tmp'[target] \in Seq(Record)
           /\ \A f \in File \ {target} : tmp'[f] = tmp[f]
<1>1. target \in File /\ tmp \in [File -> Seq(Record) \union {NoFile}]
  BY TargetFacts DEF IInv, TypeOK, Updating
<1>2. tmp[target] \in Seq(Record)
  BY <1>1 DEF IInv, FilesOK
<1>3. Written(records) \in Seq(Record)
  BY <1>2 DEF Written
<1> QED
  BY <1>1, <1>3

LEMMA CutTypes ==
    ASSUME IInv, pc = "copy", CutShort
    PROVE  /\ tmp' \in [File -> Seq(Record) \union {NoFile}]
           /\ tmp'[target] \in Seq(Record)
           /\ \A f \in File \ {target} : tmp'[f] = tmp[f]
           /\ torn' \in [File -> BOOLEAN]
<1>1. target \in File /\ torn \in [File -> BOOLEAN] /\ shifted \in BOOLEAN
  BY TargetFacts DEF IInv, TypeOK, Updating
<1>2. PICK n \in 0 .. Len(buffer) - 1 :
        tmp' = [tmp EXCEPT ![target] = Written(SubSeq(buffer, 1, n))]
  BY DEF CutShort
<1>3. SubSeq(buffer, 1, n) \in Seq(Record)
  BY SubSeqProperties DEF IInv, TypeOK
<1>4. torn' \in [File -> BOOLEAN]
  BY <1>1 DEF CutShort
<1> QED
  BY <1>2, <1>3, <1>4, WriteTypes

LEMMA OpenTypes == ASSUME IInv, NEW r \in Record, OpenTmp(r) PROVE IInv'
<1> DEFINE t == FileOf(r.id)
<1>1. /\ t \in File /\ r.id \in Id /\ r.value \in Value
      /\ rec' = r /\ target' = t /\ pc = "idle" /\ pc' = "lock"
  BY FileFacts DEF OpenTmp, Goto, Record, target
<1>2. /\ tmp' = [tmp EXCEPT ![t] = Opened(@)]
      /\ copied' = 0 /\ buffer' = <<r>> /\ shifted' = torn[t]
      /\ updates < MaxUpdates /\ updates' = updates + 1
      /\ may' = [may EXCEPT ![r.id] = @ \union {r.value}]
      /\ UNCHANGED <<cfg, torn, open, locked, search, dead, crashes, cut>>
  BY DEF OpenTmp
<1>3. Opened(tmp[t]) \in Seq(Record) /\ NoFile \notin Seq(Record)
  BY <1>1, Sizes DEF IInv, TypeOK, Opened
<1>4. \A f \in File : cfg[f] \in Seq(Record)
  BY <1>1 DEF IInv, TypeOK, FilesOK
<1> HIDE DEF t
<1>5. buffer' \in Seq(Record) /\ Len(buffer') = 1 /\ 1 <= BufRecords
  BY <1>2, FileAssumption
<1>6. updates' \in 0 .. MaxUpdates
  BY <1>2, FileAssumption DEF IInv, TypeOK
<1>7. may' \in [Id -> SUBSET (Value \union {None})]
  BY <1>1, <1>2 DEF IInv, TypeOK
<1>8. tmp' \in [File -> Seq(Record) \union {NoFile}] /\ tmp'[t] # NoFile
  BY <1>1, <1>2, <1>3 DEF IInv, TypeOK
<1>9. TypeOK'
  BY <1>1, <1>2, <1>5, <1>6, <1>7, <1>8 DEF IInv, TypeOK
<1>10. FilesOK'
  <2>1. \A f \in File : cfg'[f] # NoFile
    BY <1>2, <1>3, <1>4
  <2>2. copied' <= Len(cfg'[target'])
    BY <1>1, <1>2, <1>4
  <2> QED
    BY <1>1, <1>2, <1>8, <2>1, <2>2 DEF FilesOK
<1> QED
  BY <1>9, <1>10 DEF IInv

LEMMA CopyTypes == ASSUME IInv, Copy \/ Skip PROVE IInv'
<1>1. /\ pc = "copy" /\ pc' = "copy" /\ target \in File /\ rec \in Record
      /\ copied < Len(cfg[target]) /\ copied' = copied + 1
      /\ UNCHANGED <<cfg, open, locked, rec, shifted, search, dead, bounds, may, cut>>
      /\ target' = target
  <2>1. pc = "copy"
    BY DEF Copy, Skip, Goto
  <2>2. target \in File /\ rec \in Record
    BY <2>1, TargetFacts DEF IInv, Updating
  <2>3. target' = target
    BY DEF Copy, Skip, target
  <2> QED
    BY <2>1, <2>2, <2>3 DEF Copy, Skip, Goto, disk
<1>2. cfg[target] \in Seq(Record) /\ tmp[target] \in Seq(Record)
  BY <1>1 DEF IInv, TypeOK, FilesOK
<1>3. copied + 1 \in 1 .. Len(cfg[target]) /\ Current \in Record
  BY <1>1, <1>2 DEF IInv, TypeOK, Current
<1>4. /\ buffer' \in Seq(Record) /\ Len(buffer') <= BufRecords
      /\ tmp' \in [File -> Seq(Record) \union {NoFile}] /\ tmp'[target] # NoFile
      /\ torn' \in [File -> BOOLEAN]
  <2>0. /\ buffer \in Seq(Record) /\ Len(buffer) \in Nat /\ Len(buffer) <= BufRecords
        /\ torn \in [File -> BOOLEAN] /\ tmp \in [File -> Seq(Record) \union {NoFile}]
        /\ BufRecords \in Nat \ {0} /\ NoFile \notin Seq(Record)
    BY Sizes DEF IInv, TypeOK
  <2>1. CASE Skip
    BY <1>2, <2>0, <2>1 DEF Skip, disk
  <2>2. CASE Copy /\ Len(buffer) < BufRecords
    <3>1. buffer' = Append(buffer, Current) /\ UNCHANGED <<tmp, torn>>
      BY <2>2 DEF Copy
    <3>2. buffer' \in Seq(Record) /\ Len(buffer') = Len(buffer) + 1
      BY <1>3, <2>0, <3>1
    <3> QED
      BY <1>2, <2>0, <2>2, <3>1, <3>2
  <2>3. CASE Copy /\ ~(Len(buffer) < BufRecords)
    <3>1. /\ buffer' = <<Current>>
          /\ tmp' = [tmp EXCEPT ![target] = Written(buffer)]
          /\ torn' = [torn EXCEPT ![target] = TRUE]
      BY <2>3 DEF Copy
    <3>2. buffer' \in Seq(Record) /\ Len(buffer') = 1
      BY <1>3, <3>1
    <3>3. tmp' \in [File -> Seq(Record) \union {NoFile}] /\ tmp'[target] \in Seq(Record)
      BY <1>1, <2>0, <3>1, WriteTypes
    <3> QED
      BY <2>0, <3>1, <3>2, <3>3
  <2> QED
    BY <2>1, <2>2, <2>3
<1>5. TypeOK'
  BY <1>1, <1>3, <1>4 DEF IInv, TypeOK, bounds
<1>6. FilesOK'
  BY <1>1, <1>3, <1>4 DEF IInv, FilesOK
<1> QED
  BY <1>5, <1>6 DEF IInv

LEMMA CloseTypes ==
    ASSUME IInv, CopyFails \/ CloseTmp
    PROVE  IInv'
<1>1. /\ pc = "copy" /\ target \in File /\ rec \in Record
      /\ UNCHANGED <<cfg, open, locked, search, dead, bounds, may>>
  <2>1. pc = "copy"
    BY DEF CopyFails, CloseTmp, Goto
  <2>2. target \in File /\ rec \in Record
    BY <2>1, TargetFacts DEF IInv, Updating
  <2> QED
    BY <2>1, <2>2 DEF CopyFails, CloseTmp
<1>2. /\ tmp' \in [File -> Seq(Record) \union {NoFile}] /\ tmp'[target] # NoFile
      /\ torn' \in [File -> BOOLEAN]
  <2>1. CASE CutShort
    BY <1>1, <2>1, CutTypes, Sizes
  <2>2. CASE ~CutShort
    <3>1. /\ tmp' = [tmp EXCEPT ![target] = Written(buffer)]
          /\ torn' = [torn EXCEPT ![target] = shifted]
      BY <2>2 DEF CopyFails, CloseTmp
    <3>2. buffer \in Seq(Record) /\ torn \in [File -> BOOLEAN] /\ shifted \in BOOLEAN
      BY DEF IInv, TypeOK
    <3> QED
      BY <1>1, <3>1, <3>2, WriteTypes, Sizes
  <2> QED
    BY <2>1, <2>2
<1>3. CASE CopyFails
  <2>1. /\ pc' = "idle" /\ rec' = None /\ copied' = 0 /\ buffer' = <<>> /\ shifted' = FALSE
        /\ cut' = cut
    BY <1>3 DEF CopyFails, Goto, Return
  <2>2. buffer' \in Seq(Record) /\ Len(buffer') <= BufRecords
    BY <2>1, Sizes
  <2>3. TypeOK'
    BY <1>1, <1>2, <2>1, <2>2 DEF IInv, TypeOK, bounds
  <2> QED
    BY <1>1, <2>1, <2>3 DEF IInv, FilesOK
<1>4. CASE CloseTmp
  <2>1. /\ pc' = "remove" /\ buffer' = <<>> /\ target' = target
        /\ UNCHANGED <<rec, copied, shifted>>
    BY <1>4 DEF CloseTmp, Goto, target
  <2>2. cut' \in BOOLEAN
    BY <1>4 DEF CloseTmp, IInv, TypeOK
  <2>3. TypeOK'
    BY <1>1, <1>2, <2>1, <2>2, Sizes DEF IInv, TypeOK, bounds
  <2> QED
    BY <1>1, <1>2, <2>1, <2>3 DEF IInv, FilesOK
<1> QED
  BY <1>3, <1>4

LEMMA ReplaceTypes ==
    ASSUME IInv, RemoveCfg \/ RenameTmp \/ Reopen
    PROVE  IInv'
<1>1. pc \in {"remove", "rename", "reopen"}
  BY DEF RemoveCfg, RenameTmp, Reopen, Goto
<1>2. target \in File /\ rec \in Record /\ rec.id \in Id /\ rec.value \in Value
  BY <1>1, TargetFacts DEF IInv, Updating
<1>3. CASE RemoveCfg
  <2>1. /\ pc = "remove" /\ pc' = "rename" /\ target' = target
        /\ cfg' = [cfg EXCEPT ![target] = NoFile]
        /\ UNCHANGED <<tmp, torn, open, locked, locals, search, dead, bounds, may, cut>>
    BY <1>3 DEF RemoveCfg, Goto, target, locals
  <2>2. TypeOK'
    BY <1>2, <2>1 DEF IInv, TypeOK, locals, bounds
  <2>3. \A f \in File : cfg'[f] = IF f = target THEN NoFile ELSE cfg[f]
    BY <1>2, <2>1 DEF IInv, TypeOK
  <2> QED
    BY <1>2, <2>1, <2>2, <2>3 DEF IInv, FilesOK, locals
<1>4. CASE RenameTmp
  <2>1. /\ pc = "rename" /\ pc' = "reopen" /\ target' = target
        /\ cfg' = [cfg EXCEPT ![target] = tmp[target]]
        /\ tmp' = [tmp EXCEPT ![target] = NoFile]
        /\ torn' = [torn EXCEPT ![target] = FALSE]
        /\ UNCHANGED <<open, locked, locals, search, dead, bounds, may, cut>>
    BY <1>4 DEF RenameTmp, Goto, target, locals
  <2>2. tmp[target] \in Seq(Record) /\ tmp[target] # NoFile
    BY <1>2, <2>1 DEF IInv, TypeOK, FilesOK
  <2>3. TypeOK'
    BY <1>2, <2>1, <2>2 DEF IInv, TypeOK, locals, bounds
  <2>4. cfg \in [File -> Seq(Record) \union {NoFile}] /\ locked[target]
    BY <2>1 DEF IInv, TypeOK, FilesOK
  <2>5. \A f \in File : cfg'[f] # NoFile
    BY <1>2, <2>1, <2>2, <2>4 DEF IInv, FilesOK
  <2> QED
    BY <2>1, <2>3, <2>4, <2>5 DEF IInv, FilesOK
<1>5. CASE Reopen
  <2>1. /\ pc = "reopen" /\ pc' = "idle"
        /\ locked' = [locked EXCEPT ![target] = FALSE]
        /\ may' = [may EXCEPT ![rec.id] = {rec.value}]
        /\ rec' = None /\ copied' = 0 /\ buffer' = <<>> /\ shifted' = FALSE
        /\ UNCHANGED <<disk, open, search, dead, bounds, cut>>
    BY <1>5 DEF Reopen, Goto, Return
  <2>2. may' \in [Id -> SUBSET (Value \union {None})] /\ locked' \in [File -> BOOLEAN]
    BY <1>2, <2>1 DEF IInv, TypeOK
  <2>3. buffer' \in Seq(Record) /\ Len(buffer') <= BufRecords
    BY <2>1, Sizes
  <2>4. TypeOK'
    BY <2>1, <2>2, <2>3 DEF IInv, TypeOK, disk, bounds
  <2> QED
    BY <2>1, <2>4 DEF IInv, FilesOK, disk
<1> QED
  BY <1>3, <1>4, <1>5

LEMMA OtherTypes ==
    ASSUME IInv, Lock \/ UseClosed \/ (\E s \in Searcher : ScanClosed(s))
                 \/ (\E s \in Searcher, id \in Id : Find(s, id)) \/ (\E f \in File : Clear(f))
                 \/ Restart
    PROVE  IInv'
<1>1. CASE Lock
  <2>1. /\ pc = "lock" /\ pc' = "copy" /\ target' = target
        /\ locked' = [locked EXCEPT ![target] = TRUE]
        /\ UNCHANGED <<disk, open, locals, search, dead, bounds, may, cut>>
    BY <1>1 DEF Lock, Goto, target, locals
  <2>2. target \in File
    BY <2>1, TargetFacts DEF IInv, Updating
  <2>3. TypeOK'
    BY <2>1 DEF IInv, TypeOK, disk, locals, bounds
  <2>4. locked'[target]
    BY <2>1, <2>2 DEF IInv, TypeOK
  <2> QED
    BY <2>1, <2>3, <2>4 DEF IInv, FilesOK, disk, locals
<1>2. CASE UseClosed \/ \E s \in Searcher : ScanClosed(s)
  <2>1. dead' = TRUE /\ UNCHANGED <<disk, open, locked, pc, locals, search, bounds, may, cut>>
    BY <1>2 DEF UseClosed, ScanClosed
  <2> QED
    BY <2>1 DEF IInv, TypeOK, FilesOK, disk, locals, bounds, target
<1>3. CASE \E s \in Searcher, id \in Id : Find(s, id)
  <2> PICK s \in Searcher, id \in Id : Find(s, id)
    BY <1>3
  <2>1. PICK range \in {<<FileOf(id), FileOf(id)>>, <<0, FileNum - 1>>} :
          search' = [search EXCEPT ![s] =
                       [at |-> range[1], last |-> range[2], id |-> id, got |-> None]]
    BY DEF Find
  <2>2. FileOf(id) \in File
    BY FileFacts
  <2>3. range[1] \in 0 .. FileNum /\ range[2] \in 0 .. FileNum - 1
    BY <2>2, Sizes DEF File
  <2>4. search' \in [Searcher -> [at : 0 .. FileNum, last : 0 .. FileNum - 1,
                                  id : Id \union {None}, got : Value \union {None}]]
    BY <2>1, <2>3 DEF IInv, TypeOK
  <2>5. UNCHANGED <<disk, open, locked, pc, locals, dead, bounds, may, cut>>
    BY DEF Find
  <2> QED
    BY <2>4, <2>5 DEF IInv, TypeOK, FilesOK, disk, locals, bounds, target
<1>4. CASE \E f \in File : Clear(f)
  <2>1. /\ open' \in [File -> BOOLEAN] /\ dead' \in BOOLEAN
        /\ UNCHANGED <<disk, locked, pc, locals, search, bounds, may, cut>>
    BY <1>4 DEF Clear, IInv, TypeOK
  <2> QED
    BY <2>1 DEF IInv, TypeOK, FilesOK, disk, locals, bounds, target
<1>5. CASE Restart
  <2>1. /\ crashes < MaxCrashes /\ crashes' = crashes + 1
        /\ cfg' = [f \in File |-> Opened(cfg[f])]
        /\ open' = [f \in File |-> TRUE] /\ locked' = [f \in File |-> FALSE]
        /\ pc' = "idle" /\ rec' = None /\ copied' = 0 /\ buffer' = <<>> /\ shifted' = FALSE
        /\ search' = [s \in Searcher |-> Resting]
        /\ dead' = FALSE /\ UNCHANGED <<tmp, torn, updates, may, cut>>
    BY <1>5 DEF Restart, Return
  <2>2. \A f \in File : Opened(cfg[f]) \in Seq(Record)
    BY Sizes DEF IInv, TypeOK, Opened
  <2>3. cfg' \in [File -> Seq(Record) \union {NoFile}] /\ \A f \in File : cfg'[f] # NoFile
    BY <2>1, <2>2, Sizes
  <2>4. Resting \in [at : 0 .. FileNum, last : 0 .. FileNum - 1,
                     id : Id \union {None}, got : Value \union {None}]
    BY Sizes DEF Resting
  <2>5. crashes' \in 0 .. MaxCrashes
    BY <2>1, FileAssumption DEF IInv, TypeOK
  <2>6. Len(buffer') <= BufRecords
    BY <2>1, Sizes
  <2>7. TypeOK'
    BY <2>1, <2>3, <2>4, <2>5, <2>6, Sizes DEF IInv, TypeOK
  <2> QED
    BY <2>1, <2>3, <2>7 DEF IInv, FilesOK
<1> QED
  BY <1>1, <1>2, <1>3, <1>4, <1>5

\* A file that cannot be opened, before the update or after it.
LEMMA FailTypes ==
    ASSUME IInv, (\E r \in Record : OpenTmpFails(r)) \/ ReopenFails PROVE IInv'
<1>1. ASSUME NEW r \in Record, OpenTmpFails(r) PROVE IInv'
  <2> DEFINE t == FileOf(r.id)
  <2>1. /\ updates < MaxUpdates /\ updates' = updates + 1 /\ pc = "idle"
        /\ dead' \in BOOLEAN
        /\ UNCHANGED <<cfg, open, locked, pc, locals, search, crashes, may, cut>>
    BY <1>1 DEF OpenTmpFails, IInv, TypeOK
  <2>2. t \in File
    BY FileFacts DEF Record
  <2>3. /\ tmp' = tmp \/ tmp' = [tmp EXCEPT ![t] = Opened(@)]
        /\ torn' = torn \/ \E part \in BOOLEAN : torn' = [torn EXCEPT ![t] = @ \/ part]
    BY <1>1 DEF OpenTmpFails
  <2> HIDE DEF t
  <2>4. tmp' \in [File -> Seq(Record) \union {NoFile}]
    <3>1. Opened(tmp[t]) \in Seq(Record)
      BY <2>2, Sizes DEF IInv, TypeOK, Opened
    <3> QED
      BY <2>2, <2>3, <3>1 DEF IInv, TypeOK
  <2>5. torn' \in [File -> BOOLEAN]
    BY <2>2, <2>3 DEF IInv, TypeOK
  <2>6. updates' \in 0 .. MaxUpdates
    BY <2>1, FileAssumption DEF IInv, TypeOK
  <2>7. TypeOK'
    BY <2>1, <2>4, <2>5, <2>6 DEF IInv, TypeOK, locals
  <2>8. FilesOK'
    BY <2>1 DEF IInv, FilesOK, locals, target
  <2> QED
    BY <2>7, <2>8 DEF IInv
<1>2. CASE ReopenFails
  <2>1. /\ pc = "reopen" /\ pc' = "fatal" /\ target' = target
        /\ open' = [open EXCEPT ![target] = FALSE]
        /\ UNCHANGED <<disk, locked, locals, search, dead, bounds, may, cut>>
    BY <1>2 DEF ReopenFails, Goto, target, locals
  <2>2. open' \in [File -> BOOLEAN]
    BY <2>1 DEF IInv, TypeOK
  <2>3. TypeOK'
    BY <2>1, <2>2 DEF IInv, TypeOK, disk, locals, bounds
  <2> QED
    BY <2>1, <2>3 DEF IInv, FilesOK, disk, locals
<1> QED
  BY <1>1, <1>2

LEMMA IInvNext == IInv /\ [Next]_vars => IInv'
<1>1. ASSUME IInv, UNCHANGED vars PROVE IInv'
  BY <1>1 DEF vars, IInv, TypeOK, FilesOK, disk, locals, bounds, target
<1> QED
  BY <1>1, OpenTypes, CopyTypes, CloseTypes, ReplaceTypes, OtherTypes, ScanTypes, FailTypes
  DEF Next, UpdateStep, Ended

\* The files, the temporary files and what am_account_update and the searches
\* keep have their types, whatever crashes, fails or is closed: a file that is
\* removed is never read, because its mutex is held until it is there again.
THEOREM AccountFileTypes == Spec => []TypeOK
<1>1. IInv => TypeOK
  BY DEF IInv
<1> QED
  BY <1>1, InitIInv, IInvNext, PTL DEF Spec

-----------------------------------------------------------------------------
(* Nothing is lost: what the updates leave on the disk. *)

LEMMA JoinedElements ==
    ASSUME NEW a \in Seq(Record), NEW b \in Seq(Record)
    PROVE  Elements(a \o b) = Elements(a) \union Elements(b)
<1> DEFINE c == a \o b
<1>1. /\ Len(a) \in Nat /\ Len(b) \in Nat /\ Len(c) = Len(a) + Len(b)
      /\ \A k \in 1 .. Len(c) : c[k] = IF k <= Len(a) THEN a[k] ELSE b[k - Len(a)]
  OBVIOUS
<1> HIDE DEF c
<1>2. ASSUME NEW x \in Elements(c) PROVE x \in Elements(a) \union Elements(b)
  <2>1. PICK k \in 1 .. Len(c) : x = c[k]
    BY DEF Elements
  <2>2. CASE k <= Len(a)
    BY <1>1, <2>1, <2>2 DEF Elements
  <2>3. CASE ~(k <= Len(a))
    <3>1. k - Len(a) \in 1 .. Len(b) /\ x = b[k - Len(a)]
      BY <1>1, <2>1, <2>3
    <3> QED
      BY <3>1 DEF Elements
  <2> QED
    BY <2>2, <2>3
<1>3. ASSUME NEW x \in Elements(a) PROVE x \in Elements(c)
  <2>1. PICK k \in 1 .. Len(a) : x = a[k]
    BY DEF Elements
  <2>2. k \in 1 .. Len(c) /\ x = c[k]
    BY <1>1, <2>1
  <2> QED
    BY <2>2 DEF Elements
<1>4. ASSUME NEW x \in Elements(b) PROVE x \in Elements(c)
  <2>1. PICK k \in 1 .. Len(b) : x = b[k]
    BY DEF Elements
  <2>2. k + Len(a) \in 1 .. Len(c) /\ x = c[k + Len(a)]
    BY <1>1, <2>1
  <2> QED
    BY <2>2 DEF Elements
<1> QED
  BY <1>2, <1>3, <1>4 DEF c

LEMMA AppendedElements ==
    ASSUME NEW a \in Seq(Record), NEW r \in Record
    PROVE  Elements(Append(a, r)) = Elements(a) \union {r}
<1>1. /\ Len(a) \in Nat /\ Len(Append(a, r)) = Len(a) + 1
      /\ \A k \in 1 .. Len(a) + 1 :
            Append(a, r)[k] = IF k = Len(a) + 1 THEN r ELSE a[k]
  OBVIOUS
<1>2. \A k \in 1 .. Len(a) + 1 : k = Len(a) + 1 \/ k \in 1 .. Len(a)
  BY <1>1
<1>3. \A k \in 1 .. Len(a) : k \in 1 .. Len(a) + 1 /\ k # Len(a) + 1
  BY <1>1
<1>4. Len(a) + 1 \in 1 .. Len(a) + 1
  BY <1>1
<1> QED
  BY <1>1, <1>2, <1>3, <1>4 DEF Elements

LEMMA SingleElement == \A r : Elements(<<r>>) = {r}
  BY DEF Elements

\* Writing to the temporary file keeps what is on the disk.
LEMMA WriteKeeps ==
    ASSUME IInv, pc = "copy", NEW records \in Seq(Record),
           tmp' = [tmp EXCEPT ![target] = Written(records)]
    PROVE  /\ Elements(tmp[target]) \subseteq Elements(tmp'[target])
           /\ ~shifted => Elements(tmp'[target]) = Elements(tmp[target]) \union Elements(records)
           /\ \A f \in File : Elements(Opened(tmp[f])) \subseteq Elements(Opened(tmp'[f]))
<1>1. target \in File /\ tmp \in [File -> Seq(Record) \union {NoFile}]
  BY TargetFacts DEF IInv, TypeOK, Updating
<1>2. tmp[target] \in Seq(Record) /\ tmp'[target] = Written(records)
  BY <1>1 DEF IInv, FilesOK
<1>3. \/ shifted /\ Written(records) = tmp[target]
      \/ ~shifted /\ Written(records) = tmp[target] \o records
  BY DEF Written
<1>4. Elements(tmp[target] \o records) = Elements(tmp[target]) \union Elements(records)
  BY <1>2, JoinedElements
<1>5. /\ Elements(tmp[target]) \subseteq Elements(tmp'[target])
      /\ ~shifted => Elements(tmp'[target]) = Elements(tmp[target]) \union Elements(records)
  BY <1>2, <1>3, <1>4
<1>6. tmp'[target] \in Seq(Record) /\ \A f \in File \ {target} : tmp'[f] = tmp[f]
  BY WriteTypes
<1>7. Opened(tmp[target]) = tmp[target] /\ Opened(tmp'[target]) = tmp'[target]
  BY <1>2, <1>6, Sizes DEF Opened
<1> QED
  BY <1>5, <1>6, <1>7

LEMMA CutKeeps ==
    ASSUME IInv, pc = "copy", CutShort
    PROVE  \A f \in File : Elements(Opened(tmp[f])) \subseteq Elements(Opened(tmp'[f]))
<1>1. PICK n \in 0 .. Len(buffer) - 1 :
        tmp' = [tmp EXCEPT ![target] = Written(SubSeq(buffer, 1, n))]
  BY DEF CutShort
<1>2. SubSeq(buffer, 1, n) \in Seq(Record)
  BY SubSeqProperties DEF IInv, TypeOK
<1> QED
  BY <1>1, <1>2, WriteKeeps

\* A step that takes nothing from the disk or from may keeps NothingLost.
LEMMA StoredStays ==
    ASSUME NothingLost, \A i \in Id : may[i] \subseteq may'[i], cut => cut',
           \A f \in File : OnDisk(f) \subseteq OnDisk(f)'
    PROVE  NothingLost'
  BY FileFacts DEF NothingLost

LEMMA KeptInit == Init => KeptInv
<1> SUFFICES ASSUME Init PROVE Gathering /\ NothingLost
  BY InitIInv DEF KeptInv
<1> QED
  BY DEF Init, Gathering, NothingLost, Updating

LEMMA KeptOpen == ASSUME KeptInv, NEW r \in Record, OpenTmp(r) PROVE KeptInv'
<1> DEFINE t == FileOf(r.id)
<1>1. /\ t \in File /\ r.id \in Id /\ rec' = r /\ pc' = "lock"
      /\ tmp' = [tmp EXCEPT ![t] = Opened(@)] /\ tmp \in [File -> Seq(Record) \union {NoFile}]
      /\ copied' = 0 /\ buffer' = <<r>>
      /\ may' = [may EXCEPT ![r.id] = @ \union {r.value}]
      /\ may \in [Id -> SUBSET (Value \union {None})]
      /\ UNCHANGED <<cfg, cut>>
  BY FileFacts DEF OpenTmp, Goto, Record, KeptInv, IInv, TypeOK
<1> HIDE DEF t
<1>2. Gathering'
  <2>1. r \in Elements(buffer')
    BY <1>1, SingleElement
  <2>2. r.value \in may'[r.id]
    BY <1>1
  <2>3. Gathered(copied, Elements(tmp[target]) \union Elements(buffer))'
    BY <1>1, <2>1 DEF Gathered
  <2> QED
    BY <1>1, <2>2, <2>3 DEF Gathering
<1>3. \A f \in File : OnDisk(f) \subseteq OnDisk(f)'
  <2>1. \A f \in File : Opened(tmp'[f]) = Opened(tmp[f])
    BY <1>1, Sizes DEF Opened
  <2> QED
    BY <1>1, <2>1 DEF OnDisk
<1>4. \A i \in Id : may[i] \subseteq may'[i]
  BY <1>1
<1>5. NothingLost'
  BY <1>1, <1>3, <1>4, StoredStays DEF KeptInv
<1>6. IInv'
  BY OpenTypes DEF KeptInv
<1> QED
  BY <1>2, <1>5, <1>6 DEF KeptInv

LEMMA KeptCopy == ASSUME KeptInv, Copy \/ Skip PROVE KeptInv'
<1>0. IInv
  BY DEF KeptInv
<1>1. /\ pc = "copy" /\ pc' = "copy" /\ target' = target
      /\ copied < Len(cfg[target]) /\ copied' = copied + 1
      /\ UNCHANGED <<cfg, rec, shifted, may, cut>>
  BY DEF Copy, Skip, Goto, target, disk
<1>2. /\ target \in File /\ cfg[target] \in Seq(Record) /\ tmp[target] \in Seq(Record)
      /\ copied \in Nat /\ buffer \in Seq(Record)
  BY <1>0, <1>1, TargetFacts DEF IInv, TypeOK, FilesOK, Updating
<1>3. copied + 1 \in 1 .. Len(cfg[target]) /\ Current \in Record
  BY <1>1, <1>2 DEF Current
<1>4. \A k \in 1 .. copied + 1 : k \in 1 .. copied \/ k = copied + 1
  BY <1>2
<1> DEFINE S == Elements(tmp[target]) \union Elements(buffer)
           T == Elements(tmp'[target]) \union Elements(buffer')
<1>5. /\ ~shifted => S \subseteq T /\ (Current.id # rec.id => Current \in T)
      /\ \A f \in File : Elements(Opened(tmp[f])) \subseteq Elements(Opened(tmp'[f]))
  <2>1. CASE Skip
    BY <2>1 DEF Skip, disk
  <2>2. CASE Copy /\ Len(buffer) < BufRecords
    <3>1. buffer' = Append(buffer, Current) /\ UNCHANGED <<tmp, torn>>
      BY <2>2 DEF Copy
    <3>2. Elements(buffer') = Elements(buffer) \union {Current}
      BY <1>2, <1>3, <3>1, AppendedElements
    <3> QED
      BY <3>1, <3>2
  <2>3. CASE Copy /\ ~(Len(buffer) < BufRecords)
    <3>1. /\ buffer' = <<Current>>
          /\ tmp' = [tmp EXCEPT ![target] = Written(buffer)]
      BY <2>3 DEF Copy
    <3>2. Current \in Elements(buffer')
      BY <3>1, SingleElement
    <3> QED
      BY <1>0, <1>1, <1>2, <3>1, <3>2, WriteKeeps
  <2> QED
    BY <2>1, <2>2, <2>3
<1>6. ~shifted => Gathered(copied, S)
  BY <1>1 DEF KeptInv, Gathering
<1>7. ~shifted => Gathered(copied + 1, T)
  <2> SUFFICES ASSUME ~shifted, NEW k \in 1 .. copied + 1, cfg[target][k].id # rec.id
               PROVE  rec \in T /\ cfg[target][k] \in T
    BY <1>5, <1>6 DEF Gathered
  <2>1. k \in 1 .. copied => cfg[target][k] \in S
    BY <1>6 DEF Gathered
  <2>2. rec \in S
    BY <1>6 DEF Gathered
  <2> HIDE DEF S, T
  <2> QED
    BY <1>4, <1>5, <2>1, <2>2 DEF Current
<1>8. Gathering'
  <2>1. ~shifted' => Gathered(copied, Elements(tmp[target]) \union Elements(buffer))'
    BY <1>1, <1>7 DEF Gathered
  <2> QED
    BY <1>1, <2>1 DEF KeptInv, Gathering, Updating
<1>9. NothingLost'
  <2>1. \A f \in File : OnDisk(f) \subseteq OnDisk(f)'
    BY <1>1, <1>5 DEF OnDisk
  <2> QED
    BY <1>1, <2>1, StoredStays DEF KeptInv
<1> QED
  BY <1>0, <1>8, <1>9, CopyTypes DEF KeptInv

LEMMA KeptClose == ASSUME KeptInv, CopyFails \/ CloseTmp PROVE KeptInv'
<1>0. IInv
  BY DEF KeptInv
<1>1. /\ pc = "copy" /\ UNCHANGED <<cfg, may>> /\ (cut => cut')
  <2>1. pc = "copy" /\ UNCHANGED <<cfg, may>>
    BY DEF CopyFails, CloseTmp, Goto
  <2>2. ASSUME cut PROVE cut'
    <3>1. CASE CopyFails
      BY <2>2, <3>1 DEF CopyFails
    <3>2. CASE CloseTmp
      BY <2>2, <3>2 DEF CloseTmp
    <3> QED
      BY <3>1, <3>2
  <2> QED
    BY <2>1, <2>2
<1>2. target \in File /\ buffer \in Seq(Record)
  <2>1. TypeOK /\ Updating
    BY <1>0, <1>1 DEF IInv, Updating
  <2>2. target \in File
    BY <2>1, TargetFacts
  <2> QED
    BY <2>1, <2>2 DEF TypeOK
<1>3. \A f \in File : Elements(Opened(tmp[f])) \subseteq Elements(Opened(tmp'[f]))
  <2>1. CASE CutShort
    BY <1>0, <1>1, <2>1, CutKeeps
  <2>2. CASE ~CutShort
    <3>1. tmp' = [tmp EXCEPT ![target] = Written(buffer)]
      BY <2>2 DEF CopyFails, CloseTmp
    <3> QED
      BY <1>0, <1>1, <1>2, <3>1, WriteKeeps
  <2> QED
    BY <2>1, <2>2
<1>4. NothingLost'
  <2>1. \A f \in File : OnDisk(f) \subseteq OnDisk(f)'
    BY <1>1, <1>3 DEF OnDisk
  <2> QED
    BY <1>1, <2>1, StoredStays DEF KeptInv
<1>5. Gathering'
  <2>1. CASE CopyFails
    BY <2>1 DEF CopyFails, Goto, Gathering, Updating
  <2>2. CASE CloseTmp
    <3>1. pc' = "remove" /\ target' = target /\ UNCHANGED <<rec, shifted>>
      BY <2>2 DEF CloseTmp, Goto, target
    <3>2. ASSUME ~cut'
          PROVE  Gathered(Len(cfg[target]), Elements(tmp[target]))'
      <4>1. /\ tmp' = [tmp EXCEPT ![target] = Written(buffer)] /\ ~shifted
            /\ copied = Len(cfg[target])
        BY <2>2, <3>2 DEF CloseTmp, Copied
      <4>2. Elements(tmp'[target]) = Elements(tmp[target]) \union Elements(buffer)
        BY <1>0, <1>1, <1>2, <4>1, WriteKeeps
      <4>3. Gathered(copied, Elements(tmp[target]) \union Elements(buffer))
        BY <1>1, <4>1 DEF KeptInv, Gathering
      <4> QED
        BY <1>1, <3>1, <4>1, <4>2, <4>3 DEF Gathered
    <3> QED
      BY <1>1, <3>1, <3>2 DEF KeptInv, Gathering, Updating
  <2> QED
    BY <2>1, <2>2
<1> QED
  BY <1>0, <1>4, <1>5, CloseTypes DEF KeptInv

LEMMA KeptRemove == ASSUME KeptInv, RemoveCfg PROVE KeptInv'
<1>0. IInv
  BY DEF KeptInv
<1>1. /\ pc = "remove" /\ pc' = "rename" /\ target' = target
      /\ cfg' = [cfg EXCEPT ![target] = NoFile]
      /\ UNCHANGED <<tmp, rec, may, cut>>
  BY DEF RemoveCfg, Goto, target, locals
<1>2. /\ target \in File /\ rec \in Record /\ rec.id \in Id
      /\ cfg \in [File -> Seq(Record) \union {NoFile}]
      /\ tmp[target] # NoFile /\ cfg[target] # NoFile
  BY <1>0, <1>1, TargetFacts DEF IInv, TypeOK, FilesOK, Updating
<1>3. ~cut => Gathered(Len(cfg[target]), Elements(tmp[target]))
  BY <1>1 DEF KeptInv, Gathering
<1>4. Gathering'
  BY <1>1, <1>3 DEF KeptInv, Gathering, Updating, Gathered
<1>5. NothingLost'
  <2> SUFFICES ASSUME NEW i \in Id, ~cut, None \notin may[i]
               PROVE  \E v \in may[i] : [id |-> i, value |-> v] \in OnDisk(FileOf(i))'
    BY <1>1 DEF NothingLost
  <2>1. PICK v \in may[i] : [id |-> i, value |-> v] \in OnDisk(FileOf(i))
    BY DEF KeptInv, NothingLost
  <2> DEFINE r == [id |-> i, value |-> v]
  <2>2. FileOf(i) \in File
    BY FileFacts
  <2>3. CASE FileOf(i) # target \/ r \in Elements(tmp[target])
    <3>1. r \in OnDisk(FileOf(i))'
      BY <1>1, <1>2, <2>1, <2>2, <2>3 DEF OnDisk, Opened
    <3> QED
      BY <3>1
  <2>4. CASE FileOf(i) = target /\ r \notin Elements(tmp[target])
    <3>1. r \in Elements(cfg[target])
      BY <1>2, <2>1, <2>4 DEF OnDisk, Opened
    <3>2. PICK k \in 1 .. Len(cfg[target]) : r = cfg[target][k]
      BY <3>1 DEF Elements
    <3>3. r.id = rec.id
      BY <1>3, <2>4, <3>2 DEF Gathered
    <3>4. rec.id = i /\ rec = [id |-> i, value |-> rec.value]
      BY <1>2, <3>3 DEF Record
    <3>5. rec.value \in may[i]
      BY <1>1, <3>4 DEF KeptInv, Gathering, Updating
    <3>6. rec \in Elements(tmp'[target])
      BY <1>1, <1>3 DEF Gathered
    <3>7. rec \in OnDisk(FileOf(i))'
      BY <1>1, <1>2, <2>4, <3>6 DEF OnDisk, Opened
    <3> QED
      BY <3>4, <3>5, <3>7
  <2> QED
    BY <2>3, <2>4
<1> QED
  BY <1>0, <1>4, <1>5, ReplaceTypes DEF KeptInv

LEMMA KeptRename == ASSUME KeptInv, RenameTmp PROVE KeptInv'
<1>0. IInv
  BY DEF KeptInv
<1>1. /\ pc = "rename" /\ pc' = "reopen" /\ target' = target
      /\ cfg' = [cfg EXCEPT ![target] = tmp[target]]
      /\ tmp' = [tmp EXCEPT ![target] = NoFile]
      /\ UNCHANGED <<rec, may, cut>>
  BY DEF RenameTmp, Goto, target, locals
<1>2. /\ target \in File
      /\ cfg \in [File -> Seq(Record) \union {NoFile}]
      /\ tmp \in [File -> Seq(Record) \union {NoFile}]
      /\ tmp[target] # NoFile /\ cfg[target] = NoFile
  BY <1>0, <1>1, TargetFacts DEF IInv, TypeOK, FilesOK, Updating
<1>3. Gathering'
  BY <1>1, <1>2 DEF KeptInv, Gathering, Updating
<1>4. \A f \in File : OnDisk(f) \subseteq OnDisk(f)'
  <2> SUFFICES ASSUME NEW f \in File, NEW r \in OnDisk(f) PROVE r \in OnDisk(f)'
    OBVIOUS
  <2>1. CASE f = target
    <3>1. r \in Elements(tmp[target])
      BY <1>2, <2>1 DEF OnDisk, Opened, Elements
    <3> QED
      BY <1>1, <1>2, <2>1, <3>1 DEF OnDisk, Opened
  <2>2. CASE f # target
    BY <1>1, <1>2, <2>2 DEF OnDisk
  <2> QED
    BY <2>1, <2>2
<1>5. NothingLost'
  BY <1>1, <1>4, StoredStays DEF KeptInv
<1> QED
  BY <1>0, <1>3, <1>5, ReplaceTypes DEF KeptInv

LEMMA KeptReopen == ASSUME KeptInv, Reopen PROVE KeptInv'
<1>0. IInv
  BY DEF KeptInv
<1>1. /\ pc = "reopen" /\ pc' = "idle"
      /\ may' = [may EXCEPT ![rec.id] = {rec.value}]
      /\ UNCHANGED <<cfg, tmp, cut>>
  BY DEF Reopen, Goto, disk
<1>2. /\ target \in File /\ rec \in Record /\ rec.id \in Id
      /\ cfg[target] # NoFile /\ may \in [Id -> SUBSET (Value \union {None})]
  BY <1>0, <1>1, TargetFacts DEF IInv, TypeOK, FilesOK, Updating
<1>3. Gathering'
  BY <1>1 DEF Gathering, Updating
<1>4. NothingLost'
  <2> SUFFICES ASSUME NEW i \in Id, ~cut, None \notin may'[i]
               PROVE  \E v \in may'[i] : [id |-> i, value |-> v] \in OnDisk(FileOf(i))'
    BY <1>1 DEF NothingLost
  <2>1. OnDisk(FileOf(i))' = OnDisk(FileOf(i))
    BY <1>1 DEF OnDisk
  <2>2. CASE i = rec.id
    <3>1. rec \in Elements(cfg[target])
      BY <1>1 DEF KeptInv, Gathering
    <3>2. rec \in OnDisk(FileOf(i))
      BY <1>2, <2>2, <3>1 DEF OnDisk, Opened, target
    <3>3. rec = [id |-> i, value |-> rec.value]
      BY <1>2, <2>2 DEF Record
    <3>4. rec.value \in may'[i]
      BY <1>1, <1>2, <2>2
    <3> QED
      BY <2>1, <3>2, <3>3, <3>4
  <2>3. CASE i # rec.id
    <3>1. may'[i] = may[i]
      BY <1>1, <1>2, <2>3
    <3> QED
      BY <2>1, <3>1 DEF KeptInv, NothingLost
  <2> QED
    BY <2>2, <2>3
<1> QED
  BY <1>0, <1>3, <1>4, ReplaceTypes DEF KeptInv

LEMMA KeptFails ==
    ASSUME KeptInv, (\E r \in Record : OpenTmpFails(r)) \/ ReopenFails PROVE KeptInv'
<1>0. IInv /\ IInv'
  BY FailTypes DEF KeptInv
<1>1. /\ UNCHANGED <<cfg, rec, may, cut>>
      /\ \/ pc = "idle" /\ pc' = "idle"
         \/ pc = "reopen" /\ pc' = "fatal"
      /\ \A f \in File : tmp'[f] \in {tmp[f], Opened(tmp[f])}
  <2>1. CASE ReopenFails
    BY <2>1 DEF ReopenFails, Goto, disk, locals
  <2>2. ASSUME NEW r \in Record, OpenTmpFails(r)
        PROVE  \A f \in File : tmp'[f] \in {tmp[f], Opened(tmp[f])}
    <3>1. tmp' = tmp \/ tmp' = [tmp EXCEPT ![FileOf(r.id)] = Opened(@)]
      BY <2>2 DEF OpenTmpFails
    <3>2. tmp \in [File -> Seq(Record) \union {NoFile}]
      BY <1>0 DEF IInv, TypeOK
    <3> QED
      BY <3>1, <3>2
  <2>3. ASSUME NEW r \in Record, OpenTmpFails(r)
        PROVE  pc = "idle" /\ UNCHANGED <<cfg, rec, may, cut, pc>>
    BY <2>3 DEF OpenTmpFails, locals
  <2> QED
    BY <2>1, <2>2, <2>3
<1>2. Gathering'
  BY <1>1 DEF KeptInv, Gathering, Updating
<1>3. \A f \in File : OnDisk(f) \subseteq OnDisk(f)'
  <2>1. \A f \in File : Opened(tmp'[f]) = Opened(tmp[f])
    BY <1>1, Sizes DEF Opened
  <2> QED
    BY <1>1, <2>1 DEF OnDisk
<1>4. NothingLost'
  BY <1>1, <1>3, StoredStays DEF KeptInv
<1> QED
  BY <1>0, <1>2, <1>4 DEF KeptInv

LEMMA KeptRest ==
    ASSUME KeptInv, Lock \/ UseClosed \/ (\E s \in Searcher : ScanClosed(s) \/ Scan(s))
                    \/ (\E s \in Searcher, id \in Id : Find(s, id)) \/ (\E f \in File : Clear(f))
                    \/ Restart \/ UNCHANGED vars
    PROVE  KeptInv'
<1>0. IInv'
  BY IInvNext DEF KeptInv, Next, UpdateStep
<1>1. CASE Lock
  <2>1. /\ pc = "lock" /\ pc' = "copy" /\ target' = target
        /\ UNCHANGED <<cfg, tmp, rec, copied, buffer, shifted, may, cut>>
    BY <1>1 DEF Lock, Goto, disk, locals, target
  <2>2. Gathering' /\ NothingLost'
    BY <2>1 DEF KeptInv, Gathering, Gathered, NothingLost, OnDisk, Updating
  <2> QED
    BY <1>0, <2>2 DEF KeptInv
<1>2. CASE Restart
  <2>1. /\ pc' = "idle" /\ cfg' = [f \in File |-> Opened(cfg[f])]
        /\ UNCHANGED <<tmp, may, cut>>
    BY <1>2 DEF Restart
  <2>2. \A f \in File : Opened(cfg'[f]) = Opened(cfg[f])
    BY <2>1, Sizes DEF Opened
  <2>3. \A f \in File : OnDisk(f) \subseteq OnDisk(f)'
    BY <2>1, <2>2 DEF OnDisk
  <2>4. NothingLost'
    BY <2>1, <2>3, StoredStays DEF KeptInv
  <2>5. Gathering'
    BY <2>1 DEF Gathering, Updating
  <2> QED
    BY <1>0, <2>4, <2>5 DEF KeptInv
<1>3. CASE ~Lock /\ ~Restart
  <2>1. /\ UNCHANGED <<cfg, tmp, pc, rec, copied, buffer, shifted, may, cut>>
        /\ target' = target
    BY <1>3 DEF UseClosed, ScanClosed, Scan, Find, Clear, vars, disk, locals, target
  <2>2. Gathering' /\ NothingLost'
    BY <2>1 DEF KeptInv, Gathering, Gathered, NothingLost, OnDisk, Updating
  <2> QED
    BY <1>0, <2>2 DEF KeptInv
<1> QED
  BY <1>1, <1>2, <1>3

LEMMA KeptNext == KeptInv /\ [Next]_vars => KeptInv'
  BY KeptOpen, KeptCopy, KeptClose, KeptRemove, KeptRename, KeptReopen, KeptFails, KeptRest
  DEF Next, UpdateStep, Ended

\* am_account_update never takes an account from the disk: whatever crashes, is
\* closed or fails at whatever step, it is in the file or in the temporary file,
\* until one of the two replacements short of records that the property names.
THEOREM StoredStaysOnDisk == Spec => []NothingLost
<1>1. KeptInv => NothingLost
  BY DEF KeptInv
<1> QED
  BY <1>1, KeptInit, KeptNext, PTL DEF Spec

-----------------------------------------------------------------------------
(* What a file answers that gets longer. *)

LEMMA NoneFacts == None \notin Value /\ Pending \notin Value /\ None # Pending /\ None \notin Id
  BY FileAssumption

LEMMA LookupAppend ==
    ASSUME NEW s \in Seq(Record), NEW r \in Record, NEW id
    PROVE  Lookup(Append(s, r), id) = IF Lookup(s, id) # None THEN Lookup(s, id)
                                      ELSE IF r.id = id THEN r.value ELSE None
<1> DEFINE n == Len(s)
           a == Append(s, r)
<1>1. /\ n \in Nat /\ Len(a) = n + 1
      /\ \A k \in 1 .. n + 1 : a[k] = IF k = n + 1 THEN r ELSE s[k]
      /\ \A k \in 1 .. n : s[k] \in Record
  OBVIOUS
<1>2. /\ \A k \in 1 .. n : k \in 1 .. n + 1 /\ a[k] = s[k]
      /\ \A k \in 1 .. n + 1 : k \in 1 .. n \/ k = n + 1
      /\ n + 1 \in 1 .. n + 1 /\ a[n + 1] = r
  BY <1>1
<1>3. \A k \in 1 .. n : s[k].value # None
  BY <1>1, NoneFacts DEF Record
<1>4. Len(s) \in Nat /\ Len(a) \in Nat
  BY <1>1
<1> HIDE DEF a
<1>5. \/ /\ Lookup(a, id) = None
         /\ \A k \in 1 .. n + 1 : a[k].id # id
      \/ \E k \in 1 .. n + 1 :
           /\ Lookup(a, id) = a[k].value /\ a[k].id = id
           /\ \A j \in 1 .. n + 1 : a[j].id = id => k <= j
  BY <1>1, <1>4, LookupFacts
<1>6. CASE Lookup(s, id) = None
  <2>1. \A k \in 1 .. n : s[k].id # id
    BY <1>3, <1>4, <1>6, LookupFacts
  <2>2. \A k \in 1 .. n + 1 : a[k].id = id => k = n + 1
    BY <1>2, <2>1
  <2> HIDE DEF n
  <2>3. CASE r.id = id
    BY <1>2, <1>5, <1>6, <2>2, <2>3 DEF a
  <2>4. CASE r.id # id
    BY <1>2, <1>5, <1>6, <2>2, <2>4 DEF a
  <2> QED
    BY <2>3, <2>4
<1>7. CASE Lookup(s, id) # None
  <2>1. PICK k \in 1 .. n : /\ Lookup(s, id) = s[k].value /\ s[k].id = id
                            /\ \A j \in 1 .. n : s[j].id = id => k <= j
    BY <1>4, <1>7, LookupFacts
  <2>2. a[k] = s[k] /\ k \in 1 .. n + 1
    BY <1>2
  <2>3. PICK j \in 1 .. n + 1 : /\ Lookup(a, id) = a[j].value /\ a[j].id = id
                                /\ j <= k
    BY <1>5, <2>1, <2>2
  <2>4. j \in 1 .. n /\ a[j] = s[j]
    BY <1>1, <1>2, <2>3
  <2>5. j = k
    BY <1>1, <2>1, <2>3, <2>4
  <2> QED
    BY <1>7, <2>1, <2>2, <2>3, <2>5 DEF a
<1> QED
  BY <1>6, <1>7

LEMMA LookupOne ==
    ASSUME NEW r \in Record, NEW id
    PROVE  Lookup(<<r>>, id) = IF r.id = id THEN r.value ELSE None
<1>1. Len(<<r>>) = 1 /\ <<r>>[1] = r
  OBVIOUS
<1>2. 1 \in Nat /\ \A k \in 1 .. 1 : k = 1
  OBVIOUS
<1>3. 1 \in 1 .. 1
  OBVIOUS
<1> DEFINE s == <<r>>
<1> HIDE DEF s
<1>4. \/ Lookup(s, id) = None /\ s[1].id # id
      \/ Lookup(s, id) = s[1].value /\ s[1].id = id
  BY <1>1, <1>2, <1>3, LookupFacts DEF s
<1> QED
  BY <1>1, <1>4 DEF s

LEMMA LookupEmpty == \A id : Lookup(<<>>, id) = None
<1> SUFFICES ASSUME NEW id PROVE Lookup(<<>>, id) = None
  OBVIOUS
<1>1. Len(<<>>) = 0 /\ Len(<<>>) \in Nat /\ \A k \in 1 .. 0 : FALSE
  OBVIOUS
<1> QED
  BY <1>1, LookupFacts

\* A number that is in no record is not found.
LEMMA LookupNone ==
    ASSUME NEW file \in Seq(Record), NEW id, \A k \in 1 .. Len(file) : file[k].id # id
    PROVE  Lookup(file, id) = None
<1>1. Len(file) \in Nat
  OBVIOUS
<1> QED
  BY <1>1, LookupFacts

\* One record more behind new and old, if it is not the replaced one.
LEMMA ReplacesMore ==
    ASSUME NEW new \in Seq(Record), NEW old \in Seq(Record), NEW r \in Record,
           rec \in Record, Replaces(new, old), r.id # rec.id
    PROVE  Replaces(Append(new, r), Append(old, r))
<1>1. rec.value # None
  BY NoneFacts DEF Record
<1> QED
  BY <1>1, LookupAppend DEF Replaces

\* One record more behind old, if it is the replaced one.
LEMMA ReplacesSkip ==
    ASSUME NEW new, NEW old \in Seq(Record), NEW r \in Record,
           Replaces(new, old), r.id = rec.id
    PROVE  Replaces(new, Append(old, r))
<1>1. \A i \in Id \ {rec.id} : Lookup(Append(old, r), i) = Lookup(old, i)
  BY LookupAppend
<1> QED
  BY <1>1 DEF Replaces

\* A record more is read.
LEMMA PrefixGrows ==
    ASSUME NEW s \in Seq(Record), NEW n \in Nat, n + 1 \in 1 .. Len(s)
    PROVE  /\ SubSeq(s, 1, n) \in Seq(Record)
           /\ SubSeq(s, 1, n + 1) = Append(SubSeq(s, 1, n), s[n + 1])
<1> DEFINE p == SubSeq(s, 1, n)
<1>1. \A i \in 1 .. n : s[i] \in Record
  OBVIOUS
<1>2. p \in Seq(Record) /\ s[n + 1] \in Record
  BY <1>1, SubSeqProperties
<1>3. 1 \in 1 .. Len(s) /\ n + 1 \in 1 .. Len(s) /\ n + 1 - 1 = n
  OBVIOUS
<1>4. SubSeq(s, 1, n + 1) = SubSeq(s, 1, n + 1 - 1) \o <<s[n + 1]>>
  BY <1>3, SubSeqRecursiveSecond
<1>5. Append(p, s[n + 1]) = p \o <<s[n + 1]>>
  BY <1>2, AppendIsConcat
<1> QED
  BY <1>2, <1>3, <1>4, <1>5

\* A record more is written, to the buffer or behind the full buffer.
LEMMA WrittenGrows ==
    ASSUME NEW a \in Seq(Record), NEW b \in Seq(Record), NEW r \in Record
    PROVE  /\ a \o Append(b, r) = Append(a \o b, r)
           /\ (a \o b) \o <<r>> = Append(a \o b, r)
<1> DEFINE c == a \o b
<1>1. c \in Seq(Record) /\ <<r>> \in Seq(Record)
  OBVIOUS
<1>2. Append(b, r) = b \o <<r>>
  BY AppendIsConcat
<1>3. (a \o b) \o <<r>> = a \o (b \o <<r>>)
  BY <1>1, ConcatAssociative
<1> HIDE DEF c
<1>4. Append(c, r) = c \o <<r>>
  BY <1>1, AppendIsConcat
<1> QED
  BY <1>2, <1>3, <1>4 DEF c

LEMMA PlacedAppend ==
    ASSUME NEW s \in Seq(Record), NEW r, NEW f, InPlace(s, f), FileOf(r.id) = f
    PROVE  InPlace(Append(s, r), f)
<1>1. /\ Len(s) \in Nat /\ Len(Append(s, r)) = Len(s) + 1
      /\ \A k \in 1 .. Len(s) + 1 : Append(s, r)[k] = IF k = Len(s) + 1 THEN r ELSE s[k]
      /\ \A k \in 1 .. Len(s) + 1 : k = Len(s) + 1 \/ k \in 1 .. Len(s)
  OBVIOUS
<1> QED
  BY <1>1 DEF InPlace

LEMMA PlacedJoin ==
    ASSUME NEW a \in Seq(Record), NEW b \in Seq(Record), NEW f, InPlace(a, f), InPlace(b, f)
    PROVE  InPlace(a \o b, f)
<1>1. /\ Len(a) \in Nat /\ Len(b) \in Nat /\ Len(a \o b) = Len(a) + Len(b)
      /\ \A k \in 1 .. Len(a) + Len(b) :
            (a \o b)[k] = IF k <= Len(a) THEN a[k] ELSE b[k - Len(a)]
  OBVIOUS
<1>2. ASSUME NEW k \in 1 .. Len(a) + Len(b)
      PROVE  FileOf((a \o b)[k].id) = f
  <2>1. CASE k <= Len(a)
    BY <1>1, <2>1 DEF InPlace
  <2>2. CASE ~(k <= Len(a))
    <3>1. k - Len(a) \in 1 .. Len(b)
      BY <1>1, <2>2
    <3> QED
      BY <1>1, <2>2, <3>1 DEF InPlace
  <2> QED
    BY <2>1, <2>2
<1> QED
  BY <1>1, <1>2 DEF InPlace

-----------------------------------------------------------------------------
(* Without failures: the invariant of the replacement. *)

LEMMA MapInit == Init => MapInv
<1> SUFFICES ASSUME Init PROVE Quiet /\ Placed /\ Searching /\ Replacing
  BY InitIInv DEF MapInv
<1>1. \A f \in File : InPlace(<<>>, f)
  BY DEF InPlace
<1> QED
  BY <1>1, Sizes DEF Init, Quiet, Placed, Searching, Replacing, Updating, Resting

LEMMA NothingFails ==
    ASSUME NoFailure, MapInv
    PROVE  /\ ~Restart /\ ~UseClosed /\ ~CopyFails
           /\ \A s \in Searcher : ~ScanClosed(s)
           /\ ~ReopenFails /\ \A r \in Record : ~OpenTmpFails(r)
           /\ \A f \in File : ~Clear(f)
<1>1. ~Restart
  BY DEF NoFailure, MapInv, IInv, TypeOK, Restart
<1>2. ~CopyFails /\ ~ReopenFails /\ \A r \in Record : ~OpenTmpFails(r)
  BY DEF NoFailure, CopyFails, CutShort, ReopenFails, OpenTmpFails
<1>3. \A f \in File : ~Clear(f)
  BY DEF NoFailure, Clear, MapInv, Quiet
<1>4. ~UseClosed
  <2>1. pc \in {"lock", "copy"} => target \in File
    BY TargetFacts DEF MapInv, IInv, Updating
  <2> QED
    BY <2>1 DEF MapInv, Quiet, UseClosed
<1>5. \A s \in Searcher : ~ScanClosed(s)
  <2> SUFFICES ASSUME NEW s \in Searcher, ScanClosed(s) PROVE FALSE
    OBVIOUS
  <2>1. search[s].at < FileNum /\ ~open[search[s].at]
    BY DEF ScanClosed
  <2>2. search[s].at \in File
    BY <2>1, Sizes DEF MapInv, IInv, TypeOK, File
  <2> QED
    BY <2>1, <2>2 DEF MapInv, Quiet
<1> QED
  BY <1>1, <1>2, <1>3, <1>4, <1>5

LEMMA MapOpen == ASSUME MapInv, NEW r \in Record, OpenTmp(r) PROVE MapInv'
<1> DEFINE t == FileOf(r.id)
<1>0. IInv' /\ IInv
  BY OpenTypes DEF MapInv
<1>1. /\ t \in File /\ target' = t /\ rec' = r /\ pc = "idle" /\ pc' = "lock"
      /\ tmp' = [tmp EXCEPT ![t] = Opened(@)] /\ tmp \in [File -> Seq(Record) \union {NoFile}]
      /\ copied' = 0 /\ buffer' = <<r>> /\ shifted' = torn[t]
      /\ UNCHANGED <<cfg, torn, open, search, dead>>
  BY FileFacts DEF OpenTmp, Goto, Record, target, MapInv, IInv, TypeOK
<1>2. /\ \A f \in File : tmp[f] = NoFile /\ ~torn[f]
      /\ \A f \in File : cfg[f] \in Seq(Record)
  BY <1>0, <1>1 DEF MapInv, Quiet, IInv, TypeOK, FilesOK
<1>3. /\ \A f \in File : tmp'[f] = IF f = t THEN <<>> ELSE NoFile
      /\ ~shifted'
  BY <1>1, <1>2 DEF Opened
<1>4. FileOf(r.id) = t
  OBVIOUS
<1> HIDE DEF t
<1>5. Quiet'
  BY <1>1, <1>2, <1>3 DEF MapInv, Quiet
<1>6. Placed'
  <2>1. InPlace(<<>>, t)
    BY DEF InPlace
  <2>2. InPlace(<<r>>, t)
    BY <1>4 DEF InPlace
  <2>3. \A f \in File : cfg'[f] # NoFile => InPlace(cfg'[f], f)
    BY <1>1 DEF MapInv, Placed
  <2>4. \A f \in File : tmp'[f] # NoFile => InPlace(tmp'[f], f)
    BY <1>3, <2>1
  <2>5. InPlace(buffer', target')
    BY <1>1, <2>2
  <2> QED
    BY <2>3, <2>4, <2>5 DEF Placed
<1>7. Searching'
  BY <1>1 DEF MapInv, Searching
<1>8. Replacing'
  <2>1. tmp'[target'] \o buffer' = <<r>>
    <3>1. <<r>> \in Seq(Record) /\ <<>> \o <<r>> = <<r>>
      BY ConcatEmptySeq
    <3> QED
      BY <1>1, <1>3, <3>1
  <2>2. SubSeq(cfg'[target'], 1, copied') = <<>>
    BY <1>1, SubSeqEmpty
  <2>3. /\ Lookup(<<r>>, r.id) = r.value
        /\ \A i \in Id \ {r.id} : Lookup(<<r>>, i) = Lookup(<<>>, i)
    BY LookupOne, LookupEmpty
  <2> QED
    BY <1>1, <2>1, <2>2, <2>3 DEF Replacing, Replaces
<1> QED
  BY <1>0, <1>5, <1>6, <1>7, <1>8 DEF MapInv

LEMMA MapCopy == ASSUME MapInv, Copy \/ Skip PROVE MapInv'
<1>0. IInv /\ IInv'
  BY CopyTypes DEF MapInv
<1>1. /\ pc = "copy" /\ pc' = "copy" /\ target' = target
      /\ copied < Len(cfg[target]) /\ copied' = copied + 1
      /\ UNCHANGED <<cfg, open, rec, shifted, search, dead>>
  BY DEF Copy, Skip, Goto, target, disk
<1>2. target \in File /\ rec \in Record
  BY <1>0, <1>1, TargetFacts DEF IInv, Updating
<1>3. /\ cfg[target] \in Seq(Record) /\ tmp[target] \in Seq(Record)
      /\ buffer \in Seq(Record) /\ copied \in Nat
      /\ tmp \in [File -> Seq(Record) \union {NoFile}]
  BY <1>0, <1>1, <1>2 DEF IInv, TypeOK, FilesOK
<1>4. copied + 1 \in 1 .. Len(cfg[target]) /\ Current \in Record
  BY <1>1, <1>3 DEF Current
<1> DEFINE W == tmp[target] \o buffer
           read == SubSeq(cfg[target], 1, copied)
<1>5. /\ read \in Seq(Record) /\ W \in Seq(Record)
      /\ SubSeq(cfg[target], 1, copied + 1) = Append(read, Current)
  BY <1>3, <1>4, PrefixGrows DEF Current
<1>6. Replaces(W, read) /\ InPlace(cfg[target], target)
      /\ InPlace(tmp[target], target) /\ InPlace(buffer, target)
  BY <1>1, <1>2, <1>3, Sizes DEF MapInv, Replacing, Placed, Updating
<1>7. FileOf(Current.id) = target
  BY <1>4, <1>6 DEF InPlace, Current
<1>8. Searching'
  BY <1>1 DEF MapInv, Searching
<1>9. CASE Skip
  <2>1. UNCHANGED <<tmp, torn, buffer>> /\ Current.id = rec.id
    BY <1>9 DEF Skip, disk
  <2>2. Replaces(W, Append(read, Current))
    BY <1>4, <1>5, <1>6, <2>1, ReplacesSkip
  <2>3. Replacing'
    BY <1>1, <1>5, <2>1, <2>2 DEF Replacing, Replaces
  <2>4. Quiet' /\ Placed'
    BY <1>1, <2>1 DEF MapInv, Quiet, Placed, Updating
  <2> QED
    BY <1>0, <1>8, <2>3, <2>4 DEF MapInv
<1>10. CASE Copy
  <2>1. Current.id # rec.id /\ ~shifted
    BY <1>10 DEF Copy, MapInv, Quiet
  <2>2. /\ tmp'[target] \o buffer' = Append(W, Current)
        /\ InPlace(tmp'[target], target) /\ InPlace(buffer', target)
        /\ \A f \in File \ {target} : tmp'[f] = tmp[f] /\ (torn'[f] => torn[f])
    <3>1. CASE Len(buffer) < BufRecords
      <4>1. buffer' = Append(buffer, Current) /\ UNCHANGED <<tmp, torn>>
        BY <1>10, <3>1 DEF Copy
      <4>2. InPlace(buffer', target)
        BY <1>3, <1>6, <1>7, <4>1, PlacedAppend
      <4>3. tmp[target] \o Append(buffer, Current) = Append(W, Current)
        BY <1>3, <1>4, WrittenGrows
      <4> QED
        BY <1>6, <4>1, <4>2, <4>3
    <3>2. CASE ~(Len(buffer) < BufRecords)
      <4>1. /\ buffer' = <<Current>>
            /\ tmp' = [tmp EXCEPT ![target] = Written(buffer)]
            /\ torn' = [torn EXCEPT ![target] = TRUE]
        BY <1>10, <3>2 DEF Copy
      <4>2. tmp'[target] = W
        BY <1>2, <1>3, <2>1, <4>1 DEF Written
      <4>3. InPlace(W, target)
        BY <1>3, <1>6, PlacedJoin
      <4>4. W \o <<Current>> = Append(W, Current)
        BY <1>3, <1>4, WrittenGrows
      <4>5. InPlace(<<Current>>, target)
        BY <1>7 DEF InPlace
      <4>6. torn \in [File -> BOOLEAN]
        BY <1>0 DEF IInv, TypeOK
      <4> QED
        BY <1>2, <1>3, <4>1, <4>2, <4>3, <4>4, <4>5, <4>6
    <3> QED
      BY <3>1, <3>2
  <2>3. Replaces(Append(W, Current), Append(read, Current))
    BY <1>2, <1>4, <1>5, <1>6, <2>1, ReplacesMore
  <2> HIDE DEF W, read
  <2>4. Replacing'
    BY <1>1, <1>5, <2>2, <2>3 DEF Replacing, Replaces
  <2>5. Quiet'
    BY <1>1, <1>2, <2>1, <2>2 DEF MapInv, Quiet
  <2>6. Placed'
    BY <1>1, <1>2, <2>2 DEF MapInv, Placed
  <2> QED
    BY <1>0, <1>8, <2>4, <2>5, <2>6 DEF MapInv
<1> QED
  BY <1>9, <1>10

LEMMA MapClose == ASSUME NoFailure, MapInv, CloseTmp PROVE MapInv'
<1>0. IInv /\ IInv'
  BY CloseTypes DEF MapInv
<1>1. /\ pc = "copy" /\ pc' = "remove" /\ target' = target /\ copied = Len(cfg[target])
      /\ buffer' = <<>>
      /\ UNCHANGED <<cfg, open, rec, shifted, search, dead>>
  BY DEF CloseTmp, Goto, target, Copied
<1>2. target \in File
  BY <1>0, <1>1, TargetFacts DEF IInv, Updating
<1>3. /\ cfg[target] \in Seq(Record) /\ tmp[target] \in Seq(Record)
      /\ buffer \in Seq(Record)
      /\ tmp \in [File -> Seq(Record) \union {NoFile}] /\ torn \in [File -> BOOLEAN]
  BY <1>0, <1>1, <1>2 DEF IInv, TypeOK, FilesOK
<1> DEFINE W == tmp[target] \o buffer
<1>4. /\ tmp' = [tmp EXCEPT ![target] = W]
      /\ \A f \in File : torn'[f] => f # target /\ torn[f]
  <2>1. ~shifted /\ ~CutShort
    BY DEF NoFailure, CutShort, MapInv, Quiet
  <2>2. /\ tmp' = [tmp EXCEPT ![target] = Written(buffer)]
        /\ torn' = [torn EXCEPT ![target] = shifted]
    BY <2>1 DEF CloseTmp
  <2> QED
    BY <1>2, <1>3, <2>1, <2>2 DEF Written
<1>5. /\ Replaces(W, SubSeq(cfg[target], 1, copied))
      /\ InPlace(tmp[target], target) /\ InPlace(buffer, target)
  BY <1>1, <1>2, <1>3, Sizes DEF MapInv, Replacing, Placed, Updating
<1>6. Replaces(W, cfg[target])
  BY <1>1, <1>3, <1>5, SubSeqFull
<1>7. InPlace(W, target) /\ InPlace(<<>>, target)
  BY <1>3, <1>5, PlacedJoin DEF InPlace
<1>8. W \in Seq(Record)
  BY <1>3
<1> HIDE DEF W
<1>9. tmp'[target] = W /\ \A f \in File \ {target} : tmp'[f] = tmp[f]
  BY <1>2, <1>3, <1>4
<1>10. Quiet'
  BY <1>1, <1>2, <1>4, <1>9 DEF MapInv, Quiet
<1>11. Placed'
  BY <1>1, <1>2, <1>7, <1>9 DEF MapInv, Placed
<1>12. Searching' /\ Replacing'
  BY <1>1, <1>6, <1>9 DEF MapInv, Searching, Replacing, Replaces
<1> QED
  BY <1>0, <1>10, <1>11, <1>12 DEF MapInv

LEMMA MapReplace == ASSUME MapInv, RemoveCfg \/ RenameTmp \/ Reopen PROVE MapInv'
<1>0. IInv /\ IInv'
  BY ReplaceTypes DEF MapInv
<1>1. pc \in {"remove", "rename", "reopen"}
  BY DEF RemoveCfg, RenameTmp, Reopen, Goto
<1>2. /\ target \in File
      /\ cfg \in [File -> Seq(Record) \union {NoFile}]
      /\ tmp \in [File -> Seq(Record) \union {NoFile}] /\ torn \in [File -> BOOLEAN]
  BY <1>0, <1>1, TargetFacts DEF IInv, TypeOK, Updating
<1>3. UNCHANGED <<open, search, dead>>
  BY DEF RemoveCfg, RenameTmp, Reopen, disk
<1>4. Searching'
  BY <1>3 DEF MapInv, Searching
<1>5. CASE RemoveCfg
  <2>1. /\ pc = "remove" /\ pc' = "rename" /\ target' = target
        /\ cfg' = [cfg EXCEPT ![target] = NoFile]
        /\ UNCHANGED <<tmp, torn, buffer, shifted>>
    BY <1>5 DEF RemoveCfg, Goto, target, locals
  <2>2. \A f \in File : cfg'[f] = IF f = target THEN NoFile ELSE cfg[f]
    BY <1>2, <2>1
  <2>3. Quiet' /\ Placed' /\ Replacing'
    BY <1>3, <2>1, <2>2 DEF MapInv, Quiet, Placed, Replacing, Updating, InPlace
  <2> QED
    BY <1>0, <1>4, <2>3 DEF MapInv
<1>6. CASE RenameTmp
  <2>1. /\ pc = "rename" /\ pc' = "reopen" /\ target' = target
        /\ cfg' = [cfg EXCEPT ![target] = tmp[target]]
        /\ tmp' = [tmp EXCEPT ![target] = NoFile]
        /\ torn' = [torn EXCEPT ![target] = FALSE]
        /\ UNCHANGED <<buffer, shifted>>
    BY <1>6 DEF RenameTmp, Goto, target, locals
  <2>2. \A f \in File : /\ cfg'[f] = IF f = target THEN tmp[target] ELSE cfg[f]
                        /\ tmp'[f] = IF f = target THEN NoFile ELSE tmp[f]
                        /\ torn'[f] => torn[f] /\ f # target
    BY <1>2, <2>1
  <2>3. Quiet'
    BY <1>3, <2>1, <2>2 DEF MapInv, Quiet
  <2>4. Placed'
    BY <1>2, <2>1, <2>2 DEF MapInv, Placed, Updating, InPlace
  <2>5. Replacing'
    BY <2>1 DEF Replacing
  <2> QED
    BY <1>0, <1>4, <2>3, <2>4, <2>5 DEF MapInv
<1>7. CASE Reopen
  <2>1. /\ pc = "reopen" /\ pc' = "idle" /\ shifted' = FALSE
        /\ UNCHANGED <<cfg, tmp, torn>>
    BY <1>7 DEF Reopen, Goto, Return, disk
  <2>2. Quiet'
    BY <1>3, <2>1 DEF MapInv, Quiet
  <2>3. Placed'
    BY <2>1 DEF MapInv, Placed, Updating, InPlace
  <2>4. Replacing'
    BY <2>1 DEF Replacing
  <2> QED
    BY <1>0, <1>4, <2>2, <2>3, <2>4 DEF MapInv
<1> QED
  BY <1>5, <1>6, <1>7

LEMMA MapScan == ASSUME MapInv, NEW s \in Searcher, Scan(s) PROVE MapInv'
<1>0. IInv /\ IInv'
  BY ScanTypes DEF MapInv
<1> DEFINE at == search[s].at
           got == Lookup(cfg[at], search[s].id)
<1>1. /\ at < FileNum
      /\ search' = [search EXCEPT
           ![s].got = got,
           ![s].at = IF got # None \/ at = search[s].last THEN FileNum ELSE at + 1]
      /\ UNCHANGED <<disk, open, locked, pc, locals, dead, bounds, may, cut>>
  BY DEF Scan
<1>2. /\ search \in [Searcher -> [at : 0 .. FileNum, last : 0 .. FileNum - 1,
                                  id : Id \union {None}, got : Value \union {None}]]
      /\ FileNum \in Nat \ {0}
  BY <1>0, Sizes DEF IInv, TypeOK
<1>3. /\ search[s].id \in Id /\ search[s].got = None
      /\ at <= search[s].last /\ FileOf(search[s].id) <= search[s].last
  BY <1>1 DEF MapInv, Searching
<1>4. at \in 0 .. FileNum /\ search[s].last \in 0 .. FileNum - 1
  BY <1>2
<1> HIDE DEF at, got
<1>5. /\ search'[s].got = got /\ search'[s].id = search[s].id
      /\ search'[s].last = search[s].last
      /\ search'[s].at = IF got # None \/ at = search[s].last THEN FileNum ELSE at + 1
      /\ \A u \in Searcher \ {s} : search'[u] = search[u]
  BY <1>1, <1>2
<1>6. search'[s].at < FileNum => got = None /\ at + 1 <= search[s].last /\ search'[s].at = at + 1
  BY <1>2, <1>3, <1>4, <1>5
<1>7. Searching'
  <2> SUFFICES ASSUME NEW u \in Searcher, search'[u].at < FileNum
               PROVE  /\ search'[u].id \in Id /\ search'[u].got = None
                      /\ search'[u].at <= search'[u].last
                      /\ FileOf(search'[u].id) <= search'[u].last
    BY DEF Searching
  <2>1. CASE u = s
    BY <1>3, <1>5, <1>6, <2>1
  <2>2. CASE u # s
    BY <1>5, <2>2 DEF MapInv, Searching
  <2> QED
    BY <2>1, <2>2
<1>8. UNCHANGED <<cfg, tmp, torn, open, pc, rec, copied, buffer, shifted, dead>> /\ target' = target
  BY <1>1 DEF disk, locals, target
<1>9. Quiet' /\ Placed' /\ Replacing'
  BY <1>8 DEF MapInv, Quiet, Placed, Replacing, Replaces, Updating, InPlace
<1> QED
  BY <1>0, <1>7, <1>9 DEF MapInv

LEMMA MapFind == ASSUME MapInv, NEW s \in Searcher, NEW id \in Id, Find(s, id) PROVE MapInv'
<1>0. IInv /\ IInv'
  BY OtherTypes DEF MapInv
<1>1. PICK range \in {<<FileOf(id), FileOf(id)>>, <<0, FileNum - 1>>} :
        search' = [search EXCEPT ![s] =
                     [at |-> range[1], last |-> range[2], id |-> id, got |-> None]]
  BY DEF Find
<1>2. FileOf(id) \in 0 .. FileNum - 1 /\ FileNum \in Nat \ {0}
  BY FileFacts, Sizes DEF File
<1>3. range[1] <= range[2] /\ FileOf(id) <= range[2]
  BY <1>2
<1>4. Searching'
  <2>1. search \in [Searcher -> [at : 0 .. FileNum, last : 0 .. FileNum - 1,
                                 id : Id \union {None}, got : Value \union {None}]]
    BY <1>0 DEF IInv, TypeOK
  <2>2. /\ search'[s] = [at |-> range[1], last |-> range[2], id |-> id, got |-> None]
        /\ \A u \in Searcher \ {s} : search'[u] = search[u]
    BY <1>1, <2>1
  <2> QED
    BY <1>3, <2>2 DEF MapInv, Searching
<1>5. UNCHANGED <<cfg, tmp, torn, open, pc, rec, copied, buffer, shifted, dead>> /\ target' = target
  BY DEF Find, disk, locals, target
<1>6. Quiet' /\ Placed' /\ Replacing'
  BY <1>5 DEF MapInv, Quiet, Placed, Replacing, Replaces, Updating, InPlace
<1> QED
  BY <1>0, <1>4, <1>6 DEF MapInv

LEMMA MapLock == ASSUME MapInv, Lock PROVE MapInv'
<1>0. IInv'
  BY OtherTypes DEF MapInv
<1>1. /\ pc = "lock" /\ pc' = "copy" /\ target' = target
      /\ UNCHANGED <<cfg, tmp, torn, open, rec, copied, buffer, shifted, search, dead>>
  BY DEF Lock, Goto, disk, locals, target
<1>2. Quiet' /\ Placed' /\ Searching' /\ Replacing'
  BY <1>1 DEF MapInv, Quiet, Placed, Searching, Replacing, Replaces, Updating, InPlace
<1> QED
  BY <1>0, <1>2 DEF MapInv

LEMMA MapNext == NoFailure /\ MapInv /\ [Next]_vars => MapInv'
<1>1. ASSUME MapInv, UNCHANGED vars PROVE MapInv'
  <2>1. IInv'
    BY <1>1, IInvNext DEF MapInv
  <2>2. /\ UNCHANGED <<cfg, tmp, torn, open, pc, rec, copied, buffer, shifted, search, dead>>
        /\ target' = target
    BY <1>1 DEF vars, disk, locals, target
  <2>3. Quiet' /\ Placed' /\ Searching' /\ Replacing'
    BY <1>1, <2>2 DEF MapInv, Quiet, Placed, Searching, Replacing, Replaces, Updating, InPlace
  <2> QED
    BY <2>1, <2>3 DEF MapInv
<1> QED
  BY <1>1, NothingFails, MapOpen, MapCopy, MapClose, MapReplace, MapScan, MapFind, MapLock
  DEF Next, UpdateStep, Ended

-----------------------------------------------------------------------------
(* Without failures the files are the map of AccountMap. *)

asked == [s \in Searcher |-> search[s].id]

LEMMA InitMap == Init => Map!Init
<1> SUFFICES ASSUME Init PROVE Map!Init
  OBVIOUS
<1>1. \A i \in Id : Accounts[i] = None
  BY FileFacts, LookupEmpty, Sizes DEF Init, Accounts
<1>2. Accounts = [i \in Id |-> None]
  BY <1>1 DEF Accounts
<1>3. \A s \in Searcher : search[s].id = None /\ Answers[s] = None
  BY Sizes DEF Init, Resting, Answers
<1>4. Answers = [s \in Searcher |-> None] /\ asked = [s \in Searcher |-> None]
  BY <1>3 DEF Answers, asked
<1> QED
  BY <1>2, <1>4 DEF Map!Init, asked

\* A step that changes no file an account is read from changes no account.
LEMMA SameAccounts ==
    ASSUME \A f \in File : IF cfg[f] = NoFile THEN cfg'[f] \in {NoFile, tmp[f]} /\ tmp[f] # NoFile
                                                   /\ (cfg'[f] = NoFile => tmp'[f] = tmp[f])
                           ELSE cfg'[f] = cfg[f]
    PROVE  Accounts' = Accounts
<1>1. \A f \in File : (IF cfg'[f] = NoFile THEN tmp'[f] ELSE cfg'[f])
                      = (IF cfg[f] = NoFile THEN tmp[f] ELSE cfg[f])
  OBVIOUS
<1>2. \A i \in Id : FileOf(i) \in File
  BY FileFacts
<1> QED
  BY <1>1, <1>2 DEF Accounts

\* The remove is the step of the update.
LEMMA RemoveUpdates ==
    ASSUME MapInv, RemoveCfg
    PROVE  /\ rec.id \in Id /\ rec.value \in Value
           /\ Map!Update(rec.id, rec.value)
<1>1. /\ pc = "remove" /\ cfg' = [cfg EXCEPT ![target] = NoFile]
      /\ UNCHANGED <<tmp, search>>
  BY DEF RemoveCfg, Goto
<1>2. IInv /\ rec \in Record /\ target \in File /\ cfg \in [File -> Seq(Record) \union {NoFile}]
  BY <1>1, TargetFacts DEF MapInv, IInv, TypeOK, Updating
<1>3. rec.id \in Id /\ rec.value \in Value
  BY <1>2 DEF Record
<1>4. \A f \in File : /\ cfg[f] # NoFile
                      /\ cfg'[f] = IF f = target THEN NoFile ELSE cfg[f]
  BY <1>1, <1>2 DEF IInv, FilesOK
<1>5. Replaces(tmp[target], cfg[target])
  BY <1>1 DEF MapInv, Replacing
<1>6. \A i \in Id : FileOf(i) \in File
  BY FileFacts
<1>7. ASSUME NEW i \in Id
      PROVE  Accounts'[i] = IF i = rec.id THEN rec.value ELSE Accounts[i]
  <2>1. Accounts[i] = Lookup(cfg[FileOf(i)], i)
    BY <1>4, <1>6 DEF Accounts
  <2>2. CASE FileOf(i) = target
    <3>1. Accounts'[i] = Lookup(tmp[target], i)
      BY <1>1, <1>4, <1>6, <2>2 DEF Accounts
    <3> QED
      BY <1>5, <2>1, <2>2, <3>1 DEF Replaces
  <2>3. CASE FileOf(i) # target
    <3>1. Accounts'[i] = Lookup(cfg[FileOf(i)], i)
      BY <1>4, <1>6, <2>3 DEF Accounts
    <3>2. i # rec.id
      BY <2>3 DEF target
    <3> QED
      BY <2>1, <3>1, <3>2
  <2> QED
    BY <2>2, <2>3
<1>8. Accounts' = [Accounts EXCEPT ![rec.id] = rec.value]
  BY <1>7 DEF Accounts
<1>9. UNCHANGED <<asked, Answers>>
  BY <1>1 DEF asked, Answers
<1> QED
  BY <1>3, <1>8, <1>9 DEF Map!Update, asked

\* The start of a search asks.
LEMMA FindAsks ==
    ASSUME MapInv, NEW s \in Searcher, NEW id \in Id, Find(s, id)
    PROVE  Map!Ask(s, id)
<1>1. PICK range \in {<<FileOf(id), FileOf(id)>>, <<0, FileNum - 1>>} :
        search' = [search EXCEPT ![s] =
                     [at |-> range[1], last |-> range[2], id |-> id, got |-> None]]
  BY DEF Find
<1>2. FileOf(id) \in 0 .. FileNum - 1 /\ FileNum \in Nat \ {0}
  BY FileFacts, Sizes DEF File
<1>3. range[1] < FileNum /\ range[1] <= FileOf(id)
  BY <1>2
<1>4. search \in [Searcher -> [at : 0 .. FileNum, last : 0 .. FileNum - 1,
                               id : Id \union {None}, got : Value \union {None}]]
  BY DEF MapInv, IInv, TypeOK
<1>5. /\ search'[s].at = range[1] /\ search'[s].id = id
      /\ \A u \in Searcher \ {s} : search'[u] = search[u]
  BY <1>1, <1>4
<1>6. Answers[s] # Pending
  <2>1. search[s].at = FileNum /\ search[s].got # Pending
    BY <1>4, NoneFacts DEF Find
  <2> QED
    BY <1>2, <2>1 DEF Answers
<1>7. Answers' = [Answers EXCEPT ![s] = Pending]
  <2>1. Answers'[s] = Pending
    BY <1>3, <1>5 DEF Answers
  <2>2. \A u \in Searcher \ {s} : Answers'[u] = Answers[u]
    BY <1>5 DEF Answers
  <2> QED
    BY <2>1, <2>2 DEF Answers
<1>8. asked' = [asked EXCEPT ![s] = id]
  BY <1>5 DEF asked
<1>9. UNCHANGED Accounts
  BY DEF Find, Accounts, disk
<1> QED
  BY <1>6, <1>7, <1>8, <1>9 DEF Map!Ask, asked

\* The search of the file that decides answers, and no other.
LEMMA ScanAnswers ==
    ASSUME MapInv, NEW s \in Searcher, Scan(s)
    PROVE  Map!Answer(s) \/ UNCHANGED <<Accounts, asked, Answers>>
<1> DEFINE at == search[s].at
           id == search[s].id
           got == Lookup(cfg[at], id)
<1>1. /\ at < FileNum /\ ~locked[at]
      /\ search' = [search EXCEPT
           ![s].got = got,
           ![s].at = IF got # None \/ at = search[s].last THEN FileNum ELSE at + 1]
      /\ UNCHANGED <<cfg, tmp>>
  BY DEF Scan, disk
<1>2. /\ search \in [Searcher -> [at : 0 .. FileNum, last : 0 .. FileNum - 1,
                                  id : Id \union {None}, got : Value \union {None}]]
      /\ FileNum \in Nat \ {0}
  BY Sizes DEF MapInv, IInv, TypeOK
<1>3. /\ id \in Id /\ search[s].got = None
      /\ at <= search[s].last /\ FileOf(id) <= search[s].last
  BY <1>1 DEF MapInv, Searching
<1>4. at \in File /\ search[s].last \in 0 .. FileNum - 1
  BY <1>1, <1>2 DEF File
<1>5. /\ cfg[at] \in Seq(Record) /\ cfg[at] # NoFile
  <2>1. cfg[at] # NoFile
    BY <1>1, <1>4 DEF MapInv, IInv, FilesOK
  <2> QED
    BY <1>4, <2>1 DEF MapInv, IInv, TypeOK
<1>6. FileOf(id) \in File
  BY <1>3, FileFacts
<1>7. at # FileOf(id) => got = None
  <2> SUFFICES ASSUME at # FileOf(id) PROVE got = None
    OBVIOUS
  <2>1. InPlace(cfg[at], at)
    BY <1>4, <1>5 DEF MapInv, Placed
  <2>2. \A k \in 1 .. Len(cfg[at]) : cfg[at][k].id # id
    BY <2>1 DEF InPlace
  <2> QED
    BY <1>5, <2>2, LookupNone
<1>8. at = FileOf(id) => got = Accounts[id]
  BY <1>3, <1>5 DEF Accounts
<1> HIDE DEF at, id, got
<1>9. /\ search'[s].got = got /\ search'[s].id = id
      /\ search'[s].at = IF got # None \/ at = search[s].last THEN FileNum ELSE at + 1
      /\ \A u \in Searcher \ {s} : search'[u] = search[u]
  BY <1>1, <1>2 DEF id
<1>10. UNCHANGED <<Accounts, asked>>
  <2>1. UNCHANGED Accounts
    BY <1>1 DEF Accounts
  <2>2. \A u \in Searcher : search'[u].id = search[u].id
    BY <1>9 DEF id
  <2> QED
    BY <2>1, <2>2 DEF asked
<1>11. \A u \in Searcher \ {s} : Answers'[u] = Answers[u]
  BY <1>9 DEF Answers
<1>12. /\ Answers[s] = IF at < FileNum /\ at <= FileOf(id) THEN Pending ELSE search[s].got
       /\ Answers'[s] = IF search'[s].at < FileNum /\ search'[s].at <= FileOf(id)
                        THEN Pending ELSE got
  BY <1>9 DEF Answers, at, id
<1>13. at \in Int /\ FileOf(id) \in Int /\ FileNum \in Int /\ search[s].last \in Int
       /\ FileOf(id) < FileNum
  BY <1>2, <1>4, <1>6 DEF File
<1>14. CASE at < FileOf(id)
  <2>1. got = None /\ at # search[s].last
    BY <1>3, <1>7, <1>13, <1>14
  <2>2. search'[s].at = at + 1
    BY <1>9, <2>1
  <2>3. Answers'[s] = Answers[s]
    BY <1>1, <1>12, <1>13, <1>14, <2>2
  <2>4. UNCHANGED Answers
    BY <1>11, <2>3 DEF Answers
  <2> QED
    BY <1>10, <2>4
<1>15. CASE at = FileOf(id)
  <2>1. Answers[s] = Pending
    BY <1>12, <1>13, <1>15
  <2>2. ~(search'[s].at < FileNum /\ search'[s].at <= FileOf(id))
    BY <1>9, <1>13, <1>15
  <2>3. Answers'[s] = Accounts[id]
    BY <1>8, <1>12, <1>15, <2>2
  <2>4. Answers' = [Answers EXCEPT ![s] = Accounts[asked[s]]]
    BY <1>11, <2>3 DEF Answers, asked, id
  <2> QED
    BY <1>10, <2>1, <2>4 DEF Map!Answer, asked
<1>16. CASE at > FileOf(id)
  <2>1. got = None
    BY <1>7, <1>13, <1>16
  <2>2. ~(search'[s].at < FileNum /\ search'[s].at <= FileOf(id))
    BY <1>9, <1>13, <1>16
  <2>3. Answers'[s] = Answers[s]
    BY <1>3, <1>12, <1>13, <1>16, <2>1, <2>2
  <2>4. UNCHANGED Answers
    BY <1>11, <2>3 DEF Answers
  <2> QED
    BY <1>10, <2>4
<1> QED
  BY <1>13, <1>14, <1>15, <1>16

\* Every other step leaves the map alone.
LEMMA OtherStutters ==
    ASSUME MapInv, \/ \E r \in Record : OpenTmp(r)
                   \/ Lock \/ Copy \/ Skip \/ CloseTmp \/ RenameTmp \/ Reopen \/ UNCHANGED vars
    PROVE  UNCHANGED <<Accounts, asked, Answers>>
<1>1. UNCHANGED search
  BY DEF OpenTmp, Lock, Copy, Skip, CloseTmp, RenameTmp, Reopen, vars
<1>2. UNCHANGED <<asked, Answers>>
  BY <1>1 DEF asked, Answers
<1>3. UNCHANGED Accounts
  <2>1. CASE UNCHANGED cfg /\ pc # "rename"
    <3>1. \A f \in File : cfg[f] # NoFile
      BY <2>1 DEF MapInv, IInv, FilesOK
    <3> QED
      BY <2>1, <3>1, SameAccounts
  <2>2. CASE UNCHANGED <<cfg, tmp>>
    BY <2>2 DEF Accounts
  <2>3. CASE RenameTmp
    <3>1. /\ pc = "rename" /\ cfg' = [cfg EXCEPT ![target] = tmp[target]]
          /\ cfg \in [File -> Seq(Record) \union {NoFile}]
      BY <2>3 DEF RenameTmp, Goto, MapInv, IInv, TypeOK
    <3>2. /\ \A f \in File : cfg[f] = NoFile <=> target = f
          /\ tmp[target] # NoFile
      BY <3>1 DEF MapInv, IInv, FilesOK
    <3>3. \A f \in File : cfg'[f] = IF f = target THEN tmp[f] ELSE cfg[f]
      BY <3>1
    <3> QED
      BY <3>2, <3>3, SameAccounts
  <2>4. \/ UNCHANGED cfg /\ pc # "rename"
        \/ UNCHANGED <<cfg, tmp>>
        \/ RenameTmp
    BY DEF OpenTmp, Lock, Copy, Skip, CloseTmp, Reopen, Goto, vars, disk
  <2> QED
    BY <2>1, <2>2, <2>3, <2>4
<1> QED
  BY <1>2, <1>3

LEMMA StepMap ==
    NoFailure /\ MapInv /\ [Next]_vars
        => Map!Next \/ UNCHANGED <<Accounts, asked, Answers>>
<1> SUFFICES ASSUME NoFailure, MapInv, [Next]_vars
             PROVE  Map!Next \/ UNCHANGED <<Accounts, asked, Answers>>
  OBVIOUS
<1>1. CASE RemoveCfg
  BY <1>1, RemoveUpdates DEF Map!Next
<1>2. ASSUME NEW s \in Searcher, NEW id \in Id, Find(s, id) PROVE Map!Next
  BY <1>2, FindAsks DEF Map!Next
<1>3. ASSUME NEW s \in Searcher, Scan(s)
      PROVE  Map!Next \/ UNCHANGED <<Accounts, asked, Answers>>
  BY <1>3, ScanAnswers DEF Map!Next
<1> QED
  BY <1>1, <1>2, <1>3, NothingFails, OtherStutters DEF Next, UpdateStep, Ended

\* account_file.c as a map: as long as no crash, no full disk and no shutdown
\* interferes, an update of a file record by record through a temporary file,
\* and a search file by file, are each as good as one step: no search finds a
\* file half replaced, an account gone, or a value that was never stored.
THEOREM FilesImplementMap == NoFailure => (Spec => ImplementsAccountMap)
<1> SUFFICES ASSUME NoFailure PROVE Spec => ImplementsAccountMap
  OBVIOUS
<1>1. MapInv /\ [Next]_vars => MapInv'
  BY MapNext
<1>2. MapInv /\ [Next]_vars => [Map!Next]_<<Accounts, asked, Answers>>
  BY StepMap
<1> QED
  BY <1>1, <1>2, InitMap, MapInit, PTL DEF Spec, ImplementsAccountMap, Map!Spec, asked
=============================================================================

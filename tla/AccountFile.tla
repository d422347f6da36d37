---------------------------- MODULE AccountFile ----------------------------
(***************************************************************************)
(* The record files of src/am/common/account_file.c: one file of accounts  *)
(* for each PerFile numbers, a mutex for each file, and am_account_update, *)
(* which replaces a file by way of a temporary one.                        *)
(*                                                                         *)
(* Every caller of am_account_update (account_login.c) holds s_mutex_login,*)
(* so there is one updater at a time; the searchers do not take that       *)
(* mutex.  am_account_write has no caller in the repository and is left    *)
(* out.  The data of an account is one value.  A telephone or a user       *)
(* number never changes and belongs to one account, so a search for one is *)
(* a search for the number of that account through all the files.          *)
(***************************************************************************)
EXTENDS Naturals, Sequences, FiniteSetsExt

CONSTANTS
    Id,             \* account numbers
    Value,          \* what can be stored for an account
    Searcher,       \* threads that search
    PerFile,        \* 1024 in the source: the file of an id is id >> 10
    FileNum,        \* ACCOUNT_FILE_NUM
    BufRecords,     \* records stdio holds back, 30 of 133 bytes in 4096
    MaxUpdates,     \* bound: calls of am_account_update
    MaxCrashes,     \* bound: crashes of the process
    FilesMayFail,   \* whether opening a file and writing to it may fail
    MayClear,       \* whether s_am_account_config_clear may run
    None, Pending, NoFile   \* no value, no answer yet, no such file

ASSUME FileAssumption ==
    /\ PerFile \in Nat \ {0} /\ FileNum \in Nat \ {0}
    /\ Id \subseteq 0 .. PerFile * FileNum - 1
    /\ BufRecords \in Nat \ {0}
    /\ MaxUpdates \in Nat /\ MaxCrashes \in Nat
    /\ FilesMayFail \in BOOLEAN /\ MayClear \in BOOLEAN
    /\ None \notin Value \union Id /\ Pending \notin Value /\ None # Pending
    /\ NoFile \notin Seq([id : Id, value : Value])

File       == 0 .. FileNum - 1
FileOf(id) == id \div PerFile
Record     == [id : Id, value : Value]

VARIABLES
    cfg,        \* [File -> Seq(Record) or NoFile]: the files named s_cfgfile
    tmp,        \* [File -> Seq(Record) or NoFile]: the files named t_<fileid>
    torn,       \* [File -> BOOLEAN]: t_<fileid> ends within a record
    open,       \* [File -> BOOLEAN]: s_am_account_config_clear has not closed it
    locked,     \* [File -> BOOLEAN]: the updater has s_mutex_file
    pc,         \* where am_account_update is; "fatal" is in jxfatal_ext
    rec,        \* the account it was given
    copied,     \* how many records of the file it has read
    buffer,     \* what it has written to fptmp and stdio holds back
    shifted,    \* what it writes follows a part of a record
    search,     \* [Searcher -> its search]
    dead,       \* the process has died of a stream closed or never opened
    updates, crashes,
    may,        \* history, [Id -> values a search may find]
    cut         \* history: a file was replaced by one short of records

disk   == <<cfg, tmp, torn>>
locals == <<rec, copied, buffer, shifted>>
bounds == <<updates, crashes>>
vars   == <<disk, open, locked, pc, locals, search, dead, bounds, may, cut>>

\* The value of the first record with the number id.
Lookup(file, id) ==
    LET found == {i \in 1 .. Len(file) : file[i].id = id}
    IN  IF found = {} THEN None ELSE file[Min(found)].value

\* Opening for appending creates a missing file.
Opened(file) == IF file = NoFile THEN <<>> ELSE file

Resting == [at |-> FileNum, last |-> 0, id |-> None, got |-> None]

Init ==
    /\ cfg = [f \in File |-> <<>>]
    /\ tmp = [f \in File |-> NoFile]
    /\ torn = [f \in File |-> FALSE]
    /\ open = [f \in File |-> TRUE]
    /\ locked = [f \in File |-> FALSE]
    /\ pc = "idle" /\ rec = None
    /\ copied = 0 /\ buffer = <<>> /\ shifted = FALSE
    /\ search = [s \in Searcher |-> Resting]
    /\ dead = FALSE
    /\ updates = 0 /\ crashes = 0
    /\ may = [i \in Id |-> {None}]
    /\ cut = FALSE

-----------------------------------------------------------------------------
(* am_account_update                                                       *)

target == FileOf(rec.id)

Goto(from, to) ==
    /\ ~dead
    /\ pc = from
    /\ pc' = to

\* Mutant of OpenTmp: what is in the temporary file is thrown away.
OpenTmpAfresh(r) ==
    /\ Goto("idle", "lock")
    /\ updates < MaxUpdates
    /\ updates' = updates + 1
    /\ rec' = r /\ copied' = 0 /\ buffer' = <<r>>
    /\ tmp' = [tmp EXCEPT ![FileOf(r.id)] = <<>>]
    /\ shifted' = FALSE
    /\ may' = [may EXCEPT ![r.id] = @ \union {r.value}]
    /\ UNCHANGED <<cfg, torn, open, locked, search, dead, crashes, cut>>

\* jxfopen of the temporary file for appending and fwrite of the new record:
\* what an earlier call has left in that file stays in front of it.
OpenTmp(r) ==
    /\ Goto("idle", "lock")
    /\ updates < MaxUpdates
    /\ updates' = updates + 1
    /\ rec' = r /\ copied' = 0 /\ buffer' = <<r>>
    /\ tmp' = [tmp EXCEPT ![FileOf(r.id)] = Opened(@)]
    /\ shifted' = torn[FileOf(r.id)]
    /\ may' = [may EXCEPT ![r.id] = @ \union {r.value}]
    /\ UNCHANGED <<cfg, torn, open, locked, search, dead, crashes, cut>>

\* The temporary file cannot be opened, which nothing checks, or its first
\* fwrite fails and am_account_update returns 1: no mutex is taken yet.
OpenTmpFails(r) ==
    /\ FilesMayFail /\ ~dead /\ pc = "idle"
    /\ updates < MaxUpdates
    /\ updates' = updates + 1
    /\ \/ dead' = TRUE /\ UNCHANGED <<tmp, torn>>
       \/ /\ tmp' = [tmp EXCEPT ![FileOf(r.id)] = Opened(@)]
          /\ \E part \in BOOLEAN : torn' = [torn EXCEPT ![FileOf(r.id)] = @ \/ part]
          /\ UNCHANGED dead
    /\ UNCHANGED <<cfg, open, locked, pc, locals, search, crashes, may, cut>>

\* jxmutex_lock and rewind.
Lock ==
    /\ Goto("lock", "copy")
    /\ ~locked[target] /\ open[target]
    /\ locked' = [locked EXCEPT ![target] = TRUE]
    /\ UNCHANGED <<disk, open, locals, search, dead, bounds, may, cut>>

\* rewind or fread of a stream that s_am_account_config_clear has closed.
UseClosed ==
    /\ ~dead
    /\ \/ pc = "lock" /\ ~locked[target]
       \/ pc = "copy"
    /\ ~open[target]
    /\ dead' = TRUE
    /\ UNCHANGED <<disk, open, locked, pc, locals, search, bounds, may, cut>>

\* What the temporary file holds when records follow what is in it.
Written(records) == IF shifted THEN tmp[target] ELSE tmp[target] \o records

\* The record fread gives.
Current == cfg[target][copied + 1]

\* Mutant of Copy: what has been written out is kept in the buffer.
CopyUnflushed ==
    /\ Goto("copy", "copy")
    /\ open[target] /\ copied < Len(cfg[target])
    /\ Current.id # rec.id
    /\ copied' = copied + 1
    /\ buffer' = Append(buffer, Current)
    /\ UNCHANGED <<disk, open, locked, rec, shifted, search, dead, bounds, may, cut>>

\* A record with another number, and fwrite takes it.  Once stdio has a buffer
\* full it writes that out, and with it a part of this record.
Copy ==
    /\ Goto("copy", "copy")
    /\ open[target] /\ copied < Len(cfg[target])
    /\ Current.id # rec.id
    /\ copied' = copied + 1
    /\ IF Len(buffer) < BufRecords
       THEN /\ buffer' = Append(buffer, Current)
            /\ UNCHANGED <<tmp, torn>>
       ELSE /\ buffer' = <<Current>>
            /\ tmp' = [tmp EXCEPT ![target] = Written(buffer)]
            /\ torn' = [torn EXCEPT ![target] = TRUE]
    /\ UNCHANGED <<cfg, open, locked, rec, shifted, search, dead, bounds, may, cut>>

\* The record the new one replaces.
Skip ==
    /\ Goto("copy", "copy")
    /\ open[target] /\ copied < Len(cfg[target])
    /\ Current.id = rec.id
    /\ copied' = copied + 1
    /\ UNCHANGED <<disk, open, locked, rec, buffer, shifted, search, dead, bounds,
                   may, cut>>

\* The disk takes only the first records of the buffer, and a part of the next.
CutShort ==
    /\ FilesMayFail
    /\ \E n \in 0 .. Len(buffer) - 1 :
          tmp' = [tmp EXCEPT ![target] = Written(SubSeq(buffer, 1, n))]
    /\ \E part \in BOOLEAN : torn' = [torn EXCEPT ![target] = shifted \/ part]

Return == rec' = None /\ copied' = 0 /\ buffer' = <<>> /\ shifted' = FALSE

\* fwrite in the loop fails: am_account_update returns 1, without an unlock.
CopyFails ==
    /\ Goto("copy", "idle")
    /\ open[target] /\ copied < Len(cfg[target])
    /\ Current.id # rec.id
    /\ Len(buffer) = BufRecords
    /\ CutShort
    /\ Return
    /\ UNCHANGED <<cfg, open, locked, search, dead, bounds, may, cut>>

\* Mutant of Copied: the loop ends before the last record.
CopiedEarly == copied >= Len(cfg[target]) - 1

\* feof.
Copied == copied = Len(cfg[target])

\* fclose of both streams; nothing checks whether it has written everything.
CloseTmp ==
    /\ Goto("copy", "remove")
    /\ open[target] /\ Copied
    /\ \/ /\ tmp' = [tmp EXCEPT ![target] = Written(buffer)]
          /\ torn' = [torn EXCEPT ![target] = shifted]
          /\ cut' = (cut \/ shifted)
       \/ CutShort /\ cut' = TRUE
    /\ buffer' = <<>>
    /\ UNCHANGED <<cfg, open, locked, rec, copied, shifted, search, dead, bounds,
                   may>>

RemoveCfg ==
    /\ Goto("remove", "rename")
    /\ cfg' = [cfg EXCEPT ![target] = NoFile]
    /\ UNCHANGED <<tmp, torn, open, locked, locals, search, dead, bounds, may, cut>>

RenameTmp ==
    /\ Goto("rename", "reopen")
    /\ cfg' = [cfg EXCEPT ![target] = tmp[target]]
    /\ tmp' = [tmp EXCEPT ![target] = NoFile]
    /\ torn' = [torn EXCEPT ![target] = FALSE]
    /\ UNCHANGED <<open, locked, locals, search, dead, bounds, may, cut>>

\* jxfopen, jxmutex_unlock, and the return of 0.
Reopen ==
    /\ Goto("reopen", "idle")
    /\ locked' = [locked EXCEPT ![target] = FALSE]
    /\ may' = [may EXCEPT ![rec.id] = {rec.value}]
    /\ Return
    /\ UNCHANGED <<disk, open, search, dead, bounds, cut>>

\* jxfopen fails: jxfatal_ext runs the clear functions and exits, with the mutex
\* still locked and no stream in s_fpcfg.
ReopenFails ==
    /\ FilesMayFail
    /\ Goto("reopen", "fatal")
    /\ open' = [open EXCEPT ![target] = FALSE]
    /\ UNCHANGED <<disk, locked, locals, search, dead, bounds, may, cut>>

UpdateStep ==
    \/ Lock \/ UseClosed \/ Copy \/ Skip \/ CopyFails
    \/ CloseTmp \/ RemoveCfg \/ RenameTmp \/ Reopen \/ ReopenFails

-----------------------------------------------------------------------------
(* The searches.                                                           *)

\* am_account_find_id looks into one file; am_account_find_tel, _usernum and
\* _login look into all of them.
Find(s, id) ==
    /\ ~dead
    /\ search[s].at = FileNum
    /\ \E range \in {<<FileOf(id), FileOf(id)>>, <<0, FileNum - 1>>} :
          search' = [search EXCEPT ![s] =
                       [at |-> range[1], last |-> range[2], id |-> id, got |-> None]]
    /\ UNCHANGED <<disk, open, locked, pc, locals, dead, bounds, may, cut>>

\* s_account_find_common reads one file under its mutex; the search ends when
\* it has found the account, or after its last file.
Scan(s) ==
    LET at  == search[s].at
        got == Lookup(cfg[at], search[s].id)
    IN  /\ ~dead
        /\ at < FileNum
        /\ ~locked[at] /\ open[at]
        /\ search' = [search EXCEPT
             ![s].got = got,
             ![s].at = IF got # None \/ at = search[s].last THEN FileNum ELSE at + 1]
        /\ UNCHANGED <<disk, open, locked, pc, locals, dead, bounds, may, cut>>

ScanClosed(s) ==
    /\ ~dead
    /\ search[s].at < FileNum
    /\ ~locked[search[s].at] /\ ~open[search[s].at]
    /\ dead' = TRUE
    /\ UNCHANGED <<disk, open, locked, pc, locals, search, bounds, may, cut>>

-----------------------------------------------------------------------------
(* Shutdown, crash and restart.                                            *)

\* s_am_account_config_clear closes the files in order and takes no mutex.  It
\* is the first of the clear functions: am_server_account_init has it registered
\* before s_am_server_account_clear, which updates the accounts still logged in.
\* A stream that am_account_update has just closed is closed once more; one that
\* could not be opened again is passed over.
Clear(f) ==
    /\ (MayClear \/ pc = "fatal") /\ ~dead
    /\ open[f]
    /\ \A g \in 0 .. f - 1 : ~open[g]
    /\ open' = [open EXCEPT ![f] = FALSE]
    /\ dead' = (pc \in {"remove", "rename", "reopen"} /\ target = f)
    /\ UNCHANGED <<disk, locked, pc, locals, search, bounds, may, cut>>

\* The process dies, or has come to its exit, and another one runs
\* am_account_config_init.
Restart ==
    /\ crashes < MaxCrashes
    /\ crashes' = crashes + 1
    /\ cfg' = [f \in File |-> Opened(cfg[f])]
    /\ open' = [f \in File |-> TRUE]
    /\ locked' = [f \in File |-> FALSE]
    /\ pc' = "idle" /\ Return
    /\ search' = [s \in Searcher |-> Resting]
    /\ dead' = FALSE
    /\ UNCHANGED <<tmp, torn, updates, may, cut>>

Ended == (dead \/ pc = "fatal") /\ UNCHANGED vars

Next ==
    \/ \E r \in Record : OpenTmp(r) \/ OpenTmpFails(r)
    \/ UpdateStep
    \/ \E s \in Searcher : Scan(s) \/ ScanClosed(s) \/ \E i \in Id : Find(s, i)
    \/ \E f \in File : Clear(f)
    \/ Restart
    \/ Ended

\* The updater is scheduled.  It competes for a mutex only with searches, which
\* are single steps.
Fairness == WF_vars(UpdateStep)

Spec == Init /\ [][Next]_vars
FairSpec == Spec /\ Fairness

-----------------------------------------------------------------------------
\* The variables have their types.
TypeOK ==
    /\ cfg \in [File -> Seq(Record) \union {NoFile}]
    /\ tmp \in [File -> Seq(Record) \union {NoFile}]
    /\ torn \in [File -> BOOLEAN]
    /\ open \in [File -> BOOLEAN]
    /\ locked \in [File -> BOOLEAN]
    /\ pc \in {"idle", "lock", "copy", "remove", "rename", "reopen", "fatal"}
    /\ rec \in Record \union {None}
    /\ (pc # "idle") => (rec \in Record)
    /\ copied \in Nat
    /\ buffer \in Seq(Record) /\ Len(buffer) <= BufRecords
    /\ shifted \in BOOLEAN
    /\ search \in [Searcher -> [at : 0 .. FileNum, last : 0 .. FileNum - 1,
                                id : Id \union {None}, got : Value \union {None}]]
    /\ dead \in BOOLEAN
    /\ updates \in 0 .. MaxUpdates /\ crashes \in 0 .. MaxCrashes
    /\ may \in [Id -> SUBSET (Value \union {None})]
    /\ cut \in BOOLEAN

\* The accounts as the files have them: the new ones from the remove on.
Accounts ==
    [i \in Id |-> LET f == FileOf(i)
                  IN  Lookup(IF cfg[f] = NoFile THEN tmp[f] ELSE cfg[f], i)]

\* What the searches have found; those that have not yet read the file that
\* decides are pending.
Answers ==
    [s \in Searcher |->
        IF search[s].at < FileNum /\ search[s].at <= FileOf(search[s].id)
        THEN Pending ELSE search[s].got]

Map == INSTANCE AccountMap
         WITH accounts <- Accounts,
              asked <- [s \in Searcher |-> search[s].id],
              answer <- Answers

\* As long as nothing fails, the files are a map that am_account_update changes
\* and a search reads in one step: replacing a file record by record, by way of
\* a temporary one that is renamed, is never seen half done.
ImplementsAccountMap == Map!Spec

\* am_account_update locks the file for the time of its call: a call returns,
\* unless the process dies. It holds as long as nothing fails; a failed write
\* leaves the mutex locked, and the next call waits for it for ever.
CallsReturn == pc # "idle" ~> pc = "idle" \/ dead

Elements(file) == {file[k] : k \in 1 .. Len(file)}
OnDisk(f) == Elements(Opened(cfg[f])) \union Elements(Opened(tmp[f]))

\* Whatever crashes or fails in between, a stored account is still in one of
\* the two files, with the value last stored or one whose update a crash or an
\* error has ended, unless a file was replaced by one short of records: by an
\* fclose that nobody checks, or behind a part of a record.
NothingLost ==
    \A i \in Id :
        \/ cut \/ None \in may[i]
        \/ \E v \in may[i] : [id |-> i, value |-> v] \in OnDisk(FileOf(i))

\* account_file.h:40 "atomic write should be guaranteed here": between calls a
\* search finds the value last stored, or one whose update was interrupted.
AtomicWrite ==
    \A i \in Id : pc = "idle" /\ ~dead => Lookup(cfg[FileOf(i)], i) \in may[i]

\* account_file.h:40 again: on a disk that does not fill, no file is replaced by
\* one short of records.
ReplacedWhole == ~cut

\* clearlist.h:3: the clear functions are "for program to safely exit".
StreamsOpen == ~dead
=============================================================================

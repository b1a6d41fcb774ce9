------------------------------- MODULE Mirror -------------------------------
(***************************************************************************)
(* nxtcache-mirror (src/mirror/main.cpp): downloads the master table, then *)
(* for each selected index its reference table and every archive it lists, *)
(* into one sqlite file per index.  A run can be killed at any point and   *)
(* started again; the sqlite files are all that survives it.               *)
(*                                                                         *)
(* A blob is abstracted to the build it was fetched from; 0 is "no row".   *)
(* Builds are numbered, newest last.  The master row is refRow[Master].    *)
(*                                                                         *)
(* Environment: every request may fail, the process may be killed, sqlite  *)
(* may refuse an insert or a commit, the servers may move to a new build.  *)
(***************************************************************************)
EXTENDS Integers, Sequences, FiniteSets

CONSTANTS
  IndexIds,     \* content indices
  Master,       \* kJs5Master, 255
  ArchiveIds,
  LastBuild,    \* bound on the updates of the servers
  Listing,      \* Listing[b][i]: archives index i's table lists in build b
  Selection,    \* Selection[b]: --indices, or every index b's master lists
  MaxRetries,   \* kMaxRetries
  CommitBatch   \* kCommitBatch

Builds == 1..LastBuild
Rows == [ArchiveIds -> Builds \cup {0}]

ASSUME MirrorAssumption ==
  /\ LastBuild \in Nat \ {0} /\ MaxRetries \in Nat /\ CommitBatch \in Nat \ {0}
  /\ ArchiveIds \subseteq Nat
  /\ Master \notin IndexIds
  /\ Listing \in [Builds -> [IndexIds -> SUBSET ArchiveIds]]
  /\ Selection \in [Builds -> Seq(IndexIds \cup {Master})]

VARIABLES
  liveBuild,   \* the build the servers serve
  refRow,      \* on disk, [IndexIds \cup {Master} -> 0..LastBuild]: cache_index
  rows,        \* on disk, committed, [IndexIds -> Rows]: cache
  pc,          \* where the process is, if it runs
  socket,      \* the unique_ptr<Js5Socket> is set
  attempt,     \* of getFileWithRetry and loadIndex
  selection,   \* resolveIndexList
  cur,         \* position in selection
  listed,      \* [IndexIds -> SUBSET ArchiveIds]: as this run enumerated it
  todo,        \* archives of the current index still to process
  inTxn,       \* a transaction is open
  txn,         \* inserted into it, not committed
  sinceCommit,
  failed       \* stats.failed > 0

disk == <<refRow, rows>>
net == <<socket, attempt>>
plan == <<selection, cur, listed, todo>>
store == <<inTxn, txn, sinceCommit>>
vars == <<liveBuild, disk, pc, net, plan, store, failed>>

NoRows == [a \in ArchiveIds |-> 0]
Index == selection[cur]
Ended == {"down", "done", "fatal"}

FlagsOK == {socket, inTxn, failed} \subseteq BOOLEAN

DataOK ==
  /\ liveBuild \in Builds
  /\ refRow \in [IndexIds \cup {Master} -> Builds \cup {0}]
  /\ rows \in [IndexIds -> Rows]
  /\ pc \in Ended \cup {"connect", "master", "refTable", "listing", "archive",
                        "commit"}
  /\ attempt \in 0..MaxRetries
  /\ selection \in Seq(IndexIds \cup {Master})
  /\ cur \in 1..(Len(selection) + 1)
  /\ listed \in [IndexIds -> SUBSET ArchiveIds]
  /\ todo \in SUBSET ArchiveIds
  /\ txn \in Rows /\ sinceCommit \in 0..CommitBatch

(* What the files, the process and its transaction hold; a batch is never   *)
(* counted beyond kCommitBatch.                                             *)
TypeOK == FlagsOK /\ DataOK
-----------------------------------------------------------------------------
Init ==
  /\ liveBuild = 1
  /\ refRow = [i \in IndexIds \cup {Master} |-> 0]
  /\ rows = [i \in IndexIds |-> NoRows]
  /\ pc = "down"
  /\ socket = FALSE /\ attempt = 0
  /\ selection = <<>> /\ cur = 1
  /\ listed = [i \in IndexIds |-> {}] /\ todo = {}
  /\ inTxn = FALSE /\ txn = NoRows /\ sinceCommit = 0
  /\ failed = FALSE

(* The process is gone: its transaction is rolled back by sqlite. *)
Exits(where) ==
  /\ pc' = where
  /\ socket' = FALSE /\ attempt' = 0
  /\ inTxn' = FALSE /\ txn' = NoRows /\ sinceCommit' = 0 /\ todo' = {}
  /\ UNCHANGED <<liveBuild, disk, selection, cur, listed, failed>>

(* Somebody runs the mirror, for the first time or again. *)
Start ==
  /\ pc \in Ended
  /\ pc' = "connect"
  /\ selection' = <<>> /\ cur' = 1
  /\ listed' = [i \in IndexIds |-> {}]
  /\ failed' = FALSE
  /\ UNCHANGED <<liveBuild, disk, socket, attempt, todo, store>>

(* The config fetch and the first connection, which are not retried. *)
Connect ==
  /\ pc = "connect"
  /\ pc' = "master" /\ socket' = TRUE
  /\ UNCHANGED <<liveBuild, disk, attempt, plan, store, failed>>

(* Any other exception: the config fetch or the first connection fails, the *)
(* master does not decompress, sqlite refuses to open a file, to store a    *)
(* table, to BEGIN or to COMMIT (also when it has rolled back by itself).   *)
AtCommit == pc = "commit" \/ (pc = "archive" /\ todo = {})

Throws ==
  /\ pc \in {"connect", "master", "refTable", "listing"} \/ AtCommit
  /\ Exits("fatal")
-----------------------------------------------------------------------------
(* getFileWithRetry and loadIndex: the request is answered.  A missing     *)
(* socket is recreated with the config of this run.                        *)
Answered ==
  /\ socket' = TRUE /\ attempt' = 0

(* The program is at a request: the table or archive is not there yet. *)
Has(a) == rows[Index][a] # 0 \/ txn[a] # 0
IsNext(a) == a \in todo /\ \A b \in todo : a <= b

Requesting ==
  \/ pc \in {"master", "listing"}
  \/ (pc = "refTable" /\ refRow[Index] = 0)
  \/ (pc = "archive" /\ \E a \in todo : IsNext(a) /\ ~Has(a))

(* An attempt fails, be it the reconnect or the request, and is retried.   *)
(* loadIndex never succeeds on the master table, which is not a reference  *)
(* table and which decodeReferenceTable rejects: all its attempts fail.    *)
AttemptFails ==
  /\ Requesting /\ attempt < MaxRetries
  /\ attempt' = attempt + 1 /\ socket' = FALSE
  /\ UNCHANGED <<liveBuild, disk, pc, plan, store, failed>>

(* Mutant: the last attempt is retried as well. *)
RetryForever ==
  /\ Requesting /\ attempt = MaxRetries
  /\ attempt' = 0 /\ socket' = FALSE
  /\ UNCHANGED <<liveBuild, disk, pc, plan, store, failed>>

(* The last attempt fails at a table: the exception ends the run. *)
GiveUp ==
  /\ Requesting /\ attempt = MaxRetries /\ pc # "archive"
  /\ Exits("fatal")

(* The last attempt fails at an archive: logged, counted, and on to the    *)
(* next one.                                                               *)
Abandon(a) ==
  /\ pc = "archive" /\ IsNext(a) /\ ~Has(a) /\ attempt = MaxRetries
  /\ attempt' = 0 /\ socket' = FALSE
  /\ todo' = todo \ {a}
  /\ failed' = TRUE
  /\ UNCHANGED <<liveBuild, disk, pc, selection, cur, listed, store>>
-----------------------------------------------------------------------------
(* Where runMirror's loop goes with the k-th selected index. *)
AtIndex(k, sel) == IF k <= Len(sel) THEN "refTable" ELSE "done"

(* Mutant: the master is only read for its count. *)
ReadMasterOnly ==
  /\ pc = "master"
  /\ Answered
  /\ selection' = Selection[liveBuild] /\ cur' = 1
  /\ pc' = AtIndex(1, Selection[liveBuild])
  /\ UNCHANGED <<liveBuild, disk, listed, todo, store, failed>>

(* mirrorMasterAndCount: the master row is stored if absent; the indices   *)
(* are those of the master just fetched.                                   *)
MirrorMaster ==
  /\ pc = "master"
  /\ Answered
  /\ refRow' = IF refRow[Master] # 0 THEN refRow
               ELSE [refRow EXCEPT ![Master] = liveBuild]
  /\ selection' = Selection[liveBuild] /\ cur' = 1
  /\ pc' = AtIndex(1, Selection[liveBuild])
  /\ UNCHANGED <<liveBuild, rows, listed, todo, store, failed>>

(* Mutant: the reference table is refreshed on every run. *)
RefreshRefTable ==
  /\ pc = "refTable"
  /\ Answered /\ refRow' = [refRow EXCEPT ![Index] = liveBuild]
  /\ pc' = "listing"
  /\ UNCHANGED <<liveBuild, rows, plan, store, failed>>

(* storeRefTableIfAbsent, autocommitted. *)
StoreRefTable ==
  /\ pc = "refTable"
  /\ IF refRow[Index] # 0 THEN UNCHANGED <<refRow, net>>
     ELSE /\ Answered
          /\ refRow' = [refRow EXCEPT ![Index] = liveBuild]
  /\ pc' = "listing"
  /\ UNCHANGED <<liveBuild, rows, plan, store, failed>>

(* Mutant: the archives are those of the stored table, not of a new one.   *)
LoadStoredListing ==
  /\ pc = "listing" /\ Index # Master
  /\ Answered
  /\ todo' = Listing[refRow[Index]][Index]
  /\ listed' = [listed EXCEPT ![Index] = todo']
  /\ inTxn' = TRUE /\ sinceCommit' = 0
  /\ pc' = "archive"
  /\ UNCHANGED <<liveBuild, disk, selection, cur, txn, failed>>

(* loadIndex fetches the table again and lists its archives; then BEGIN.   *)
LoadListing ==
  /\ pc = "listing" /\ Index # Master
  /\ Answered
  /\ todo' = Listing[liveBuild][Index]
  /\ listed' = [listed EXCEPT ![Index] = Listing[liveBuild][Index]]
  /\ inTxn' = TRUE /\ sinceCommit' = 0
  /\ pc' = "archive"
  /\ UNCHANGED <<liveBuild, disk, selection, cur, txn, failed>>

(* mirrorOneArchive of an archive that has a row. *)
Skip(a) ==
  /\ pc = "archive" /\ IsNext(a) /\ Has(a)
  /\ todo' = todo \ {a}
  /\ UNCHANGED <<liveBuild, disk, pc, net, selection, cur, listed, store,
                 failed>>

(* Mutant: commits one archive late. *)
CommitLate(a) ==
  /\ pc = "archive" /\ IsNext(a) /\ ~Has(a)
  /\ Answered
  /\ todo' = todo \ {a}
  /\ txn' = [txn EXCEPT ![a] = liveBuild]
  /\ sinceCommit' = sinceCommit + 1
  /\ pc' = IF sinceCommit + 1 > CommitBatch THEN "commit" ELSE "archive"
  /\ UNCHANGED <<liveBuild, disk, selection, cur, listed, inTxn, failed>>

(* mirrorOneArchive of one that has none.  Without a transaction, which    *)
(* sqlite may have rolled back by itself, the insert commits at once.      *)
Download(a) ==
  /\ pc = "archive" /\ IsNext(a) /\ ~Has(a)
  /\ Answered
  /\ todo' = todo \ {a}
  /\ IF inTxn
     THEN /\ txn' = [txn EXCEPT ![a] = liveBuild]
          /\ UNCHANGED rows
     ELSE /\ rows' = [rows EXCEPT ![Index][a] = liveBuild]
          /\ UNCHANGED txn
  /\ sinceCommit' = sinceCommit + 1
  /\ pc' = IF sinceCommit + 1 >= CommitBatch THEN "commit" ELSE "archive"
  /\ UNCHANGED <<liveBuild, refRow, selection, cur, listed, inTxn, failed>>

(* The blob arrived but sqlite refuses it; it may roll back as well.       *)
InsertFails(a) ==
  /\ pc = "archive" /\ IsNext(a) /\ ~Has(a)
  /\ Answered
  /\ todo' = todo \ {a}
  /\ failed' = TRUE
  /\ \/ UNCHANGED <<inTxn, txn>>
     \/ (inTxn' = FALSE /\ txn' = NoRows)
  /\ UNCHANGED <<liveBuild, disk, pc, selection, cur, listed, sinceCommit>>

(* The rows the transaction of the current index adds. *)
Merged == [rows EXCEPT ![Index] =
             [a \in ArchiveIds |-> IF txn[a] # 0 THEN txn[a] ELSE @[a]]]

(* The batch is full: COMMIT, BEGIN. *)
CommitBegin ==
  /\ pc = "commit" /\ inTxn
  /\ rows' = Merged
  /\ txn' = NoRows /\ sinceCommit' = 0
  /\ pc' = "archive"
  /\ UNCHANGED <<liveBuild, refRow, net, plan, inTxn, failed>>

(* Mutant: the last, incomplete batch is left to the closing connection.   *)
FinishWithoutCommit ==
  /\ pc = "archive" /\ todo = {}
  /\ inTxn' = FALSE /\ txn' = NoRows /\ sinceCommit' = 0
  /\ cur' = cur + 1
  /\ pc' = AtIndex(cur + 1, selection)
  /\ UNCHANGED <<liveBuild, disk, net, selection, listed, todo, failed>>

(* Every archive is processed: the final COMMIT, and on to the next index. *)
FinishIndex ==
  /\ pc = "archive" /\ todo = {} /\ inTxn
  /\ rows' = Merged
  /\ inTxn' = FALSE /\ txn' = NoRows /\ sinceCommit' = 0
  /\ cur' = cur + 1
  /\ pc' = AtIndex(cur + 1, selection)
  /\ UNCHANGED <<liveBuild, refRow, net, selection, listed, todo, failed>>

-----------------------------------------------------------------------------
Crash ==
  /\ pc \notin Ended
  /\ Exits("down")

GameUpdate ==
  /\ liveBuild < LastBuild
  /\ liveBuild' = liveBuild + 1
  /\ UNCHANGED <<disk, pc, net, plan, store, failed>>

(* What the program does when nothing fails. *)
Progress ==
  \/ Connect \/ MirrorMaster \/ StoreRefTable \/ LoadListing
  \/ \E a \in ArchiveIds : Skip(a) \/ Download(a)
  \/ CommitBegin \/ FinishIndex

Failure ==
  \/ Throws \/ AttemptFails \/ GiveUp
  \/ \E a \in ArchiveIds : Abandon(a) \/ InsertFails(a)

Next == Start \/ Progress \/ Failure \/ Crash \/ GameUpdate

Spec == Init /\ [][Next]_vars

(* The program is sequential and never waits for anything but a request or *)
(* the one-second pause before a reconnect: it keeps taking steps.         *)
RunSpec == Spec /\ WF_vars(Progress \/ Failure)

(* And somebody starts the mirror again whenever it has ended. *)
RestartSpec == RunSpec /\ WF_vars(Start)
-----------------------------------------------------------------------------
(* What is committed stays, whatever happens to the process: a row or a    *)
(* stored table is never removed or replaced, by any run after any crash   *)
(* ("Resumable: existing archives are skipped, so re-running is safe").    *)
KeepsRows ==
  /\ \A i \in DOMAIN refRow : refRow[i] # 0 => refRow'[i] = refRow[i]
  /\ \A i \in IndexIds, a \in ArchiveIds :
       rows[i][a] # 0 => rows'[i][a] = rows[i][a]

StoredRowsStay == [][KeepsRows]_vars

(* A crash at any moment loses at most one batch of downloads.             *)
Uncommitted == {a \in ArchiveIds : txn[a] # 0}

LossBounded == Cardinality(Uncommitted) <= CommitBatch

(* Whenever the process is killed, the files can be opened by the library: *)
(* an archive is only there together with a table of its index, which is   *)
(* only there together with the master.                                    *)
ReadableAfterCrash ==
  \A i \in IndexIds :
    /\ (\E a \in ArchiveIds : rows[i][a] # 0) => refRow[i] # 0
    /\ refRow[i] # 0 => refRow[Master] # 0

(* However runs and game updates interleave, a stored table is at most as  *)
(* new as the archives stored with it and at least as new as the master.   *)
RefNoNewerThanRows ==
  \A i \in IndexIds :
    /\ refRow[i] # 0 => refRow[Master] <= refRow[i]
    /\ \A a \in ArchiveIds : rows[i][a] # 0 => refRow[i] <= rows[i][a]

(* What is committed is consistent at every instant: in itself, and with   *)
(* the order in which the servers moved on.                                *)
FilesAgree == ReadableAfterCrash /\ RefNoNewerThanRows

(* What a crash at this instant leaves, and what it loses.                 *)
CrashSafe == FilesAgree /\ LossBounded

(* A run that reports failed=0 has stored, for every index it selected, a  *)
(* table and every archive some table of that index listed meanwhile.      *)
DoneIsComplete ==
  pc = "done" /\ ~failed =>
    \A k \in 1..Len(selection) :
      LET i == selection[k] IN
        /\ refRow[i] # 0
        /\ \E b \in refRow[i]..liveBuild : listed[i] = Listing[b][i]
        /\ \A a \in listed[i] : rows[i][a] # 0

(* Every run ends, however often the network fails.                        *)
RunEnds == pc \notin Ended ~> pc \in Ended

(* Once nothing fails any more, restarts complete the mirror: every archive *)
(* the servers list is stored, those that earlier runs abandoned included. *)
Complete ==
  \A k \in 1..Len(Selection[liveBuild]) :
    LET i == Selection[liveBuild][k] IN
      refRow[i] # 0 /\ \A a \in Listing[liveBuild][i] : rows[i][a] # 0

EventuallyMirrored == <>[][Start \/ Progress]_vars => <>Complete
=============================================================================

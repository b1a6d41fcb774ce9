---------------------------- MODULE MirrorProofs ----------------------------
(***************************************************************************)
(* What nxtcache-mirror keeps, for every number of indices, archives,      *)
(* builds and retries and every batch size.                                *)
(*                                                                         *)
(* The types are inductive together with Position, what is true of the     *)
(* place in the program the process is at.  StoredRowsStay and the order   *)
(* of the builds need Written: what the open transaction holds is new to   *)
(* its file and is not older than the table stored there.                  *)
(***************************************************************************)
EXTENDS Mirror, FiniteSetTheorems, TLAPS

USE MirrorAssumption DEF Builds, Rows

Position ==
  /\ pc \in {"refTable", "listing", "archive", "commit"} => cur <= Len(selection)
  /\ pc \in {"archive", "commit"} => Index \in IndexIds
  /\ pc \notin {"archive", "commit"} => ~inTxn
  /\ pc = "archive" => sinceCommit < CommitBatch
  /\ ~inTxn => txn = NoRows

Typed == DataOK /\ Position

Written ==
  /\ pc \in {"refTable", "listing", "archive", "commit"} => refRow[Master] # 0
  /\ pc \in {"listing", "archive", "commit"} => refRow[Index] # 0
  /\ pc \in {"archive", "commit"} =>
       \A a \in ArchiveIds : txn[a] # 0 =>
         rows[Index][a] = 0 /\ refRow[Index] <= txn[a]
  /\ \A i \in IndexIds \cup {Master} : refRow[i] <= liveBuild

Inv == Typed /\ Written /\ ReadableAfterCrash /\ RefNoNewerThanRows
-----------------------------------------------------------------------------
LEMMA IndexType ==
  ASSUME Typed, pc \in {"refTable", "listing", "archive", "commit"}
  PROVE  Index \in IndexIds \cup {Master}
BY DEF Typed, DataOK, Position, Index

LEMMA NoRowsType == NoRows \in Rows /\ \A a \in ArchiveIds : NoRows[a] = 0
BY DEF NoRows

LEMMA AnsweredType ==
  ASSUME DataOK, Answered
  PROVE  attempt' \in 0..MaxRetries
BY DEF DataOK, Answered

LEMMA MergedType ==
  ASSUME Typed, pc \in {"archive", "commit"}
  PROVE  /\ Merged \in [IndexIds -> Rows]
         /\ \A i \in IndexIds : i # Index => Merged[i] = rows[i]
         /\ \A a \in ArchiveIds : Merged[Index][a] =
              IF txn[a] # 0 THEN txn[a] ELSE rows[Index][a]
BY DEF Typed, DataOK, Position, Merged

LEMMA ExitsType ==
  ASSUME Typed, NEW w \in {"down", "fatal"}, Exits(w)
  PROVE  Typed'
BY NoRowsType DEF Exits, Typed, DataOK, Position, disk, Ended, Index

LEMMA AtIndexType ==
  ASSUME NEW n \in Nat \ {0}, NEW s \in Seq(IndexIds \cup {Master}), n <= Len(s) + 1
  PROVE  /\ AtIndex(n, s) \in {"refTable", "done"}
         /\ AtIndex(n, s) = "refTable" => n <= Len(s)
BY DEF AtIndex

(* The types, and what holds at each place of the program, are kept. *)
LEMMA TypedStep == Typed /\ [Next]_vars => Typed'
<1> SUFFICES ASSUME Typed, [Next]_vars PROVE Typed'
  OBVIOUS
<1> USE DEF Ended
<1>1. CASE Start
  BY <1>1 DEF Start, Typed, DataOK, Position, disk, store, Index
<1>2. CASE Connect
  BY <1>2 DEF Connect, Typed, DataOK, Position, disk, store, plan, Index
<1>3. CASE MirrorMaster
  <2>1. Selection[liveBuild] \in Seq(IndexIds \cup {Master})
    BY DEF Typed, DataOK
  <2> 1 <= Len(Selection[liveBuild]) + 1
    BY <2>1
  <2>2. /\ selection' \in Seq(IndexIds \cup {Master}) /\ cur' = 1
        /\ pc' \in {"refTable", "done"}
        /\ pc' = "refTable" => cur' <= Len(selection')
    BY <1>3, <2>1, AtIndexType DEF MirrorMaster
  <2>3. refRow' \in [IndexIds \cup {Master} -> Builds \cup {0}]
    BY <1>3 DEF MirrorMaster, Typed, DataOK
  <2>4. attempt' \in 0..MaxRetries
    BY <1>3, AnsweredType DEF MirrorMaster, Typed
  <2>5. inTxn' = inTxn /\ txn' = txn
    BY <1>3 DEF MirrorMaster, store
  <2>6. Position'
    BY <1>3, <2>2, <2>5 DEF MirrorMaster, Typed, Position, NoRows
  <2>7. DataOK'
    BY <1>3, <2>2, <2>3, <2>4 DEF MirrorMaster, Typed, DataOK, store
  <2>8. QED
    BY <2>6, <2>7 DEF Typed
<1>4. CASE StoreRefTable
  <2>1. refRow' \in [IndexIds \cup {Master} -> Builds \cup {0}]
    BY <1>4, IndexType DEF StoreRefTable, Typed, DataOK
  <2>2. attempt' \in 0..MaxRetries
    BY <1>4, AnsweredType DEF StoreRefTable, Typed, DataOK, net
  <2>3. QED
    BY <1>4, <2>1, <2>2 DEF StoreRefTable, Typed, DataOK, Position, store, plan, Index
<1>5. CASE LoadListing
  <2>1. Index \in IndexIds /\ Listing[liveBuild][Index] \in SUBSET ArchiveIds
    BY <1>5, IndexType DEF LoadListing, Typed, DataOK
  <2>2. /\ todo' \in SUBSET ArchiveIds
        /\ listed' \in [IndexIds -> SUBSET ArchiveIds]
    BY <1>5, <2>1 DEF LoadListing, Typed, DataOK
  <2>3. attempt' \in 0..MaxRetries
    BY <1>5, AnsweredType DEF LoadListing, Typed
  <2>4. QED
    BY <1>5, <2>1, <2>2, <2>3
    DEF LoadListing, Typed, DataOK, Position, disk, Index
<1>6. ASSUME NEW a \in ArchiveIds, Skip(a) PROVE Typed'
  BY <1>6 DEF Skip, Typed, DataOK, Position, disk, net, store, Index
<1>7. ASSUME NEW a \in ArchiveIds, Download(a) PROVE Typed'
  <2>1. txn' \in Rows /\ inTxn' = inTxn
    BY <1>7 DEF Download, Typed, DataOK
  <2> ~inTxn => txn' = txn
    BY <1>7 DEF Download
  <2>2. rows' \in [IndexIds -> Rows]
    <3>1. Index \in IndexIds
      BY <1>7 DEF Download, Typed, Position
    <3>2. rows' = rows \/ rows' = [rows EXCEPT ![Index][a] = liveBuild]
      BY <1>7 DEF Download
    <3>3. liveBuild \in Builds \cup {0} /\ rows[Index] \in Rows
      BY <3>1 DEF Typed, DataOK
    <3>4. [rows[Index] EXCEPT ![a] = liveBuild] \in Rows
      BY <3>3
    <3>5. [rows EXCEPT ![Index] = [rows[Index] EXCEPT ![a] = liveBuild]]
            \in [IndexIds -> Rows]
      BY <3>1, <3>4 DEF Typed, DataOK
    <3>6. QED
      BY <3>1, <3>2, <3>5 DEF Typed, DataOK
  <2>3. /\ sinceCommit' \in 0..CommitBatch /\ pc' \in {"archive", "commit"}
        /\ pc' = "archive" => sinceCommit' < CommitBatch
    BY <1>7 DEF Download, Typed, DataOK, Position
  <2>4. attempt' \in 0..MaxRetries
    BY <1>7, AnsweredType DEF Download, Typed
  <2>5. QED
    BY <1>7, <2>1, <2>2, <2>3, <2>4
    DEF Download, Typed, DataOK, Position, Index, NoRows
<1>8. CASE CommitBegin
  BY <1>8, MergedType, NoRowsType
  DEF CommitBegin, Typed, DataOK, Position, net, plan, Index
<1>9. CASE FinishIndex
  <2>1. cur + 1 \in Nat \ {0} /\ cur + 1 <= Len(selection) + 1
    BY <1>9 DEF FinishIndex, Typed, DataOK, Position
  <2>2. /\ pc' \in {"refTable", "done"}
        /\ pc' = "refTable" => cur' <= Len(selection)
    BY <1>9, <2>1, AtIndexType DEF FinishIndex, Typed, DataOK
  <2>3. rows' \in [IndexIds -> Rows] /\ txn' \in Rows
    BY <1>9, MergedType, NoRowsType DEF FinishIndex
  <2>4. QED
    BY <1>9, <2>1, <2>2, <2>3
    DEF FinishIndex, Typed, DataOK, Position, net, Index
<1>10. CASE Throws
  BY <1>10, ExitsType DEF Throws
<1>11. CASE AttemptFails
  BY <1>11
  DEF AttemptFails, Typed, DataOK, Position, disk, plan, store, Index
<1>12. CASE GiveUp
  BY <1>12, ExitsType DEF GiveUp, Typed, DataOK
<1>13. ASSUME NEW a \in ArchiveIds, Abandon(a) PROVE Typed'
  BY <1>13 DEF Abandon, Typed, DataOK, Position, disk, store, Index
<1>14. ASSUME NEW a \in ArchiveIds, InsertFails(a) PROVE Typed'
  <2>1. txn' \in Rows /\ (~inTxn' => txn' = NoRows)
    BY <1>14, NoRowsType DEF InsertFails, Typed, DataOK, Position
  <2>2. QED
    BY <1>14, <2>1, AnsweredType
    DEF InsertFails, Typed, DataOK, Position, disk, Index, NoRows
<1>15. CASE Crash
  BY <1>15, ExitsType DEF Crash
<1>16. CASE GameUpdate
  BY <1>16
  DEF GameUpdate, Typed, DataOK, Position, disk, net, plan, store, Index
<1>17. CASE UNCHANGED vars
  BY <1>17 DEF vars, Typed, DataOK, Position, disk, net, plan, store, Index, NoRows
<1>18. QED
  BY <1>1, <1>2, <1>3, <1>4, <1>5, <1>6, <1>7, <1>8, <1>9, <1>10, <1>11,
     <1>12, <1>13, <1>14, <1>15, <1>16, <1>17 DEF Next, Progress, Failure

LEMMA FlagsStep == FlagsOK /\ [Next]_vars => FlagsOK'
<1> SUFFICES ASSUME FlagsOK, [Next]_vars PROVE FlagsOK'
  OBVIOUS
<1> USE DEF FlagsOK
<1>1. ASSUME NEW w, Exits(w) PROVE FlagsOK'
  BY <1>1 DEF Exits
<1>2. ASSUME Answered PROVE socket' \in BOOLEAN
  BY <1>2 DEF Answered
<1>3. CASE Start
  BY <1>3 DEF Start, store
<1>4. CASE Connect
  BY <1>4 DEF Connect, store
<1>5. CASE MirrorMaster
  BY <1>5, <1>2 DEF MirrorMaster, store
<1>6. CASE StoreRefTable
  BY <1>6, <1>2 DEF StoreRefTable, store, net
<1>7. CASE LoadListing
  BY <1>7, <1>2 DEF LoadListing
<1>8. ASSUME NEW a \in ArchiveIds, Skip(a) PROVE FlagsOK'
  BY <1>8 DEF Skip, store, net
<1>9. ASSUME NEW a \in ArchiveIds, Download(a) PROVE FlagsOK'
  BY <1>9, <1>2 DEF Download
<1>10. CASE CommitBegin
  BY <1>10 DEF CommitBegin, net
<1>11. CASE FinishIndex
  BY <1>11 DEF FinishIndex, net
<1>12. CASE Throws
  BY <1>12, <1>1 DEF Throws
<1>13. CASE AttemptFails
  BY <1>13 DEF AttemptFails, store
<1>14. CASE GiveUp
  BY <1>14, <1>1 DEF GiveUp
<1>15. ASSUME NEW a \in ArchiveIds, Abandon(a) PROVE FlagsOK'
  BY <1>15 DEF Abandon, store
<1>16. ASSUME NEW a \in ArchiveIds, InsertFails(a) PROVE FlagsOK'
  BY <1>16, <1>2 DEF InsertFails
<1>17. CASE Crash
  BY <1>17, <1>1 DEF Crash
<1>18. CASE GameUpdate
  BY <1>18 DEF GameUpdate, net, store
<1>19. CASE UNCHANGED vars
  BY <1>19 DEF vars, net, store
<1>20. QED
  BY <1>3, <1>4, <1>5, <1>6, <1>7, <1>8, <1>9, <1>10, <1>11, <1>12, <1>13,
     <1>14, <1>15, <1>16, <1>17, <1>18, <1>19 DEF Next, Progress, Failure

(* Every behaviour of the mirror is type-correct. *)
THEOREM TypeCorrect == Spec => []TypeOK
<1>1. Init => Typed
  BY NoRowsType DEF Init, Typed, DataOK, Position, Ended
<1>2. Init => FlagsOK
  BY DEF Init, FlagsOK
<1>3. FlagsOK /\ Typed => TypeOK
  BY DEF Typed, TypeOK
<1>4. QED
  BY <1>1, <1>2, <1>3, TypedStep, FlagsStep, PTL DEF Spec
-----------------------------------------------------------------------------
(* The only ways a step changes the files: a table is added to an index    *)
(* that has none, or rows to an index that has a table.                    *)
AddsTable(i) ==
  /\ refRow[i] = 0 /\ refRow' = [refRow EXCEPT ![i] = liveBuild]
  /\ i # Master => refRow[Master] # 0
  /\ UNCHANGED <<rows, liveBuild>>

AddsRows(i, r) ==
  /\ refRow[i] # 0 /\ rows' = [rows EXCEPT ![i] = r]
  /\ \A a \in ArchiveIds :
       r[a] = rows[i][a] \/ (rows[i][a] = 0 /\ refRow[i] <= r[a])
  /\ UNCHANGED <<refRow, liveBuild>>

LEMMA MergeAddsRows ==
  ASSUME Typed, Written, pc \in {"archive", "commit"}, rows' = Merged,
         UNCHANGED <<refRow, liveBuild>>
  PROVE  Index \in IndexIds /\ Merged[Index] \in Rows /\ AddsRows(Index, Merged[Index])
<1>1. Index \in IndexIds
  BY DEF Typed, Position
<1>2. Merged[Index] \in Rows
  BY <1>1, MergedType
<1>3. rows' = [rows EXCEPT ![Index] = Merged[Index]]
  BY <1>1, MergedType DEF Typed, DataOK
<1>4. QED
  BY <1>1, <1>2, <1>3, MergedType DEF AddsRows, Written

LEMMA DiskStep ==
  ASSUME Typed, Written, [Next]_vars
  PROVE  \/ UNCHANGED disk /\ liveBuild' >= liveBuild
         \/ \E i \in IndexIds \cup {Master} : AddsTable(i)
         \/ \E i \in IndexIds, r \in Rows : AddsRows(i, r)
<1> liveBuild \in Nat
  BY DEF Typed, DataOK
<1>1. CASE MirrorMaster
  <2>1. CASE refRow[Master] # 0
    BY <1>1, <2>1 DEF MirrorMaster, disk
  <2>2. CASE refRow[Master] = 0
    <3>1. AddsTable(Master)
      BY <1>1, <2>2 DEF MirrorMaster, AddsTable
    <3>2. QED
      BY <3>1
  <2>3. QED
    BY <2>1, <2>2
<1>2. CASE StoreRefTable
  BY <1>2, IndexType DEF StoreRefTable, AddsTable, disk, Written
<1>3. ASSUME NEW a \in ArchiveIds, Download(a)
      PROVE  UNCHANGED disk \/ \E i \in IndexIds, r \in Rows : AddsRows(i, r)
  <2>1. CASE inTxn
    BY <1>3, <2>1 DEF Download, disk
  <2>2. CASE ~inTxn
    <3> DEFINE r == [rows[Index] EXCEPT ![a] = liveBuild]
    <3>1. Index \in IndexIds
      BY <1>3 DEF Download, Typed, Position
    <3>2. liveBuild \in Builds \cup {0} /\ rows[Index] \in Rows
      BY <3>1 DEF Typed, DataOK
    <3>3. r \in Rows
      BY <3>2
    <3>4. rows[Index][a] = 0
      BY <1>3 DEF Download, Has
    <3>5. refRow[Index] # 0 /\ refRow[Index] <= liveBuild
      BY <1>3, <3>1 DEF Download, Written
    <3>6. rows' = [rows EXCEPT ![Index] = r]
      BY <1>3, <2>2 DEF Download
    <3>7. \A b \in ArchiveIds :
            r[b] = rows[Index][b] \/ (rows[Index][b] = 0 /\ refRow[Index] <= r[b])
      BY <3>2, <3>4, <3>5
    <3>8. AddsRows(Index, r)
      BY <1>3, <3>5, <3>6, <3>7 DEF Download, AddsRows
    <3>9. QED
      BY <3>1, <3>3, <3>8
  <2>3. QED
    BY <2>1, <2>2
<1>4. CASE CommitBegin
  BY <1>4, MergeAddsRows DEF CommitBegin
<1>5. CASE FinishIndex
  BY <1>5, MergeAddsRows DEF FinishIndex
<1>6. CASE GameUpdate
  BY <1>6 DEF GameUpdate, disk
<1>7. CASE Start \/ Connect \/ LoadListing \/ AttemptFails
  BY <1>7 DEF Start, Connect, LoadListing, AttemptFails, disk
<1>8. CASE Throws \/ GiveUp \/ Crash
  BY <1>8 DEF Throws, GiveUp, Crash, Exits, disk
<1>9. ASSUME NEW a \in ArchiveIds, Skip(a) \/ Abandon(a) \/ InsertFails(a)
      PROVE  UNCHANGED disk /\ liveBuild' = liveBuild
  BY <1>9 DEF Skip, Abandon, InsertFails, disk
<1>10. ASSUME NEW a \in ArchiveIds, Download(a) PROVE liveBuild' = liveBuild
  BY <1>10 DEF Download
<1>11. CASE UNCHANGED vars
  BY <1>11 DEF vars, disk
<1>12. QED
  BY <1>1, <1>2, <1>3, <1>4, <1>5, <1>6, <1>7, <1>8, <1>9, <1>10, <1>11
  DEF Next, Progress, Failure

(* Adding never replaces, and keeps the order of the builds. *)
LEMMA AddsKeep ==
  ASSUME Inv, Typed', [Next]_vars
  PROVE  KeepsRows /\ ReadableAfterCrash' /\ RefNoNewerThanRows'
<1> USE DEF Inv, Typed, DataOK
<1>1. CASE UNCHANGED disk
  BY <1>1 DEF disk, KeepsRows, ReadableAfterCrash, RefNoNewerThanRows
<1>2. ASSUME NEW i \in IndexIds \cup {Master}, AddsTable(i)
      PROVE  KeepsRows /\ ReadableAfterCrash' /\ RefNoNewerThanRows'
  <2>1. rows' = rows /\ refRow'[i] = liveBuild /\ refRow[i] = 0 /\ liveBuild # 0
    BY <1>2 DEF AddsTable
  <2>2. \A j \in IndexIds \cup {Master} : j # i => refRow'[j] = refRow[j]
    BY <1>2 DEF AddsTable
  <2>3. KeepsRows
    BY <2>1, <2>2 DEF KeepsRows
  <2>4. ReadableAfterCrash'
    BY <1>2, <2>1, <2>2 DEF AddsTable, ReadableAfterCrash
  <2>5. \A j \in IndexIds : refRow'[j] # 0 => refRow'[Master] <= refRow'[j]
    BY <1>2, <2>1, <2>2
    DEF AddsTable, ReadableAfterCrash, RefNoNewerThanRows, Written
  <2>6. \A j \in IndexIds, a \in ArchiveIds :
          rows'[j][a] # 0 => refRow'[j] <= rows'[j][a]
    BY <2>1, <2>2 DEF ReadableAfterCrash, RefNoNewerThanRows
  <2>7. QED
    BY <2>3, <2>4, <2>5, <2>6 DEF RefNoNewerThanRows
<1>3. ASSUME NEW i \in IndexIds, NEW r \in Rows, AddsRows(i, r)
      PROVE  KeepsRows /\ ReadableAfterCrash' /\ RefNoNewerThanRows'
  <2>1. refRow' = refRow /\ rows'[i] = r /\ refRow[i] # 0
    BY <1>3 DEF AddsRows
  <2>2. \A j \in IndexIds : j # i => rows'[j] = rows[j]
    BY <1>3 DEF AddsRows
  <2>3. KeepsRows
    BY <1>3, <2>1, <2>2 DEF AddsRows, KeepsRows
  <2>4. ReadableAfterCrash'
    BY <2>1, <2>2 DEF ReadableAfterCrash
  <2>5. RefNoNewerThanRows'
    BY <1>3, <2>1, <2>2 DEF AddsRows, RefNoNewerThanRows
  <2>6. QED
    BY <2>3, <2>4, <2>5
<1>4. QED
  BY <1>1, <1>2, <1>3, DiskStep

LEMMA RefRowNat ==
  ASSUME Typed, NEW i \in IndexIds \cup {Master}
  PROVE  refRow[i] \in Nat
BY DEF Typed, DataOK

LEMMA WrittenStep ==
  ASSUME Inv, Typed', [Next]_vars
  PROVE  Written'
<1> USE DEF Inv, Typed, DataOK, Written
<1>1. \A i \in IndexIds \cup {Master} : refRow'[i] <= liveBuild'
  <2>1. CASE UNCHANGED disk /\ liveBuild' >= liveBuild
    <3>1. refRow' = refRow /\ liveBuild \in Nat /\ liveBuild' \in Nat
      BY <2>1 DEF disk
    <3>2. \A i \in IndexIds \cup {Master} : refRow[i] \in Nat /\ refRow[i] <= liveBuild
      BY RefRowNat DEF Inv, Written
    <3>3. QED
      BY <2>1, <3>1, <3>2
  <2>2. ASSUME NEW i \in IndexIds \cup {Master}, AddsTable(i)
        PROVE  \A j \in IndexIds \cup {Master} : refRow'[j] <= liveBuild'
    BY <2>2 DEF AddsTable
  <2>3. ASSUME NEW i \in IndexIds, NEW r \in Rows, AddsRows(i, r)
        PROVE  \A j \in IndexIds \cup {Master} : refRow'[j] <= liveBuild'
    BY <2>3 DEF AddsRows
  <2>4. QED
    BY <2>1, <2>2, <2>3, DiskStep
<1>2. \A i \in IndexIds \cup {Master} : refRow[i] # 0 => refRow'[i] # 0
  BY AddsKeep DEF KeepsRows
<1> DEFINE New == pc' \in {"archive", "commit"} =>
                    \A a \in ArchiveIds : txn'[a] # 0 =>
                      rows'[Index'][a] = 0 /\ refRow'[Index'] <= txn'[a]
           Tables == /\ pc' \in {"refTable", "listing", "archive", "commit"}
                           => refRow'[Master] # 0
                     /\ pc' \in {"listing", "archive", "commit"}
                           => refRow'[Index'] # 0
<1>3. CASE pc' \in {"done", "fatal", "down", "connect", "master"}
  BY <1>1, <1>3
<1>4. CASE MirrorMaster
  <2>1. pc' \in {"refTable", "done"} /\ refRow'[Master] # 0
    BY <1>4 DEF MirrorMaster, AtIndex
  <2>2. QED
    BY <1>1, <2>1
<1>5. CASE StoreRefTable
  <2>1. Index \in IndexIds \cup {Master} /\ Index' = Index /\ pc' = "listing"
    BY <1>5, IndexType DEF StoreRefTable, plan, Index
  <2>2. refRow'[Index] # 0
    BY <1>5, <2>1 DEF StoreRefTable
  <2>3. refRow'[Master] # 0
    BY <1>2, <1>5 DEF StoreRefTable
  <2>4. QED
    BY <1>1, <2>1, <2>2, <2>3
<1>6. CASE LoadListing
  <2>1. txn' = NoRows
    BY <1>6 DEF LoadListing, Position
  <2>2. QED
    BY <1>1, <1>2, <1>6, <2>1, NoRowsType, IndexType DEF LoadListing, Index, disk
<1>7. ASSUME NEW a \in ArchiveIds, Skip(a) \/ Abandon(a) PROVE Written'
  BY <1>1, <1>7 DEF Skip, Abandon, disk, store, Index
<1>8. ASSUME NEW a \in ArchiveIds, InsertFails(a) PROVE Written'
  BY <1>1, <1>8, NoRowsType DEF InsertFails, disk, Index
<1>9. ASSUME NEW a \in ArchiveIds, Download(a) PROVE Written'
  <2>1. Index \in IndexIds /\ Index' = Index
    BY <1>9 DEF Download, Position, Index
  <2>2. Tables
    BY <1>2, <1>9, <2>1 DEF Download
  <2>3. CASE inTxn
    <3>1. rows' = rows /\ refRow' = refRow /\ txn' = [txn EXCEPT ![a] = liveBuild]
      BY <1>9, <2>3 DEF Download
    <3>2. rows[Index][a] = 0
      BY <1>9 DEF Download, Has
    <3>3. New
      BY <1>9, <2>1, <3>1, <3>2 DEF Download
    <3>4. QED
      BY <1>1, <2>2, <3>3
  <2>4. CASE ~inTxn
    <3>1. txn' = NoRows
      BY <1>9, <2>4 DEF Download, Position
    <3>2. QED
      BY <1>1, <2>2, <3>1, NoRowsType
  <2>5. QED
    BY <2>3, <2>4
<1>10. CASE CommitBegin
  BY <1>1, <1>2, <1>10, NoRowsType DEF CommitBegin, Position, plan, Index
<1>11. CASE FinishIndex
  <2>1. pc' \in {"refTable", "done"}
    BY <1>11 DEF FinishIndex, AtIndex
  <2>2. QED
    BY <1>1, <1>2, <1>11, <2>1 DEF FinishIndex
<1>12. CASE AttemptFails \/ GameUpdate
  BY <1>1, <1>12 DEF AttemptFails, GameUpdate, disk, plan, store, Index
<1>13. CASE UNCHANGED vars
  BY <1>1, <1>13 DEF vars, disk, plan, store, Index
<1>14. CASE Start \/ Connect \/ Throws \/ GiveUp \/ Crash
  BY <1>3, <1>14 DEF Start, Connect, Throws, GiveUp, Crash, Exits
<1>15. QED
  BY <1>4, <1>5, <1>6, <1>7, <1>8, <1>9, <1>10, <1>11, <1>12, <1>13, <1>14
  DEF Next, Progress, Failure

LEMMA InitInv == Init => Inv
<1> SUFFICES ASSUME Init PROVE Inv
  OBVIOUS
<1>1. Typed
  BY NoRowsType DEF Init, Typed, DataOK, Position, Ended
<1>2. Written /\ ReadableAfterCrash /\ RefNoNewerThanRows
  BY NoRowsType DEF Init, Written, ReadableAfterCrash, RefNoNewerThanRows
<1>3. QED
  BY <1>1, <1>2 DEF Inv

LEMMA InvStep == Inv /\ [Next]_vars => Inv' /\ KeepsRows
<1> SUFFICES ASSUME Inv, [Next]_vars PROVE Inv' /\ KeepsRows
  OBVIOUS
<1>1. Typed'
  BY TypedStep DEF Inv
<1>2. QED
  BY <1>1, AddsKeep, WrittenStep DEF Inv

(* At every instant a row has its table and a table the master, and builds *)
(* only grow from the master to a table to its rows.                       *)
THEOREM FilesConsistent == Spec => []FilesAgree
<1>1. Inv => FilesAgree
  BY DEF Inv, FilesAgree
<1>2. QED
  BY <1>1, InitInv, InvStep, PTL DEF Spec

(* No step of any run removes or replaces what is committed. *)
THEOREM RowsStay == Spec => StoredRowsStay
<1>1. Inv /\ [Next]_vars => [KeepsRows]_vars
  BY InvStep
<1>2. QED
  BY <1>1, InitInv, InvStep, PTL DEF Spec, StoredRowsStay
-----------------------------------------------------------------------------
(* The transaction never holds more archives than were counted since the   *)
(* last commit.                                                            *)
Counted ==
  IsFiniteSet(Uncommitted) /\ Cardinality(Uncommitted) <= sinceCommit

LEMMA NothingCounted ==
  ASSUME txn' = NoRows, sinceCommit' \in Nat
  PROVE  Counted'
<1>1. Uncommitted' = {}
  BY NoRowsType DEF Uncommitted
<1>2. QED
  BY <1>1, FS_EmptySet DEF Counted

LEMMA CountedStep ==
  ASSUME Typed, Counted, Typed', [Next]_vars
  PROVE  Counted'
<1> sinceCommit \in Nat /\ sinceCommit' \in Nat
  BY DEF Typed, DataOK
<1>1. CASE txn' = txn /\ sinceCommit' = sinceCommit
  BY <1>1 DEF Counted, Uncommitted
<1>2. CASE txn' = NoRows
  BY <1>2, NothingCounted
<1>3. ASSUME NEW a \in ArchiveIds, Download(a) PROVE Counted'
  <2>1. CASE ~inTxn
    BY <1>2, <1>3, <2>1 DEF Download, Typed, Position
  <2>2. CASE inTxn
    <3>1. liveBuild # 0 /\ txn[a] = 0
      BY <1>3 DEF Download, Has, Typed, DataOK
    <3>2. txn' = [txn EXCEPT ![a] = liveBuild]
      BY <1>3, <2>2 DEF Download
    <3>3. Uncommitted' = Uncommitted \cup {a} /\ a \notin Uncommitted
      BY <3>1, <3>2 DEF Uncommitted, Typed, DataOK
    <3>4. /\ IsFiniteSet(Uncommitted')
          /\ Cardinality(Uncommitted') = Cardinality(Uncommitted) + 1
      BY <3>3, FS_AddElement DEF Counted
    <3>5. sinceCommit' = sinceCommit + 1
      BY <1>3 DEF Download
    <3>6. Cardinality(Uncommitted) \in Nat
      BY FS_CardinalityType DEF Counted
    <3>7. QED
      BY <3>4, <3>5, <3>6 DEF Counted
  <2>3. QED
    BY <2>1, <2>2
<1>4. CASE Start \/ Connect \/ MirrorMaster \/ StoreRefTable \/ AttemptFails \/ GameUpdate
  BY <1>1, <1>4
  DEF Start, Connect, MirrorMaster, StoreRefTable, AttemptFails, GameUpdate, store
<1>5. CASE LoadListing
  BY <1>2, <1>5 DEF LoadListing, Typed, Position
<1>6. ASSUME NEW a \in ArchiveIds, Skip(a) \/ Abandon(a) PROVE Counted'
  BY <1>1, <1>6 DEF Skip, Abandon, store
<1>7. ASSUME NEW a \in ArchiveIds, InsertFails(a) PROVE Counted'
  BY <1>1, <1>2, <1>7 DEF InsertFails
<1>8. CASE CommitBegin \/ FinishIndex \/ Throws \/ GiveUp \/ Crash
  BY <1>2, <1>8 DEF CommitBegin, FinishIndex, Throws, GiveUp, Crash, Exits
<1>9. CASE UNCHANGED vars
  BY <1>1, <1>9 DEF vars, store
<1>10. QED
  BY <1>3, <1>4, <1>5, <1>6, <1>7, <1>8, <1>9 DEF Next, Progress, Failure

(* A crash at any moment loses at most CommitBatch archives. *)
THEOREM BoundedLoss == Spec => []LossBounded
<1>1. Init => Counted
  <2> SUFFICES ASSUME Init PROVE Counted
    OBVIOUS
  <2>1. Uncommitted = {} /\ sinceCommit = 0
    BY NoRowsType DEF Init, Uncommitted
  <2>2. QED
    BY <2>1, FS_EmptySet DEF Counted
<1>2. Typed /\ Counted => LossBounded
  <2> SUFFICES ASSUME Typed, Counted PROVE LossBounded
    OBVIOUS
  <2>1. Cardinality(Uncommitted) \in Nat
    BY FS_CardinalityType DEF Counted
  <2>2. sinceCommit <= CommitBatch /\ sinceCommit \in Nat
    BY DEF Typed, DataOK
  <2>3. QED
    BY <2>1, <2>2 DEF Counted, LossBounded
<1>3. Inv => Typed
  BY DEF Inv
<1>4. Typed /\ Counted /\ Typed' /\ [Next]_vars => Counted'
  BY CountedStep
<1>5. QED
  BY <1>1, <1>2, <1>3, <1>4, InitInv, InvStep, PTL DEF Spec

(* However a run has gone so far, a crash now leaves files that agree with *)
(* each other and with the order of the builds, and loses at most a batch. *)
THEOREM CrashesAreSafe == Spec => []CrashSafe
BY FilesConsistent, BoundedLoss, PTL DEF CrashSafe
-----------------------------------------------------------------------------
(* While a run goes on, every archive it has listed is stored, still to be *)
(* processed, in the open transaction, or has made the run count a failure; *)
(* and every index it is past was listed by a table of the servers.        *)
Writing == pc \in {"archive", "commit"}

Accounted ==
  pc \notin {"down", "fatal"} =>
    \A i \in IndexIds : \A a \in listed[i] :
      \/ failed \/ rows[i][a] # 0
      \/ Writing /\ i = Index /\ (a \in todo \/ txn[a] # 0)

ListedBy(i) == \E b \in refRow[i]..liveBuild : listed[i] = Listing[b][i]

Passed(k) == k < cur \/ (k = cur /\ Writing)

Loaded ==
  pc \notin {"down", "fatal"} =>
    /\ pc = "done" => cur > Len(selection)
    /\ \A k \in 1..Len(selection) : Passed(k) =>
         /\ selection[k] \in IndexIds /\ refRow[selection[k]] # 0
         /\ ListedBy(selection[k])

LEMMA AccountedStep ==
  ASSUME Inv, Inv', Accounted, KeepsRows, [Next]_vars
  PROVE  Accounted'
<1> USE DEF Accounted
<1>1. /\ listed \in [IndexIds -> SUBSET ArchiveIds] /\ rows \in [IndexIds -> Rows]
      /\ txn \in Rows /\ liveBuild # 0
  BY DEF Inv, Typed, DataOK
<1>2. \A i \in IndexIds, a \in ArchiveIds : rows[i][a] # 0 => rows'[i][a] # 0
  BY DEF KeepsRows
<1>3. CASE Start
  BY <1>3 DEF Start
<1>4. CASE Connect \/ MirrorMaster \/ StoreRefTable \/ GameUpdate
  <2>1. CASE Connect \/ MirrorMaster \/ StoreRefTable
    <3>1. /\ ~Writing /\ pc \notin {"down", "fatal"}
          /\ listed' = listed /\ failed' = failed
      BY <2>1 DEF Connect, MirrorMaster, StoreRefTable, plan, Writing
    <3>2. QED
      BY <1>1, <1>2, <3>1
  <2>2. CASE GameUpdate
    BY <2>2 DEF GameUpdate, disk, plan, store, Writing, Index
  <2>3. QED
    BY <1>4, <2>1, <2>2
<1>5. CASE LoadListing
  <2>1. Index \in IndexIds /\ Index' = Index /\ Writing'
    BY <1>5, IndexType DEF LoadListing, Inv, Index, Writing
  <2>2. listed' = [listed EXCEPT ![Index] = todo'] /\ rows' = rows
    BY <1>5 DEF LoadListing, disk
  <2>3. ~Writing
    BY <1>5 DEF LoadListing, Writing
  <2>4. failed' = failed /\ pc \notin {"down", "fatal"}
    BY <1>5 DEF LoadListing
  <2>5. QED
    BY <1>1, <2>1, <2>2, <2>3, <2>4
<1>6. ASSUME NEW a \in ArchiveIds, Skip(a) PROVE Accounted'
  BY <1>1, <1>6 DEF Skip, Has, disk, store, Writing, Index
<1>7. ASSUME NEW a \in ArchiveIds, Abandon(a) \/ InsertFails(a) PROVE Accounted'
  BY <1>7 DEF Abandon, InsertFails
<1>8. ASSUME NEW a \in ArchiveIds, Download(a) PROVE Accounted'
  <2>1. /\ Index \in IndexIds /\ Index' = Index /\ Writing /\ Writing'
        /\ listed' = listed /\ failed' = failed /\ todo' = todo \ {a}
    BY <1>8 DEF Download, Inv, Typed, Position, Index, Writing
  <2>2. txn'[a] # 0 \/ rows'[Index][a] # 0
    <3>1. CASE inTxn
      BY <1>1, <1>8, <3>1 DEF Download
    <3>2. CASE ~inTxn
      BY <1>1, <1>8, <2>1, <3>2 DEF Download
    <3>3. QED
      BY <3>1, <3>2
  <2>3. \A b \in ArchiveIds : txn[b] # 0 => txn'[b] # 0
    BY <1>1, <1>8 DEF Download
  <2>4. pc \notin {"down", "fatal"}
    BY <1>8 DEF Download
  <2>5. QED
    BY <1>1, <1>2, <2>1, <2>2, <2>3, <2>4
<1>9. CASE CommitBegin
  BY <1>1, <1>2, <1>9, MergedType
  DEF CommitBegin, Inv, plan, Writing, Index
<1>10. CASE FinishIndex
  BY <1>1, <1>2, <1>10, MergedType DEF FinishIndex, Inv, Writing
<1>11. CASE AttemptFails
  BY <1>11 DEF AttemptFails, disk, plan, store, Writing, Index
<1>12. CASE Throws \/ GiveUp \/ Crash
  BY <1>12 DEF Throws, GiveUp, Crash, Exits
<1>13. CASE UNCHANGED vars
  BY <1>13 DEF vars, disk, plan, store, Writing, Index
<1>14. QED
  BY <1>3, <1>4, <1>5, <1>6, <1>7, <1>8, <1>9, <1>10, <1>11, <1>12, <1>13
  DEF Next, Progress, Failure

(* An index that was listed stays so: its table stays, the builds grow.    *)
LEMMA StaysListed ==
  ASSUME Inv, Inv', KeepsRows, NEW i \in IndexIds, refRow[i] # 0, ListedBy(i),
         listed'[i] = listed[i], liveBuild' >= liveBuild
  PROVE  refRow'[i] # 0 /\ ListedBy(i)'
<1>1. refRow'[i] = refRow[i] /\ refRow[i] \in Nat
  BY RefRowNat DEF KeepsRows, Inv, Typed, DataOK
<1>2. liveBuild \in Nat /\ liveBuild' \in Nat
  BY DEF Inv, Typed, DataOK
<1>3. QED
  BY <1>1, <1>2 DEF ListedBy

LEMMA LoadedStep ==
  ASSUME Inv, Inv', Loaded, KeepsRows, [Next]_vars
  PROVE  Loaded'
<1> USE DEF Loaded
<1>1. /\ cur \in Nat /\ cur' \in Nat /\ liveBuild \in Nat
      /\ selection \in Seq(IndexIds \cup {Master})
      /\ listed \in [IndexIds -> SUBSET ArchiveIds]
  BY DEF Inv, Typed, DataOK
<1>2. liveBuild' >= liveBuild
  BY <1>1, DiskStep DEF Inv, AddsTable, AddsRows
<1>3. ASSUME UNCHANGED <<selection, cur, listed>>, Writing' => Writing,
             pc' = "done" => pc = "done", pc \notin {"down", "fatal"}
      PROVE  Loaded'
  <2>1. \A k \in 1..Len(selection) : Passed(k)' => Passed(k)
    BY <1>3 DEF Passed
  <2>2. QED
    BY <1>2, <1>3, <2>1, StaysListed
<1>4. CASE pc' \in {"down", "fatal"}
  BY <1>4
<1>5. CASE Start
  BY <1>5 DEF Start
<1>6. CASE MirrorMaster
  <2>1. /\ cur' = 1 /\ ~Writing'
        /\ pc' = "done" => cur' > Len(selection')
    BY <1>6 DEF MirrorMaster, Writing, AtIndex, Inv, Typed, DataOK
  <2>2. QED
    BY <2>1 DEF Passed
<1>7. CASE LoadListing
  <2>1. Index \in IndexIds /\ refRow' = refRow /\ refRow[Index] # 0
    BY <1>7, IndexType DEF LoadListing, Inv, Written, disk
  <2>2. /\ listed' = [listed EXCEPT ![Index] = Listing[liveBuild][Index]]
        /\ UNCHANGED <<selection, cur, liveBuild>> /\ pc' = "archive"
    BY <1>7 DEF LoadListing
  <2>3. refRow[Index] \in Nat /\ refRow[Index] <= liveBuild
    BY <2>1, RefRowNat DEF Inv, Written
  <2>4. ListedBy(Index)'
    BY <1>1, <2>1, <2>2, <2>3 DEF ListedBy, Index
  <2>5. ASSUME NEW k \in 1..Len(selection), Passed(k)'
        PROVE  /\ selection[k] \in IndexIds /\ refRow'[selection[k]] # 0
               /\ ListedBy(selection[k])'
    <3>1. CASE selection[k] = Index
      BY <2>1, <2>2, <2>4, <3>1 DEF ListedBy, Index
    <3>2. CASE selection[k] # Index
      <4>1. Passed(k)
        BY <2>2, <2>5, <3>2 DEF Passed, Index
      <4>2. /\ selection[k] \in IndexIds /\ refRow[selection[k]] # 0
            /\ ListedBy(selection[k])
        BY <1>7, <4>1 DEF LoadListing
      <4>3. listed'[selection[k]] = listed[selection[k]]
        BY <1>1, <2>2, <3>2, <4>2
      <4>4. \A i \in IndexIds :
              refRow[i] # 0 /\ ListedBy(i) /\ listed'[i] = listed[i]
                => refRow'[i] # 0 /\ ListedBy(i)'
        BY <1>2, StaysListed
      <4>5. selection' = selection
        BY <2>2
      <4>6. QED
        BY <4>2, <4>3, <4>4, <4>5 DEF ListedBy
    <3>3. QED
      BY <3>1, <3>2
  <2>6. QED
    BY <2>2, <2>5
<1>8. CASE FinishIndex
  <2>1. /\ UNCHANGED <<selection, listed>> /\ cur' = cur + 1 /\ Writing
        /\ pc' \in {"refTable", "done"} /\ (pc' = "done" => cur' > Len(selection))
    BY <1>1, <1>8 DEF FinishIndex, Writing, AtIndex
  <2>2. \A k \in 1..Len(selection) : Passed(k)' => Passed(k)
    BY <1>1, <2>1 DEF Passed, Writing
  <2>3. QED
    BY <1>2, <2>1, <2>2, StaysListed DEF Writing
<1>9. CASE Connect \/ StoreRefTable \/ CommitBegin
  BY <1>3, <1>9 DEF Connect, StoreRefTable, CommitBegin, plan, Writing
<1>10. CASE AttemptFails
  <2>1. pc \notin {"down", "fatal"}
    BY <1>10 DEF AttemptFails, Requesting
  <2>2. QED
    BY <1>3, <1>10, <2>1 DEF AttemptFails, plan, Writing
<1>11. ASSUME NEW a \in ArchiveIds, Skip(a) \/ Download(a) \/ Abandon(a) \/ InsertFails(a)
       PROVE  Loaded'
  BY <1>3, <1>11 DEF Skip, Download, Abandon, InsertFails, Writing
<1>12. CASE Throws \/ GiveUp \/ Crash
  BY <1>4, <1>12 DEF Throws, GiveUp, Crash, Exits
<1>13. CASE GameUpdate \/ UNCHANGED vars
  BY <1>3, <1>4, <1>13 DEF GameUpdate, vars, plan, Writing
<1>14. QED
  BY <1>5, <1>6, <1>7, <1>8, <1>9, <1>10, <1>11, <1>12, <1>13
  DEF Next, Progress, Failure

(* A run that counts no failure has stored all it listed. *)
THEOREM RunsComplete == Spec => []DoneIsComplete
<1>1. Init => Accounted /\ Loaded
  BY DEF Init, Accounted, Loaded
<1>2. Inv /\ Accounted /\ Loaded => DoneIsComplete
  <2> SUFFICES ASSUME Inv, Accounted, Loaded, pc = "done", ~failed,
                      NEW k \in 1..Len(selection)
               PROVE  LET i == selection[k] IN
                        /\ refRow[i] # 0
                        /\ \E b \in refRow[i]..liveBuild : listed[i] = Listing[b][i]
                        /\ \A a \in listed[i] : rows[i][a] # 0
    BY DEF DoneIsComplete
  <2>1. Passed(k) /\ ~Writing
    BY DEF Loaded, Passed, Writing, Inv, Typed, DataOK
  <2>2. selection[k] \in IndexIds /\ refRow[selection[k]] # 0 /\ ListedBy(selection[k])
    BY <2>1 DEF Loaded
  <2>3. \A a \in listed[selection[k]] : rows[selection[k]][a] # 0
    BY <2>1, <2>2 DEF Accounted
  <2>4. QED
    BY <2>2, <2>3 DEF ListedBy
<1>3. Inv /\ Inv' /\ KeepsRows /\ Accounted /\ Loaded /\ [Next]_vars
        => Accounted' /\ Loaded'
  BY AccountedStep, LoadedStep
<1>4. QED
  BY <1>1, <1>2, <1>3, InitInv, InvStep, PTL DEF Spec
=============================================================================

---------------------------- MODULE Js5CacheProofs ----------------------------
(***************************************************************************)
(* Proofs about Js5Cache for every set of indices and archives and every   *)
(* sequence of builds.                                                     *)
(*                                                                         *)
(* MisreadsOnlyAfterUpdate is not inductive.  That a group is framed when  *)
(* it is as old as its index's table says nothing of a table opened later: *)
(* it takes that no archive is held before its index is open, that tables  *)
(* are never ahead of the servers, and that a group is never older than    *)
(* the table it was cut with.                                              *)
(***************************************************************************)
EXTENDS Js5Cache, TLAPS

USE TablesAssumption, LastBuildAssumption DEF Group

(* An index nobody has opened answers for no archive. *)
UnopenedIsEmpty ==
  \A g \in Group : g[1] \notin opened => archives[g] = "absent"

(* A decoded reference table is one the servers served. *)
TablesWereServed == \A i \in IndexIds : table[i] <= liveBuild

(* A group is fetched after the table that declares it. *)
TableBeforeGroup ==
  \A g \in Group : archives[g] = "loaded" => table[g[1]] <= content[g].build

Inv ==
  /\ TypeOK
  /\ UnopenedIsEmpty
  /\ TablesWereServed
  /\ TableBeforeGroup
  /\ MisreadsOnlyAfterUpdate
-----------------------------------------------------------------------------
(* A table that a call leaves behind is a build's, and not a newer one     *)
(* than the servers have.                                                  *)
LEMMA TableOfType ==
  ASSUME TypeOK, NEW i \in IndexIds
  PROVE  /\ TableOf(i) \in Builds
         /\ TablesWereServed => TableOf(i) <= liveBuild
BY DEF TypeOK, TableOf, TablesWereServed, Builds

LEMMA EntryOfType ==
  ASSUME TypeOK, NEW g \in Group
  PROVE  EntryOf(g) \in Entry
BY DEF TypeOK, EntryOf, Entry

LEMMA ArchivesType ==
  ASSUME TypeOK, NEW i \in IndexIds
  PROVE  Archives(i) \in [Group -> Entry]
BY EntryOfType DEF TypeOK, Archives

(* What every call that goes through Js5Cache::index keeps. *)
LEMMA OpensType ==
  ASSUME TypeOK, NEW i \in IndexIds, Opens(i)
  PROVE  /\ opened' \in SUBSET IndexIds
         /\ table' \in [IndexIds -> Builds \cup {0}]
         /\ \A j \in IndexIds :
              table'[j] = IF j = i THEN TableOf(i) ELSE table[j]
         /\ \A j \in IndexIds : j \in opened' <=> table'[j] # 0
         /\ liveBuild' = liveBuild /\ link' = link
BY TableOfType DEF TypeOK, Opens, Builds

(* Opening an index loads nothing, not even of that index. *)
LEMMA OpeningLoadsNothing ==
  ASSUME TypeOK, UnopenedIsEmpty, NEW i \in IndexIds, NEW g \in Group
  PROVE  Archives(i)[g] = "loaded" <=> archives[g] = "loaded"
BY DEF Archives, EntryOf, UnopenedIsEmpty

(* What a fetched group is: one of the live build's. *)
LEMMA FetchedType ==
  ASSUME TypeOK, NEW i \in IndexIds, NEW a \in ArchiveIds,
         ReadDeclared(i, a)
  PROVE  /\ content' \in [Group -> Content \cup {NoContent}]
         /\ content'[<<i, a>>] \in Content
         /\ content'[<<i, a>>].build = liveBuild
         /\ content'[<<i, a>>].framed =
              (Tables[liveBuild][<<i, a>>] = Tables[TableOf(i)][<<i, a>>])
         /\ \A h \in Group \ {<<i, a>>} : content'[h] = content[h]
<1> DEFINE fetched ==
      [build |-> liveBuild,
       framed |-> Tables[liveBuild][<<i, a>>] = Tables[TableOf(i)][<<i, a>>]]
<1>1. content' = [content EXCEPT ![<<i, a>>] = fetched]
  BY DEF ReadDeclared
<1>2. fetched \in Content
  BY DEF Content, TypeOK
<1>3. content \in [Group -> Content \cup {NoContent}]
  BY DEF TypeOK
<1>4. content'[<<i, a>>] = fetched
  BY <1>1, <1>3
<1>5. QED
  BY <1>1, <1>2, <1>3, <1>4

LEMMA BuildsArePositive ==
  ASSUME NEW c \in Content
  PROVE  c # NoContent
BY DEF Content, NoContent, Builds

(* Everything but the one archive a read touches is as opening the index   *)
(* left it.                                                                *)
LEMMA OthersAsOpened ==
  ASSUME TypeOK, NEW i \in IndexIds, NEW a \in ArchiveIds,
         ReadUndeclared(i, a) \/ ReadDeclared(i, a),
         NEW h \in Group, h # <<i, a>>
  PROVE  archives'[h] = Archives(i)[h] /\ content'[h] = content[h]
BY ArchivesType, FetchedType DEF ReadUndeclared, ReadDeclared
-----------------------------------------------------------------------------
(* Type correctness, the index-open half of which is that a failed fetch   *)
(* leaves no index behind.                                                 *)
LEMMA TypeStep == TypeOK /\ UnopenedIsEmpty /\ [Next]_vars => TypeOK'
<1> SUFFICES ASSUME TypeOK, UnopenedIsEmpty, [Next]_vars PROVE TypeOK'
  OBVIOUS
<1>1. ASSUME NEW i \in IndexIds, OpenIndex(i) PROVE TypeOK'
  <2>1. Opens(i) /\ archives' = Archives(i) /\ content' = content
    BY <1>1 DEF OpenIndex
  <2>2. \A g \in Group : archives'[g] = "loaded" <=> content'[g] # NoContent
    BY <2>1, OpeningLoadsNothing DEF TypeOK
  <2>3. QED
    BY <2>1, <2>2, OpensType, ArchivesType DEF TypeOK
<1>2. ASSUME NEW i \in IndexIds, NEW a \in ArchiveIds, ReadUndeclared(i, a)
      PROVE  TypeOK'
  <2> DEFINE g == <<i, a>>
  <2>1. Opens(i) /\ content' = content
    BY <1>2 DEF ReadUndeclared
  <2>2. archives' = [Archives(i) EXCEPT ![g] = "phantom"]
    BY <1>2 DEF ReadUndeclared
  <2>3. Archives(i)[g] = "absent"
    BY <1>2 DEF ReadUndeclared, Archives
  <2>4. archives' \in [Group -> Entry]
    BY <2>2, ArchivesType DEF Entry
  <2>5. ASSUME NEW h \in Group
        PROVE  archives'[h] = "loaded" <=> content'[h] # NoContent
    <3>1. archives'[h] = "loaded" <=> Archives(i)[h] = "loaded"
      BY <2>2, <2>3, ArchivesType
    <3>2. QED
      BY <2>1, <3>1, OpeningLoadsNothing DEF TypeOK
  <2>6. QED
    BY <2>1, <2>4, <2>5, OpensType DEF TypeOK
<1>3. ASSUME NEW i \in IndexIds, NEW a \in ArchiveIds, ReadDeclared(i, a)
      PROVE  TypeOK'
  <2> DEFINE g == <<i, a>>
  <2>1. Opens(i) /\ archives' = [Archives(i) EXCEPT ![g] = "loaded"]
    BY <1>3 DEF ReadDeclared
  <2>2. archives' \in [Group -> Entry]
    BY <2>1, ArchivesType DEF Entry
  <2>3. ASSUME NEW h \in Group
        PROVE  archives'[h] = "loaded" <=> content'[h] # NoContent
    <3>1. CASE h = g
      <4>1. archives'[g] = "loaded"
        BY <2>1, ArchivesType
      <4>2. content'[g] # NoContent
        BY <1>3, FetchedType, BuildsArePositive
      <4>3. QED
        BY <3>1, <4>1, <4>2
    <3>2. CASE h # g
      <4>1. archives'[h] = Archives(i)[h] /\ content'[h] = content[h]
        BY <1>3, <3>2, OthersAsOpened
      <4>2. archives[h] = "loaded" <=> content[h] # NoContent
        BY DEF TypeOK
      <4>3. QED
        BY <4>1, <4>2, OpeningLoadsNothing
    <3>3. QED
      BY <3>1, <3>2
  <2>4. QED
    BY <1>3, <2>1, <2>2, <2>3, OpensType, FetchedType DEF TypeOK
<1>4. CASE LinkChanges
  BY <1>4 DEF LinkChanges, TypeOK
<1>5. CASE GameUpdate
  BY <1>5 DEF GameUpdate, TypeOK, Builds
<1>6. CASE UNCHANGED vars
  BY <1>6 DEF vars, TypeOK
<1>7. QED
  BY <1>1, <1>2, <1>3, <1>4, <1>5, <1>6 DEF Next

LEMMA UnopenedStep ==
  TypeOK /\ UnopenedIsEmpty /\ [Next]_vars => UnopenedIsEmpty'
<1> SUFFICES ASSUME TypeOK, UnopenedIsEmpty, [Next]_vars,
                    NEW g \in Group, g[1] \notin opened'
             PROVE  archives'[g] = "absent"
  BY DEF UnopenedIsEmpty
<1>1. ASSUME NEW i \in IndexIds, Opens(i), archives'[g] = Archives(i)[g]
      PROVE  archives'[g] = "absent"
  BY <1>1 DEF Opens, Archives, UnopenedIsEmpty
<1>2. ASSUME NEW i \in IndexIds, OpenIndex(i) PROVE archives'[g] = "absent"
  BY <1>1, <1>2 DEF OpenIndex
<1>3. ASSUME NEW i \in IndexIds, NEW a \in ArchiveIds,
             ReadUndeclared(i, a) \/ ReadDeclared(i, a)
      PROVE  archives'[g] = "absent"
  <2>1. Opens(i)
    BY <1>3 DEF ReadUndeclared, ReadDeclared
  <2>2. g # <<i, a>>
    BY <2>1 DEF Opens
  <2>3. QED
    BY <1>1, <1>3, <2>1, <2>2, OthersAsOpened
<1>4. CASE LinkChanges \/ GameUpdate \/ UNCHANGED vars
  BY <1>4 DEF LinkChanges, GameUpdate, vars, UnopenedIsEmpty
<1>5. QED
  BY <1>2, <1>3, <1>4 DEF Next

(* Every behaviour of the live cache is type-correct. *)
THEOREM TypeCorrect == Spec => []TypeOK
<1>1. Init => TypeOK /\ UnopenedIsEmpty
  BY DEF Init, TypeOK, UnopenedIsEmpty, Entry, Builds
<1>2. QED
  BY <1>1, TypeStep, UnopenedStep, PTL DEF Spec
-----------------------------------------------------------------------------
(* The servers only move forward, so a table that was theirs is never      *)
(* ahead of them.                                                          *)
LEMMA TablesStep ==
  TypeOK /\ TablesWereServed /\ [Next]_vars => TablesWereServed'
<1> SUFFICES ASSUME TypeOK, TablesWereServed, [Next]_vars
             PROVE  TablesWereServed'
  OBVIOUS
<1>1. ASSUME NEW i \in IndexIds, Opens(i) PROVE TablesWereServed'
  BY <1>1, OpensType, TableOfType DEF TablesWereServed
<1>2. CASE \E i \in IndexIds : OpenIndex(i)
  BY <1>1, <1>2 DEF OpenIndex
<1>3. CASE \E i \in IndexIds, a \in ArchiveIds :
             ReadUndeclared(i, a) \/ ReadDeclared(i, a)
  BY <1>1, <1>3 DEF ReadUndeclared, ReadDeclared
<1>4. CASE GameUpdate
  <2>1. table' = table /\ liveBuild' = liveBuild + 1
    BY <1>4 DEF GameUpdate
  <2>2. liveBuild \in Nat /\ \A i \in IndexIds : table[i] \in Nat
    BY DEF TypeOK, Builds
  <2>3. QED
    BY <2>1, <2>2 DEF TablesWereServed
<1>5. CASE LinkChanges \/ UNCHANGED vars
  BY <1>5 DEF LinkChanges, vars, TablesWereServed
<1>6. QED
  BY <1>2, <1>3, <1>4, <1>5 DEF Next

(* What is said of one loaded group: it is not older than its table, and   *)
(* newer when it was cut with other file ids than it was packed for.       *)
CutRight(g) ==
  /\ table[g[1]] <= content[g].build
  /\ ~content[g].framed => table[g[1]] < content[g].build

LEMMA CutRightIsBoth ==
  (\A g \in Group : archives[g] = "loaded" => CutRight(g))
    <=> TableBeforeGroup /\ MisreadsOnlyAfterUpdate
BY DEF CutRight, TableBeforeGroup, MisreadsOnlyAfterUpdate

(* A loaded group's index is open, so no call replaces the table the group *)
(* was cut with.                                                           *)
LEMMA OpeningKeepsTable ==
  ASSUME TypeOK, UnopenedIsEmpty, NEW i \in IndexIds, Opens(i),
         NEW g \in Group, archives[g] = "loaded"
  PROVE  table'[g[1]] = table[g[1]]
BY OpensType DEF UnopenedIsEmpty, TableOf

(* The group a read fetches comes from the live build, which its table is  *)
(* at most; were it the same build's, the file ids would be the same.      *)
LEMMA FetchedIsCutRight ==
  ASSUME TypeOK, TablesWereServed, NEW i \in IndexIds, NEW a \in ArchiveIds,
         ReadDeclared(i, a)
  PROVE  CutRight(<<i, a>>)'
<1> DEFINE g == <<i, a>>
<1>1. Opens(i)
  BY DEF ReadDeclared
<1>2. table'[i] = TableOf(i)
  BY <1>1, OpensType
<1>3. TableOf(i) \in Builds /\ TableOf(i) <= liveBuild
  BY TableOfType
<1>4. content'[g].build = liveBuild
  BY FetchedType
<1>5. ~content'[g].framed => TableOf(i) # liveBuild
  BY FetchedType
<1>6. liveBuild \in Builds
  BY DEF TypeOK
<1>7. ~content'[g].framed => TableOf(i) < liveBuild
  BY <1>3, <1>5, <1>6 DEF Builds
<1>8. QED
  BY <1>2, <1>3, <1>4, <1>7 DEF CutRight

LEMMA CutStep ==
  Inv /\ [Next]_vars =>
    \A g \in Group : archives'[g] = "loaded" => CutRight(g)'
<1> SUFFICES ASSUME Inv, [Next]_vars, NEW g \in Group, archives'[g] = "loaded"
             PROVE  CutRight(g)'
  OBVIOUS
<1> USE DEF Inv
<1>1. ASSUME archives[g] = "loaded", table'[g[1]] = table[g[1]],
             content'[g] = content[g]
      PROVE  CutRight(g)'
  BY <1>1, CutRightIsBoth DEF CutRight
<1>2. ASSUME NEW i \in IndexIds, Opens(i), archives'[g] = Archives(i)[g],
             content'[g] = content[g]
      PROVE  CutRight(g)'
  BY <1>1, <1>2, OpeningLoadsNothing, OpeningKeepsTable
<1>3. ASSUME NEW i \in IndexIds, OpenIndex(i) PROVE CutRight(g)'
  BY <1>2, <1>3 DEF OpenIndex
<1>4. ASSUME NEW i \in IndexIds, NEW a \in ArchiveIds,
             ReadUndeclared(i, a) \/ ReadDeclared(i, a)
      PROVE  CutRight(g)'
  <2>1. Opens(i)
    BY <1>4 DEF ReadUndeclared, ReadDeclared
  <2>2. CASE g # <<i, a>>
    BY <1>2, <1>4, <2>1, <2>2, OthersAsOpened
  <2>3. CASE g = <<i, a>> /\ ReadDeclared(i, a)
    BY <2>3, FetchedIsCutRight
  <2>4. CASE g = <<i, a>> /\ ReadUndeclared(i, a)
    BY <2>4, ArchivesType DEF ReadUndeclared
  <2>5. QED
    BY <1>4, <2>2, <2>3, <2>4
<1>5. CASE LinkChanges \/ GameUpdate \/ UNCHANGED vars
  BY <1>1, <1>5 DEF LinkChanges, GameUpdate, vars
<1>6. QED
  BY <1>3, <1>4, <1>5 DEF Next

(* The inductive invariant. *)
THEOREM Invariance == Spec => []Inv
<1>1. Init => Inv
  BY DEF Init, Inv, TypeOK, UnopenedIsEmpty, TablesWereServed,
         TableBeforeGroup, MisreadsOnlyAfterUpdate, Entry, Builds
<1>2. Inv /\ [Next]_vars => (TableBeforeGroup /\ MisreadsOnlyAfterUpdate)'
  BY CutStep DEF CutRight, TableBeforeGroup, MisreadsOnlyAfterUpdate
<1>3. Inv /\ [Next]_vars => Inv'
  BY <1>2, TypeStep, UnopenedStep, TablesStep DEF Inv
<1>4. QED
  BY <1>1, <1>3, PTL DEF Spec

(* However fetches, game updates and connection losses interleave, a group *)
(* cut with file ids it was not packed for is newer than its index's       *)
(* table: Js5Index reads the table once and never again.                   *)
THEOREM MisreadsSafe == Spec => []MisreadsOnlyAfterUpdate
BY Invariance, PTL DEF Inv
-----------------------------------------------------------------------------
(* The refinement of CacheSource, whose status is StatusOf and whose holds *)
(* is content.  Nothing is ever dropped here, so two of its steps suffice. *)
StatusOf(g) == IF g[1] \in opened THEN archives[g] ELSE "unopened"

LEMMA OpeningIsAbstract ==
  ASSUME Inv, NEW i \in IndexIds, Opens(i), NEW h \in Group,
         archives'[h] = Archives(i)[h], content'[h] = content[h]
  PROVE  CS!Opens(h) \/ CS!Keeps(h)
<1> USE DEF Inv
<1>1. CASE h[1] = i /\ h[1] \notin opened
  <2>1. StatusOf(h) = "unopened" /\ content[h] = NoContent
    BY <1>1 DEF StatusOf, UnopenedIsEmpty, TypeOK
  <2>2. StatusOf(h)' = archives'[h] /\ archives'[h] \in {"absent", "declared"}
    BY <1>1 DEF Opens, StatusOf, Archives, EntryOf
  <2>3. QED
    BY <2>1, <2>2 DEF CS!Opens, StatusOf
<1>2. CASE h[1] # i \/ h[1] \in opened
  <2>1. archives'[h] = archives[h]
    BY <1>2 DEF Archives, EntryOf
  <2>2. h[1] \in opened <=> h[1] \in opened'
    BY <1>2 DEF Opens
  <2>3. StatusOf(h)' = StatusOf(h)
    BY <2>1, <2>2 DEF StatusOf
  <2>4. QED
    BY <2>3 DEF CS!Keeps, StatusOf
<1>3. QED
  BY <1>1, <1>2

LEMMA StepIsAbstract == Inv /\ Inv' /\ [Next]_vars => [CS!CsNext]_(CS!csVars)
<1> SUFFICES ASSUME Inv, Inv', [Next]_vars PROVE [CS!CsNext]_(CS!csVars)
  OBVIOUS
<1> USE DEF Inv
<1>1. /\ [g \in Group |-> StatusOf(g)]' \in [Group -> CS!Status]
      /\ content' \in [Group -> Content \cup {NoContent}]
  <2>1. \A g \in Group : StatusOf(g)' \in CS!Status
    BY DEF TypeOK, StatusOf, CS!Status, Entry
  <2>2. QED
    BY <2>1 DEF TypeOK
<1>2. ASSUME \A g \in Group : CS!Opens(g) \/ CS!Keeps(g) PROVE CS!CsNext
  BY <1>1, <1>2 DEF CS!CsNext, StatusOf
<1>3. ASSUME NEW g \in Group, CS!Misses(g) \/ CS!Loads(g),
             \A h \in Group \ {g} : CS!Opens(h) \/ CS!Keeps(h)
      PROVE  CS!CsNext
  BY <1>1, <1>3 DEF CS!CsNext, StatusOf
<1>4. ASSUME NEW i \in IndexIds, OpenIndex(i) PROVE CS!CsNext
  BY <1>2, <1>4, OpeningIsAbstract DEF OpenIndex
<1>5. ASSUME NEW i \in IndexIds, NEW a \in ArchiveIds,
             ReadUndeclared(i, a) \/ ReadDeclared(i, a),
             NEW h \in Group \ {<<i, a>>}
      PROVE  CS!Opens(h) \/ CS!Keeps(h)
  <2>1. Opens(i)
    BY <1>5 DEF ReadUndeclared, ReadDeclared
  <2>2. archives'[h] = Archives(i)[h] /\ content'[h] = content[h]
    BY <1>5, OthersAsOpened
  <2>3. QED
    BY <2>1, <2>2, OpeningIsAbstract
<1>6. ASSUME NEW i \in IndexIds, NEW a \in ArchiveIds, ReadUndeclared(i, a)
      PROVE  CS!Misses(<<i, a>>)
  <2> DEFINE g == <<i, a>>
  <2>1. StatusOf(g) \in {"unopened", "absent"}
    BY <1>6 DEF ReadUndeclared, StatusOf, EntryOf
  <2>2. StatusOf(g)' = "phantom"
    BY <1>6, ArchivesType DEF ReadUndeclared, StatusOf, Opens
  <2>3. archives[g] # "loaded"
    BY <1>6 DEF ReadUndeclared, EntryOf, UnopenedIsEmpty
  <2>4. content'[g] = NoContent
    BY <1>6, <2>3 DEF ReadUndeclared, TypeOK
  <2>5. QED
    BY <2>1, <2>2, <2>4 DEF CS!Misses, StatusOf
<1>7. ASSUME NEW i \in IndexIds, NEW a \in ArchiveIds, ReadDeclared(i, a)
      PROVE  CS!Loads(<<i, a>>)
  <2> DEFINE g == <<i, a>>
  <2>1. StatusOf(g) \in {"unopened", "declared"}
    BY <1>7 DEF ReadDeclared, StatusOf, EntryOf
  <2>2. StatusOf(g)' = "loaded"
    BY <1>7, ArchivesType DEF ReadDeclared, StatusOf, Opens
  <2>3. content'[g] \in Content
    BY <1>7, FetchedType
  <2>4. QED
    BY <2>1, <2>2, <2>3 DEF CS!Loads, StatusOf
<1>8. CASE UNCHANGED <<opened, archives, content>>
  <2>1. \A g \in Group : CS!Keeps(g)
    BY <1>8 DEF CS!Keeps
  <2>2. QED
    BY <1>2, <2>1
<1>9. QED
  BY <1>3, <1>4, <1>5, <1>6, <1>7, <1>8
  DEF Next, LinkChanges, GameUpdate, vars

(* The live cache implements CacheSource as the local one does: whatever   *)
(* happens to the connection and to the servers, content handed out is     *)
(* never replaced, place-holders never fill and one call touches one       *)
(* archive beyond opening its index.                                       *)
THEOREM Refinement == Spec => ImplementsCacheSource
<1>1. Init => CS!CsInit
  BY DEF Init, CS!CsInit
<1>2. QED
  BY <1>1, StepIsAbstract, Invariance, PTL
  DEF Spec, ImplementsCacheSource, CS!CsSpec
=============================================================================

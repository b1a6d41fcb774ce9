---------------------------- MODULE RSCacheProofs ----------------------------
(***************************************************************************)
(* Proofs about RSCache for every set of indices, archives and builds.     *)
(*                                                                         *)
(* The inductive invariant is the conjunction of the three the runs check. *)
(* LoadedIsDeclared alone is not inductive: that loading never overwrites  *)
(* the content of another archive needs the types, and that an index which *)
(* is not open holds no archive needs LoadedIsDeclared itself.             *)
(*                                                                         *)
(* At the end, what the proofs about the callers of a cache have in common: *)
(* the calls of CacheCalls as steps of RSCache, and the counting of what a  *)
(* limit leaves.                                                            *)
(***************************************************************************)
EXTENDS Integers, CacheCalls, FiniteSets, TLAPS, FiniteSetTheorems,
        WellFoundedInduction, NaturalsInduction

USE TablesAssumption, LiveBuildAssumption, BuildsAssumption DEF Group

Inv == TypeOK /\ ResolverEverywhere /\ LoadedIsDeclared

(* Opening an index yields a build's table or none, and what an unopened   *)
(* index declares is what its table will declare.                          *)
LEMMA OpenTableType ==
  ASSUME TypeOK, NEW i \in IndexIds
  PROVE  /\ OpenTable(i) \in Builds \cup {"none"}
         /\ TableOf(i) \in Builds \cup {"none"}
BY DEF TypeOK, OpenTable, TableOf, Formats

LEMMA EntryOfType ==
  ASSUME TypeOK, NEW g \in Group
  PROVE  EntryOf(g) \in Entry
BY DEF TypeOK, EntryOf, Entry

LEMMA ArchivesType ==
  ASSUME TypeOK, NEW i \in IndexIds
  PROVE  Archives(i) \in [Group -> Entry]
BY EntryOfType DEF TypeOK, Archives

(* What every call that goes through RSCache::index keeps. *)
LEMMA OpensType ==
  ASSUME TypeOK, NEW i \in IndexIds, Opens(i)
  PROVE  /\ opened' \in SUBSET IndexIds
         /\ resolver' \in SUBSET IndexIds
         /\ table' \in [IndexIds -> Builds \cup {"none"}]
         /\ UNCHANGED <<disk, link, fallbackEnabled>>
BY OpenTableType DEF TypeOK, Opens

LEMMA LoadType ==
  ASSUME TypeOK, NEW i \in IndexIds, NEW a \in ArchiveIds,
         NEW src \in {"disk", "live"}, NEW b \in Builds, Load(i, a, src, b)
  PROVE  TypeOK'
<1>1. Opens(i)
  BY DEF Load
<1>2. archives' \in [Group -> Entry]
  BY ArchivesType DEF Load, Entry
<1>3. Framed(b, <<i, a>>) \in BOOLEAN
  BY DEF Framed
<1>4. content' \in [Group -> Content \cup {NoContent}]
  BY <1>3 DEF Load, TypeOK, Content
<1>5. QED
  BY <1>1, <1>2, <1>4, OpensType DEF TypeOK, disk

(* Type correctness is kept by every call and every environment step. *)
LEMMA TypeStep == TypeOK /\ [Next]_vars => TypeOK'
<1> SUFFICES ASSUME TypeOK, [Next]_vars PROVE TypeOK'
  OBVIOUS
<1>1. ASSUME NEW i \in IndexIds, OpenIndex(i) PROVE TypeOK'
  BY <1>1, OpensType, ArchivesType DEF OpenIndex, TypeOK, disk
<1>2. ASSUME NEW i \in IndexIds, RefStored(i) PROVE TypeOK'
  BY <1>2 DEF RefStored, TypeOK, Formats, client
<1>3. ASSUME NEW i \in IndexIds, NEW a \in ArchiveIds, ReadUndeclared(i, a)
      PROVE  TypeOK'
  <2>1. archives' \in [Group -> Entry]
    BY <1>3, ArchivesType DEF ReadUndeclared, Entry
  <2>2. QED
    BY <1>3, <2>1, OpensType DEF ReadUndeclared, TypeOK, disk
<1>4. ASSUME NEW i \in IndexIds, NEW a \in ArchiveIds, ReadFromDisk(i, a)
      PROVE  TypeOK'
  BY <1>4, LoadType DEF ReadFromDisk, TypeOK
<1>5. ASSUME NEW i \in IndexIds, NEW a \in ArchiveIds, ReadFromLive(i, a)
      PROVE  TypeOK'
  BY <1>5, LoadType DEF ReadFromLive
<1>6. ASSUME NEW i \in IndexIds, NEW a \in ArchiveIds, ReadFails(i, a)
      PROVE  TypeOK'
  BY <1>6, OpensType, ArchivesType DEF ReadFails, TypeOK, disk
<1>7. ASSUME NEW i \in IndexIds, NEW a \in ArchiveIds, Evict(i, a)
      PROVE  TypeOK'
  BY <1>7 DEF Evict, TypeOK, Entry, disk
<1>8. ASSUME NEW g \in Group, RowStored(g) PROVE TypeOK'
  BY <1>8 DEF RowStored, TypeOK, Formats, client
<1>9. CASE EnableLiveFallback
  BY <1>9 DEF EnableLiveFallback, TypeOK, disk
<1>10. CASE LinkChanges
  BY <1>10 DEF LinkChanges, TypeOK, disk, client
<1>11. CASE UNCHANGED vars
  BY <1>11 DEF vars, TypeOK, disk, client
<1>12. QED
  BY <1>1, <1>2, <1>3, <1>4, <1>5, <1>6, <1>7, <1>8, <1>9, <1>10, <1>11
  DEF Next, Read

(* Every behaviour of the cache is type-correct. *)
THEOREM TypeCorrect == Spec => []TypeOK
<1>1. Init => TypeOK
  BY DEF Init, TypeOK, Entry
<1>2. QED
  BY <1>1, TypeStep, PTL DEF Spec
-----------------------------------------------------------------------------
(* Enabling the fallback and opening indices commute: in either order the  *)
(* open indices are exactly the ones that have the resolver.               *)
LEMMA ResolverStep ==
  TypeOK /\ ResolverEverywhere /\ [Next]_vars => ResolverEverywhere'
<1> SUFFICES ASSUME TypeOK, ResolverEverywhere, [Next]_vars
             PROVE  ResolverEverywhere'
  OBVIOUS
<1>1. ASSUME NEW i \in IndexIds, Opens(i) PROVE ResolverEverywhere'
  <2>1. fallbackEnabled' = fallbackEnabled /\ link' = link
    BY <1>1 DEF Opens
  <2>2. CASE i \in opened
    <3>1. opened' = opened /\ resolver' = resolver
      BY <1>1, <2>2 DEF Opens, HasResolver
    <3>2. QED
      BY <2>1, <3>1 DEF ResolverEverywhere
  <2>3. CASE i \notin opened /\ fallbackEnabled
    <3>1. opened' = opened \cup {i} /\ resolver' = resolver \cup {i}
      BY <1>1, <2>3 DEF Opens, HasResolver
    <3>2. link # "none"
      BY <2>3 DEF ResolverEverywhere
    <3>3. QED
      BY <2>1, <2>3, <3>1, <3>2 DEF ResolverEverywhere
  <2>4. CASE i \notin opened /\ ~fallbackEnabled
    <3>1. opened' = opened \cup {i} /\ resolver' = resolver
      BY <1>1, <2>4 DEF Opens, HasResolver
    <3>2. QED
      BY <2>1, <2>4, <3>1 DEF ResolverEverywhere
  <2>5. QED
    BY <2>2, <2>3, <2>4
<1>2. CASE \E i \in IndexIds : OpenIndex(i)
  BY <1>1, <1>2 DEF OpenIndex
<1>3. CASE \E i \in IndexIds, a \in ArchiveIds : Read(i, a)
  BY <1>1, <1>3
  DEF Read, ReadUndeclared, ReadFromDisk, ReadFromLive, ReadFails, Load
<1>4. CASE \E i \in IndexIds, a \in ArchiveIds : Evict(i, a)
  BY <1>4 DEF Evict, ResolverEverywhere
<1>5. CASE EnableLiveFallback
  BY <1>5 DEF EnableLiveFallback, ResolverEverywhere
<1>6. CASE LinkChanges
  BY <1>6 DEF LinkChanges, ResolverEverywhere, client
<1>7. CASE \/ \E i \in IndexIds : RefStored(i)
           \/ \E g \in Group : RowStored(g)
           \/ UNCHANGED vars
  BY <1>7 DEF RefStored, RowStored, ResolverEverywhere, vars, client
<1>8. QED
  BY <1>2, <1>3, <1>4, <1>5, <1>6, <1>7 DEF Next

(* The entry a call finds when it opens the index is one LoadedIsDeclared  *)
(* allows, and a group it finds declared or loaded is declared by the      *)
(* table the call leaves behind.                                           *)
LEMMA FoundIsDeclared ==
  ASSUME TypeOK, LoadedIsDeclared, NEW g \in Group,
         EntryOf(g) \in {"declared", "loaded"}
  PROVE  /\ Declares(TableOf(g[1]), g)
         /\ EntryOf(g) = "loaded" => archives[g] = "loaded"
BY DEF LoadedIsDeclared, EntryOf, TableOf

LEMMA UnopenedHoldsNothing ==
  ASSUME LoadedIsDeclared, NEW g \in Group, g[1] \notin opened
  PROVE  archives[g] \notin {"declared", "loaded"} /\ content[g] = NoContent
BY DEF LoadedIsDeclared

(* Opening an index on the way to a call keeps every archive's entry and   *)
(* content consistent with the table that was decoded.                     *)
LEMMA OpeningKeepsDeclared ==
  ASSUME TypeOK, LoadedIsDeclared, NEW i \in IndexIds, Opens(i),
         NEW g \in Group
  PROVE  /\ Archives(i)[g] \in {"declared", "loaded"} =>
              g[1] \in opened' /\ Declares(table'[g[1]], g)
         /\ Archives(i)[g] = "loaded" <=> content[g] # NoContent
<1>1. table'[g[1]] = IF g[1] = i THEN TableOf(i) ELSE table[g[1]]
  BY DEF Opens, TypeOK
<1>2. CASE g[1] = i
  <2>1. Archives(i)[g] = EntryOf(g) /\ g[1] \in opened'
    BY <1>2 DEF Archives, Opens
  <2>2. EntryOf(g) = "loaded" <=> content[g] # NoContent
    BY <1>2, UnopenedHoldsNothing DEF EntryOf, LoadedIsDeclared
  <2>3. QED
    BY <1>1, <1>2, <2>1, <2>2, FoundIsDeclared
<1>3. CASE g[1] # i
  BY <1>1, <1>3 DEF Archives, LoadedIsDeclared, Opens
<1>4. QED
  BY <1>2, <1>3

LEMMA LoadKeepsDeclared ==
  ASSUME TypeOK, LoadedIsDeclared, NEW i \in IndexIds, NEW a \in ArchiveIds,
         EntryOf(<<i, a>>) = "declared",
         NEW src \in {"disk", "live"}, NEW b \in Builds, Load(i, a, src, b)
  PROVE  LoadedIsDeclared'
<1> SUFFICES ASSUME NEW g \in Group
             PROVE  /\ archives'[g] \in {"declared", "loaded"} =>
                         g[1] \in opened' /\ Declares(table'[g[1]], g)
                    /\ archives'[g] = "loaded" <=> content'[g] # NoContent
  BY DEF LoadedIsDeclared, Declares, DeclaredFiles
<1>1. Opens(i)
  BY DEF Load
<1>2. CASE g = <<i, a>>
  <2>1. archives'[g] = "loaded"
    BY <1>2, ArchivesType DEF Load
  <2>2. content'[g].src = src
    BY <1>2 DEF Load, TypeOK
  <2>3. g[1] \in opened' /\ Declares(table'[g[1]], g)
    BY <1>1, <1>2, FoundIsDeclared DEF Opens, TypeOK
  <2>4. QED
    BY <2>1, <2>2, <2>3 DEF NoContent
<1>3. CASE g # <<i, a>>
  <2>1. archives'[g] = Archives(i)[g] /\ content'[g] = content[g]
    BY <1>3, ArchivesType DEF Load, TypeOK
  <2>2. QED
    BY <1>1, <2>1, OpeningKeepsDeclared
<1>4. QED
  BY <1>2, <1>3

LEMMA DeclaredStep ==
  TypeOK /\ LoadedIsDeclared /\ [Next]_vars => LoadedIsDeclared'
<1> SUFFICES ASSUME TypeOK, LoadedIsDeclared, [Next]_vars
             PROVE  LoadedIsDeclared'
  OBVIOUS
<1>1. ASSUME NEW i \in IndexIds, Opens(i), archives' = Archives(i),
             UNCHANGED content
      PROVE  LoadedIsDeclared'
  BY <1>1, OpeningKeepsDeclared DEF LoadedIsDeclared, Declares, DeclaredFiles
<1>2. CASE \E i \in IndexIds : OpenIndex(i)
  BY <1>1, <1>2 DEF OpenIndex
<1>3. ASSUME NEW i \in IndexIds, NEW a \in ArchiveIds, ReadUndeclared(i, a)
      PROVE  LoadedIsDeclared'
  <2>1. Opens(i) /\ content' = content
    BY <1>3 DEF ReadUndeclared
  <2>2. Archives(i)[<<i, a>>] = "absent"
    BY <1>3 DEF ReadUndeclared, Archives
  <2>3. archives' = [Archives(i) EXCEPT ![<<i, a>>] = "phantom"]
    BY <1>3 DEF ReadUndeclared
  <2>4. ASSUME NEW g \in Group
        PROVE  /\ archives'[g] \in {"declared", "loaded"} =>
                    g[1] \in opened' /\ Declares(table'[g[1]], g)
               /\ archives'[g] = "loaded" <=> content'[g] # NoContent
    <3>1. CASE g = <<i, a>>
      BY <2>1, <2>2, <2>3, <3>1, ArchivesType, OpeningKeepsDeclared
    <3>2. CASE g # <<i, a>>
      BY <2>1, <2>3, <3>2, ArchivesType, OpeningKeepsDeclared
    <3>3. QED
      BY <3>1, <3>2
  <2>5. QED
    BY <2>4 DEF LoadedIsDeclared, Declares, DeclaredFiles
<1>4. ASSUME NEW i \in IndexIds, NEW a \in ArchiveIds, ReadFromDisk(i, a)
      PROVE  LoadedIsDeclared'
  BY <1>4, LoadKeepsDeclared DEF ReadFromDisk, TypeOK
<1>5. ASSUME NEW i \in IndexIds, NEW a \in ArchiveIds, ReadFromLive(i, a)
      PROVE  LoadedIsDeclared'
  BY <1>5, LoadKeepsDeclared DEF ReadFromLive
<1>6. ASSUME NEW i \in IndexIds, NEW a \in ArchiveIds, ReadFails(i, a)
      PROVE  LoadedIsDeclared'
  BY <1>1, <1>6 DEF ReadFails
<1>7. ASSUME NEW i \in IndexIds, NEW a \in ArchiveIds, Evict(i, a)
      PROVE  LoadedIsDeclared'
  BY <1>7 DEF Evict, LoadedIsDeclared, TypeOK, Declares, DeclaredFiles
<1>8. CASE UNCHANGED <<opened, table, archives, content>>
  BY <1>8 DEF LoadedIsDeclared, Declares, DeclaredFiles
<1>9. QED
  BY <1>2, <1>3, <1>4, <1>5, <1>6, <1>7, <1>8
  DEF Next, Read, RefStored, RowStored, EnableLiveFallback, LinkChanges,
      client, vars

(* The inductive invariant. *)
THEOREM Invariance == Spec => []Inv
<1>1. Init => Inv
  BY DEF Init, Inv, TypeOK, ResolverEverywhere, LoadedIsDeclared, Entry
<1>2. Inv /\ [Next]_vars => Inv'
  BY TypeStep, ResolverStep, DeclaredStep DEF Inv
<1>3. QED
  BY <1>1, <1>2, PTL DEF Spec

(* Whatever the order of opening indices and enabling the fallback, every  *)
(* open index has a resolver exactly when the fallback is enabled.         *)
THEOREM ResolverSafe == Spec => []ResolverEverywhere
BY Invariance, PTL DEF Inv

(* No read, eviction or place-holder ever makes an archive known or loaded *)
(* that its index's decoded reference table does not declare.              *)
THEOREM DeclaredSafe == Spec => []LoadedIsDeclared
BY Invariance, PTL DEF Inv
-----------------------------------------------------------------------------
(* The refinement of CacheSource.  status and holds, the abstract          *)
(* variables, are StatusOf and content.                                    *)
LEMMA StatusType ==
  ASSUME TypeOK, NEW g \in Group
  PROVE  StatusOf(g) \in CS!Status
BY DEF TypeOK, StatusOf, CS!Status, Entry

LEMMA AbstractTypes ==
  ASSUME TypeOK
  PROVE  /\ [g \in Group |-> StatusOf(g)] \in [Group -> CS!Status]
         /\ content \in [Group -> Content \cup {NoContent}]
BY StatusType DEF TypeOK

(* Opening an index moves its archives out of "unopened" and nothing else. *)
LEMMA OpeningIsAbstract ==
  ASSUME TypeOK, LoadedIsDeclared, NEW i \in IndexIds, Opens(i),
         NEW h \in Group, archives'[h] = Archives(i)[h],
         content'[h] = content[h]
  PROVE  CS!Opens(h) \/ CS!Keeps(h)
<1>1. CASE h[1] = i /\ h[1] \notin opened
  <2>1. StatusOf(h) = "unopened" /\ content[h] = NoContent
    BY <1>1, UnopenedHoldsNothing DEF StatusOf
  <2>2. StatusOf(h)' = archives'[h] /\ archives'[h] \in {"absent", "declared"}
    BY <1>1 DEF Opens, StatusOf, Archives, EntryOf
  <2>3. QED
    BY <2>1, <2>2 DEF CS!Opens
<1>2. CASE h[1] # i \/ h[1] \in opened
  <2>1. archives'[h] = archives[h]
    BY <1>2 DEF Archives, EntryOf
  <2>2. h[1] \in opened <=> h[1] \in opened'
    BY <1>2 DEF Opens
  <2>3. StatusOf(h)' = StatusOf(h)
    BY <2>1, <2>2 DEF StatusOf
  <2>4. QED
    BY <2>3 DEF CS!Keeps
<1>3. QED
  BY <1>1, <1>2

(* A load is abstractly a load, and the other archives open or stay.       *)
LEMMA LoadIsAbstract ==
  ASSUME TypeOK, LoadedIsDeclared, NEW i \in IndexIds, NEW a \in ArchiveIds,
         EntryOf(<<i, a>>) = "declared",
         NEW src \in {"disk", "live"}, NEW b \in Builds, Load(i, a, src, b)
  PROVE  /\ CS!Loads(<<i, a>>)
         /\ \A h \in Group \ {<<i, a>>} : CS!Opens(h) \/ CS!Keeps(h)
<1>1. Opens(i)
  BY DEF Load
<1>2. ASSUME NEW h \in Group \ {<<i, a>>}
      PROVE  archives'[h] = Archives(i)[h] /\ content'[h] = content[h]
  BY ArchivesType DEF Load, TypeOK
<1>3. StatusOf(<<i, a>>) \in {"unopened", "declared"}
  BY DEF StatusOf, EntryOf
<1>4. StatusOf(<<i, a>>)' = "loaded"
  BY <1>1, ArchivesType DEF StatusOf, Load, Opens
<1>5. content'[<<i, a>>] \in Content
  <2>1. Framed(b, <<i, a>>) \in BOOLEAN
    BY DEF Framed
  <2>2. QED
    BY <2>1 DEF Load, TypeOK, Content
<1>6. QED
  BY <1>1, <1>2, <1>3, <1>4, <1>5, OpeningIsAbstract DEF CS!Loads

(* Every step of the cache is a step of CacheSource, or none it can tell.  *)
LEMMA StepIsAbstract ==
  TypeOK /\ LoadedIsDeclared /\ TypeOK' /\ [Next]_vars => [CS!CsNext]_(CS!csVars)
<1> SUFFICES ASSUME TypeOK, LoadedIsDeclared, TypeOK', [Next]_vars
             PROVE  [CS!CsNext]_(CS!csVars)
  OBVIOUS
<1>1. /\ [g \in Group |-> StatusOf(g)]' \in [Group -> CS!Status]
      /\ content' \in [Group -> Content \cup {NoContent}]
  <2>1. \A g \in Group : StatusOf(g)' \in CS!Status
    BY DEF TypeOK, StatusOf, CS!Status, Entry
  <2>2. QED
    BY <2>1 DEF TypeOK
<1>2. ASSUME \A g \in Group : CS!Opens(g) \/ CS!Keeps(g) PROVE CS!CsNext
  BY <1>1, <1>2 DEF CS!CsNext
<1>3. ASSUME NEW g \in Group, CS!Misses(g) \/ CS!Loads(g) \/ CS!Drops(g),
             \A h \in Group \ {g} : CS!Opens(h) \/ CS!Keeps(h)
      PROVE  CS!CsNext
  BY <1>1, <1>3 DEF CS!CsNext
<1>4. ASSUME NEW i \in IndexIds, Opens(i), archives' = Archives(i),
             UNCHANGED content
      PROVE  CS!CsNext
  BY <1>2, <1>4, OpeningIsAbstract
<1>5. CASE \E i \in IndexIds : OpenIndex(i)
  BY <1>4, <1>5 DEF OpenIndex
<1>6. ASSUME NEW i \in IndexIds, NEW a \in ArchiveIds, ReadUndeclared(i, a)
      PROVE  CS!CsNext
  <2> DEFINE g == <<i, a>>
  <2>1. Opens(i) /\ content' = content
    BY <1>6 DEF ReadUndeclared
  <2>2. \A h \in Group \ {g} : archives'[h] = Archives(i)[h]
    BY <1>6, ArchivesType DEF ReadUndeclared
  <2>3. \A h \in Group \ {g} : CS!Opens(h) \/ CS!Keeps(h)
    BY <2>1, <2>2, OpeningIsAbstract
  <2>4. StatusOf(g) \in {"unopened", "absent"}
    BY <1>6 DEF ReadUndeclared, StatusOf, EntryOf
  <2>5. StatusOf(g)' = "phantom"
    BY <1>6, ArchivesType DEF ReadUndeclared, StatusOf, Opens
  <2>6. content[g] = NoContent
    BY <2>4 DEF StatusOf, LoadedIsDeclared
  <2>7. CS!Misses(g)
    BY <2>1, <2>4, <2>5, <2>6 DEF CS!Misses
  <2>8. QED
    BY <1>3, <2>3, <2>7
<1>7. ASSUME NEW i \in IndexIds, NEW a \in ArchiveIds, ReadFromDisk(i, a)
      PROVE  CS!CsNext
  BY <1>3, <1>7, LoadIsAbstract DEF ReadFromDisk, TypeOK
<1>8. ASSUME NEW i \in IndexIds, NEW a \in ArchiveIds, ReadFromLive(i, a)
      PROVE  CS!CsNext
  BY <1>3, <1>8, LoadIsAbstract DEF ReadFromLive
<1>9. ASSUME NEW i \in IndexIds, NEW a \in ArchiveIds, ReadFails(i, a)
      PROVE  CS!CsNext
  BY <1>4, <1>9 DEF ReadFails
<1>10. ASSUME NEW i \in IndexIds, NEW a \in ArchiveIds, Evict(i, a)
       PROVE  CS!CsNext
  <2> DEFINE g == <<i, a>>
  <2>1. CS!Drops(g)
    BY <1>10 DEF Evict, CS!Drops, StatusOf, TypeOK, Entry
  <2>2. \A h \in Group \ {g} : CS!Keeps(h)
    BY <1>10 DEF Evict, CS!Keeps, StatusOf, TypeOK
  <2>3. QED
    BY <1>3, <2>1, <2>2
<1>11. CASE UNCHANGED <<opened, archives, content>>
  <2>1. \A g \in Group : CS!Keeps(g)
    BY <1>11 DEF CS!Keeps, StatusOf
  <2>2. QED
    BY <1>2, <2>1
<1>12. QED
  BY <1>5, <1>6, <1>7, <1>8, <1>9, <1>10, <1>11
  DEF Next, Read, RefStored, RowStored, EnableLiveFallback, LinkChanges,
      client, vars

(* The local cache implements CacheSource: whatever is opened, read,       *)
(* evicted and enabled in whatever order, content handed out is never      *)
(* replaced, place-holders never fill and one call touches one archive.    *)
THEOREM Refinement == Spec => ImplementsCacheSource
<1>1. Init => CS!CsInit
  BY DEF Init, CS!CsInit, StatusOf
<1>2. Inv /\ Inv' /\ [Next]_vars => [CS!CsNext]_(CS!csVars)
  BY StepIsAbstract DEF Inv
<1>3. QED
  BY <1>1, <1>2, Invariance, PTL
  DEF Spec, ImplementsCacheSource, CS!CsSpec
-----------------------------------------------------------------------------
(* An index that is not open has neither table nor archives. *)
UnopenedIsEmpty ==
  \A i \in IndexIds \ opened :
    table[i] = "none" /\ \A g \in Group : g[1] = i => archives[g] = "absent"

(* The calls of CacheCalls as steps of RSCache, and a cache that is new.   *)
LEMMA CallIsStep ==
  ASSUME NEW g \in Group, Obtains(g) \/ Raises(g)
  PROVE  [Next]_vars
<1>1. g = <<g[1], g[2]>> /\ g[1] \in IndexIds /\ g[2] \in ArchiveIds
  OBVIOUS
<1>2. CASE UNCHANGED cache
  BY <1>2 DEF cache, vars
<1>3. CASE Read(g[1], g[2])
  BY <1>1, <1>3 DEF Next
<1>4. CASE ReadFails(g[1], g[2])
  BY <1>1, <1>4 DEF Next, Read
<1>5. QED
  BY <1>2, <1>3, <1>4 DEF Obtains, Raises

LEMMA ListsIsStep ==
  ASSUME NEW i \in IndexIds, Lists(i)
  PROVE  [Next]_vars
BY DEF Lists, Next, cache, vars

LEMMA EvictIsStep ==
  ASSUME NEW i \in IndexIds, NEW a \in ArchiveIds, Evict(i, a)
  PROVE  [Next]_vars
BY DEF Next

LEMMA NewCacheIsEmpty ==
  ASSUME TypeOK, NEW fallback \in BOOLEAN, NewCache(fallback)
  PROVE  TypeOK' /\ LoadedIsDeclared' /\ UnopenedIsEmpty'
<1>1. TypeOK'
  BY DEF NewCache, TypeOK, Entry, disk
<1>2. LoadedIsDeclared' /\ UnopenedIsEmpty'
  BY DEF NewCache, LoadedIsDeclared, UnopenedIsEmpty
<1>3. QED
  BY <1>1, <1>2

(* To its callers it is one that nothing has been asked of. *)
LEMMA NewCacheIsAbstract == \A fallback : NewCache(fallback) => CS!CsInit'
BY DEF NewCache, CS!CsInit, StatusOf

(* An index is opened on the way to a call: its table and its archives     *)
(* appear, and nothing else is opened.                                     *)
LEMMA OpeningKeepsUnopened ==
  ASSUME TypeOK, UnopenedIsEmpty, NEW i \in IndexIds, Opens(i),
         \A g \in Group : g[1] # i => archives'[g] = archives[g]
  PROVE  UnopenedIsEmpty'
<1> SUFFICES ASSUME NEW j \in IndexIds \ opened'
             PROVE  /\ table'[j] = "none"
                    /\ \A g \in Group : g[1] = j => archives'[g] = "absent"
  BY DEF UnopenedIsEmpty
<1>1. j # i /\ j \notin opened
  BY DEF Opens
<1>2. table'[j] = table[j]
  BY <1>1 DEF Opens, TypeOK
<1>3. QED
  BY <1>1, <1>2 DEF UnopenedIsEmpty

LEMMA UnopenedStep ==
  TypeOK /\ UnopenedIsEmpty /\ [Next]_vars => UnopenedIsEmpty'
<1> SUFFICES ASSUME TypeOK, UnopenedIsEmpty, [Next]_vars
             PROVE  UnopenedIsEmpty'
  OBVIOUS
<1>1. ASSUME NEW i \in IndexIds, OpenIndex(i) PROVE UnopenedIsEmpty'
  BY <1>1, OpeningKeepsUnopened DEF OpenIndex, Archives
<1>2. ASSUME NEW i \in IndexIds, NEW a \in ArchiveIds, Read(i, a)
      PROVE  UnopenedIsEmpty'
  <2>1. Opens(i)
    BY <1>2 DEF Read, ReadUndeclared, ReadFromDisk, ReadFromLive, ReadFails, Load
  <2>2. ASSUME NEW g \in Group, g[1] # i
        PROVE  archives'[g] = Archives(i)[g]
    BY <1>2, <2>2, ArchivesType
    DEF Read, ReadUndeclared, ReadFromDisk, ReadFromLive, ReadFails, Load
  <2>3. QED
    BY <2>1, <2>2, OpeningKeepsUnopened DEF Archives
<1>3. ASSUME NEW i \in IndexIds, NEW a \in ArchiveIds, Evict(i, a)
      PROVE  UnopenedIsEmpty'
  BY <1>3 DEF Evict, UnopenedIsEmpty, TypeOK
<1>4. CASE UNCHANGED <<opened, table, archives>>
  BY <1>4 DEF UnopenedIsEmpty
<1>5. QED
  BY <1>1, <1>2, <1>3, <1>4
  DEF Next, RefStored, RowStored, EnableLiveFallback, LinkChanges, client, vars

(* What callers know of the cache, whatever they do with it. *)
CacheInv == TypeOK /\ LoadedIsDeclared /\ UnopenedIsEmpty

LEMMA CacheStep == CacheInv /\ [Next]_vars => CacheInv'
BY TypeStep, DeclaredStep, UnopenedStep DEF CacheInv

LEMMA CacheStepIsAbstract == CacheInv /\ [Next]_vars => [CS!CsNext]_(CS!csVars)
BY CacheStep, StepIsAbstract DEF CacheInv

LEMMA ListedType == \A i : Listed(i)' \in SUBSET ArchiveIds
BY DEF Listed

(* What is loaded: a call for g loads nothing but g.                       *)
LEMMA CallLoadsOnly ==
  ASSUME CacheInv, NEW g \in Group, Obtains(g) \/ Raises(g),
         NEW h \in Group, h # g, archives'[h] = "loaded"
  PROVE  archives[h] = "loaded"
<1> USE DEF CacheInv
<1>1. CASE UNCHANGED cache
  BY <1>1 DEF cache, client
<1>2. CASE Read(g[1], g[2])
  <2>1. archives'[h] = Archives(g[1])[h]
    BY <1>2, ArchivesType
    DEF Read, ReadUndeclared, ReadFromDisk, ReadFromLive, ReadFails, Load
  <2>2. QED
    BY <2>1, FoundIsDeclared DEF Archives
<1>3. QED
  BY <1>1, <1>2 DEF Obtains, Raises, Read

LEMMA ListsLoadsNothing ==
  ASSUME CacheInv, NEW i \in IndexIds, Lists(i),
         NEW h \in Group, archives'[h] = "loaded"
  PROVE  archives[h] = "loaded"
<1> USE DEF CacheInv
<1>1. CASE UNCHANGED cache
  BY <1>1 DEF cache, client
<1>2. CASE OpenIndex(i)
  BY <1>2, FoundIsDeclared DEF OpenIndex, Archives
<1>3. QED
  BY <1>1, <1>2 DEF Lists

(* The table of an index does not change once it is open. *)
LEMMA OpenIsKept ==
  ASSUME TypeOK, [Next]_vars, NEW i \in opened
  PROVE  i \in opened' /\ table'[i] = table[i]
<1>1. ASSUME NEW j \in IndexIds, Opens(j) PROVE i \in opened' /\ table'[i] = table[i]
  BY <1>1 DEF Opens, TableOf, TypeOK
<1>2. ASSUME NEW j \in IndexIds, NEW a \in ArchiveIds, Read(j, a)
      PROVE  i \in opened' /\ table'[i] = table[i]
  BY <1>1, <1>2 DEF Read, ReadUndeclared, ReadFromDisk, ReadFromLive, ReadFails, Load
<1>3. QED
  BY <1>1, <1>2
  DEF Next, OpenIndex, Evict, RefStored, RowStored, EnableLiveFallback, LinkChanges, client, vars

(* A call that returns has opened its index, reads on from there, and      *)
(* touches no other archive of it.                                         *)
LEMMA CallOpens ==
  ASSUME CacheInv, NEW g \in Group, Obtains(g)
  PROVE  /\ g[1] \in opened' /\ table'[g[1]] = TableOf(g[1]) /\ UNCHANGED disk
         /\ \A h \in Group : h # g /\ h[1] = g[1] => archives'[h] = EntryOf(h)
<1>1. g = <<g[1], g[2]>> /\ g[1] \in IndexIds
  OBVIOUS
<1>2. CASE EntryOf(g) \in {"loaded", "phantom"}
  <2>1. g[1] \in opened
    BY <1>2 DEF EntryOf
  <2>2. UNCHANGED cache
    BY <1>2 DEF Obtains
  <2>3. QED
    BY <2>1, <2>2 DEF cache, client, TableOf, EntryOf
<1>3. CASE Read(g[1], g[2])
  <2>1. Opens(g[1])
    BY <1>3 DEF Read, ReadUndeclared, ReadFromDisk, ReadFromLive, ReadFails, Load
  <2>2. g[1] \in opened' /\ table'[g[1]] = TableOf(g[1]) /\ UNCHANGED disk
    BY <1>1, <2>1 DEF Opens, CacheInv, TypeOK
  <2>3. \A h \in Group : h # g => archives'[h] = Archives(g[1])[h]
    BY <1>1, <1>3, ArchivesType
    DEF Read, ReadUndeclared, ReadFromDisk, ReadFromLive, ReadFails, Load, CacheInv
  <2>4. QED
    BY <2>2, <2>3 DEF Archives
<1>4. QED
  BY <1>2, <1>3 DEF Obtains
-----------------------------------------------------------------------------
(* Counting: what a limit leaves of a set of files.                        *)
LEMMA LeastExists ==
  ASSUME NEW T \in SUBSET Nat, T # {}
  PROVE  \E x \in T : \A y \in T : x <= y
<1> DEFINE R == OpToRel(<, Nat)
<1>1. IsWellFoundedOn(R, Nat)
  BY NatLessThanWellFounded
<1>2. PICK x \in T : \A y \in T : <<y, x>> \notin R
  BY <1>1, WFMin
<1>3. \A y \in T : ~(y < x)
  BY <1>2 DEF OpToRel
<1> HIDE DEF R
<1>4. QED
  BY <1>2, <1>3

Under(S, f) == {h \in S : h < f}

LEMMA UnderType ==
  ASSUME NEW S, IsFiniteSet(S), NEW f
  PROVE  /\ IsFiniteSet(Under(S, f)) /\ Cardinality(Under(S, f)) \in Nat
         /\ Cardinality(Under(S, f)) <= Cardinality(S)
<1>1. Under(S, f) \in SUBSET S
  BY DEF Under
<1>2. QED
  BY <1>1, FS_Subset, FS_CardinalityType

(* The further up, the more there is below. *)
LEMMA UnderGrows ==
  ASSUME NEW S, S \subseteq Nat, IsFiniteSet(S), NEW f \in S, NEW g \in S, f < g
  PROVE  Cardinality(Under(S, f)) + 1 <= Cardinality(Under(S, g))
<1>1. f \notin Under(S, f)
  BY DEF Under
<1>2. Under(S, f) \cup {f} \in SUBSET Under(S, g)
  <2>1. ASSUME NEW h \in Under(S, f) \cup {f} PROVE h \in Under(S, g)
    <3>1. h \in S /\ h < g
      BY DEF Under
    <3>2. QED
      BY <3>1 DEF Under
  <2>2. QED
    BY <2>1
<1>3. Cardinality(Under(S, f) \cup {f}) = Cardinality(Under(S, f)) + 1
  BY <1>1, UnderType, FS_AddElement
<1>4. Cardinality(Under(S, f) \cup {f}) <= Cardinality(Under(S, g))
  BY <1>2, UnderType, FS_Subset
<1>5. QED
  BY <1>3, <1>4

LEMMA GreatestExists ==
  ASSUME NEW T, T \subseteq Nat, IsFiniteSet(T), T # {}
  PROVE  \E x \in T : \A y \in T : y <= x
<1> DEFINE above(t) == Cardinality(T) - Cardinality(Under(T, t))
           counts == {above(t) : t \in T}
<1>1. Cardinality(T) \in Nat
  BY FS_CardinalityType
<1>2. \A t \in T : Cardinality(Under(T, t)) \in Nat /\ above(t) \in Nat
  BY <1>1, UnderType
<1>3. counts \subseteq Nat /\ counts # {}
  <2>1. \A c \in counts : c \in Nat
    BY <1>2, Zenon
  <2>2. counts # {}
    <3>1. PICK t \in T : TRUE
      OBVIOUS
    <3>2. above(t) \in counts
      BY <3>1
    <3>3. QED
      BY <3>2
  <2>3. QED
    BY <2>1, <2>2, Zenon
<1>4. \E c \in counts : \A d \in counts : c <= d
  <2> HIDE DEF counts
  <2>1. QED
    BY <1>3, LeastExists
<1>5. PICK x \in T : \A y \in T : above(x) <= above(y)
  BY <1>4
<1>6. ASSUME NEW y \in T, x < y PROVE FALSE
  <2>1. Cardinality(Under(T, x)) + 1 <= Cardinality(Under(T, y))
    BY <1>6, UnderGrows
  <2>2. QED
    BY <1>1, <1>2, <1>5, <2>1
<1>7. QED
  BY <1>6

(* The part of S that is reached when n entries are there and L will do.   *)
Prefix(S, n, L) == {f \in S : n + Cardinality(Under(S, f)) < L}

LEMMA Squeeze ==
  ASSUME NEW n \in Nat, NEW L \in Nat, NEW p \in Nat, NEW u \in Nat,
         n + p <= L, u <= p, ~(n + u < L)
  PROVE  n + p = L
OBVIOUS

LEMMA PrefixFacts ==
  ASSUME NEW S, S \subseteq Nat, IsFiniteSet(S), NEW n \in Nat, NEW L \in Nat, n <= L
  PROVE  LET P == Prefix(S, n, L) IN
         /\ IsFiniteSet(P) /\ Cardinality(P) \in Nat
         /\ n + Cardinality(P) <= L
         /\ \A f \in S \ P : n + Cardinality(P) = L /\ \A t \in P : t < f
         /\ n + Cardinality(S) >= L => n + Cardinality(P) = L
<1> DEFINE P == Prefix(S, n, L)
<1>1. P \subseteq S /\ IsFiniteSet(P) /\ Cardinality(P) \in Nat
  <2>1. P \in SUBSET S
    BY DEF Prefix
  <2>2. QED
    BY <2>1, FS_Subset, FS_CardinalityType
<1>2. \A f \in S : Cardinality(Under(S, f)) \in Nat
  BY UnderType
<1>3. n + Cardinality(P) <= L
  <2>1. CASE P = {}
    BY <2>1, FS_EmptySet
  <2>2. CASE P # {}
    <3>1. PICK x \in P : \A y \in P : y <= x
      <4> HIDE DEF P
      <4>1. P \subseteq Nat
        BY <1>1
      <4>2. QED
        BY <1>1, <2>2, <4>1, GreatestExists
    <3>2. P \in SUBSET (Under(S, x) \cup {x}) /\ x \in S
      <4>1. ASSUME NEW y \in P PROVE y \in Under(S, x) \cup {x}
        <5>1. y \in S /\ x \in S /\ y <= x
          BY <1>1, <3>1
        <5>2. QED
          BY <5>1 DEF Under
      <4>2. QED
        BY <1>1, <3>1, <4>1
    <3>3. /\ IsFiniteSet(Under(S, x) \cup {x})
          /\ Cardinality(Under(S, x) \cup {x}) <= Cardinality(Under(S, x)) + 1
      <4>1. x \notin Under(S, x)
        BY <3>2 DEF Under
      <4>2. IsFiniteSet(Under(S, x))
        BY UnderType
      <4>3. Cardinality(Under(S, x) \cup {x}) = Cardinality(Under(S, x)) + 1
        BY <4>1, <4>2, FS_AddElement
      <4>4. IsFiniteSet(Under(S, x) \cup {x})
        BY <4>2, FS_AddElement
      <4>5. QED
        BY <1>2, <3>2, <4>3, <4>4
    <3>4. Cardinality(P) <= Cardinality(Under(S, x) \cup {x})
      BY <3>2, <3>3, FS_Subset
    <3>5. n + Cardinality(Under(S, x)) < L
      BY <3>1 DEF Prefix
    <3>6. Cardinality(Under(S, x) \cup {x}) \in Nat
      BY <3>3, FS_CardinalityType
    <3>7. QED
      BY <1>1, <1>2, <3>2, <3>3, <3>4, <3>5, <3>6
  <2>3. QED
    BY <2>1, <2>2
<1>4. ASSUME NEW f \in S \ P, NEW t \in P PROVE t < f
  <2>1. t \in S /\ n + Cardinality(Under(S, t)) < L
    BY DEF Prefix
  <2>2. ~(n + Cardinality(Under(S, f)) < L)
    BY DEF Prefix
  <2>3. t # f
    BY <1>4
  <2>4. ~(f < t)
    <3>1. SUFFICES ASSUME f < t PROVE FALSE
      OBVIOUS
    <3>2. Cardinality(Under(S, f)) + 1 <= Cardinality(Under(S, t))
      BY <2>1, <3>1, UnderGrows
    <3>3. QED
      BY <1>2, <2>1, <2>2, <3>2
  <2>5. QED
    BY <2>1, <2>3, <2>4
<1>5. ASSUME NEW f \in S \ P PROVE n + Cardinality(P) = L
  <2> DEFINE behind == S \ P
  <2>1. PICK e \in behind : \A y \in behind : e <= y
    <3>1. behind \subseteq Nat /\ behind # {}
      BY <1>5
    <3> HIDE DEF behind
    <3>2. QED
      BY <3>1, LeastExists
  <2>2. Under(S, e) \in SUBSET P
    <3>1. ASSUME NEW h \in Under(S, e), h \notin P PROVE FALSE
      <4>1. h \in S /\ h < e /\ h \in behind /\ e \in S
        BY <3>1 DEF Under
      <4>2. e <= h
        BY <2>1, <4>1
      <4>3. QED
        BY <4>1, <4>2
    <3>2. QED
      BY <3>1
  <2>3. Cardinality(Under(S, e)) <= Cardinality(P)
    BY <1>1, <2>2, FS_Subset
  <2>4. ~(n + Cardinality(Under(S, e)) < L)
    BY <2>1 DEF Prefix
  <2>5. e \in S /\ Cardinality(Under(S, e)) \in Nat
    BY <1>2, <2>1
  <2>6. QED
    BY <1>1, <1>3, <2>3, <2>4, <2>5, Squeeze
<1>6. ASSUME n + Cardinality(S) >= L PROVE n + Cardinality(P) = L
  <2>1. CASE S \ P = {}
    <3> HIDE DEF P
    <3>1. Cardinality(S) = Cardinality(P) /\ Cardinality(P) \in Nat
      <4>1. P = S
        BY <1>1, <2>1
      <4>2. QED
        BY <1>1, <4>1
    <3>2. ~(n + Cardinality(P) < L)
      BY <1>6, <3>1
    <3>3. Cardinality(P) <= Cardinality(P)
      BY <3>1
    <3>4. QED
      BY <1>3, <3>1, <3>2, <3>3, Squeeze
  <2>2. CASE S \ P # {}
    BY <1>5, <2>2
  <2>3. QED
    BY <2>1, <2>2
<1>7. QED
  BY <1>1, <1>3, <1>4, <1>5, <1>6

LEMMA AtMostOneMore ==
  ASSUME NEW S, NEW x, IsFiniteSet(S)
  PROVE  IsFiniteSet(S \cup {x}) /\ Cardinality(S \cup {x}) <= Cardinality(S) + 1
<1>1. Cardinality(S) \in Nat
  BY FS_CardinalityType
<1>2. CASE x \in S
  <2>1. IsFiniteSet(S \cup {x}) /\ Cardinality(S \cup {x}) = Cardinality(S)
    BY <1>2, FS_AddElement
  <2>2. QED
    BY <1>1, <2>1
<1>3. CASE x \notin S
  <2>1. IsFiniteSet(S \cup {x}) /\ Cardinality(S \cup {x}) = Cardinality(S) + 1
    BY <1>3, FS_AddElement
  <2>2. QED
    BY <1>1, <2>1
<1>4. QED
  BY <1>2, <1>3

LEMMA StrictlyAbove == \A m, n \in Nat : m <= n /\ n # m => m < n
OBVIOUS
=============================================================================

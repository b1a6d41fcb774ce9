------------------------------ MODULE Js5Cache ------------------------------
(***************************************************************************)
(* The live cache: Js5Cache and its Js5Index per major, both over the one  *)
(* Js5Socket opened at construction.  Errors are exceptions here: a call   *)
(* that fails changes nothing, except that an index which it opened first  *)
(* stays open.                                                             *)
(*                                                                         *)
(* Environment: the connection may break, for good, because nothing        *)
(* reconnects it, or until failed calls have read its stream to where an   *)
(* answer begins (Js5Socket); and the servers may move on to a newer build *)
(* between two fetches.  An answer of a connection gone astray is not      *)
(* modelled.  Tables is as in RSCache: Tables[b][g] is the set of file ids *)
(* build b declares for group g.  Builds are numbered, newest last.        *)
(***************************************************************************)
EXTENDS Naturals

CONSTANTS
  IndexIds,
  ArchiveIds,
  FileIds,
  LastBuild,   \* builds are 1..LastBuild: the bound on updates
  Tables

Builds == 1..LastBuild
Group == IndexIds \X ArchiveIds

ASSUME TablesAssumption == Tables \in [Builds -> [Group -> SUBSET FileIds]]
ASSUME LastBuildAssumption == LastBuild \in Nat \ {0}

VARIABLES
  liveBuild,  \* the build the servers serve
  link,       \* socket_: "up" or "broken"
  opened,     \* the keys of Js5Cache::indices_
  table,      \* [IndexIds -> Builds \cup {0}]: the reference table decoded
  archives,   \* [Group -> Entry]: Js5Index::archives
  content     \* [Group -> Content \cup {NoContent}]

vars == <<liveBuild, link, opened, table, archives, content>>

Entry == {"absent", "phantom", "declared", "loaded"}

(* framed: unpackNetworkArchive was given the file ids the group was       *)
(* packed for, so that its footer was read as written.                     *)
Content == [build : Builds, framed : BOOLEAN]
NoContent == [build |-> 0, framed |-> FALSE]

(* What the cache holds.  An index is kept only with the table it was      *)
(* constructed from: a failed fetch leaves nothing behind that would       *)
(* answer "no archives" from then on (Js5Cache.cpp:11-17).                 *)
TypeOK ==
  /\ liveBuild \in Builds
  /\ link \in {"up", "broken"}
  /\ opened \in SUBSET IndexIds
  /\ table \in [IndexIds -> Builds \cup {0}]
  /\ archives \in [Group -> Entry]
  /\ content \in [Group -> Content \cup {NoContent}]
  /\ \A i \in IndexIds : i \in opened <=> table[i] # 0
  /\ \A g \in Group : archives[g] = "loaded" <=> content[g] # NoContent
-----------------------------------------------------------------------------
Declares(b, g) == b \in Builds /\ Tables[b][g] # {}

(* An index that is not open yet is constructed from the live table. *)
TableOf(i) == IF i \in opened THEN table[i] ELSE liveBuild

EntryOf(g) ==
  IF g[1] \in opened THEN archives[g]
  ELSE IF Declares(liveBuild, g) THEN "declared" ELSE "absent"

Archives(i) == [h \in Group |-> IF h[1] = i THEN EntryOf(h) ELSE archives[h]]

(* Mutant: the map entry is made before the constructor can throw. *)
OpensBeforeFetch(i) ==
  /\ opened' = opened \cup {i}
  /\ table' = [table EXCEPT ![i] =
       IF i \in opened THEN @ ELSE IF link = "up" THEN liveBuild ELSE 0]
  /\ UNCHANGED <<liveBuild, link>>

(* Mutant: every access takes over the live table's version, not its ids.  *)
OpensRestamping(i) ==
  /\ i \in opened \/ link = "up"
  /\ opened' = opened \cup {i}
  /\ table' = [table EXCEPT ![i] = liveBuild]
  /\ UNCHANGED <<liveBuild, link>>

(* Js5Cache::index: emplace happens after the Js5Index constructor has     *)
(* fetched and decoded (255, i), which takes a working connection.         *)
Opens(i) ==
  /\ i \in opened \/ link = "up"
  /\ opened' = opened \cup {i}
  /\ table' = [table EXCEPT ![i] = TableOf(i)]
  /\ UNCHANGED <<liveBuild, link>>

Init ==
  /\ liveBuild = 1
  /\ link = "up"
  /\ opened = {}
  /\ table = [i \in IndexIds |-> 0]
  /\ archives = [g \in Group |-> "absent"]
  /\ content = [g \in Group |-> NoContent]

(* archiveIds, fileIds, and an archive() whose group fetch then fails. *)
OpenIndex(i) ==
  /\ i \notin opened
  /\ Opens(i)
  /\ archives' = Archives(i)
  /\ UNCHANGED content

(* archive() of an id the table does not have inserts Archive(). *)
ReadUndeclared(i, a) ==
  /\ EntryOf(<<i, a>>) = "absent"
  /\ Opens(i)
  /\ archives' = [Archives(i) EXCEPT ![<<i, a>>] = "phantom"]
  /\ UNCHANGED content

(* Mutant: archive() without the early return for a loaded archive. *)
ReadDeclaredAgain(i, a) ==
  /\ EntryOf(<<i, a>>) \in {"declared", "loaded"}
  /\ link = "up" /\ Declares(liveBuild, <<i, a>>)
  /\ Opens(i)
  /\ archives' = [Archives(i) EXCEPT ![<<i, a>>] = "loaded"]
  /\ content' = [content EXCEPT ![<<i, a>>] =
       [build |-> liveBuild,
        framed |-> Tables[liveBuild][<<i, a>>] = Tables[TableOf(i)][<<i, a>>]]]

(* archive() of a declared id: fetch, decompress, unpack, memoize.  A      *)
(* group that was packed for other files may also fail to unpack, which    *)
(* throws and leaves what OpenIndex leaves.                                *)
ReadDeclared(i, a) ==
  /\ EntryOf(<<i, a>>) = "declared"
  /\ link = "up" /\ Declares(liveBuild, <<i, a>>)
  /\ Opens(i)
  /\ archives' = [Archives(i) EXCEPT ![<<i, a>>] = "loaded"]
  /\ content' = [content EXCEPT ![<<i, a>>] =
       [build |-> liveBuild,
        framed |-> Tables[liveBuild][<<i, a>>] = Tables[TableOf(i)][<<i, a>>]]]

(* Environment. *)
LinkChanges ==
  /\ link' \in {"up", "broken"} \ {link}
  /\ UNCHANGED <<liveBuild, opened, table, archives, content>>

GameUpdate ==
  /\ liveBuild < LastBuild
  /\ liveBuild' = liveBuild + 1
  /\ UNCHANGED <<link, opened, table, archives, content>>

Next ==
  \/ \E i \in IndexIds : OpenIndex(i)
  \/ \E i \in IndexIds, a \in ArchiveIds :
       ReadUndeclared(i, a) \/ ReadDeclared(i, a)
  \/ LinkChanges
  \/ GameUpdate

Spec == Init /\ [][Next]_vars
-----------------------------------------------------------------------------
(* To its callers the live cache is the same CacheSource as the local one; *)
(* it never drops anything.                                                *)
CS == INSTANCE CacheSource
        WITH status <- [g \in Group |-> IF g[1] \in opened
                                        THEN archives[g] ELSE "unopened"],
             holds <- content

ImplementsCacheSource == CS!CsSpec

(* A group cut with the wrong file ids was packed by a build newer than    *)
(* the table its index was opened with: without an update in the middle of *)
(* a session, every archive handed out is cut where it was packed.         *)
MisreadsOnlyAfterUpdate ==
  \A g \in Group :
    archives[g] = "loaded" /\ ~content[g].framed
      => table[g[1]] < content[g].build
=============================================================================

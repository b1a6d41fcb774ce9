------------------------------- MODULE RSCache -------------------------------
(***************************************************************************)
(* The local cache: RSCache, the Index it keeps per open sqlite file, the  *)
(* Archive it keeps per reference-table entry, and the live fallback that  *)
(* an index consults for what its file does not hold.                      *)
(*                                                                         *)
(* Environment, not code: the sqlite files (another process may add rows   *)
(* while this one reads) and the JS5 connection (it may break).  Nothing   *)
(* in src/core reconnects it, so one that is lost stays "broken"; one      *)
(* whose stream lost framing may find it again (Js5Socket).  An answer of  *)
(* a connection gone astray, which is anything at all, is not modelled.    *)
(*                                                                         *)
(* Data is abstracted to the game build a blob was packed for.  Tables is  *)
(* the ground truth: Tables[b][g] is the set of file ids that build b's    *)
(* reference table declares for group g, {} when it does not declare g.    *)
(***************************************************************************)
EXTENDS Naturals

CONSTANTS
  IndexIds,    \* the js5-<N>.jcache files a caller opens
  ArchiveIds,  \* the archive ids a caller asks for
  FileIds,
  Builds,      \* game builds whose data may be around
  LiveBuild,   \* the build the live servers serve
  Tables

Group == IndexIds \X ArchiveIds

ASSUME TablesAssumption == Tables \in [Builds -> [Group -> SUBSET FileIds]]
ASSUME LiveBuildAssumption == LiveBuild \in Builds
ASSUME BuildsAssumption == "none" \notin Builds

VARIABLES
  refFormat,        \* [IndexIds -> Formats]: the cache_index row of a file
  refBuild,         \* [IndexIds -> Builds]: the build of that row, if there
  rowFormat,        \* [Group -> Formats]: the cache row of a group
  rowBuild,         \* [Group -> Builds]
  link,             \* liveSocket_: "none", "up" or "broken"
  fallbackEnabled,  \* fallbackEnabled_
  opened,           \* the keys of RSCache::indices
  resolver,         \* the open indices whose fallback_ is set
  table,            \* [IndexIds -> Builds \cup {"none"}]: table decoded
  archives,         \* [Group -> Entry]: Index::archives
  content           \* [Group -> Content \cup {NoContent}]: Archive::data

disk == <<refFormat, refBuild, rowFormat, rowBuild>>
client == <<fallbackEnabled, opened, resolver, table, archives, content>>
vars == <<disk, link, client>>

(* "corrupt": the decoder reports an error.  "throws": a ZLB container     *)
(* whose deflate stream is damaged; gzip::decompress throws and no caller  *)
(* in src/core catches it.                                                 *)
Formats == {"absent", "corrupt", "throws", "readable"}

(* "absent": no map entry.  "phantom": an entry with id = -1, the default  *)
(* that std::map::operator[] inserts.  "declared": loaded = false.         *)
Entry == {"absent", "phantom", "declared", "loaded"}

(* framed: the file offsets cut the data where its packer put the files.   *)
Content == [src : {"disk", "live"}, build : Builds, framed : BOOLEAN]
NoContent == [src |-> "none", build |-> "none", framed |-> FALSE]

(* What the sqlite files, the connection and the client's cache hold. *)
TypeOK ==
  /\ refFormat \in [IndexIds -> Formats]
  /\ refBuild \in [IndexIds -> Builds]
  /\ rowFormat \in [Group -> Formats]
  /\ rowBuild \in [Group -> Builds]
  /\ link \in {"none", "up", "broken"}
  /\ fallbackEnabled \in BOOLEAN
  /\ opened \in SUBSET IndexIds
  /\ resolver \in SUBSET IndexIds
  /\ table \in [IndexIds -> Builds \cup {"none"}]
  /\ archives \in [Group -> Entry]
  /\ content \in [Group -> Content \cup {NoContent}]
-----------------------------------------------------------------------------
(* The file ids build b's table declares for g; none without a table. *)
DeclaredFiles(b, g) == IF b \in Builds THEN Tables[b][g] ELSE {}

Declares(b, g) == DeclaredFiles(b, g) # {}

(* socket->getFile and the container decode succeed for g. *)
Fetchable(g) == link = "up" /\ Declares(LiveBuild, g)

(* The table the Index constructor ends up with.  A missing row goes to    *)
(* the live servers when a resolver was passed in; every failure, an       *)
(* unreadable row included, leaves the index with no archives at all.      *)
OpenTable(i) ==
  IF refFormat[i] = "readable" THEN refBuild[i]
  ELSE IF refFormat[i] = "absent" /\ fallbackEnabled /\ link = "up"
       THEN LiveBuild ELSE "none"

(* The index as a call finds it once RSCache::index(i) has returned. *)
TableOf(i) == IF i \in opened THEN table[i] ELSE OpenTable(i)

EntryOf(g) ==
  IF g[1] \in opened THEN archives[g]
  ELSE IF Declares(OpenTable(g[1]), g) THEN "declared" ELSE "absent"

HasResolver(i) == IF i \in opened THEN i \in resolver ELSE fallbackEnabled

(* RSCache::index(i): returns the open index or constructs it.  A          *)
(* constructor that throws inserts nothing, so the call has no effect.     *)
Opens(i) ==
  /\ i \in opened \/ refFormat[i] # "throws"
  /\ opened' = opened \cup {i}
  /\ resolver' = IF HasResolver(i) THEN resolver \cup {i} ELSE resolver
  /\ table' = [table EXCEPT ![i] = TableOf(i)]
  /\ UNCHANGED <<disk, link, fallbackEnabled>>

(* What Index::archives is after the call, but for the group it reads. *)
Archives(i) == [h \in Group |-> IF h[1] = i THEN EntryOf(h) ELSE archives[h]]

(* What readFile can cut out of the blob of build b.  Offsets come from    *)
(* the archive's own fileIds, so a blob packed for other files misreads.   *)
Framed(b, g) == Tables[b][g] = DeclaredFiles(TableOf(g[1]), g)
-----------------------------------------------------------------------------
Init ==
  /\ refFormat \in [IndexIds -> Formats]
  /\ refBuild \in [IndexIds -> Builds]
  /\ rowFormat \in [Group -> Formats]
  /\ rowBuild \in [Group -> Builds]
  \* The build of a row that cannot be read plays no part.
  /\ \A i \in IndexIds : refFormat[i] # "readable" => refBuild[i] = LiveBuild
  /\ \A g \in Group : rowFormat[g] # "readable" => rowBuild[g] = LiveBuild
  /\ link = "none"
  /\ fallbackEnabled = FALSE
  /\ opened = {}
  /\ resolver = {}
  /\ table = [i \in IndexIds |-> "none"]
  /\ archives = [g \in Group |-> "absent"]
  /\ content = [g \in Group |-> NoContent]

(* archiveIds(i), fileIds(i, _): opens the index and reads its table. *)
OpenIndex(i) ==
  /\ i \notin opened
  /\ Opens(i)
  /\ archives' = Archives(i)
  /\ UNCHANGED content

(* The archive becomes loaded with a blob of build b. *)
Load(i, a, src, b) ==
  /\ Opens(i)
  /\ archives' = [Archives(i) EXCEPT ![<<i, a>>] = "loaded"]
  /\ content' = [content EXCEPT ![<<i, a>>] =
       [src |-> src, build |-> b, framed |-> Framed(b, <<i, a>>)]]

(* archive(i, a) of an archive the table does not declare: operator[]      *)
(* inserts an Archive with id = -1 and returns it.                         *)
ReadUndeclared(i, a) ==
  /\ EntryOf(<<i, a>>) = "absent"
  /\ Opens(i)
  /\ archives' = [Archives(i) EXCEPT ![<<i, a>>] = "phantom"]
  /\ UNCHANGED content

(* Mutant: archive() without the early return for a loaded archive. *)
ReadFromDiskAgain(i, a) ==
  /\ EntryOf(<<i, a>>) \in {"declared", "loaded"}
  /\ rowFormat[<<i, a>>] = "readable"
  /\ Load(i, a, "disk", rowBuild[<<i, a>>])

(* archive(i, a) when decodeArchiveBlob accepts the local row. *)
ReadFromDisk(i, a) ==
  /\ EntryOf(<<i, a>>) = "declared"
  /\ rowFormat[<<i, a>>] = "readable"
  /\ Load(i, a, "disk", rowBuild[<<i, a>>])

(* archive(i, a) when there is no local row and the resolver delivers. *)
ReadFromLive(i, a) ==
  /\ EntryOf(<<i, a>>) = "declared"
  /\ rowFormat[<<i, a>>] = "absent"
  /\ HasResolver(i)
  /\ Fetchable(<<i, a>>)
  /\ Load(i, a, "live", LiveBuild)

(* The blob archive(i, a) would decode is one its file ids fit, so that    *)
(* the decode cannot fail.                                                 *)
MustLoad(i, a) ==
  LET g == <<i, a>> IN
  \/ rowFormat[g] = "readable" /\ Framed(rowBuild[g], g)
  \/ /\ rowFormat[g] = "absent" /\ HasResolver(i)
     /\ Fetchable(g) /\ Framed(LiveBuild, g)

(* archive(i, a) when no usable blob is found, or the decoder rejects or   *)
(* throws on it: loaded stays false and only the open remains.             *)
ReadFails(i, a) ==
  /\ EntryOf(<<i, a>>) = "declared"
  /\ ~MustLoad(i, a)
  /\ Opens(i)
  /\ archives' = Archives(i)
  /\ UNCHANGED content

Read(i, a) ==
  ReadUndeclared(i, a) \/ ReadFromDisk(i, a) \/ ReadFromLive(i, a)
    \/ ReadFails(i, a)

(* Mutant: an evict that resets the data but not the rest of the entry. *)
EvictDataOnly(i, a) ==
  /\ i \in opened
  /\ archives' = [archives EXCEPT ![<<i, a>>] = "absent"]
  /\ content' = [content EXCEPT ![<<i, a>>].build = "none"]
  /\ UNCHANGED <<disk, link, fallbackEnabled, opened, resolver, table>>

(* evictArchive(i, a): the whole entry goes, fileIds and crc included.     *)
Evict(i, a) ==
  /\ i \in opened
  /\ archives' = [archives EXCEPT ![<<i, a>>] = "absent"]
  /\ content' = [content EXCEPT ![<<i, a>>] = NoContent]
  /\ UNCHANGED <<disk, link, fallbackEnabled, opened, resolver, table>>

(* Mutant: only indices opened later get the resolver. *)
EnableForFutureIndices ==
  /\ ~fallbackEnabled
  /\ link' = "up"
  /\ fallbackEnabled' = TRUE
  /\ UNCHANGED <<disk, opened, resolver, table, archives, content>>

(* enableLiveFallback when config fetch and handshake succeed.  When one   *)
(* throws, fallbackEnabled_ stays false and no resolver is handed out.     *)
EnableLiveFallback ==
  /\ ~fallbackEnabled
  /\ link' = "up"
  /\ fallbackEnabled' = TRUE
  /\ resolver' = resolver \cup opened
  /\ UNCHANGED <<disk, opened, table, archives, content>>

(* Environment: the connection is lost, or its stream loses framing; and   *)
(* failed calls may read such a stream to where an answer begins again.    *)
LinkChanges ==
  /\ link # "none"
  /\ link' \in {"up", "broken"} \ {link}
  /\ UNCHANGED <<disk, client>>

(* Environment: a mirror run or the game client stores a missing row. *)
RowStored(g) ==
  /\ rowFormat[g] = "absent" /\ Declares(LiveBuild, g)
  /\ rowFormat' = [rowFormat EXCEPT ![g] = "readable"]
  /\ rowBuild' = [rowBuild EXCEPT ![g] = LiveBuild]
  /\ UNCHANGED <<refFormat, refBuild, link, client>>

RefStored(i) ==
  /\ refFormat[i] = "absent"
  /\ refFormat' = [refFormat EXCEPT ![i] = "readable"]
  /\ refBuild' = [refBuild EXCEPT ![i] = LiveBuild]
  /\ UNCHANGED <<rowFormat, rowBuild, link, client>>

Next ==
  \/ \E i \in IndexIds : OpenIndex(i) \/ RefStored(i)
  \/ \E i \in IndexIds, a \in ArchiveIds : Read(i, a) \/ Evict(i, a)
  \/ \E g \in Group : RowStored(g)
  \/ EnableLiveFallback
  \/ LinkChanges

Spec == Init /\ [][Next]_vars

(* The client keeps asking for an archive it has not got.  Nothing in the  *)
(* cache retries by itself, so recovery is relative to such a client.      *)
FairSpec ==
  /\ Spec
  /\ \A i \in IndexIds, a \in ArchiveIds :
       WF_vars(ReadFromDisk(i, a)) /\ WF_vars(ReadFromLive(i, a))
-----------------------------------------------------------------------------
(* Enabling the fallback reaches every index, whether it was opened before *)
(* or after (RSCache.cpp:45-49 and :60-62), and while it is enabled there  *)
(* is a socket for the resolvers' raw pointer to point at.                 *)
ResolverEverywhere ==
  /\ \A i \in opened : i \in resolver <=> fallbackEnabled
  /\ resolver \subseteq opened
  /\ fallbackEnabled => link # "none"

(* An archive is known or loaded only in an index that is open and whose   *)
(* decoded table declares it, whatever rows the file holds and however     *)
(* reads, evictions and place-holders interleaved (Index.cpp:56-102).      *)
LoadedIsDeclared ==
  \A g \in Group :
    /\ archives[g] \in {"declared", "loaded"} =>
         g[1] \in opened /\ Declares(table[g[1]], g)
    /\ archives[g] = "loaded" <=> content[g] # NoContent

(* To its callers the local cache is a CacheSource: an archive once handed *)
(* out keeps its content until it is dropped, a place-holder never fills,  *)
(* and one call touches one archive.                                       *)
StatusOf(g) == IF g[1] \in opened THEN archives[g] ELSE "unopened"

CS == INSTANCE CacheSource
        WITH status <- [g \in Group |-> StatusOf(g)], holds <- content

ImplementsCacheSource == CS!CsSpec

(* Some source holds g, packed for the table that is in use. *)
CanServe(g) ==
  \/ rowFormat[g] = "readable" /\ Framed(rowBuild[g], g)
  \/ /\ rowFormat[g] = "absent" /\ fallbackEnabled
     /\ Fetchable(g) /\ Framed(LiveBuild, g)

(* A failed read leaves the archive retryable: once the row has been       *)
(* stored, or the fallback enabled, a client that keeps asking gets it,    *)
(* also from an index that was open before (Index.cpp:93-99).              *)
RetryRecovers ==
  \A g \in Group :
    (archives[g] = "declared" /\ CanServe(g))
      ~> (archives[g] # "declared" \/ ~CanServe(g))
-----------------------------------------------------------------------------
(* CacheSource::fileIds of an open index. *)
FileIdsOf(g) ==
  IF archives[g] \in {"declared", "loaded"}
  THEN DeclaredFiles(table[g[1]], g) ELSE {}

(* RSCache.h:39-40, "Subsequent reads transparently fetch from network     *)
(* when the local sqlite has no blob".  Refuted: the group is cut with the *)
(* file ids of the local reference table, whatever its version.            *)
LiveGroupsFitTable ==
  \A g \in Group :
    archives[g] = "loaded" /\ content[g].src = "live" => content[g].framed
=============================================================================

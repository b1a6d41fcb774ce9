----------------------------- MODULE CacheCalls ------------------------------
(***************************************************************************)
(* What the callers of a local cache see of it, one call of CacheSource at  *)
(* a time: the C ABI (CApi) and the dumper (Dumper) are built from these.   *)
(* What is in a file is "good", "empty", or "bad": its decoder throws.      *)
(***************************************************************************)
EXTENDS RSCache

CONSTANT
  Decodes    \* Decodes[c][g][f]: what is in file f of group g with content c

ASSUME DecodesAssumption ==
  Decodes \in [Content -> [Group -> [FileIds -> {"good", "empty", "bad"}]]]

cache == <<disk, link, client>>
-----------------------------------------------------------------------------
(* What readFile and the decoder make of a file: of an archive that is not *)
(* loaded every file is empty.                                             *)
Seen(g, f) ==
  IF archives[g] = "loaded" /\ f \in FileIdsOf(g)
  THEN Decodes[content[g]][g][f] ELSE "empty"

Good(g) == {f \in FileIds : Seen(g, f) = "good"}
Bad(g) == {f \in FileIds : Seen(g, f) = "bad"}

(* CacheSource::archive returns: what is there already, or what a read     *)
(* makes of it.  It throws when the open or the inflating of a row does.   *)
OpenThrows(i) == i \notin opened /\ refFormat[i] = "throws"
RowThrows(g) == EntryOf(g) = "declared" /\ rowFormat[g] = "throws"

Obtains(g) ==
  /\ ~OpenThrows(g[1]) /\ ~RowThrows(g)
  /\ IF EntryOf(g) \in {"loaded", "phantom"} THEN UNCHANGED cache
     ELSE Read(g[1], g[2])

Raises(g) ==
  \/ OpenThrows(g[1]) /\ UNCHANGED cache
  \/ ~OpenThrows(g[1]) /\ RowThrows(g) /\ ReadFails(g[1], g[2])

(* CacheSource::archiveIds or fileIds return. *)
Lists(i) == IF i \in opened THEN UNCHANGED cache ELSE OpenIndex(i)

Listed(i) == {a \in ArchiveIds : Declares(table[i], <<i, a>>)}

(* A new RSCache, with or without the live fallback. *)
NewCache(fallback) ==
  /\ link' = IF fallback THEN "up" ELSE "none"
  /\ fallbackEnabled' = fallback
  /\ opened' = {} /\ resolver' = {}
  /\ table' = [i \in IndexIds |-> "none"]
  /\ archives' = [g \in Group |-> "absent"]
  /\ content' = [g \in Group |-> NoContent]
  /\ UNCHANGED disk

(* Whoever makes these calls uses a CacheSource: a step is a call of it,   *)
(* or none, unless it begins with a new one (CacheSource.h:7-34).          *)
UsesCacheSource(renewal) ==
  \/ [CS!CsNext]_(CS!csVars)
  \/ renewal /\ CS!CsInit'
=============================================================================

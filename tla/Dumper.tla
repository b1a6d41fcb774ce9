------------------------------- MODULE Dumper --------------------------------
(***************************************************************************)
(* nxtcache-dumper (src/dumper/main.cpp) over a local cache, run again and  *)
(* again over the same output file and output directories.  A sweep takes   *)
(* a step per archive, with the environment of RSCache in between, and may   *)
(* be killed at any of them.                                                *)
(*                                                                         *)
(* An entry is the archive and the file it was decoded from; its JSON, and  *)
(* the pixels of an icon, are left out.  So are the parsing of the command   *)
(* line, whose outcome is one of Jobs, what is said on stderr, and live      *)
(* sources (--source live).  DbRowProvider loads its own group whatever       *)
(* --index and --archive say (DbRowProvider.h:14-15): dbrow is not given them. *)
(***************************************************************************)
EXTENDS CacheCalls, Integers, FiniteSets

CONSTANTS
  Jobs,       \* the command lines: [type, id, limit, out, dir, fallback]
  Mapping,    \* nxt::typeDefaults, with the overrides of --index, --archive, --shift
  MapsIndex,  \* kMapsIndex
  WmeIndex,   \* kWmeIndex
  ModelOf     \* [Nat -> Int], where items are asked for: ItemType::modelID

None == -1
Sharded == -1

Modes == {"itemicon", "locspawn", "wmespawn"}
Json == DOMAIN Mapping

ASSUME DumperAssumption ==
  /\ ArchiveIds \subseteq Nat /\ IsFiniteSet(ArchiveIds)
  /\ FileIds \subseteq Nat /\ IsFiniteSet(FileIds)
  /\ \A m \in Json : Mapping[m].index \in IndexIds /\ Mapping[m].shift \in Nat
                     /\ Mapping[m].archive \in ArchiveIds \cup {Sharded}
  /\ {MapsIndex, WmeIndex} \subseteq IndexIds
  /\ Jobs \subseteq [type : Json \cup Modes, id : Nat \cup {None}, limit : Nat \cup {None},
                     out : BOOLEAN, dir : BOOLEAN, fallback : BOOLEAN]

VARIABLES
  pc,      \* "off": no process runs; else what it does next
  job,     \* the command line of the process, or of the last one
  todo,    \* archives it has still to sweep
  cur,     \* the archive it swept and has to evict
  rows,    \* DbRowProvider::dbRows_
  out,     \* entries decoded
  exit,    \* exit code of the last process, None while one runs
  file,    \* what --out names: [state, entries]
  dir,     \* the files of --out-dir, an archive each
  arrived, \* history: groups whose row came during the process
  lost,    \* history: a write of it failed, or it was killed with an output open
  was      \* history: [file, dir] as the process found them

process == <<pc, job, todo, cur, rows, out, exit>>
outputs == <<file, dir>>
history == <<arrived, lost, was>>
all == <<cache, process, outputs, history>>

(* An open file has been truncated; how much of its entries is on the disk   *)
(* is not told.  Nobody looks whether what was written got there, but for    *)
(* icons, and there before the last of it is flushed.                         *)
NoFile == [state |-> "none", entries |-> {}]
Entries == ArchiveIds \X FileIds
File == [state : {"none", "open", "whole"}, entries : SUBSET Entries]
Dir == [{"if", "gameval"} \X ArchiveIds -> File]
Killed == 137
Aborted == 134

(* What a process holds; it keeps an archive at hand only to write its file  *)
(* and to evict it.                                                          *)
DumpTypeOK ==
  /\ TypeOK
  /\ pc \in {"off", "begin", "sweep", "write", "evict", "rows", "model", "print"}
  /\ job \in Jobs /\ cur \in ArchiveIds \cup {None}
  /\ cur # None <=> pc \in {"write", "evict"}
  /\ todo \in SUBSET ArchiveIds /\ rows \in SUBSET FileIds
  /\ out \in SUBSET Entries
  /\ exit \in {None, 0, 1, 2, Killed, Aborted}
  /\ file \in File /\ dir \in Dir
  /\ arrived \in SUBSET Group /\ lost \in BOOLEAN /\ was \in [file : File, dir : Dir]
-----------------------------------------------------------------------------
(* What a command line asks for.                                           *)

(* The sweeps that evict what they have read: a JSON file per interface,    *)
(* sprites and models into one file, and the two scans.                     *)
IntoDir == job.dir /\ job.type \in {"if", "gameval"}
IntoFile == job.type \in {"sprite", "model"} /\ job.out /\ job.id = None
Scans == job.type \in {"locspawn", "wmespawn"}
Evicts == Scans \/ IntoFile \/ (IntoDir /\ job.type = "if")

(* Entries that are archives of their own. *)
Whole == job.type \in {"if", "gameval"}

Index ==
  CASE job.type = "locspawn" -> MapsIndex
    [] job.type = "wmespawn" -> WmeIndex
    [] job.type = "itemicon" -> Mapping["item"].index
    [] OTHER -> Mapping[job.type].index

(* Where an entry of a type is, as dumpRange and loadOne take an id apart. *)
ArchiveOf(t, id) ==
  IF Mapping[t].archive = Sharded THEN id \div 2 ^ Mapping[t].shift ELSE Mapping[t].archive
FileOf(t, id) ==
  IF Mapping[t].archive = Sharded THEN id % 2 ^ Mapping[t].shift ELSE id
GroupOf(t, id) == <<Mapping[t].index, ArchiveOf(t, id)>>

(* The archives that a command line leads to are among those of the cache.  *)
ASSUME JobsAssumption ==
  /\ Jobs # {}
  /\ \A j \in Jobs :
       /\ j.type = "dbrow" => Mapping["dbrow"].archive # Sharded
       /\ j.type = "itemicon" => {"item", "model"} \subseteq Json
       /\ j.id # None =>
            /\ j.type \in {"if", "gameval"} => j.id \in ArchiveIds
            /\ j.type \in Json \ {"if", "gameval", "dbrow"} =>
                 ArchiveOf(j.type, j.id) \in ArchiveIds
            /\ j.type = "itemicon" =>
                 /\ GroupOf("item", j.id) \in Group
                 /\ ModelOf[j.id] > 0 => GroupOf("model", ModelOf[j.id]) \in Group

(* The files of an archive that are looked at. *)
Parts ==
  CASE job.type \in {"gameval", "locspawn"} -> {0}
    [] ~Whole /\ ~Scans /\ job.id # None -> {FileOf(job.type, job.id)}
    [] OTHER -> FileIds

(* Scans take placements from any file there is, decoders may throw.       *)
Finds(g) == Parts \cap IF Scans THEN {f \in FileIds : Seen(g, f) # "empty"} ELSE Good(g)
Chokes(g) == Parts \cap IF Scans THEN {} ELSE Bad(g)

(* Gamevals, the scans and whatever is dumped by id ignore the limit.      *)
Limited == job.limit # None /\ job.type # "gameval" /\ ~Scans /\ (job.type = "dbrow" \/ job.id = None)

(* Interfaces count as one, with all their components. *)
Count(entries) == IF Whole THEN Cardinality({e[1] : e \in entries}) ELSE Cardinality(entries)
More(n) == Limited => n < job.limit

(* The files of S that come before the limit, S being files of one archive. *)
Reached(S, f) == More(Count(out) + Cardinality({h \in S : h < f}))
\* Mutant: the limit is looked at between archives only.
WholeArchives(S) == S
UpToLimit(S) == {f \in S : Reached(S, f)}

Of(a, files) == {<<a, f>> : f \in files}
-----------------------------------------------------------------------------
(* The process ends. *)
Exits(code) ==
  /\ pc' = "off" /\ exit' = code
  /\ todo' = {} /\ cur' = None
  /\ UNCHANGED <<job, rows>>

GoesOn(where) == pc' = where /\ UNCHANGED <<job, cur, rows, exit>>

(* A command line is accepted and the source opened, or it cannot be.      *)
Start(j) ==
  /\ pc = "off"
  /\ job' = j /\ rows' = {} /\ out' = {} /\ todo' = {} /\ cur' = None
  /\ arrived' = {} /\ lost' = FALSE /\ was' = [file |-> file, dir |-> dir]
  /\ \/ NewCache(j.fallback) /\ pc' = "begin" /\ exit' = None
     \/ j.fallback /\ NewCache(FALSE) /\ pc' = "off" /\ exit' = 1
  /\ UNCHANGED outputs

(* An icon of nothing, a scan for nothing, a bulk sweep of one interface.  *)
Refused ==
  \/ job.type \in {"itemicon", "locspawn"} /\ job.id = None
  \/ job.type = "if" /\ IntoDir /\ (job.id # None \/ job.limit # None)

Refuse ==
  /\ pc = "begin" /\ Refused
  /\ Exits(2) /\ UNCHANGED <<cache, out, outputs, history>>

(* Archives that are swept without asking the index for a list: the one     *)
(* an id is in, or the only one of the type.  The streams and the sweep of    *)
(* interfaces list whatever the mapping says; a gameval archive that is given  *)
(* with --archive goes before one that is given with --id.                     *)
Named ==
  LET archive == Mapping[job.type].archive IN
  CASE \/ job.type \in Modes \cup {"dbrow"} \/ IntoFile
       \/ job.type = "if" /\ job.id = None -> {}
    [] job.type = "if" /\ job.id # None -> {job.id}
    [] job.type = "gameval" -> {IF archive # Sharded THEN archive ELSE job.id} \ {None}
    [] OTHER ->
         {IF job.id # None THEN ArchiveOf(job.type, job.id) ELSE archive} \ {Sharded}

BeginNamed ==
  /\ pc = "begin" /\ ~Refused /\ Named # {}
  /\ todo' = Named /\ GoesOn("sweep")
  /\ UNCHANGED <<cache, out, outputs, history>>

Opened(entries) == [state |-> "open", entries |-> entries]

\* Mutant: --out is opened before anything is decoded, whatever the type.
OpensAnyFile == file' = IF job.out THEN Opened({}) ELSE file

(* The file of a streamed sweep is truncated before anything is read.      *)
OpensFile == file' = IF IntoFile THEN Opened({}) ELSE file

(* The other sweeps start from archiveIds, in order of ids.  Of gamevals    *)
(* the list is made where no exception is caught.                           *)
BeginSweep ==
  /\ pc = "begin" /\ ~Refused /\ Named = {} /\ job.type \notin {"dbrow", "itemicon"}
  /\ OpensFile
  /\ \/ /\ OpenThrows(Index) /\ UNCHANGED cache
        /\ Exits(IF job.type = "gameval" THEN Aborted ELSE 1)
     \/ /\ ~OpenThrows(Index) /\ Lists(Index)
        /\ GoesOn("sweep") /\ todo' = Listed(Index)'
  /\ UNCHANGED <<out, dir, history>>

(* The limit ends a sweep; an archive that was named is read before it is   *)
(* looked at.                                                               *)
Full == Named = {} /\ ~More(Count(out))

(* --out cannot be opened, or --out-dir not be made: of gamevals after the   *)
(* list of groups.                                                           *)
OutputFails ==
  /\ \/ /\ pc = "begin" /\ ~Refused /\ (IntoFile \/ IntoDir)
        /\ job.type = "gameval" /\ Named = {} => ~OpenThrows(Index)
     \/ pc = "sweep" /\ job.out /\ ~IntoFile /\ ~IntoDir /\ (todo = {} \/ Full)
     \/ pc = "model"
  /\ Exits(1)
  /\ UNCHANGED <<cache, out, outputs, history>>
-----------------------------------------------------------------------------
(* The next archive, in ascending order.                                   *)

Sweeping(g) ==
  /\ pc = "sweep" /\ ~Full /\ g[1] = Index /\ job' = job
  /\ g[2] \in todo /\ \A b \in todo : g[2] <= b

(* With an archive at hand there is more to do before the next one.         *)
Leaves(g, next) ==
  /\ pc' = next /\ cur' = IF next = "sweep" THEN None ELSE g[2]
  /\ todo' = todo \ {g[2]}
  /\ UNCHANGED <<rows, exit>>

\* Mutant: an archive of which nothing was found is not evicted.
SweptUnlessEmpty(g) == Leaves(g, IF Evicts /\ Finds(g)' # {} THEN "evict" ELSE "sweep")

Swept(g) == Leaves(g, IF Evicts THEN "evict" ELSE "sweep")

(* What was decoded of the archive at hand gets into the streamed file.     *)
Streams(entries) ==
  file' = IF IntoFile THEN Opened(file.entries \cup entries) ELSE file

(* dumpRange, streamShardedToFile and the two scans: an entry is a file, and *)
(* those in front of one that does not decode are streamed before it throws. *)
SweepFiles(g) ==
  /\ ~Whole /\ Sweeping(g)
  /\ \/ Raises(g) /\ Exits(1) /\ UNCHANGED <<out, file>>
     \/ /\ Obtains(g)
        /\ LET before == {f \in Finds(g)' : \A h \in Chokes(g)' : f < h}
               taken  == Of(g[2], UpToLimit(before))
           IN  /\ out' = out \cup taken
               /\ Streams(taken)
               /\ IF \E f \in Chokes(g)' : Reached(before, f) /\ \A h \in Chokes(g)' : f <= h
                  THEN Exits(1) ELSE Swept(g)
  /\ UNCHANGED <<dir, history>>

(* The file of an interface is opened before its components are decoded, and  *)
(* written while they are; that of a gameval group when it has been decoded,    *)
(* if there is one.                                                             *)
HasOwnFile(g) == IntoDir /\ (job.type = "if" \/ (Finds(g)' # {} /\ Chokes(g)' = {}))

(* An entry is an archive, with all of its files.                          *)
SweepArchive(g) ==
  /\ Whole /\ Sweeping(g)
  /\ UNCHANGED <<file, history>>
  /\ \/ Raises(g) /\ Exits(1) /\ UNCHANGED <<out, dir>>
     \/ Obtains(g) /\ HasOwnFile(g) /\ Exits(1) /\ UNCHANGED <<out, dir>>
     \/ /\ Obtains(g)
        /\ LET decoded == Of(g[2], {f \in Finds(g)' : \A h \in Chokes(g)' : f < h}) IN
           dir' = IF HasOwnFile(g) THEN [dir EXCEPT ![<<job.type, g[2]>>] = Opened(decoded)]
                  ELSE dir
        /\ IF Chokes(g)' # {} THEN Exits(1) /\ UNCHANGED out
           ELSE /\ out' = out \cup Of(g[2], Finds(g)')
                /\ IF HasOwnFile(g) THEN Leaves(g, "write") ELSE Swept(g)

(* The file gets its end, and is closed; or it does not.                    *)
WritesFile ==
  /\ pc = "write"
  /\ \/ dir' = [dir EXCEPT ![<<job.type, cur>>].state = "whole"] /\ UNCHANGED lost
     \/ lost' = TRUE /\ UNCHANGED dir
  /\ pc' = IF Evicts THEN "evict" ELSE "sweep"
  /\ cur' = IF Evicts THEN cur ELSE None
  /\ UNCHANGED <<cache, job, todo, rows, out, exit, file, arrived, was>>

FoundIn(a) == {e \in out : e[1] = a}

\* Mutant: the cursor is not reset.
EvictOnly ==
  /\ pc = "evict" /\ Evict(Index, cur)
  /\ pc' = "sweep"
  /\ UNCHANGED <<job, todo, cur, rows, out, exit, outputs, history>>

\* Mutant: the file of an interface without components stays.
EvictKeepsFile ==
  /\ pc = "evict" /\ Evict(Index, cur)
  /\ pc' = "sweep" /\ cur' = None
  /\ UNCHANGED <<job, todo, rows, out, exit, outputs, history>>

(* The file of an interface that turned out to have no components is removed *)
(* again, which may fail.                                                    *)
EvictSwept ==
  /\ pc = "evict" /\ Evict(Index, cur)
  /\ LET empty == IntoDir /\ FoundIn(cur) = {} IN
     \/ /\ pc' = "sweep" /\ cur' = None
        /\ dir' = IF empty THEN [dir EXCEPT ![<<job.type, cur>>] = NoFile] ELSE dir
        /\ UNCHANGED <<job, todo, rows, exit>>
     \/ empty /\ Exits(1) /\ UNCHANGED dir
  /\ UNCHANGED <<out, file, history>>

(* Everything has been decoded: the file it goes to is truncated, if it has  *)
(* not been streamed to.                                                     *)
OpensOutput == file' = IF job.out /\ ~IntoFile THEN Opened(out') ELSE file

SweepDone ==
  /\ pc = "sweep" /\ (todo = {} \/ Full)
  /\ UNCHANGED <<cache, out, dir, history>>
  /\ IF IntoDir THEN Exits(0) /\ UNCHANGED file
     ELSE GoesOn("print") /\ todo' = {} /\ OpensOutput

(* The document, or the end of what was streamed, is written or is not.      *)
Prints ==
  /\ pc = "print"
  /\ \/ /\ file' = IF job.out THEN [file EXCEPT !.state = "whole"] ELSE file
        /\ Exits(0) /\ UNCHANGED lost
     \/ /\ job.out /\ lost' = TRUE /\ UNCHANGED file
        /\ Exits(0) \/ (job.type = "itemicon" /\ Exits(1))
  /\ UNCHANGED <<cache, out, dir, arrived, was>>
-----------------------------------------------------------------------------
(* dumpDbRows: the provider reads all rows, then the archive is asked for    *)
(* again for the ids.                                                        *)
Rows == <<Mapping["dbrow"].index, Mapping["dbrow"].archive>>

LoadRows ==
  /\ pc = "begin" /\ job.type = "dbrow"
  /\ \/ Raises(Rows) /\ Exits(1)
     \/ /\ Obtains(Rows)
        /\ IF Bad(Rows)' # {} THEN Exits(1)
           ELSE /\ rows' = Good(Rows)' /\ pc' = "rows"
                /\ UNCHANGED <<job, todo, cur, exit>>
  /\ UNCHANGED <<out, outputs, history>>

DumpRows ==
  /\ pc = "rows"
  /\ UNCHANGED history
  /\ \/ Raises(Rows) /\ Exits(1) /\ UNCHANGED <<out, outputs>>
     \/ /\ Obtains(Rows)
        /\ out' = Of(Rows[2], UpToLimit(rows \cap FileIdsOf(Rows)' \cap Parts))
        /\ todo' = {} /\ GoesOn("sweep") /\ UNCHANGED outputs

(* itemicon: the item, its model, and the picture. *)
IconItem ==
  LET g == GroupOf("item", job.id) IN
  /\ pc = "begin" /\ ~Refused /\ job.type = "itemicon"
  /\ UNCHANGED <<job, out, outputs, history>>
  /\ \/ Raises(g) /\ Exits(1)
     \/ /\ Obtains(g)
        /\ IF Seen(g, FileOf("item", job.id))' = "good" /\ ModelOf[job.id] > 0
           THEN GoesOn("model") /\ UNCHANGED todo ELSE Exits(1)

IconModel ==
  LET g == GroupOf("model", ModelOf[job.id])
      f == FileOf("model", ModelOf[job.id])
  IN
  /\ pc = "model"
  /\ UNCHANGED <<job, dir, history>>
  /\ \/ Raises(g) /\ Exits(1) /\ UNCHANGED <<out, file>>
     \/ /\ Obtains(g)
        /\ IF Seen(g, f)' = "good"
           THEN /\ out' = {<<g[2], f>>} /\ OpensOutput
                /\ GoesOn("print") /\ todo' = {}
           ELSE Exits(1) /\ UNCHANGED <<out, file>>
-----------------------------------------------------------------------------
Kill ==
  /\ pc # "off" /\ Exits(Killed)
  /\ lost' = (lost \/ pc \in {"write", "print"})
  /\ UNCHANGED <<cache, out, outputs, arrived, was>>

Environment ==
  /\ \/ LinkChanges /\ UNCHANGED arrived
     \/ \E i \in IndexIds : RefStored(i) /\ UNCHANGED arrived
     \/ \E g \in Group : RowStored(g) /\ arrived' = arrived \cup {g}
  /\ UNCHANGED <<process, outputs, lost, was>>

DumpInit ==
  /\ Init
  /\ pc = "off" /\ job = (CHOOSE j \in Jobs : TRUE) /\ todo = {} /\ cur = None /\ rows = {} /\ out = {}
  /\ exit = None /\ arrived = {} /\ lost = FALSE
  /\ file = NoFile /\ dir = [f \in {"if", "gameval"} \X ArchiveIds |-> NoFile]
  /\ was = [file |-> file, dir |-> dir]

DumpNext ==
  \/ \E j \in Jobs : Start(j)
  \/ Refuse \/ BeginNamed \/ BeginSweep \/ OutputFails
  \/ \E g \in Group : SweepFiles(g) \/ SweepArchive(g)
  \/ WritesFile \/ EvictSwept \/ SweepDone \/ Prints
  \/ LoadRows \/ DumpRows \/ IconItem \/ IconModel
  \/ Kill \/ Environment

DumpSpec == DumpInit /\ [][DumpNext]_all
-----------------------------------------------------------------------------
(* What a dump could have found: the entries of archives that a table lists,  *)
(* whose row has been there since the process started, readable and packed    *)
(* for the files the table has.                                               *)
Scope == IF Named # {} THEN Named ELSE IF job.type = "dbrow" THEN {Rows[2]} ELSE ArchiveIds

Good0(g, f, c) == Decodes[c][g][f] = "good" \/ (Scans /\ Decodes[c][g][f] # "empty")

Possible ==
  {e \in Scope \X Parts :
     LET g == <<Index, e[1]>> IN
     e[2] \in DeclaredFiles(table[Index], g) /\ \E c \in Content : Good0(g, e[2], c)}

Available ==
  {e \in Possible :
     LET g == <<Index, e[1]>> IN
     /\ rowFormat[g] = "readable" /\ g \notin arrived /\ Framed(rowBuild[g], g)
     /\ Good0(g, e[2], [src |-> "disk", build |-> rowBuild[g], framed |-> TRUE])}

Before(d, e) == d[1] < e[1] \/ (d[1] = e[1] /\ d[2] < e[2])

(* A dump that exits with 0 is complete: it has what the cache had to offer    *)
(* all along, each entry of it, save those behind the limit, though the sweeps *)
(* that stream evict every archive they read; and unless a write failed, which   *)
(* the exit code does not tell, --out has it all, and the end of the document     *)
(* (main.cpp:104-220, :222-245, :650-1129).                                      *)
DumpIsWhole ==
  pc = "off" /\ exit = 0 /\ job.type # "itemicon" =>
    /\ out \subseteq Possible
    /\ Limited => Count(out) <= job.limit
    /\ \A e \in Available \ out :
         Limited /\ Count(out) = job.limit /\ \A d \in out : Before(d, e)
    /\ job.out /\ ~IntoDir /\ ~lost => file = [state |-> "whole", entries |-> out]

(* After a sweep into a directory that exits with 0, and after whatever runs     *)
(* were killed or failed in the same directory before: what was found has its     *)
(* file, whole unless a write failed; an interface that is listed and has no        *)
(* components has none, whatever an earlier run left there (main.cpp:944-989); and   *)
(* every other file is as the process found it, those of interfaces that the index    *)
(* lists no longer among them.                                                       *)
OutDirIsCurrent ==
  pc = "off" /\ exit = 0 /\ IntoDir =>
    \A own \in DOMAIN dir :
      LET found  == IF own[1] = job.type THEN FoundIn(own[2]) ELSE {}
          listed == own[1] = job.type /\ own[2] \in Listed(Index)
      IN
      IF found # {}
      THEN dir[own].entries = found /\ (dir[own].state = "whole" \/ (lost /\ dir[own].state = "open"))
      ELSE dir[own] = IF job.type = "if" /\ listed THEN NoFile ELSE was.dir[own]

(* A run that fails or is killed leaves the document of an earlier one as it was, *)
(* unless it streams into it: the file is opened when everything has been decoded   *)
(* (main.cpp:1116-1127, :583-632).  From there on the earlier document is gone: a    *)
(* kill or a failed write before the last of the new one is out costs both.           *)
FailedRunKeepsFile ==
  pc = "off" /\ exit \notin {None, 0} /\ ~IntoFile /\ ~lost => file = was.file

(* A sweep that evicts never holds more of its index than the archive at hand,    *)
(* "so peak memory stays bounded" (main.cpp:170-175, :925-927).                   *)
MemoryBounded ==
  Evicts /\ pc # "off" =>
    \A g \in Group : g[1] = Index /\ archives[g] = "loaded" => g[2] = cur
=============================================================================

---------------------------- MODULE DumperProofs -----------------------------
(***************************************************************************)
(* Proofs about Dumper for every cache, every set of command lines and     *)
(* every order of runs over the same outputs.                              *)
(*                                                                         *)
(* The inductive invariant says what the process knows at each pc: nothing *)
(* before the sweep begins, then which archives are as their index left    *)
(* them (the ones still to sweep: no sweep comes back to an archive it has *)
(* evicted), and that what is swept is in out, in the file or the          *)
(* directory, or behind the limit; and that --out is untouched until all   *)
(* is decoded.  DumpIsWhole, OutDirIsCurrent and FailedRunKeepsFile are    *)
(* what it says when the process has ended.                                *)
(***************************************************************************)
EXTENDS Dumper, RSCacheProofs
USE TablesAssumption, LiveBuildAssumption, BuildsAssumption DEF Group

(* An archive as opening its index leaves it. *)
Untouched(g) ==
  archives[g] = IF g[1] \in opened /\ Declares(table[g[1]], g) THEN "declared" ELSE "absent"

Sweeps == pc \in {"sweep", "write", "evict"}
Done == (pc = "print" \/ (pc = "off" /\ exit = 0)) /\ job.type # "itemicon"

(* Which command lines get where. *)
JobAllows ==
  /\ pc \in {"sweep", "write", "evict", "rows"} => job.type # "itemicon" /\ ~Refused
  /\ Sweeps \/ Done => (job.type = "if" /\ IntoDir => job.limit = None)
  /\ pc = "rows" => job.type = "dbrow"
  /\ pc = "evict" => Evicts
  /\ pc = "write" => IntoDir
  /\ pc = "print" => ~IntoDir
  /\ pc = "model" => job.type = "itemicon" /\ job.id # None /\ ModelOf[job.id] > 0

(* Nothing has been read when a process begins. *)
BeginsFresh ==
  pc = "begin" =>
    todo = {} /\ out = {} /\ opened = {} /\ \A g \in Group : archives[g] = "absent"

(* Nor has anything been written. *)
DirIsAsFound == pc = "begin" => dir = was.dir

(* What is left to sweep is untouched, is of the scope, and comes after    *)
(* all that is in out; without a name, it is from an open index.           *)
TodoIsUntouched ==
  Sweeps =>
    /\ todo \subseteq Scope /\ cur \notin todo
    /\ \A a \in todo : Untouched(<<Index, a>>)
    /\ \A d \in out, a \in todo : d[1] < a
    /\ Named = {} => Index \in opened

(* The rows the provider has are those it could read. *)
RowsAreRead ==
  pc = "rows" =>
    /\ out = {} /\ Index \in opened
    /\ \A f \in rows \cap Parts : <<Rows[2], f>> \in Possible
    /\ \A e \in Available : e[2] \in rows
    /\ rows # {} => archives[Rows] = "loaded"

(* e comes behind the limit. *)
Behind(e) == Limited /\ Count(out) = job.limit /\ \A d \in out : Before(d, e)

SweptIsOut ==
  Sweeps \/ Done =>
    /\ out \subseteq Possible
    /\ Limited => Count(out) <= job.limit
    /\ \A e \in Available \ out : e[1] \in todo \/ Behind(e)

FileIsOut ==
  /\ (Sweeps /\ IntoFile) \/ (pc = "print" /\ job.out) => file = Opened(out)
  /\ pc = "off" /\ Done /\ job.out /\ ~IntoDir /\ ~lost =>
       file = [state |-> "whole", entries |-> out]

Written(own, found) ==
  dir[own].entries = found /\ (dir[own].state = "whole" \/ (lost /\ dir[own].state = "open"))

FoundFor(own) == IF own[1] = job.type THEN FoundIn(own[2]) ELSE {}

(* The file of the archive at hand is open before it is written, and until  *)
(* it is evicted there may be one of an interface without components.       *)
AtHand(own) ==
  /\ pc = "write" =>
       dir[own] = Opened(FoundFor(own)) /\ (FoundFor(own) = {} => job.type = "if")
  /\ pc = "evict" /\ FoundFor(own) # {} => Written(own, FoundFor(own))

Current(own) ==
  IF FoundFor(own) # {} THEN Written(own, FoundFor(own))
  ELSE dir[own] = IF job.type = "if" /\ own[1] = job.type /\ own[2] \in Listed(Index) \ todo
                  THEN NoFile ELSE was.dir[own]

DirIsOut ==
  (Sweeps \/ Done) /\ IntoDir =>
    /\ \A own \in {"if", "gameval"} \X ArchiveIds :
         IF own = <<job.type, cur>> THEN AtHand(own) ELSE Current(own)
    /\ Sweeps /\ job.type = "if" => todo \cup ({cur} \ {None}) \subseteq Listed(Index)

(* What is known of the process, and of what it writes. *)
Progress ==
  (pc \in {"off", "print"} => todo = {}) /\ TodoIsUntouched /\ RowsAreRead /\ SweptIsOut

Outputs == FileIsOut /\ DirIsOut

DumpInv ==
  DumpTypeOK /\ CacheInv /\ JobAllows /\ BeginsFresh /\ DirIsAsFound /\ Progress /\ Outputs
-----------------------------------------------------------------------------
(* Where a command line leads is in the cache's range.                     *)
LEMMA JobType ==
  ASSUME job \in Jobs
  PROVE  /\ job.type \in Json \cup Modes
         /\ job.id \in Nat \cup {None}
         /\ job.limit \in Nat \cup {None}
         /\ job.out \in BOOLEAN /\ job.dir \in BOOLEAN /\ job.fallback \in BOOLEAN
BY DumperAssumption

LEMMA IndexType ==
  ASSUME job \in Jobs
  PROVE  Index \in IndexIds
<1>1. CASE job.type \in Modes
  BY <1>1, DumperAssumption, JobsAssumption DEF Index, Modes
<1>2. CASE job.type \in Json
  BY <1>2, DumperAssumption, JobsAssumption DEF Index
<1>3. QED
  BY <1>1, <1>2, JobType

LEMMA NamedType ==
  ASSUME job \in Jobs
  PROVE  Named \subseteq ArchiveIds
<1> DEFINE archive == Mapping[job.type].archive
<1>1. CASE \/ job.type \in Modes \cup {"dbrow"} \/ IntoFile
           \/ job.type = "if" /\ job.id = None
  <2>1. Named = {}
    BY <1>1 DEF Named, Modes, IntoFile
  <2>2. QED
    BY <2>1
<1>2. CASE ~(\/ job.type \in Modes \cup {"dbrow"} \/ IntoFile
             \/ job.type = "if" /\ job.id = None)
  <2>1. job.type \in Json /\ archive \in ArchiveIds \cup {Sharded}
    BY <1>2, JobType, DumperAssumption
  <2>2. CASE job.type = "if"
    <3>1. Named = {job.id} /\ job.id # None
      BY <1>2, <2>2 DEF Named
    <3>2. QED
      BY <2>2, <3>1, JobsAssumption
  <2>3. CASE job.type = "gameval"
    <3>1. Named = {IF archive # Sharded THEN archive ELSE job.id} \ {None}
      BY <1>2, <2>3 DEF Named
    <3>2. QED
      BY <2>1, <2>3, <3>1, JobsAssumption
  <2>4. CASE job.type \notin {"if", "gameval"}
    <3>1. Named = {IF job.id # None THEN ArchiveOf(job.type, job.id) ELSE archive} \ {Sharded}
      BY <1>2, <2>4 DEF Named
    <3>2. QED
      BY <1>2, <2>1, <2>4, <3>1, JobsAssumption
  <2>5. QED
    BY <2>2, <2>3, <2>4
<1>3. QED
  BY <1>1, <1>2

LEMMA RowsType ==
  ASSUME job \in Jobs, job.type = "dbrow"
  PROVE  Rows \in Group /\ Rows[1] = Index
<1>1. "dbrow" \in Json
  BY JobType DEF Modes
<1>2. QED
  BY <1>1, DumperAssumption, JobsAssumption DEF Rows, Index

LEMMA ItemType ==
  ASSUME job \in Jobs, job.type = "itemicon", job.id # None
  PROVE  /\ GroupOf("item", job.id) \in Group
         /\ ModelOf[job.id] > 0 => GroupOf("model", ModelOf[job.id]) \in Group
BY JobsAssumption

(* An archive a sweep is about to read. *)
LEMMA SweepingType ==
  ASSUME DumpTypeOK, NEW g \in Group, Sweeping(g)
  PROVE  /\ g = <<Index, g[2]>> /\ g[2] \in ArchiveIds /\ g[2] \in Nat
         /\ pc = "sweep" /\ cur = None /\ g[2] \in todo
<1>1. pc = "sweep" /\ g[1] = Index /\ g[2] \in todo
  BY DEF Sweeping
<1>2. cur = None
  BY <1>1, Zenon DEF DumpTypeOK
<1>3. g[2] \in ArchiveIds /\ g = <<g[1], g[2]>>
  OBVIOUS
<1>4. QED
  BY <1>1, <1>2, <1>3, DumperAssumption

(* Whatever the process does, it does to the cache by calls of it, unless  *)
(* it starts.                                                              *)
LEMMA DumpIsStep ==
  DumpTypeOK /\ JobAllows /\ [DumpNext]_all => [Next]_vars \/ \E j \in Jobs : Start(j)
<1> SUFFICES ASSUME DumpTypeOK, JobAllows, [DumpNext]_all,
                    ~ \E j \in Jobs : Start(j)
             PROVE  [Next]_vars
  OBVIOUS
<1>1. job \in Jobs
  BY DEF DumpTypeOK
<1>2. ASSUME UNCHANGED cache PROVE [Next]_vars
  BY <1>2 DEF cache, vars
<1>3. ASSUME NEW g \in Group, Obtains(g) \/ Raises(g) PROVE [Next]_vars
  BY <1>3, CallIsStep
<1>4. CASE BeginSweep
  <2>1. UNCHANGED cache \/ Lists(Index)
    BY <1>4 DEF BeginSweep
  <2>2. QED
    BY <1>1, <1>2, <2>1, ListsIsStep, IndexType
<1>5. CASE Refuse \/ BeginNamed \/ OutputFails \/ WritesFile \/ SweepDone \/ Prints \/ Kill
  BY <1>2, <1>5 DEF Refuse, BeginNamed, OutputFails, WritesFile, SweepDone, Prints, Kill
<1>6. ASSUME NEW g \in Group, SweepFiles(g) \/ SweepArchive(g) PROVE [Next]_vars
  BY <1>3, <1>6 DEF SweepFiles, SweepArchive
<1>7. CASE EvictSwept
  <2>1. cur \in ArchiveIds /\ Evict(Index, cur)
    BY <1>7 DEF EvictSwept, DumpTypeOK
  <2>2. QED
    BY <1>1, <2>1, EvictIsStep, IndexType
<1>8. CASE LoadRows \/ DumpRows
  <2>1. job.type = "dbrow"
    BY <1>8 DEF LoadRows, DumpRows, JobAllows
  <2>2. QED
    BY <1>1, <1>3, <1>8, <2>1, RowsType DEF LoadRows, DumpRows
<1>9. CASE IconItem
  <2>1. job.type = "itemicon" /\ job.id # None
    BY <1>9 DEF IconItem, Refused
  <2>2. QED
    BY <1>1, <1>3, <1>9, <2>1, ItemType DEF IconItem
<1>10. CASE IconModel
  <2>1. job.type = "itemicon" /\ job.id # None /\ ModelOf[job.id] > 0
    BY <1>10 DEF IconModel, JobAllows
  <2>2. QED
    BY <1>1, <1>3, <1>10, <2>1, ItemType DEF IconModel
<1>11. CASE Environment
  BY <1>11 DEF Environment, Next
<1>12. CASE UNCHANGED all
  BY <1>2, <1>12 DEF all
<1>13. QED
  BY <1>4, <1>5, <1>6, <1>7, <1>8, <1>9, <1>10, <1>11, <1>12 DEF DumpNext
(* And each process starts with a cache of its own. *)
LEMMA StartIsFresh ==
  ASSUME NEW j \in Jobs, Start(j)
  PROVE  \E f \in BOOLEAN : NewCache(f)
<1>1. j.fallback \in BOOLEAN
  BY DumperAssumption
<1>2. QED
  BY <1>1 DEF Start

LEMMA DumpCacheStep == DumpTypeOK /\ JobAllows /\ CacheInv /\ [DumpNext]_all => CacheInv'
BY DumpIsStep, StartIsFresh, CacheStep, NewCacheIsEmpty DEF CacheInv
-----------------------------------------------------------------------------
(* Type correctness, control and outputs apart.                            *)
ControlType ==
  /\ pc \in {"off", "begin", "sweep", "write", "evict", "rows", "model", "print"}
  /\ job \in Jobs /\ cur \in ArchiveIds \cup {None}
  /\ cur # None <=> pc \in {"write", "evict"}
  /\ todo \in SUBSET ArchiveIds /\ rows \in SUBSET FileIds
  /\ exit \in {None, 0, 1, 2, Killed, Aborted}

OutputType ==
  /\ out \in SUBSET Entries
  /\ file \in File /\ dir \in Dir
  /\ arrived \in SUBSET Group /\ lost \in BOOLEAN /\ was \in [file : File, dir : Dir]

LEMMA TypeIsBoth == DumpTypeOK <=> TypeOK /\ ControlType /\ OutputType
BY Zenon DEF DumpTypeOK, ControlType, OutputType

LEMMA ExitsType ==
  ASSUME ControlType, NEW code \in {0, 1, 2, Killed, Aborted}, Exits(code)
  PROVE  ControlType'
BY DEF ControlType, Exits

LEMMA GoesOnType ==
  ASSUME ControlType, pc \notin {"write", "evict"},
         NEW where \in {"sweep", "model", "print"}, GoesOn(where),
         todo' \in SUBSET ArchiveIds
  PROVE  ControlType'
BY DEF ControlType, GoesOn

LEMMA LeavesType ==
  ASSUME ControlType, NEW g \in Group, g[2] # None, job' = job,
         NEW next \in {"sweep", "write", "evict"}, Leaves(g, next)
  PROVE  ControlType'
<1>1. g[2] \in ArchiveIds
  OBVIOUS
<1>2. pc' = next /\ todo' = todo \ {g[2]} /\ UNCHANGED <<rows, exit>>
  BY DEF Leaves
<1>3. cur' = IF next = "sweep" THEN None ELSE g[2]
  BY DEF Leaves
<1>4. QED
  BY <1>1, <1>2, <1>3 DEF ControlType

LEMMA FindsType == \A g : Finds(g) \subseteq FileIds /\ Finds(g)' \subseteq FileIds
BY DEF Finds, Good

LEMMA OfType ==
  ASSUME NEW a \in ArchiveIds, NEW files, files \subseteq FileIds
  PROVE  Of(a, files) \subseteq Entries
BY DEF Of, Entries

LEMMA UpToLimitType ==
  ASSUME NEW S
  PROVE  UpToLimit(S) \subseteq S
BY DEF UpToLimit

LEMMA ControlStep ==
  DumpTypeOK /\ JobAllows /\ [DumpNext]_all => ControlType'
<1> SUFFICES ASSUME ControlType, DumpTypeOK, JobAllows, [DumpNext]_all
             PROVE  ControlType'
  BY TypeIsBoth
<1>1. job \in Jobs
  BY DEF ControlType
<1>2. ASSUME NEW j \in Jobs, Start(j) PROVE ControlType'
  BY <1>2 DEF Start, ControlType, Exits
<1>3. CASE Refuse \/ OutputFails \/ Kill
  BY <1>3, ExitsType DEF Refuse, OutputFails, Kill
<1>4. CASE BeginNamed
  BY <1>1, <1>4, GoesOnType, NamedType DEF BeginNamed
<1>5. CASE BeginSweep
  BY <1>5, ExitsType, GoesOnType, ListedType DEF BeginSweep
<1>6. CASE SweepDone
  BY <1>6, ExitsType, GoesOnType DEF SweepDone
<1>7. ASSUME NEW g \in Group, Sweeping(g), Swept(g) \/ Leaves(g, "write") PROVE ControlType'
  <2>1. g[2] # None /\ job' = job
    BY <1>7, SweepingType DEF None, Sweeping
  <2>2. \E next \in {"sweep", "write", "evict"} : Leaves(g, next)
    BY <1>7 DEF Swept
  <2>3. QED
    BY <2>1, <2>2, LeavesType
<1>8. ASSUME NEW g \in Group, SweepFiles(g) PROVE ControlType'
  <2>1. Sweeping(g) /\ (Exits(1) \/ Swept(g))
    BY <1>8 DEF SweepFiles
  <2>2. QED
    BY <1>7, <2>1, ExitsType
<1>9. ASSUME NEW g \in Group, SweepArchive(g) PROVE ControlType'
  <2>1. Sweeping(g) /\ (Exits(1) \/ Swept(g) \/ Leaves(g, "write"))
    BY <1>9 DEF SweepArchive
  <2>2. QED
    BY <1>7, <2>1, ExitsType
<1>10. CASE EvictSwept \/ WritesFile \/ Prints
  <2>1. CASE EvictSwept
    BY <2>1, ExitsType DEF EvictSwept, ControlType
  <2>2. CASE WritesFile
    BY <2>2 DEF WritesFile, ControlType
  <2>3. CASE Prints
    BY <2>3, ExitsType DEF Prints
  <2>4. QED
    BY <1>10, <2>1, <2>2, <2>3
<1>11. CASE LoadRows
  <2>1. CASE Exits(1)
    BY <2>1, ExitsType
  <2>2. CASE rows' = Good(Rows)' /\ pc' = "rows" /\ UNCHANGED <<job, todo, cur, exit>>
    <3>1. Good(Rows)' \in SUBSET FileIds
      BY DEF Good
    <3>2. pc = "begin"
      BY <1>11 DEF LoadRows
    <3>3. QED
      BY <2>2, <3>1, <3>2 DEF ControlType
  <2>3. QED
    BY <1>11, <2>1, <2>2 DEF LoadRows
<1>12. CASE DumpRows
  BY <1>12, ExitsType, GoesOnType DEF DumpRows
<1>13. CASE IconItem
  <2>1. pc = "begin" /\ (Exits(1) \/ (GoesOn("model") /\ UNCHANGED todo))
    BY <1>13 DEF IconItem
  <2>2. todo \in SUBSET ArchiveIds
    BY DEF ControlType
  <2>3. QED
    BY <2>1, <2>2, ExitsType, GoesOnType
<1>14. CASE IconModel
  <2>1. pc = "model" /\ (Exits(1) \/ (GoesOn("print") /\ todo' = {}))
    BY <1>14 DEF IconModel
  <2>2. QED
    BY <2>1, ExitsType, GoesOnType
<1>15. CASE Environment \/ UNCHANGED all
  BY <1>15 DEF Environment, all, process, ControlType
<1>16. QED
  BY <1>2, <1>3, <1>4, <1>5, <1>6, <1>8, <1>9, <1>10, <1>11, <1>12, <1>13, <1>14, <1>15
  DEF DumpNext

LEMMA WholeFileType ==
  ASSUME NEW entries, entries \subseteq Entries, NEW s \in {"none", "open", "whole"}
  PROVE  [state |-> s, entries |-> entries] \in File
BY DEF File

LEMMA OpenedType == \A S \in SUBSET Entries : Opened(S) \in File
BY WholeFileType DEF Opened

(* Of an output whose state changes, or of none. *)
LEMMA FileUpdateType ==
  ASSUME NEW d \in Dir, NEW own, NEW f \in File
  PROVE  [d EXCEPT ![own] = f] \in Dir
BY DEF Dir

LEMMA ClosedType ==
  ASSUME NEW f \in File
  PROVE  [f EXCEPT !.state = "whole"] \in File
BY DEF File

LEMMA OpensOutputType ==
  ASSUME OutputType, out' \in SUBSET Entries, OpensOutput
  PROVE  file' \in File
BY OpenedType DEF OpensOutput, OutputType

LEMMA WritesFileType ==
  ASSUME OutputType, WritesFile
  PROVE  OutputType'
<1>1. CASE dir' = dir
  BY <1>1 DEF WritesFile, OutputType
<1>2. CASE dir' = [dir EXCEPT ![<<job.type, cur>>].state = "whole"]
  <2> DEFINE own == <<job.type, cur>>
  <2>1. dir \in Dir
    BY DEF OutputType
  <2>2. CASE own \in DOMAIN dir
    <3>1. dir[own] \in File
      BY <2>1, <2>2 DEF Dir
    <3>2. dir' = [dir EXCEPT ![own] = [dir[own] EXCEPT !.state = "whole"]]
      BY <1>2, <2>2
    <3> HIDE DEF own
    <3>3. dir' \in Dir
      BY <2>1, <3>1, <3>2, ClosedType, FileUpdateType
    <3>4. QED
      BY <3>3 DEF WritesFile, OutputType
  <2>3. CASE own \notin DOMAIN dir
    <3>1. dir' = dir
      BY <1>2, <2>1, <2>3 DEF Dir
    <3>2. QED
      BY <1>1, <3>1
  <2>4. QED
    BY <2>2, <2>3
<1>3. QED
  BY <1>1, <1>2 DEF WritesFile

LEMMA SweepFilesType ==
  ASSUME DumpTypeOK, OutputType, NEW g \in Group, SweepFiles(g)
  PROVE  OutputType'
<1>1. CASE UNCHANGED <<out, file>>
  BY <1>1 DEF SweepFiles, OutputType, history
<1>2. CASE ~UNCHANGED <<out, file>>
  <2> DEFINE before == {f \in Finds(g)' : \A h \in Chokes(g)' : f < h}
             taken  == Of(g[2], UpToLimit(before))
  <2>1. out' = out \cup taken /\ Streams(taken)
    BY <1>2 DEF SweepFiles
  <2>2. taken \subseteq Entries
    BY FindsType, UpToLimitType, OfType
  <2> HIDE DEF taken
  <2>3. file.entries \in SUBSET Entries
    BY DEF OutputType, File
  <2>4. file' \in File
    <3>1. file.entries \cup taken \in SUBSET Entries
      BY <2>2, <2>3
    <3>2. Opened(file.entries \cup taken) \in File
      BY <3>1, OpenedType
    <3>3. QED
      BY <2>1, <3>2 DEF Streams, OutputType
  <2>5. dir' = dir /\ UNCHANGED history
    BY DEF SweepFiles
  <2>6. QED
    BY <2>1, <2>2, <2>4, <2>5 DEF OutputType, history
<1>3. QED
  BY <1>1, <1>2

(* Only the files of a table's groups are seen. *)
LEMMA SeenType ==
  ASSUME NEW g \in Group, NEW f, Seen(g, f)' # "empty"
  PROVE  f \in FileIds
<1>1. f \in FileIdsOf(g)'
  BY DEF Seen
<1>2. QED
  BY <1>1 DEF FileIdsOf, DeclaredFiles

LEMMA OutputStep ==
  DumpTypeOK /\ JobAllows /\ [DumpNext]_all => OutputType'
<1> SUFFICES ASSUME OutputType, DumpTypeOK, JobAllows, [DumpNext]_all
             PROVE  OutputType'
  BY TypeIsBoth
<1>1. job \in Jobs
  BY DEF DumpTypeOK
<1>2. ASSUME NEW j \in Jobs, Start(j) PROVE OutputType'
  BY <1>2 DEF Start, outputs, OutputType
<1>3. CASE UNCHANGED <<out, outputs, arrived, was>> /\ lost' \in BOOLEAN
  BY <1>3 DEF OutputType, outputs
<1>4. CASE BeginSweep
  <2>1. Opened({}) \in File
    BY OpenedType
  <2>2. QED
    BY <1>4, <2>1 DEF BeginSweep, OpensFile, OutputType, history
<1>5. ASSUME NEW g \in Group, SweepFiles(g) PROVE OutputType'
  BY <1>5, SweepFilesType
<1>6. ASSUME NEW g \in Group, SweepArchive(g) PROVE OutputType'
  <2> DEFINE decoded == Of(g[2], {f \in Finds(g)' : \A h \in Chokes(g)' : f < h})
  <2>1. out' \in SUBSET Entries
    BY <1>6, OfType, FindsType DEF SweepArchive, OutputType
  <2>2. Opened(decoded) \in File
    <3>1. decoded \subseteq Entries
      BY FindsType, OfType
    <3> HIDE DEF decoded
    <3>2. QED
      BY <3>1, OpenedType
  <2> DEFINE own == <<job.type, g[2]>>
  <2>3. dir' = dir \/ dir' = [dir EXCEPT ![own] = Opened(decoded)]
    BY <1>6 DEF SweepArchive
  <2> HIDE DEF decoded, own
  <2>4. dir' \in Dir
    <3>1. dir \in Dir
      BY DEF OutputType
    <3>2. [dir EXCEPT ![own] = Opened(decoded)] \in Dir
      BY <2>2, <3>1, FileUpdateType
    <3>3. QED
      BY <2>3, <3>1, <3>2
  <2>5. QED
    BY <1>6, <2>1, <2>4 DEF SweepArchive, OutputType, history
<1>7. CASE SweepDone \/ Prints \/ WritesFile \/ EvictSwept
  <2>1. CASE SweepDone
    BY <2>1, OpensOutputType DEF SweepDone, OutputType, history
  <2>2. CASE Prints
    BY <2>2, ClosedType DEF Prints, OutputType
  <2>3. CASE WritesFile
    BY <2>3, WritesFileType
  <2>4. CASE EvictSwept
    <3>1. NoFile \in File
      BY WholeFileType DEF NoFile
    <3> DEFINE own == <<job.type, cur>>
    <3>2. dir' = dir \/ dir' = [dir EXCEPT ![own] = NoFile]
      BY <2>4 DEF EvictSwept
    <3> HIDE DEF own
    <3>3. dir' \in Dir
      <4>1. dir \in Dir
        BY DEF OutputType
      <4>2. [dir EXCEPT ![own] = NoFile] \in Dir
        BY <3>1, <4>1, FileUpdateType
      <4>3. QED
        BY <3>2, <4>1, <4>2
    <3>4. QED
      BY <2>4, <3>3 DEF EvictSwept, OutputType, history
  <2>5. QED
    BY <1>7, <2>1, <2>2, <2>3, <2>4
<1>8. CASE DumpRows
  <2>1. UNCHANGED history /\ file' = file /\ dir' = dir
    BY <1>8 DEF DumpRows, outputs
  <2>2. CASE out' = out
    BY <2>1, <2>2 DEF OutputType, history
  <2>3. CASE out' = Of(Rows[2], UpToLimit(rows \cap FileIdsOf(Rows)' \cap Parts))
    <3>1. rows \subseteq FileIds
      BY DEF DumpTypeOK
    <3>2. Rows[2] \in ArchiveIds
      BY <1>1, <1>8, RowsType DEF DumpRows, JobAllows
    <3>3. UpToLimit(rows \cap FileIdsOf(Rows)' \cap Parts) \subseteq FileIds
      BY <3>1, UpToLimitType
    <3>4. QED
      BY <2>1, <2>3, <3>2, <3>3, OfType DEF OutputType, history
  <2>4. QED
    BY <1>8, <2>2, <2>3 DEF DumpRows
<1>9. CASE IconModel
  <2> DEFINE g == GroupOf("model", ModelOf[job.id])
             f == FileOf("model", ModelOf[job.id])
  <2>1. CASE UNCHANGED <<out, file>>
    BY <1>9, <2>1 DEF IconModel, OutputType, history
  <2>2. CASE Seen(g, f)' = "good" /\ out' = {<<g[2], f>>} /\ OpensOutput
    <3>1. job' = job /\ g \in Group
      BY <1>1, <1>9, ItemType DEF IconModel, JobAllows
    <3>2. f \in FileIds
      BY <2>2, <3>1, SeenType DEF GroupOf, FileOf, ArchiveOf
    <3>3. {<<g[2], f>>} \subseteq Entries
      BY <3>1, <3>2 DEF Entries
    <3>4. out' \in SUBSET Entries /\ UNCHANGED <<dir, history>>
      BY <1>9, <2>2, <3>3 DEF IconModel
    <3>5. QED
      BY <2>2, <3>4, OpensOutputType DEF OutputType, history
  <2>3. QED
    BY <1>9, <2>1, <2>2 DEF IconModel
<1>10. CASE Environment
  <2>1. arrived' \in SUBSET Group
    BY <1>10 DEF Environment, OutputType
  <2>2. QED
    BY <1>10, <2>1 DEF Environment, process, outputs, OutputType
<1>11. CASE UNCHANGED all
  BY <1>11 DEF all, process, outputs, history, OutputType
<1>12. CASE Refuse \/ BeginNamed \/ OutputFails \/ LoadRows \/ IconItem \/ Kill
  <2>1. lost \in BOOLEAN
    BY DEF OutputType
  <2>2. QED
    BY <1>3, <1>12, <2>1 DEF Refuse, BeginNamed, OutputFails, LoadRows, IconItem, Kill, history
<1>13. QED
  BY <1>2, <1>4, <1>5, <1>6, <1>7, <1>8, <1>9, <1>10, <1>11, <1>12 DEF DumpNext

LEMMA JobAllowsStep == DumpTypeOK /\ JobAllows /\ [DumpNext]_all => JobAllows'
<1> SUFFICES ASSUME DumpTypeOK, JobAllows, [DumpNext]_all PROVE JobAllows'
  OBVIOUS
<1>1. CASE pc' \in {"off", "begin"} /\ (pc' = "off" => exit' # 0 \/ job'.type = "itemicon")
  BY <1>1 DEF JobAllows, Sweeps, Done
<1>2. ASSUME job' = job PROVE (Refused' <=> Refused) /\ (IntoDir' <=> IntoDir) /\ (Evicts' <=> Evicts)
  BY <1>2 DEF Refused, IntoDir, Evicts, IntoFile, Scans
<1>3. ASSUME NEW j \in Jobs, Start(j) PROVE JobAllows'
  <2>1. pc' = "begin" \/ (pc' = "off" /\ exit' = 1)
    BY <1>3 DEF Start
  <2>2. QED
    BY <1>1, <2>1
<1>4. ASSUME NEW code \in {1, 2, Killed, Aborted}, Exits(code) PROVE JobAllows'
  BY <1>1, <1>4 DEF Exits, Killed, Aborted
<1>5. ASSUME pc = "begin", ~Refused, job' = job, pc' = "sweep", job.type # "itemicon"
      PROVE  JobAllows'
  BY <1>2, <1>5 DEF JobAllows, Refused, Sweeps, Done
<1>6. ASSUME pc \in {"sweep", "write"}, job' = job,
             \/ pc' \in {"sweep", "off"} \/ (pc' = "evict" /\ Evicts)
             \/ (pc' = "write" /\ IntoDir) \/ (pc' = "print" /\ ~IntoDir)
      PROVE  JobAllows'
  BY <1>2, <1>6 DEF JobAllows, Sweeps, Done
<1>7. CASE BeginNamed
  BY <1>5, <1>7 DEF BeginNamed, GoesOn, Named, Modes
<1>8. CASE BeginSweep
  BY <1>4, <1>5, <1>8 DEF BeginSweep, GoesOn
<1>9. CASE Refuse \/ OutputFails \/ Kill
  BY <1>4, <1>9 DEF Refuse, OutputFails, Kill
<1>10. ASSUME NEW g \in Group, SweepFiles(g) \/ SweepArchive(g) PROVE JobAllows'
  <2>1. pc = "sweep" /\ job' = job
    BY <1>10 DEF SweepFiles, SweepArchive, Sweeping
  <2>2. CASE Exits(1)
    BY <1>4, <2>2
  <2>3. CASE Swept(g) \/ (Leaves(g, "write") /\ IntoDir)
    BY <1>6, <2>1, <2>3 DEF Swept, Leaves
  <2>4. QED
    BY <1>10, <2>2, <2>3 DEF SweepFiles, SweepArchive, HasOwnFile
<1>11. CASE EvictSwept
  <2>1. CASE Exits(1)
    BY <1>4, <2>1
  <2>2. QED
    BY <1>2, <1>11, <2>1 DEF EvictSwept, JobAllows, Sweeps, Done
<1>12. CASE SweepDone \/ WritesFile
  <2>1. CASE SweepDone
    BY <1>6, <2>1 DEF SweepDone, Exits, GoesOn
  <2>2. CASE WritesFile
    BY <1>6, <2>2 DEF WritesFile
  <2>3. QED
    BY <1>12, <2>1, <2>2
<1>13. CASE LoadRows
  <2>1. CASE Exits(1)
    BY <1>4, <2>1
  <2>2. CASE pc' = "rows" /\ job' = job
    <3>1. job.type = "dbrow"
      BY <1>13 DEF LoadRows
    <3>2. ~Refused
      BY <3>1 DEF Refused
    <3>3. QED
      BY <1>2, <2>2, <3>1, <3>2 DEF JobAllows, Sweeps, Done
  <2>3. QED
    BY <1>13, <2>1, <2>2 DEF LoadRows
<1>14. CASE DumpRows
  <2>1. CASE Exits(1)
    BY <1>4, <2>1
  <2>2. CASE GoesOn("sweep")
    BY <1>2, <1>14, <2>2 DEF DumpRows, GoesOn, JobAllows, Sweeps, Done, Refused
  <2>3. QED
    BY <1>14, <2>1, <2>2 DEF DumpRows
<1>15. CASE IconItem
  <2>1. job.type = "itemicon" /\ job.id # None /\ job' = job
    BY <1>15 DEF IconItem, Refused
  <2>2. CASE Exits(1)
    BY <1>4, <2>2
  <2>3. CASE ModelOf[job.id] > 0 /\ pc' = "model"
    BY <1>2, <2>1, <2>3 DEF JobAllows, Sweeps, Done
  <2>4. QED
    BY <1>15, <2>1, <2>2, <2>3 DEF IconItem, GoesOn
<1>16. CASE IconModel \/ Prints
  <2>1. CASE Exits(1)
    BY <1>4, <2>1
  <2>2. CASE IconModel /\ GoesOn("print")
    <3>1. job.type = "itemicon" /\ job' = job
      BY <2>2 DEF IconModel, JobAllows
    <3>2. ~IntoDir
      BY <3>1 DEF IntoDir
    <3>3. QED
      BY <1>2, <2>2, <3>1, <3>2 DEF GoesOn, JobAllows, Sweeps, Done
  <2>3. CASE Prints /\ Exits(0)
    BY <1>2, <2>3 DEF Prints, Exits, JobAllows, Sweeps, Done
  <2>4. QED
    BY <1>16, <2>1, <2>2, <2>3 DEF IconModel, Prints
<1>17. CASE Environment \/ UNCHANGED all
  BY <1>2, <1>17 DEF Environment, all, process, JobAllows, Sweeps, Done
<1>18. QED
  BY <1>3, <1>7, <1>8, <1>9, <1>10, <1>11, <1>12, <1>13, <1>14, <1>15, <1>16, <1>17
  DEF DumpNext

(* Type correctness of the dumper, over a cache that is as RSCache says.   *)
LEMMA TypedStep ==
  DumpTypeOK /\ JobAllows /\ CacheInv /\ [DumpNext]_all =>
    DumpTypeOK' /\ JobAllows' /\ CacheInv'
<1> SUFFICES ASSUME DumpTypeOK, JobAllows, CacheInv, [DumpNext]_all
             PROVE  DumpTypeOK' /\ JobAllows' /\ CacheInv'
  OBVIOUS
<1>1. CacheInv' /\ ControlType' /\ OutputType' /\ JobAllows'
  BY DumpCacheStep, ControlStep, OutputStep, JobAllowsStep
<1>2. DumpTypeOK'
  BY <1>1, Zenon DEF DumpTypeOK, ControlType, OutputType, CacheInv
<1>3. QED
  BY <1>1, <1>2

LEMMA TypedInit == DumpInit => DumpTypeOK /\ JobAllows /\ CacheInv
<1> SUFFICES ASSUME DumpInit PROVE DumpTypeOK /\ JobAllows /\ CacheInv
  OBVIOUS
<1>1. Init
  BY DEF DumpInit
<1>2. TypeOK
  BY <1>1 DEF Init, TypeOK, Entry
<1>3. LoadedIsDeclared /\ UnopenedIsEmpty
  BY <1>1 DEF Init, LoadedIsDeclared, UnopenedIsEmpty
<1>4. job \in Jobs
  BY JobsAssumption DEF DumpInit
<1>5. ControlType
  BY <1>4 DEF DumpInit, ControlType
<1>6. OutputType
  BY DEF DumpInit, OutputType, NoFile, File, Dir
<1>7. JobAllows
  BY DEF DumpInit, JobAllows, Sweeps, Done, None
<1>8. QED
  BY <1>2, <1>3, <1>5, <1>6, <1>7, TypeIsBoth DEF CacheInv

(* Every behaviour of the dumper is type-correct: no exit leaves an        *)
(* archive to evict, and no step but the eviction forgets one.             *)
THEOREM DumpTypeCorrect == DumpSpec => []DumpTypeOK
BY TypedInit, TypedStep, PTL DEF DumpSpec

(* A dumper is a client of CacheSource: within a process every step, also  *)
(* one that fails, evicts or is the last before it is killed, is at most   *)
(* one call of it; every process begins with a source of its own.          *)
THEOREM DumperUsesCacheSource ==
  DumpSpec => CS!CsInit /\ [][UsesCacheSource(\E j \in Jobs : Start(j))]_all
<1>1. DumpInit => CS!CsInit
  BY DEF DumpInit, Init, CS!CsInit, StatusOf
<1>2. ASSUME DumpTypeOK, JobAllows, CacheInv, [DumpNext]_all
      PROVE  UsesCacheSource(\E j \in Jobs : Start(j))
  <2>1. CASE [Next]_vars
    BY <1>2, <2>1, CacheStepIsAbstract DEF UsesCacheSource
  <2>2. CASE \E j \in Jobs : Start(j)
    BY <2>2, StartIsFresh, NewCacheIsAbstract DEF UsesCacheSource
  <2>3. QED
    BY <1>2, <2>1, <2>2, DumpIsStep
<1>3. DumpTypeOK /\ JobAllows /\ CacheInv /\ [DumpNext]_all =>
        [UsesCacheSource(\E j \in Jobs : Start(j))]_all
  BY <1>2
<1>4. QED
  BY <1>1, <1>3, TypedInit, TypedStep, PTL DEF DumpSpec
-----------------------------------------------------------------------------
LEMMA FreshStep ==
  DumpTypeOK /\ BeginsFresh /\ [DumpNext]_all => BeginsFresh'
<1> SUFFICES ASSUME DumpTypeOK, BeginsFresh, [DumpNext]_all, pc' = "begin"
             PROVE  /\ todo' = {} /\ out' = {} /\ opened' = {}
                    /\ \A g \in Group : archives'[g] = "absent"
  BY DEF BeginsFresh
<1>1. CASE \E j \in Jobs : Start(j)
  BY <1>1 DEF Start, NewCache
<1>2. CASE Environment \/ UNCHANGED all
  BY <1>2 DEF BeginsFresh, Environment, all, process, cache, client,
              LinkChanges, RefStored, RowStored
<1>3. QED
  <2>1. CASE DumpNext /\ ~(Environment \/ \E j \in Jobs : Start(j))
    BY <2>1
    DEF DumpNext, Refuse, BeginNamed, BeginSweep, OutputFails, SweepFiles, SweepArchive, Swept,
        Leaves, WritesFile, EvictSwept, SweepDone, Prints, LoadRows, DumpRows, IconItem, IconModel,
        Kill, Exits, GoesOn
  <2>2. QED
    BY <1>1, <1>2, <2>1

(* A sweep that evicts reads one archive and evicts it before the next.    *)
LEMMA MemoryStep ==
  /\ DumpTypeOK /\ JobAllows /\ CacheInv /\ BeginsFresh /\ MemoryBounded
  /\ [DumpNext]_all
  => MemoryBounded'
<1> SUFFICES ASSUME DumpTypeOK, JobAllows, CacheInv, BeginsFresh, MemoryBounded,
                    [DumpNext]_all, Evicts', pc' # "off",
                    NEW h \in Group, h[1] = Index', archives'[h] = "loaded"
             PROVE  h[2] = cur'
  BY DEF MemoryBounded
<1>1. ASSUME NEW j \in Jobs, Start(j) PROVE FALSE
  BY <1>1 DEF Start, NewCache
<1>2. CASE job' = job
  <2>1. Evicts /\ h[1] = Index
    BY <1>2 DEF Evicts, IntoFile, IntoDir, Scans, Index
  <2>2. job.type \notin {"dbrow", "itemicon"}
    BY <2>1 DEF Evicts, IntoFile, IntoDir, Scans
  <2>3. archives[h] = "loaded" /\ pc # "off" => h[2] = cur
    BY <2>1 DEF MemoryBounded
  <2>4. CASE archives' = archives /\ pc = "begin"
    BY <2>4 DEF BeginsFresh
  <2>5. CASE archives' = archives /\ cur' = cur /\ pc # "off"
    BY <2>3, <2>5
  <2>6. CASE BeginSweep
    <3>1. pc = "begin" /\ Lists(Index)
      BY <2>6 DEF BeginSweep, Exits
    <3>2. Index \in IndexIds
      BY IndexType DEF DumpTypeOK
    <3>3. archives[h] = "loaded"
      BY <3>1, <3>2, ListsLoadsNothing
    <3>4. QED
      BY <3>1, <3>3 DEF BeginsFresh
  <2>7. ASSUME NEW g \in Group, SweepFiles(g) \/ SweepArchive(g) PROVE h[2] = cur'
    <3>1. Sweeping(g) /\ Obtains(g) /\ (Swept(g) \/ Leaves(g, "write"))
      BY <2>7 DEF SweepFiles, SweepArchive, Exits
    <3>2. cur' = g[2]
      BY <2>1, <3>1 DEF Swept, Leaves
    <3>3. CASE h = g
      BY <3>2, <3>3
    <3>4. CASE h # g
      <4>1. archives[h] = "loaded"
        BY <3>1, <3>4, CallLoadsOnly
      <4>2. h[2] = None
        BY <2>3, <3>1, <4>1, SweepingType
      <4>3. QED
        BY <4>2, DumperAssumption DEF None
    <3>5. QED
      BY <3>3, <3>4
  <2>8. CASE EvictSwept
    <3>1. pc = "evict" /\ cur \in ArchiveIds /\ Evict(Index, cur)
      BY <2>8, Zenon DEF EvictSwept, DumpTypeOK
    <3>2. archives' = [archives EXCEPT ![<<Index, cur>>] = "absent"]
      BY <3>1 DEF Evict
    <3>3. archives \in [Group -> Entry]
      BY DEF CacheInv, TypeOK
    <3>4. h # <<Index, cur>> /\ archives[h] = "loaded"
      BY <3>2, <3>3
    <3>5. QED
      BY <2>1, <2>3, <3>1, <3>4
  <2>9. CASE Environment \/ UNCHANGED all
    <3>1. archives' = archives /\ cur' = cur /\ pc' = pc
      BY <2>9 DEF Environment, all, process, cache, client, LinkChanges, RefStored, RowStored
    <3>2. QED
      BY <2>5, <3>1
  <2>10. CASE BeginNamed
    BY <2>4, <2>10 DEF BeginNamed, cache, client
  <2>11. CASE Refuse \/ OutputFails \/ WritesFile \/ SweepDone \/ Prints \/ Kill
    <3>1. CASE WritesFile
      BY <2>1, <2>5, <3>1 DEF WritesFile, cache, client
    <3>2. CASE SweepDone
      BY <2>5, <3>2 DEF SweepDone, GoesOn, Exits, cache, client
    <3>3. QED
      BY <2>11, <3>1, <3>2 DEF Refuse, OutputFails, Prints, Kill, Exits
  <2>12. CASE LoadRows \/ DumpRows \/ IconItem \/ IconModel
    BY <2>2, <2>12 DEF LoadRows, DumpRows, IconItem, IconModel, JobAllows
  <2>13. QED
    BY <1>1, <2>6, <2>7, <2>8, <2>9, <2>10, <2>11, <2>12 DEF DumpNext
<1>3. CASE job' # job
  BY <1>1, <1>3
  DEF DumpNext, Refuse, BeginNamed, BeginSweep, OutputFails, SweepFiles, SweepArchive, Sweeping,
      WritesFile, EvictSwept, SweepDone, Prints, LoadRows, DumpRows, IconItem, IconModel, Kill,
      Exits, GoesOn, Environment, all, process
<1>4. QED
  BY <1>2, <1>3

(* "So peak memory stays bounded by a single entry": whatever else writes  *)
(* the cache, and wherever runs before it were killed, a sweep that evicts *)
(* holds no archive of its index but the one at hand.                      *)
THEOREM MemoryIsBounded == DumpSpec => []MemoryBounded
<1> DEFINE MInv == DumpTypeOK /\ JobAllows /\ CacheInv /\ BeginsFresh /\ MemoryBounded
<1>1. DumpInit => MInv
  BY TypedInit DEF DumpInit, BeginsFresh, MemoryBounded
<1>2. MInv /\ [DumpNext]_all => MInv'
  BY TypedStep, FreshStep, MemoryStep
<1>3. MInv => MemoryBounded
  OBVIOUS
<1> HIDE DEF MInv
<1>4. QED
  BY <1>1, <1>2, <1>3, PTL DEF DumpSpec
-----------------------------------------------------------------------------
(* Until everything is decoded a run has not touched what --out names,     *)
(* unless it streams into it.                                              *)
FileIsKept ==
  (/\ ~IntoFile
   /\ \/ pc \notin {"off", "print"}
      \/ pc = "off" /\ exit \notin {None, 0} /\ ~lost)
  => file = was.file

LEMMA KeptStep ==
  JobAllows /\ FileIsKept /\ [DumpNext]_all => FileIsKept'
<1> SUFFICES ASSUME JobAllows, FileIsKept, [DumpNext]_all, ~IntoFile',
                    \/ pc' \notin {"off", "print"}
                    \/ pc' = "off" /\ exit' \notin {None, 0} /\ ~lost'
             PROVE  file' = was'.file
  BY DEF FileIsKept
<1>1. CASE \E j \in Jobs : Start(j)
  BY <1>1 DEF Start, outputs
<1>2. CASE job' = job
  <2>1. ~IntoFile
    BY <1>2 DEF IntoFile
  <2>2. ASSUME pc \notin {"off", "print"}, file' = file, was' = was PROVE file' = was'.file
    BY <2>1, <2>2 DEF FileIsKept
  <2>3. CASE BeginSweep
    BY <2>1, <2>2, <2>3 DEF BeginSweep, OpensFile, history
  <2>4. ASSUME NEW g \in Group, SweepFiles(g) \/ SweepArchive(g) PROVE file' = was'.file
    BY <2>1, <2>2, <2>4 DEF SweepFiles, SweepArchive, Sweeping, Streams, history
  <2>5. CASE SweepDone \/ IconModel
    <3>1. pc' # "print" /\ pc \in {"sweep", "model"} /\ was' = was
      BY <2>5 DEF SweepDone, IconModel, history
    <3>2. file' = file
      BY <2>5, <3>1 DEF SweepDone, IconModel, GoesOn, Exits
    <3>3. QED
      BY <2>2, <3>1, <3>2
  <2>6. CASE Prints
    BY <2>6 DEF Prints, Exits, None
  <2>7. CASE Kill
    <3>1. pc \notin {"off", "print"} /\ file' = file /\ was' = was
      BY <2>7 DEF Kill, Exits, outputs
    <3>2. QED
      BY <2>2, <3>1
  <2>8. CASE Refuse \/ BeginNamed \/ OutputFails \/ WritesFile \/ EvictSwept \/ LoadRows
             \/ DumpRows \/ IconItem
    BY <2>2, <2>8 DEF Refuse, BeginNamed, OutputFails, WritesFile, EvictSwept, LoadRows,
                      DumpRows, IconItem, outputs, history
  <2>9. CASE Environment \/ UNCHANGED all
    BY <2>1, <2>9 DEF Environment, all, process, outputs, history, FileIsKept
  <2>10. QED
    BY <1>1, <2>3, <2>4, <2>5, <2>6, <2>7, <2>8, <2>9 DEF DumpNext
<1>3. CASE job' # job
  BY <1>1, <1>3
  DEF DumpNext, Refuse, BeginNamed, BeginSweep, OutputFails, SweepFiles, SweepArchive, Sweeping,
      WritesFile, EvictSwept, SweepDone, Prints, LoadRows, DumpRows, IconItem, IconModel, Kill,
      Exits, GoesOn, Environment, all, process
<1>4. QED
  BY <1>2, <1>3

(* Whatever a run that fails or is killed has decoded, the document of an  *)
(* earlier one is as it was, unless the run streams into it or had come to *)
(* the writing, where a kill or a failed write costs it.                   *)
THEOREM EarlierFileKept == DumpSpec => []FailedRunKeepsFile
<1> DEFINE KInv == DumpTypeOK /\ JobAllows /\ CacheInv /\ FileIsKept
<1>1. DumpInit => KInv
  BY TypedInit DEF DumpInit, FileIsKept
<1>2. KInv /\ [DumpNext]_all => KInv'
  BY TypedStep, KeptStep
<1>3. KInv => FailedRunKeepsFile
  BY DEF FileIsKept, FailedRunKeepsFile
<1> HIDE DEF KInv
<1>4. QED
  BY <1>1, <1>2, <1>3, PTL DEF DumpSpec
-----------------------------------------------------------------------------
(* Entries of an archive count as its files do, and as one where they are  *)
(* one.                                                                    *)
LEMMA OfCardinality ==
  ASSUME NEW a, NEW U, IsFiniteSet(U)
  PROVE  IsFiniteSet(Of(a, U)) /\ Cardinality(Of(a, U)) = Cardinality(U)
<1> DEFINE entry == [f \in U |-> <<a, f>>]
<1>1. entry \in Bijection(U, Of(a, U))
  BY DEF Of, Bijection, Injection, Surjection, IsInjective
<1>2. QED
  BY <1>1, FS_Bijection DEF ExistsBijection

LEMMA OfNothing ==
  ASSUME NEW a, NEW U
  PROVE  Of(a, U) = {} <=> U = {}
<1>1. ASSUME NEW f \in U PROVE <<a, f>> \in Of(a, U)
  BY DEF Of
<1>2. U = {} => Of(a, U) = {}
  BY DEF Of
<1>3. QED
  BY <1>1, <1>2

LEMMA EntriesFinite ==
  ASSUME NEW S \in SUBSET Entries
  PROVE  IsFiniteSet(S) /\ IsFiniteSet({e[1] : e \in S})
<1>1. IsFiniteSet(Entries)
  BY DumperAssumption, FS_Product DEF Entries
<1>2. {e[1] : e \in S} \in SUBSET ArchiveIds
  BY DEF Entries
<1>3. QED
  BY <1>1, <1>2, DumperAssumption, FS_Subset

LEMMA CountType ==
  ASSUME NEW S \in SUBSET Entries
  PROVE  Count(S) \in Nat
BY EntriesFinite, FS_CardinalityType DEF Count

LEMMA CountEmpty == Count({}) = 0
<1>1. {e[1] : e \in {}} = {}
  OBVIOUS
<1>2. QED
  BY <1>1, FS_EmptySet DEF Count

LEMMA CountAdds ==
  ASSUME NEW S \in SUBSET Entries, NEW a \in ArchiveIds, NEW U \in SUBSET FileIds,
         \A d \in S : d[1] # a
  PROVE  /\ ~Whole => Count(S \cup Of(a, U)) = Count(S) + Cardinality(U)
         /\ Whole => Count(S \cup Of(a, U)) <= Count(S) + 1
<1>1. IsFiniteSet(U) /\ Cardinality(U) \in Nat
  BY DumperAssumption, FS_Subset, FS_CardinalityType
<1>2. IsFiniteSet(S) /\ IsFiniteSet({e[1] : e \in S})
  BY EntriesFinite
<1>3. IsFiniteSet(Of(a, U)) /\ Cardinality(Of(a, U)) = Cardinality(U)
  BY <1>1, OfCardinality
<1>4. CASE ~Whole
  <2>1. S \cap Of(a, U) = {}
    BY DEF Of
  <2>2. Cardinality(S \cup Of(a, U)) = Cardinality(S) + Cardinality(Of(a, U)) - 0
    BY <1>2, <1>3, <2>1, FS_Union, FS_EmptySet
  <2>3. QED
    BY <1>1, <1>2, <1>3, <1>4, <2>2, FS_CardinalityType DEF Count
<1>5. CASE Whole
  <2> DEFINE archs == {e[1] : e \in S}
             more == {e[1] : e \in S \cup Of(a, U)}
  <2>1. more \in SUBSET (archs \cup {a})
    BY DEF Of
  <2> HIDE DEF archs, more
  <2>2. IsFiniteSet(archs) /\ Cardinality(archs) \in Nat
    BY <1>2, FS_CardinalityType DEF archs
  <2>3. IsFiniteSet(archs \cup {a}) /\ Cardinality(archs \cup {a}) <= Cardinality(archs) + 1
    BY <2>2, AtMostOneMore
  <2>4. Cardinality(more) <= Cardinality(archs \cup {a})
    BY <2>1, <2>3, FS_Subset
  <2>5. Cardinality(more) \in Nat /\ Cardinality(archs \cup {a}) \in Nat
    BY <2>1, <2>3, FS_Subset, FS_CardinalityType
  <2>6. Cardinality(more) <= Cardinality(archs) + 1
    BY <2>2, <2>3, <2>4, <2>5
  <2>7. Count(S) = Cardinality(archs) /\ Count(S \cup Of(a, U)) = Cardinality(more)
    BY <1>5, Zenon DEF Count, archs, more
  <2>8. QED
    BY <1>5, <2>6, <2>7
<1>6. QED
  BY <1>4, <1>5

(* What is taken of the files of an archive that can be decoded.           *)
LEMMA LimitCuts ==
  ASSUME NEW S \in SUBSET FileIds, job \in Jobs, out \in SUBSET Entries,
         Limited => Count(out) <= job.limit
  PROVE  LET U == UpToLimit(S) IN
         /\ U \in SUBSET S /\ IsFiniteSet(U) /\ Cardinality(U) \in Nat
         /\ Limited => Count(out) + Cardinality(U) <= job.limit
         /\ \A f \in S \ U :
              Limited /\ Count(out) + Cardinality(U) = job.limit /\ \A t \in U : t < f
         /\ \A m \in Nat : ~Reached(S, m) /\ (\A h \in S : h < m) =>
              Limited /\ Count(out) + Cardinality(U) = job.limit
<1> DEFINE U == UpToLimit(S)
<1>1. S \subseteq Nat /\ IsFiniteSet(S)
  BY DumperAssumption, FS_Subset
<1>2. U \in SUBSET S /\ IsFiniteSet(U) /\ Cardinality(U) \in Nat
  <2>1. U \in SUBSET S
    BY DEF UpToLimit
  <2>2. QED
    BY <1>1, <2>1, FS_Subset, FS_CardinalityType
<1>3. CASE ~Limited
  <2>1. \A f : Reached(S, f)
    BY <1>3 DEF Reached, More
  <2>2. U = S
    BY <2>1 DEF UpToLimit
  <2>3. QED
    BY <1>2, <1>3, <2>1, <2>2
<1>4. CASE Limited
  <2> DEFINE n == Count(out)
             L == job.limit
  <2>1. n \in Nat /\ L \in Nat /\ n <= L
    BY <1>4, CountType, JobType DEF Limited
  <2>2. \A f : Reached(S, f) <=> n + Cardinality(Under(S, f)) < L
    BY <1>4 DEF Reached, More, Under
  <2>3. U = Prefix(S, n, L)
    BY <2>2 DEF UpToLimit, Prefix
  <2> HIDE DEF n, L, U
  <2>4. /\ n + Cardinality(U) <= L
        /\ \A f \in S \ U : n + Cardinality(U) = L /\ \A t \in U : t < f
        /\ n + Cardinality(S) >= L => n + Cardinality(U) = L
    <3>1. LET P == Prefix(S, n, L) IN
          /\ n + Cardinality(P) <= L
          /\ \A f \in S \ P : n + Cardinality(P) = L /\ \A t \in P : t < f
          /\ n + Cardinality(S) >= L => n + Cardinality(P) = L
      BY <1>1, <2>1, PrefixFacts
    <3>2. QED
      BY <2>3, <3>1
  <2>5. ASSUME NEW m \in Nat, ~Reached(S, m), \A h \in S : h < m
        PROVE  n + Cardinality(U) = L
    <3>1. Under(S, m) = S
      BY <2>5 DEF Under
    <3>2. ~(n + Cardinality(S) < L) /\ Cardinality(S) \in Nat
      BY <1>1, <2>2, <2>5, <3>1, FS_CardinalityType
    <3>3. n + Cardinality(S) >= L
      BY <2>1, <3>2
    <3>4. QED
      BY <2>4, <3>3
  <2>6. QED
    BY <1>2, <1>4, <2>4, <2>5 DEF n, L, U
<1>5. QED
  BY <1>3, <1>4
-----------------------------------------------------------------------------
(* What there is to find, from one step to the next.                       *)
LEMMA SameJob ==
  ASSUME job' = job
  PROVE  /\ Index' = Index /\ Parts' = Parts /\ Named' = Named /\ Scope' = Scope
         /\ Scans' = Scans /\ Whole' = Whole /\ Limited' = Limited
         /\ IntoDir' = IntoDir /\ IntoFile' = IntoFile /\ Evicts' = Evicts
<1>1. Scans' = Scans /\ Whole' = Whole /\ IntoFile' = IntoFile /\ IntoDir' = IntoDir
  BY DEF Scans, Whole, IntoFile, IntoDir
<1>2. Index' = Index /\ Evicts' = Evicts
  BY <1>1 DEF Index, Evicts
<1>3. Named' = Named
  BY <1>1 DEF Named
<1>4. Parts' = Parts
  BY <1>1 DEF Parts
<1>5. Scope' = Scope
  BY <1>3 DEF Scope
<1>6. Limited' = Limited
  BY <1>1 DEF Limited
<1>7. QED
  BY <1>1, <1>2, <1>3, <1>4, <1>5, <1>6

LEMMA NamedIsOne ==
  ASSUME Named # {}, NEW a \in Scope, NEW b \in Scope
  PROVE  a = b
<1>1. \E x : Named \subseteq {x}
  <2>1. ASSUME NEW x, NEW S PROVE {x} \ S \subseteq {x}
    OBVIOUS
  <2>2. QED
    BY <2>1 DEF Named
<1>2. QED
  BY <1>1 DEF Scope

LEMMA ScopeType ==
  ASSUME job \in Jobs
  PROVE  Scope \subseteq ArchiveIds
<1>1. job.type = "dbrow" => Rows[2] \in ArchiveIds
  BY RowsType
<1>2. QED
  BY <1>1, NamedType DEF Scope

(* Without its index there is nothing to find. *)
LEMMA UnopenedOffersNothing ==
  ASSUME CacheInv, job \in Jobs, Index \notin opened
  PROVE  Possible = {} /\ Available = {}
<1>1. table[Index] = "none"
  BY IndexType DEF CacheInv, UnopenedIsEmpty
<1>2. \A g : DeclaredFiles(table[Index], g) = {}
  BY <1>1, BuildsAssumption DEF DeclaredFiles
<1>3. Possible = {}
  BY <1>2 DEF Possible
<1>4. QED
  BY <1>3 DEF Available

LEMMA OfferIsKept ==
  ASSUME job \in Jobs, job' = job, table'[Index] = table[Index]
  PROVE  Possible' = Possible
BY SameJob DEF Possible, Good0

(* Nor does what an open index offers, unless files come or go. *)
LEMMA AvailableIsKept ==
  ASSUME CacheInv, job \in Jobs, job' = job, arrived' = arrived, UNCHANGED disk,
         Index \in opened, [Next]_vars
  PROVE  /\ Possible' = Possible /\ Available' = Available
         /\ Index \in opened' /\ table'[Index] = table[Index]
<1>1. Index \in opened' /\ table'[Index] = table[Index]
  BY OpenIsKept DEF CacheInv
<1>2. Possible' = Possible
  BY <1>1, OfferIsKept
<1>3. Index' = Index /\ Scans' = Scans
  BY SameJob
<1>4. \A a : Framed(rowBuild[<<Index, a>>], <<Index, a>>)'
             = Framed(rowBuild[<<Index, a>>], <<Index, a>>)
  BY <1>1, <1>3 DEF Framed, TableOf, disk
<1>5. Available' = Available
  BY <1>2, <1>3, <1>4 DEF Available, Good0, disk
<1>6. QED
  BY <1>1, <1>2, <1>5

(* A store by another process offers nothing to the process that runs. *)
LEMMA EnvironmentOffersNothing ==
  ASSUME CacheInv, DumpTypeOK, Environment
  PROVE  Possible' = Possible /\ Available' = Available
<1>1. job' = job /\ job \in Jobs /\ UNCHANGED client
  BY DEF Environment, process, DumpTypeOK, LinkChanges, RefStored, RowStored
<1>2. Possible' = Possible
  BY <1>1, OfferIsKept DEF client
<1>3. CASE Index \notin opened
  BY <1>2, <1>3, <1>1, UnopenedOffersNothing DEF Available
<1>4. CASE Index \in opened
  <2>1. Index' = Index /\ Scans' = Scans /\ TableOf(Index)' = TableOf(Index)
    BY <1>1, <1>4, SameJob DEF TableOf, client
  <2>2. ASSUME NEW e \in Possible
        PROVE  LET g == <<Index, e[1]>> IN
               rowFormat'[g] = "readable" /\ g \notin arrived' <=>
               rowFormat[g] = "readable" /\ g \notin arrived
    <3> DEFINE g == <<Index, e[1]>>
    <3>1. g \in Group
      BY <1>1, <2>2, IndexType, ScopeType DEF Possible
    <3>2. CASE UNCHANGED <<rowFormat, arrived>>
      BY <3>2
    <3>3. ASSUME NEW h \in Group, RowStored(h), arrived' = arrived \cup {h}
          PROVE  rowFormat'[g] = "readable" /\ g \notin arrived' <=>
                 rowFormat[g] = "readable" /\ g \notin arrived
      <4> HIDE DEF g
      <4>1. CASE h = g
        BY <3>3, <4>1 DEF RowStored
      <4>2. CASE h # g
        BY <3>1, <3>3, <4>2 DEF RowStored, CacheInv, TypeOK
      <4>3. QED
        BY <4>1, <4>2
    <3>4. QED
      BY <3>2, <3>3 DEF Environment, LinkChanges, RefStored, client, disk
  <2>3. ASSUME NEW e \in Possible, rowFormat[<<Index, e[1]>>] = "readable"
        PROVE  rowBuild'[<<Index, e[1]>>] = rowBuild[<<Index, e[1]>>]
    <3>1. <<Index, e[1]>> \in Group
      BY <1>1, <2>3, IndexType, ScopeType DEF Possible
    <3>2. QED
      BY <2>3, <3>1 DEF Environment, LinkChanges, RefStored, RowStored, CacheInv, TypeOK, disk
  <2>4. ASSUME NEW b, NEW a PROVE Framed(b, <<Index, a>>)' <=> Framed(b, <<Index, a>>)
    BY <2>1 DEF Framed
  <2>5. ASSUME NEW e \in Possible PROVE e \in Available' <=> e \in Available
    BY <1>2, <2>1, <2>2, <2>3, <2>4, <2>5 DEF Available, Good0, Framed
  <2>6. QED
    BY <1>2, <2>5 DEF Available
<1>5. QED
  BY <1>2, <1>3, <1>4

(* What is found has been there to be found. *)
LEMMA FoundIsPossible ==
  ASSUME CacheInv', job \in Jobs, job' = job, NEW g \in Group, g[1] = Index, g[2] \in Scope,
         NEW f \in Parts, Seen(g, f)' = "good" \/ (Scans /\ Seen(g, f)' # "empty")
  PROVE  <<g[2], f>> \in Possible'
<1>1. g = <<Index, g[2]>> /\ Index' = Index /\ Scope' = Scope /\ Parts' = Parts /\ Scans' = Scans
  BY SameJob
<1>2. archives'[g] = "loaded" /\ f \in FileIdsOf(g)'
      /\ Seen(g, f)' = Decodes[content'[g]][g][f]
  BY DEF Seen
<1>3. content'[g] \in Content
  BY <1>2 DEF CacheInv, TypeOK, LoadedIsDeclared
<1>4. f \in DeclaredFiles(table'[Index], g)
  BY <1>2 DEF FileIdsOf
<1>5. \E c \in Content : Good0(g, f, c)'
  BY <1>1, <1>2, <1>3 DEF Good0
<1>6. QED
  BY <1>1, <1>4, <1>5 DEF Possible

(* And what could be had from an untouched archive is found. *)
LEMMA AvailableIsFound ==
  ASSUME CacheInv, CacheInv', job \in Jobs, job' = job, NEW g \in Group, g[1] = Index,
         Obtains(g), Untouched(g), NEW e \in Available', e[1] = g[2]
  PROVE  /\ archives'[g] = "loaded" /\ e[2] \in Parts /\ e[2] \in FileIdsOf(g)'
         /\ e[2] \in FileIds
         /\ Seen(g, e[2])' = "good" \/ (Scans /\ Seen(g, e[2])' # "empty")
<1>1. g = <<Index, e[1]>> /\ g = <<g[1], g[2]>>
      /\ Index' = Index /\ Parts' = Parts /\ Scans' = Scans
  BY SameJob
<1>2. /\ e[2] \in Parts /\ e[2] \in DeclaredFiles(table'[Index], g)
      /\ rowFormat'[g] = "readable" /\ Framed(rowBuild[g], g)'
      /\ Good0(g, e[2], [src |-> "disk", build |-> rowBuild'[g], framed |-> TRUE])
  BY <1>1 DEF Available, Possible, Good0
<1>3. Index \in opened' /\ table'[Index] = TableOf(Index) /\ UNCHANGED disk
  BY CallOpens
<1>4. EntryOf(g) = "declared"
  <2>1. Declares(TableOf(Index), g)
    BY <1>2, <1>3 DEF Declares
  <2>2. QED
    BY <2>1 DEF TableOf, EntryOf, Untouched
<1>5. rowFormat[g] = "readable" /\ Framed(rowBuild[g], g)
  BY <1>1, <1>2, <1>3 DEF Framed, TableOf, disk
<1>6. Load(g[1], g[2], "disk", rowBuild[g])
  <2>1. Read(g[1], g[2])
    BY <1>4 DEF Obtains
  <2>2. MustLoad(g[1], g[2])
    BY <1>1, <1>5 DEF MustLoad
  <2>3. QED
    BY <1>1, <1>4, <1>5, <2>1, <2>2
    DEF Read, ReadUndeclared, ReadFromDisk, ReadFromLive, ReadFails
<1>7. /\ archives'[g] = "loaded"
      /\ content'[g] = [src |-> "disk", build |-> rowBuild[g], framed |-> TRUE]
  BY <1>1, <1>5, <1>6, ArchivesType DEF Load, CacheInv, TypeOK
<1>8. e[2] \in FileIdsOf(g)' /\ e[2] \in FileIds
  BY <1>2, <1>7 DEF FileIdsOf, DeclaredFiles
<1>9. Seen(g, e[2])' = Decodes[content'[g]][g][e[2]]
  BY <1>7, <1>8 DEF Seen
<1>10. QED
  BY <1>2, <1>3, <1>7, <1>8, <1>9 DEF Good0, disk
-----------------------------------------------------------------------------
(* A step of a sweep: what reading the next archive does to what there is  *)
(* to find and to what is left.                                            *)
LEMMA SweepReads ==
  ASSUME DumpTypeOK, CacheInv, CacheInv', TodoIsUntouched, SweptIsOut,
         NEW g \in Group, Sweeping(g), Obtains(g), arrived' = arrived
  PROVE  /\ Possible \subseteq Possible'
         /\ \A f \in Finds(g)' : <<g[2], f>> \in Possible'
         /\ \A e \in Available' \ out :
              \/ e[1] = g[2] /\ e[2] \in Finds(g)'
              \/ e[1] \in todo \ {g[2]}
         /\ \A b \in todo \ {g[2]} : Untouched(<<Index, b>>)' /\ g[2] < b
         /\ Index \in opened'
         /\ Named = {} => Index \in opened /\ table'[Index] = table[Index]
<1>1. /\ job \in Jobs /\ job' = job /\ g = <<Index, g[2]>>
      /\ g[2] \in todo /\ g[2] \in Nat /\ pc = "sweep"
      /\ Index' = Index /\ Parts' = Parts /\ Scans' = Scans /\ Named' = Named
  BY SweepingType, SameJob DEF Sweeping, DumpTypeOK
<1>2. g[1] = Index /\ g[2] \in Scope /\ Untouched(g)
  BY <1>1 DEF TodoIsUntouched, Sweeps
<1>3. [Next]_vars
  BY CallIsStep
<1>4. /\ Index \in opened' /\ table'[Index] = TableOf(Index) /\ UNCHANGED disk
      /\ \A h \in Group : h # g /\ h[1] = Index => archives'[h] = EntryOf(h)
  BY <1>2, CallOpens
<1>5. Index \in opened => Possible' = Possible /\ Available' = Available
  BY <1>1, <1>3, <1>4, AvailableIsKept
<1>6. Possible \subseteq Possible'
  BY <1>1, <1>5, UnopenedOffersNothing
<1>7. ASSUME NEW f \in Finds(g)' PROVE <<g[2], f>> \in Possible'
  <2>1. f \in Parts /\ (Seen(g, f)' = "good" \/ (Scans /\ Seen(g, f)' # "empty"))
    BY <1>1, <1>7 DEF Finds, Good
  <2>2. QED
    BY <1>1, <1>2, <2>1, FoundIsPossible
<1>8. ASSUME NEW e \in Available' \ out, e[1] = g[2] PROVE e[2] \in Finds(g)'
  <2>1. /\ e[2] \in Parts /\ e[2] \in FileIds
        /\ Seen(g, e[2])' = "good" \/ (Scans /\ Seen(g, e[2])' # "empty")
    BY <1>1, <1>2, <1>8, AvailableIsFound
  <2>2. QED
    BY <1>1, <2>1 DEF Finds, Good
<1>9. Named = {} => Index \in opened
  BY <1>1 DEF TodoIsUntouched, Sweeps
<1>10. ASSUME NEW e \in Available' \ out, e[1] # g[2] PROVE e[1] \in todo \ {g[2]}
  <2>1. e[1] \in Scope
    BY <1>1, SameJob DEF Available, Possible
  <2>2. Named = {}
    BY <1>2, <1>10, <2>1, NamedIsOne
  <2>3. e \in Available \ out
    BY <1>5, <1>9, <1>10, <2>2
  <2>4. e[1] \in todo \/ Behind(e)
    BY <1>1, <2>3 DEF SweptIsOut, Sweeps
  <2>5. ~Behind(e)
    <3>1. Behind(e) => Limited /\ Count(out) = job.limit
      BY DEF Behind
    <3>2. More(Count(out))
      BY <1>1, <2>2 DEF Sweeping, Full
    <3>3. Limited => job.limit \in Nat /\ Count(out) \in Nat
      BY <1>1, CountType, JobType DEF DumpTypeOK, Limited
    <3>4. QED
      BY <3>1, <3>2, <3>3 DEF More
  <2>6. QED
    BY <1>10, <2>4, <2>5
<1>11. ASSUME NEW b \in todo \ {g[2]} PROVE Untouched(<<Index, b>>)' /\ g[2] < b
  <2>1. b \in Nat /\ g[2] <= b /\ b \in ArchiveIds
    BY DumperAssumption DEF DumpTypeOK, Sweeping
  <2>2. Named = {}
    BY <1>1, <1>2, NamedIsOne DEF TodoIsUntouched, Sweeps
  <2>3. Index \in opened
    BY <1>9, <2>2
  <2>4. Untouched(<<Index, b>>)
    BY <1>1 DEF TodoIsUntouched, Sweeps
  <2>5. <<Index, b>> \in Group /\ <<Index, b>> # g
    BY <1>1, <2>1, IndexType
  <2>6. archives'[<<Index, b>>] = archives[<<Index, b>>]
    BY <1>4, <2>3, <2>5 DEF EntryOf
  <2>7. table'[Index] = table[Index] /\ Index \in opened'
    BY <1>4, <2>3 DEF TableOf
  <2>8. Untouched(<<Index, b>>)'
    BY <1>1, <2>3, <2>4, <2>6, <2>7 DEF Untouched
  <2>9. g[2] < b
    <3>1. g[2] \in Nat
      BY <1>1
    <3>2. b # g[2]
      BY <1>11
    <3>3. b \in Nat /\ g[2] <= b
      BY <2>1
    <3>4. QED
      BY <3>1, <3>2, <3>3, StrictlyAbove, Zenon
  <2>10. QED
    BY <2>8, <2>9
<1>12. QED
  BY <1>4, <1>6, <1>7, <1>8, <1>9, <1>10, <1>11 DEF TableOf

LEMMA SweptTodo ==
  ASSUME DumpTypeOK, CacheInv, CacheInv', TodoIsUntouched, SweptIsOut,
         NEW g \in Group, Sweeping(g), Obtains(g), arrived' = arrived,
         NEW next, Leaves(g, next), NEW U, out' = out \cup Of(g[2], U)
  PROVE  TodoIsUntouched'
<1>1. /\ job' = job /\ Index' = Index /\ Scope' = Scope /\ Named' = Named
      /\ todo' = todo \ {g[2]}
  BY SameJob DEF Sweeping, Leaves
<1>2. /\ \A b \in todo \ {g[2]} : Untouched(<<Index, b>>)' /\ g[2] < b
      /\ Named = {} => Index \in opened'
  BY SweepReads
<1>3. /\ todo \subseteq Scope /\ todo \subseteq ArchiveIds
      /\ \A d \in out, b \in todo : d[1] < b
  BY SweepingType DEF TodoIsUntouched, Sweeps, DumpTypeOK
<1>4. cur' \notin todo'
  <2>1. cur' \in {g[2], None} /\ None \notin ArchiveIds
    BY DumperAssumption DEF Leaves, None
  <2>2. QED
    BY <1>1, <1>3, <2>1
<1>5. ASSUME NEW d \in out', NEW b \in todo' PROVE d[1] < b
  <2>1. CASE d \in out
    BY <1>1, <1>3, <1>5, <2>1
  <2>2. CASE d \in Of(g[2], U)
    <3>1. d[1] = g[2]
      BY <2>2 DEF Of
    <3>2. g[2] < b
      BY <1>1, <1>2, <1>5
    <3>3. QED
      BY <3>1, <3>2, Zenon
  <2>3. QED
    BY <1>5, <2>1, <2>2
<1>6. \A b \in todo' : Untouched(<<Index, b>>)'
  BY <1>1, <1>2
<1>7. QED
  BY <1>1, <1>2, <1>3, <1>4, <1>5, <1>6 DEF TodoIsUntouched

(* U is what is taken of the archive: all that was found, or what the      *)
(* limit allows.                                                           *)
LEMMA SweptOut ==
  ASSUME DumpTypeOK, CacheInv, CacheInv', TodoIsUntouched, SweptIsOut,
         NEW g \in Group, Sweeping(g), Obtains(g), arrived' = arrived,
         NEW next, Leaves(g, next), NEW U \in SUBSET Finds(g)', out' = out \cup Of(g[2], U),
         Limited => Count(out') <= job.limit,
         \A f \in Finds(g)' \ U :
           Limited /\ Count(out') = job.limit /\ \A t \in U : t < f
  PROVE  SweptIsOut'
<1>1. /\ job' = job /\ Limited' = Limited /\ Whole' = Whole /\ todo' = todo \ {g[2]}
      /\ pc = "sweep" /\ g[2] \in todo
  BY SameJob DEF Sweeping, Leaves
<1>2. Count(out)' = Count(out')
  BY <1>1 DEF Count
<1>3. /\ Possible \subseteq Possible'
      /\ \A f \in Finds(g)' : <<g[2], f>> \in Possible'
      /\ \A e \in Available' \ out :
           \/ e[1] = g[2] /\ e[2] \in Finds(g)'
           \/ e[1] \in todo \ {g[2]}
  BY SweepReads
<1>4. out' \subseteq Possible'
  <2>1. out \subseteq Possible
    BY <1>1 DEF SweptIsOut, Sweeps
  <2>2. Of(g[2], U) \subseteq Possible'
    BY <1>3 DEF Of
  <2>3. QED
    BY <1>3, <2>1, <2>2
<1>5. ASSUME NEW e \in Available' \ out' PROVE e[1] \in todo' \/ Behind(e)'
  <2>1. CASE e[1] \in todo \ {g[2]}
    BY <1>1, <2>1
  <2>2. CASE e[1] = g[2] /\ e[2] \in Finds(g)'
    <3>1. e = <<e[1], e[2]>>
      BY <1>5 DEF Available, Possible
    <3>2. e[2] \in Finds(g)' \ U
      <4>1. e \notin Of(g[2], U)
        BY <1>5
      <4>2. QED
        BY <2>2, <3>1, <4>1 DEF Of
    <3>3. Limited /\ Count(out') = job.limit /\ \A t \in U : t < e[2]
      BY <3>2
    <3>4. ASSUME NEW d \in out' PROVE Before(d, e)
      <4>1. CASE d \in out
        <5>1. d[1] < g[2]
          BY <1>1, <4>1 DEF TodoIsUntouched, Sweeps
        <5>2. d[1] < e[1]
          BY <2>2, <5>1
        <5>3. QED
          BY <5>2 DEF Before
      <4>2. CASE d \in Of(g[2], U)
        <5>1. d[1] = g[2] /\ d[2] \in U
          BY <4>2 DEF Of
        <5>2. QED
          BY <2>2, <3>3, <5>1, Zenon DEF Before
      <4>3. QED
        BY <3>4, <4>1, <4>2
    <3>5. QED
      BY <1>1, <1>2, <3>3, <3>4 DEF Behind
  <2>3. QED
    BY <1>3, <1>5, <2>1, <2>2
<1>6. QED
  BY <1>1, <1>2, <1>4, <1>5 DEF SweptIsOut

(* Nothing in out is of an archive that is still to come. *)
LEMMA NotYetOut ==
  ASSUME DumpTypeOK, TodoIsUntouched, pc = "sweep", NEW a \in todo, NEW d \in out
  PROVE  d[1] # a
<1>1. d[1] < a /\ a \in Nat /\ d[1] \in Nat
  BY DumperAssumption DEF TodoIsUntouched, Sweeps, DumpTypeOK, Entries
<1>2. QED
  BY <1>1

LEMMA SweepFilesTakes ==
  ASSUME DumpTypeOK, CacheInv, CacheInv', TodoIsUntouched, SweptIsOut,
         NEW g \in Group, SweepFiles(g), pc' # "off"
  PROVE  TodoIsUntouched' /\ SweptIsOut'
<1> DEFINE before == {f \in Finds(g)' : \A h \in Chokes(g)' : f < h}
           U      == UpToLimit(before)
<1>1. /\ Sweeping(g) /\ Obtains(g) /\ Swept(g) /\ arrived' = arrived /\ ~Whole
      /\ out' = out \cup Of(g[2], U)
      /\ ~\E f \in Chokes(g)' : Reached(before, f) /\ \A h \in Chokes(g)' : f <= h
  BY DEF SweepFiles, Exits, history
<1>2. /\ job \in Jobs /\ out \in SUBSET Entries /\ pc = "sweep"
      /\ g[2] \in todo /\ g[2] \in ArchiveIds
  BY <1>1, SweepingType DEF DumpTypeOK
<1>3. before \in SUBSET FileIds /\ before \subseteq Finds(g)' /\ Chokes(g)' \subseteq Nat
  BY FindsType, DumperAssumption DEF Chokes, Bad
<1>4. Limited => Count(out) <= job.limit
  BY <1>2 DEF SweptIsOut, Sweeps
<1> HIDE DEF before
<1>5. /\ U \in SUBSET before /\ IsFiniteSet(U) /\ Cardinality(U) \in Nat
      /\ Limited => Count(out) + Cardinality(U) <= job.limit
      /\ \A f \in before \ U :
           Limited /\ Count(out) + Cardinality(U) = job.limit /\ \A t \in U : t < f
      /\ \A m \in Nat : ~Reached(before, m) /\ (\A h \in before : h < m) =>
           Limited /\ Count(out) + Cardinality(U) = job.limit
  BY <1>2, <1>3, <1>4, LimitCuts
<1> HIDE DEF U
<1>6. Count(out') = Count(out) + Cardinality(U)
  <2>1. \A d \in out : d[1] # g[2]
    BY <1>2, NotYetOut
  <2>2. U \in SUBSET FileIds
    BY <1>3, <1>5
  <2>3. QED
    BY <1>1, <1>2, <2>1, <2>2, CountAdds
<1>7. ASSUME NEW f \in Finds(g)' \ U
      PROVE  Limited /\ Count(out') = job.limit /\ \A t \in U : t < f
  <2>1. CASE f \in before
    BY <1>5, <1>6, <1>7, <2>1
  <2>2. CASE f \notin before
    <3>1. PICK h \in Chokes(g)' : ~(f < h)
      BY <1>7, <2>2 DEF before
    <3>2. PICK m \in Chokes(g)' : \A k \in Chokes(g)' : m <= k
      BY <1>3, <3>1, LeastExists
    <3>3. ~Reached(before, m) /\ m \in Nat
      BY <1>1, <1>3, <3>2
    <3>4. \A k \in before : k < m
      BY <3>2 DEF before
    <3>5. Limited /\ Count(out') = job.limit
      BY <1>5, <1>6, <3>3, <3>4
    <3>6. ASSUME NEW t \in U PROVE t < f
      <4>1. t \in Nat /\ t < m
        BY <1>3, <1>5, <3>4, DumperAssumption
      <4>2. m \in Nat /\ h \in Nat /\ f \in Nat /\ m <= h /\ ~(f < h)
        BY <1>3, <1>7, <3>1, <3>2, FindsType, DumperAssumption
      <4>3. QED
        BY <4>1, <4>2
    <3>7. QED
      BY <3>5, <3>6
  <2>3. QED
    BY <2>1, <2>2
<1>8. Limited => Count(out') <= job.limit
  BY <1>5, <1>6
<1>9. U \in SUBSET Finds(g)'
  BY <1>3, <1>5
<1>10. PICK next : Leaves(g, next)
  BY <1>1 DEF Swept
<1>11. QED
  BY <1>1, <1>7, <1>8, <1>9, <1>10, SweptTodo, SweptOut

LEMMA SweepArchiveTakes ==
  ASSUME DumpTypeOK, CacheInv, CacheInv', TodoIsUntouched, SweptIsOut,
         NEW g \in Group, SweepArchive(g), pc' # "off"
  PROVE  TodoIsUntouched' /\ SweptIsOut'
<1> DEFINE U == Finds(g)'
<1>1. /\ Sweeping(g) /\ Obtains(g) /\ (Swept(g) \/ Leaves(g, "write"))
      /\ arrived' = arrived /\ Whole /\ out' = out \cup Of(g[2], U)
  BY DEF SweepArchive, Exits, history
<1>2. /\ job \in Jobs /\ out \in SUBSET Entries /\ pc = "sweep"
      /\ g[2] \in todo /\ g[2] \in ArchiveIds
  BY <1>1, SweepingType DEF DumpTypeOK
<1>3. ASSUME Limited PROVE Count(out') <= job.limit
  <2>1. job.type = "if" /\ job.id = None
    BY <1>1, <1>3 DEF Limited, Whole
  <2>2. Named = {}
    BY <2>1 DEF Named
  <2>3. Count(out) < job.limit
    BY <1>1, <1>3, <2>2 DEF Sweeping, Full, More
  <2>4. Count(out') <= Count(out) + 1
    <3>1. \A d \in out : d[1] # g[2]
      BY <1>2, NotYetOut
    <3>2. U \in SUBSET FileIds
      BY FindsType
    <3>3. QED
      BY <1>1, <1>2, <3>1, <3>2, CountAdds
  <2>5. Count(out) \in Nat /\ job.limit \in Nat /\ Count(out') \in Nat
    <3>1. out' \in SUBSET Entries
      BY <1>1, <1>2, FindsType, OfType
    <3>2. QED
      BY <1>2, <1>3, <3>1, CountType, JobType DEF Limited
  <2>6. QED
    BY <2>3, <2>4, <2>5
<1>4. U \in SUBSET Finds(g)' /\ U \in SUBSET FileIds
  BY FindsType
<1>5. \A f \in Finds(g)' \ U :
        Limited /\ Count(out') = job.limit /\ \A t \in U : t < f
  OBVIOUS
<1> HIDE DEF U
<1>6. PICK next : Leaves(g, next)
  BY <1>1 DEF Swept
<1>7. QED
  BY <1>1, <1>3, <1>4, <1>5, <1>6, SweptTodo, SweptOut
-----------------------------------------------------------------------------
(* The rows: what the provider holds, and what is dumped of it.            *)
LEMMA RowsScope ==
  ASSUME job \in Jobs, job.type = "dbrow"
  PROVE  /\ Rows \in Group /\ Rows[1] = Index /\ Rows = <<Index, Rows[2]>>
         /\ Named = {} /\ Scope = {Rows[2]} /\ ~Scans /\ ~Whole /\ ~IntoDir /\ ~IntoFile
<1>1. Rows \in Group /\ Rows[1] = Index /\ Rows = <<Index, Rows[2]>>
  BY RowsType
<1>2. Named = {}
  BY DEF Named
<1>3. QED
  BY <1>1, <1>2 DEF Scope, Scans, Whole, IntoDir, IntoFile

LEMMA LoadRowsReads ==
  ASSUME DumpTypeOK, CacheInv, CacheInv', BeginsFresh, LoadRows, pc' # "off"
  PROVE  RowsAreRead'
<1>1. /\ pc = "begin" /\ job.type = "dbrow" /\ job' = job /\ job \in Jobs
      /\ Obtains(Rows) /\ rows' = Good(Rows)' /\ out' = out /\ arrived' = arrived
  BY DEF LoadRows, Exits, DumpTypeOK, history
<1>2. out' = {} /\ Untouched(Rows)
  BY <1>1, RowsScope DEF BeginsFresh, Untouched
<1>3. /\ Rows \in Group /\ Rows[1] = Index /\ Scope = {Rows[2]} /\ ~Scans
      /\ Index' = Index /\ Parts' = Parts /\ Scope' = Scope /\ Scans' = Scans
  BY <1>1, RowsScope, SameJob
<1>4. Index \in opened'
  BY <1>1, <1>3, CallOpens
<1>5. ASSUME NEW f \in rows' \cap Parts PROVE <<Rows[2], f>> \in Possible'
  <2>1. Seen(Rows, f)' = "good" /\ Rows[2] \in Scope
    BY <1>1, <1>3, <1>5 DEF Good
  <2>2. QED
    BY <1>1, <1>3, <1>5, <2>1, FoundIsPossible
<1>6. ASSUME NEW e \in Available' PROVE e[2] \in rows'
  <2>1. e[1] = Rows[2]
    BY <1>3, <1>6 DEF Available, Possible
  <2>2. e[2] \in FileIds /\ Seen(Rows, e[2])' = "good"
    BY <1>1, <1>2, <1>3, <1>6, <2>1, AvailableIsFound
  <2>3. QED
    BY <1>1, <2>2 DEF Good
<1>7. rows' # {} => archives'[Rows] = "loaded"
  BY <1>1 DEF Good, Seen
<1>8. QED
  BY <1>2, <1>3, <1>4, <1>5, <1>6, <1>7 DEF RowsAreRead

LEMMA DumpRowsTakes ==
  ASSUME DumpTypeOK, CacheInv, CacheInv', JobAllows, RowsAreRead, DumpRows, pc' # "off"
  PROVE  TodoIsUntouched' /\ SweptIsOut'
<1> DEFINE S == rows \cap FileIdsOf(Rows)' \cap Parts
           U == UpToLimit(S)
<1>1. /\ pc = "rows" /\ job.type = "dbrow" /\ job' = job /\ job \in Jobs
      /\ Obtains(Rows) /\ arrived' = arrived /\ out' = Of(Rows[2], U)
      /\ todo' = {} /\ out = {} /\ Index \in opened /\ rows \in SUBSET FileIds
  BY DEF DumpRows, Exits, GoesOn, DumpTypeOK, JobAllows, RowsAreRead, history
<1>2. /\ Rows \in Group /\ Rows = <<Index, Rows[2]>> /\ Rows[1] = Index /\ Named = {}
      /\ Scope = {Rows[2]} /\ ~Whole /\ Rows[2] \in ArchiveIds
      /\ Index' = Index /\ Scope' = Scope /\ Parts' = Parts /\ Limited' = Limited
      /\ Whole' = Whole
  BY <1>1, RowsScope, SameJob
<1>3. Possible' = Possible /\ Available' = Available /\ Index \in opened'
  BY <1>1, <1>2, CallOpens, CallIsStep, AvailableIsKept
<1>4. S \in SUBSET FileIds
  BY <1>1
<1>5. TodoIsUntouched'
  BY <1>1, <1>2, <1>3 DEF TodoIsUntouched
<1>6. ASSUME NEW e \in Available PROVE e = <<Rows[2], e[2]>> /\ e[2] \in S
  <2>1. e \in Scope \X Parts /\ e[2] \in DeclaredFiles(table[Index], <<Index, e[1]>>)
    BY DEF Available, Possible
  <2>2. e = <<Rows[2], e[2]>> /\ <<Index, e[1]>> = Rows
    BY <1>2, <2>1
  <2>3. e[2] \in rows /\ archives[Rows] = "loaded"
    BY <1>1 DEF RowsAreRead
  <2>4. UNCHANGED cache
    BY <1>1, <1>2, <2>3 DEF Obtains, EntryOf
  <2>5. e[2] \in FileIdsOf(Rows)'
    BY <1>2, <2>1, <2>2, <2>3, <2>4 DEF FileIdsOf, cache, client
  <2>6. QED
    BY <2>1, <2>2, <2>3, <2>5
<1>7. \A f \in S : <<Rows[2], f>> \in Possible
  BY <1>1 DEF RowsAreRead
<1> HIDE DEF S
<1>8. Limited => Count(out) <= job.limit
  BY <1>1, CountEmpty, JobType DEF Limited, None
<1>9. /\ U \in SUBSET S /\ IsFiniteSet(U) /\ Cardinality(U) \in Nat
      /\ Limited => Count(out) + Cardinality(U) <= job.limit
      /\ \A f \in S \ U :
           Limited /\ Count(out) + Cardinality(U) = job.limit /\ \A t \in U : t < f
  BY <1>1, <1>4, <1>8, LimitCuts
<1> HIDE DEF U
<1>10. Count(out)' = Count(out) + Cardinality(U)
  <2>1. Count(out \cup Of(Rows[2], U)) = Count(out) + Cardinality(U)
    BY <1>1, <1>2, <1>4, <1>9, CountAdds
  <2>2. out' = out \cup Of(Rows[2], U)
    BY <1>1
  <2>3. QED
    BY <1>1, <1>2, <2>1, <2>2 DEF Count
<1>11. out' \subseteq Possible'
  BY <1>1, <1>3, <1>7, <1>9 DEF Of
<1>12. ASSUME NEW e \in Available' \ out' PROVE Behind(e)'
  <2>1. e = <<Rows[2], e[2]>> /\ e[2] \in S
    BY <1>3, <1>6, <1>12
  <2>2. e[2] \in S \ U
    BY <1>1, <1>12, <2>1 DEF Of
  <2>3. Limited /\ Count(out)' = job.limit /\ \A t \in U : t < e[2]
    BY <1>9, <1>10, <2>2
  <2>4. \A d \in out' : d[1] = e[1] /\ d[2] < e[2]
    BY <1>1, <2>1, <2>3 DEF Of
  <2>5. QED
    BY <1>1, <1>2, <2>3, <2>4 DEF Behind, Before
<1>13. QED
  BY <1>1, <1>2, <1>5, <1>9, <1>10, <1>11, <1>12 DEF SweptIsOut
-----------------------------------------------------------------------------
(* The other steps: nothing is claimed of a process that has begun or       *)
(* failed.                                                                 *)
LEMMA NothingClaimed ==
  ASSUME pc' \in {"off", "begin", "model", "print"},
         pc' \in {"off", "print"} => todo' = {} /\ ~Done'
  PROVE  Progress'
BY DEF Progress, TodoIsUntouched, RowsAreRead, SweptIsOut, Sweeps, Done

LEMMA FailureClaimsNothing ==
  ASSUME NEW code \in {1, 2, Killed, Aborted}, Exits(code)
  PROVE  Progress'
BY NothingClaimed DEF Exits, Done, Killed, Aborted

LEMMA SameCount ==
  ASSUME job' = job, out' = out
  PROVE  Count(out)' = Count(out) /\ \A e : Behind(e)' <=> Behind(e)
<1>1. Limited' = Limited /\ Whole' = Whole
  BY SameJob
<1>2. Count(out)' = Count(out)
  BY <1>1 DEF Count
<1>3. QED
  BY <1>1, <1>2 DEF Behind, Before

LEMMA OutIsKept ==
  ASSUME SweptIsOut, Sweeps \/ Done, job' = job, out' = out, todo' = todo,
         Possible' = Possible, Available' = Available
  PROVE  SweptIsOut'
<1>1. Limited' = Limited
  BY SameJob
<1>2. Count(out)' = Count(out) /\ \A e : Behind(e)' <=> Behind(e)
  BY SameCount
<1>3. QED
  BY <1>1, <1>2 DEF SweptIsOut

(* A sweep begins with all there is to find ahead of it. *)
LEMMA SweepBegins ==
  ASSUME job \in Jobs, job' = job, pc' = "sweep", out' = {},
         \A e \in Available' : e[1] \in todo'
  PROVE  SweptIsOut'
<1>1. Limited' = Limited /\ Whole' = Whole
  BY SameJob
<1>2. Count(out)' = 0
  BY <1>1, CountEmpty DEF Count
<1>3. Limited => 0 <= job.limit
  BY JobType DEF Limited
<1>4. QED
  BY <1>1, <1>2, <1>3 DEF SweptIsOut

LEMMA BeginNamedClaims ==
  ASSUME DumpTypeOK, BeginsFresh, BeginNamed
  PROVE  Progress'
<1>1. /\ job \in Jobs /\ job' = job /\ pc' = "sweep" /\ cur' = cur /\ todo' = Named
      /\ UNCHANGED cache /\ out' = out /\ Named # {} /\ pc = "begin" /\ cur = None
  BY DEF BeginNamed, GoesOn, DumpTypeOK
<1>2. /\ Index' = Index /\ Named' = Named /\ Scope' = Scope /\ Scope = Named
  BY <1>1, SameJob DEF Scope
<1>3. out' = {} /\ \A b \in ArchiveIds : Untouched(<<Index, b>>)'
  <2>1. opened' = {} /\ out' = {} /\ \A g \in Group : archives'[g] = "absent"
    BY <1>1 DEF BeginsFresh, cache, client
  <2>2. Index \in IndexIds
    BY <1>1, IndexType
  <2>3. QED
    BY <1>2, <2>1, <2>2 DEF Untouched
<1>4. cur' \notin todo' /\ todo' \subseteq ArchiveIds
  BY <1>1, NamedType, DumperAssumption DEF None
<1>5. TodoIsUntouched'
  BY <1>1, <1>2, <1>3, <1>4 DEF TodoIsUntouched
<1>6. \A e \in Available' : e[1] \in todo'
  BY <1>1, <1>2 DEF Available, Possible
<1>7. QED
  BY <1>1, <1>3, <1>5, <1>6, SweepBegins DEF Progress, RowsAreRead

LEMMA BeginSweepClaims ==
  ASSUME DumpTypeOK, CacheInv, BeginsFresh, BeginSweep
  PROVE  Progress'
<1>1. CASE \E code \in {1, Aborted} : Exits(code)
  BY <1>1, FailureClaimsNothing
<1>2. CASE ~\E code \in {1, Aborted} : Exits(code)
  <2>1. /\ job \in Jobs /\ job' = job /\ pc' = "sweep" /\ cur' = cur /\ pc = "begin"
        /\ Lists(Index) /\ todo' = Listed(Index)' /\ out' = out /\ cur = None
        /\ Named = {} /\ job.type \notin {"dbrow", "itemicon"} /\ Index \in IndexIds
    BY <1>2, IndexType DEF BeginSweep, GoesOn, DumpTypeOK
  <2>2. Index' = Index /\ Named' = Named /\ Scope' = Scope /\ Scope = ArchiveIds
    BY <2>1, SameJob DEF Scope
  <2>3. opened = {} /\ out' = {}
    BY <2>1 DEF BeginsFresh
  <2>4. OpenIndex(Index)
    BY <2>1, <2>3 DEF Lists
  <2>5. /\ Index \in opened' /\ table'[Index] = OpenTable(Index)
        /\ archives' = Archives(Index)
    BY <2>1, <2>3, <2>4 DEF OpenIndex, Opens, TableOf, CacheInv, TypeOK
  <2>6. \A b \in ArchiveIds : Untouched(<<Index, b>>)'
    BY <2>1, <2>2, <2>3, <2>5 DEF Untouched, Archives, EntryOf
  <2>7. todo' \subseteq ArchiveIds /\ cur' \notin todo'
    BY <2>1, ListedType, DumperAssumption DEF None
  <2>8. TodoIsUntouched'
    BY <2>1, <2>2, <2>3, <2>5, <2>6, <2>7 DEF TodoIsUntouched
  <2>9. ASSUME NEW e \in Available' PROVE e[1] \in todo'
    <3>1. e[1] \in ArchiveIds /\ DeclaredFiles(table'[Index], <<Index, e[1]>>) # {}
      BY <2>2, <2>9 DEF Available, Possible
    <3>2. QED
      BY <2>1, <2>2, <3>1 DEF Listed, Declares
  <2>10. QED
    BY <2>1, <2>3, <2>8, <2>9, SweepBegins DEF Progress, RowsAreRead
<1>3. QED
  BY <1>1, <1>2

LEMMA EvictionClaims ==
  ASSUME DumpTypeOK, CacheInv, Progress, EvictSwept, pc' # "off"
  PROVE  Progress'
<1>1. /\ job \in Jobs /\ job' = job /\ pc = "evict" /\ pc' = "sweep" /\ cur' = None
      /\ Evict(Index, cur) /\ out' = out /\ todo' = todo /\ arrived' = arrived
      /\ cur \in ArchiveIds /\ Index \in IndexIds /\ Index \in opened
  BY IndexType DEF EvictSwept, Exits, DumpTypeOK, Evict, history
<1>2. Index' = Index /\ Named' = Named /\ Scope' = Scope
  BY <1>1, SameJob
<1>3. UNCHANGED disk /\ [Next]_vars
  BY <1>1, EvictIsStep DEF Evict
<1>4. /\ Possible' = Possible /\ Available' = Available
      /\ Index \in opened' /\ table'[Index] = table[Index]
  BY <1>1, <1>3, AvailableIsKept
<1>5. /\ todo \subseteq Scope /\ cur \notin todo
      /\ \A a \in todo : Untouched(<<Index, a>>)
      /\ \A d \in out, a \in todo : d[1] < a
  BY <1>1 DEF Progress, TodoIsUntouched, Sweeps
<1>6. ASSUME NEW a \in todo PROVE Untouched(<<Index, a>>)'
  <2>1. <<Index, a>> \in Group /\ a # cur
    BY <1>1, <1>5 DEF DumpTypeOK
  <2>2. archives'[<<Index, a>>] = archives[<<Index, a>>]
    BY <1>1, <2>1 DEF Evict, CacheInv, TypeOK
  <2>3. Untouched(<<Index, a>>)
    BY <1>5
  <2>4. QED
    BY <1>1, <1>2, <1>4, <2>2, <2>3 DEF Untouched
<1>7. None \notin todo
  BY DumperAssumption DEF DumpTypeOK, None
<1>8. TodoIsUntouched'
  BY <1>1, <1>2, <1>4, <1>5, <1>6, <1>7 DEF TodoIsUntouched
<1>9. SweptIsOut'
  BY <1>1, <1>4, OutIsKept DEF Progress, Sweeps
<1>10. QED
  BY <1>1, <1>8, <1>9 DEF Progress, RowsAreRead

(* What there is to find does not depend on the process. *)
LEMMA OfferStays ==
  ASSUME job \in Jobs, job' = job, UNCHANGED <<cache, arrived>>
  PROVE  Possible' = Possible /\ Available' = Available
<1>1. Possible' = Possible /\ Index' = Index /\ Scans' = Scans
  BY OfferIsKept, SameJob DEF cache, client
<1>2. \A g : Framed(rowBuild[g], g)' = Framed(rowBuild[g], g)
  BY DEF Framed, TableOf, OpenTable, cache, disk, client
<1>3. QED
  BY <1>1, <1>2 DEF Available, Good0, cache, disk

(* Nor does what is claimed depend on what is written. *)
LEMMA WritingClaims ==
  ASSUME DumpTypeOK, JobAllows, Progress, WritesFile \/ (Prints /\ Done')
  PROVE  Progress'
<1>1. /\ job \in Jobs /\ job' = job /\ UNCHANGED <<cache, arrived, out, rows>>
      /\ pc \in {"write", "print"} /\ pc' \in {"sweep", "evict", "off"}
      /\ pc = "write" <=> pc' # "off"
      /\ cur' \in {cur, None}
  BY DEF WritesFile, Prints, Exits, DumpTypeOK
<1>2. todo' = todo
  BY <1>1 DEF WritesFile, Prints, Exits, Progress
<1>3. Possible' = Possible /\ Available' = Available
  BY <1>1, OfferStays
<1>4. Sweeps \/ Done
  <2>1. CASE WritesFile
    BY <2>1 DEF WritesFile, Sweeps
  <2>2. CASE Prints /\ Done'
    BY <1>1, <2>2 DEF Prints, Done
  <2>3. QED
    BY <2>1, <2>2
<1>5. SweptIsOut'
  BY <1>1, <1>2, <1>3, <1>4, OutIsKept DEF Progress
<1>6. CASE pc = "write"
  <2>1. Index' = Index /\ Scope' = Scope /\ Named' = Named
    BY <1>1, SameJob
  <2>2. \A a : Untouched(<<Index, a>>)' <=> Untouched(<<Index, a>>)
    BY <1>1, <2>1 DEF Untouched, cache, client
  <2>3. None \notin todo
    BY DumperAssumption DEF DumpTypeOK, None
  <2>4. TodoIsUntouched'
    BY <1>1, <1>2, <1>6, <2>1, <2>2, <2>3
    DEF Progress, TodoIsUntouched, Sweeps, cache, client
  <2>5. pc' \in {"sweep", "evict"}
    BY <1>1, <1>6
  <2>6. QED
    BY <1>5, <2>4, <2>5 DEF Progress, RowsAreRead
<1>7. CASE pc = "print"
  <2>1. pc' = "off" /\ todo = {}
    BY <1>1, <1>7 DEF Progress
  <2>2. QED
    BY <1>2, <1>5, <2>1 DEF Progress, TodoIsUntouched, RowsAreRead, Sweeps
<1>8. QED
  BY <1>1, <1>6, <1>7

(* At the end there is nothing ahead, or it is behind the limit. *)
LEMMA DoneClaims ==
  ASSUME DumpTypeOK, Progress, SweepDone
  PROVE  Progress'
<1>1. /\ job \in Jobs /\ job' = job /\ pc = "sweep" /\ pc' \in {"off", "print"} /\ todo' = {}
      /\ UNCHANGED <<cache, arrived>> /\ out' = out /\ (todo = {} \/ Full)
  BY DEF SweepDone, Exits, GoesOn, DumpTypeOK, history
<1>2. Limited' = Limited
  BY <1>1, SameJob
<1>3. Possible' = Possible /\ Available' = Available
  BY <1>1, OfferStays
<1>6. Count(out)' = Count(out) /\ \A e : Behind(e)' <=> Behind(e)
  BY <1>1, SameCount
<1>7. ASSUME NEW e \in Available \ out, e[1] \in todo PROVE Behind(e)
  <2>1. Full
    BY <1>1, <1>7
  <2>2. Limited /\ ~(Count(out) < job.limit)
    BY <2>1 DEF Full, More
  <2>3. Count(out) \in Nat /\ job.limit \in Nat /\ Count(out) <= job.limit
    BY <1>1, <2>2, CountType, JobType DEF DumpTypeOK, Limited, Progress, SweptIsOut, Sweeps
  <2>4. Count(out) = job.limit
    BY <2>2, <2>3, StrictlyAbove, Zenon
  <2>5. \A d \in out : d[1] < e[1]
    BY <1>1, <1>7 DEF Progress, TodoIsUntouched, Sweeps
  <2>6. QED
    BY <2>2, <2>4, <2>5 DEF Behind, Before
<1>8. SweptIsOut'
  BY <1>1, <1>2, <1>3, <1>6, <1>7 DEF Progress, SweptIsOut, Sweeps
<1>9. QED
  BY <1>1, <1>8 DEF Progress, TodoIsUntouched, RowsAreRead, Sweeps

LEMMA UntouchedClaims ==
  ASSUME DumpTypeOK, CacheInv, Progress, Environment \/ UNCHANGED all
  PROVE  Progress'
<1>1. UNCHANGED <<process, client>> /\ job' = job /\ job \in Jobs
  BY DEF Environment, all, process, cache, LinkChanges, RefStored, RowStored, DumpTypeOK
<1>2. Possible' = Possible /\ Available' = Available
  <2>1. CASE Environment
    BY <2>1, EnvironmentOffersNothing
  <2>2. CASE UNCHANGED all
    <3>1. UNCHANGED <<cache, arrived>>
      BY <2>2 DEF all, history
    <3>2. QED
      BY <1>1, <3>1, OfferStays
  <2>3. QED
    BY <2>1, <2>2
<1>3. /\ Index' = Index /\ Scope' = Scope /\ Parts' = Parts /\ Limited' = Limited
      /\ Named' = Named
  BY <1>1, SameJob
<1>4. TodoIsUntouched'
  <2>1. \A a : Untouched(<<Index, a>>)' <=> Untouched(<<Index, a>>)
    BY <1>1, <1>3 DEF Untouched, client
  <2>2. QED
    BY <1>1, <1>3, <2>1 DEF Progress, TodoIsUntouched, Sweeps, process, client
<1>5. RowsAreRead'
  BY <1>1, <1>2, <1>3 DEF Progress, RowsAreRead, process, client
<1>6. SweptIsOut'
  <2>1. Sweeps' = Sweeps /\ Done' = Done
    BY <1>1 DEF Sweeps, Done, process
  <2>2. out' = out /\ todo' = todo
    BY <1>1 DEF process
  <2>3. QED
    BY <1>1, <1>2, <2>1, <2>2, OutIsKept DEF Progress, SweptIsOut
<1>7. QED
  BY <1>1, <1>4, <1>5, <1>6 DEF Progress, process
-----------------------------------------------------------------------------
(* The outputs follow out.                                                 *)
LEMMA NothingWritten ==
  ASSUME ~Sweeps', ~Done', pc' # "print"
  PROVE  Outputs'
BY DEF Outputs, FileIsOut, DirIsOut

(* A sweep begins with an empty stream, and with the directory as earlier  *)
(* runs have left it.                                                      *)
LEMMA FoundStep == DirIsAsFound /\ [DumpNext]_all => DirIsAsFound'
<1> SUFFICES ASSUME DirIsAsFound, [DumpNext]_all, pc' = "begin"
             PROVE  dir' = was'.dir
  BY DEF DirIsAsFound
<1>1. CASE \E j \in Jobs : Start(j)
  BY <1>1 DEF Start, outputs
<1>2. CASE Environment \/ UNCHANGED all
  BY <1>2 DEF DirIsAsFound, Environment, all, process, outputs, history
<1>3. CASE DumpNext /\ ~(Environment \/ \E j \in Jobs : Start(j))
  BY <1>3
  DEF DumpNext, Refuse, BeginNamed, BeginSweep, OutputFails, SweepFiles, SweepArchive, Swept,
      Leaves, WritesFile, EvictSwept, SweepDone, Prints, LoadRows, DumpRows, IconItem, IconModel,
      Kill, Exits, GoesOn
<1>4. QED
  BY <1>1, <1>2, <1>3

LEMMA BeginsCurrent ==
  ASSUME job' = job, pc' = "sweep", cur' = None, out' = {}, dir' = was'.dir,
         Listed(Index)' \ todo' = {}, job.type = "if" /\ IntoDir => todo' \subseteq Listed(Index)'
  PROVE  DirIsOut'
<1>1. IntoDir' = IntoDir
  BY SameJob
<1>2. \A own : FoundFor(own)' = {}
  BY DEF FoundFor, FoundIn
<1>3. \A own : Current(own)'
  BY <1>2 DEF Current
<1>4. \A own : AtHand(own)'
  BY DEF AtHand
<1>5. QED
  BY <1>1, <1>3, <1>4 DEF DirIsOut

LEMMA NamedBeginsEmpty ==
  ASSUME DumpTypeOK, CacheInv, BeginsFresh, DirIsAsFound, BeginNamed
  PROVE  Outputs'
<1>1. /\ job' = job /\ pc' = "sweep" /\ pc = "begin" /\ Named # {} /\ job \in Jobs
      /\ UNCHANGED <<cache, out, dir, was>> /\ cur' = cur /\ cur = None /\ ~Refused
  BY DEF BeginNamed, GoesOn, DumpTypeOK, outputs, history
<1>2. out' = {} /\ opened = {} /\ dir' = was'.dir
  BY <1>1 DEF BeginsFresh, DirIsAsFound
<1>3. ~IntoFile'
  <2>1. ASSUME IntoFile PROVE Named = {}
    BY <2>1 DEF Named, Modes, IntoFile
  <2>2. IntoFile' = IntoFile
    BY <1>1, SameJob
  <2>3. QED
    BY <1>1, <2>1, <2>2
<1>4. Listed(Index)' = {}
  <2>1. Index' = Index /\ Index \in IndexIds
    BY <1>1, SameJob, IndexType
  <2>2. table'[Index] = "none"
    BY <1>1, <1>2, <2>1 DEF CacheInv, UnopenedIsEmpty, cache, client
  <2>3. QED
    BY <2>1, <2>2, BuildsAssumption DEF Listed, Declares, DeclaredFiles
<1>5. ~(job.type = "if" /\ IntoDir)
  <2>1. ASSUME job.type = "if", IntoDir PROVE Named = {}
    BY <1>1, <2>1 DEF Refused, Named
  <2>2. QED
    BY <1>1, <2>1
<1>6. DirIsOut'
  BY <1>1, <1>2, <1>4, <1>5, BeginsCurrent
<1>7. QED
  BY <1>1, <1>3, <1>6 DEF Outputs, FileIsOut

LEMMA SweepBeginsEmpty ==
  ASSUME DumpTypeOK, BeginsFresh, DirIsAsFound, BeginSweep, pc' # "off"
  PROVE  Outputs'
<1>1. /\ job' = job /\ pc' = "sweep" /\ pc = "begin" /\ todo' = Listed(Index)'
      /\ OpensFile /\ UNCHANGED <<out, dir, was>> /\ cur' = cur /\ cur = None
  BY DEF BeginSweep, GoesOn, Exits, DumpTypeOK, history
<1>2. out' = {} /\ dir' = was'.dir
  BY <1>1 DEF BeginsFresh, DirIsAsFound
<1>3. IntoFile' = IntoFile
  BY <1>1, SameJob
<1>4. IntoFile' => file' = Opened(out')
  BY <1>1, <1>2, <1>3 DEF OpensFile
<1>5. DirIsOut'
  BY <1>1, <1>2, BeginsCurrent
<1>6. QED
  BY <1>1, <1>4, <1>5 DEF Outputs, FileIsOut, Opened

LEMMA RowsWriteNothing ==
  ASSUME DumpTypeOK, JobAllows, DumpRows, pc' # "off"
  PROVE  Outputs'
<1>1. job' = job /\ job \in Jobs /\ job.type = "dbrow" /\ pc' = "sweep"
  BY DEF DumpRows, Exits, GoesOn, JobAllows, DumpTypeOK
<1>2. ~IntoFile' /\ ~IntoDir'
  BY <1>1, RowsScope, SameJob
<1>3. QED
  BY <1>1, <1>2 DEF Outputs, FileIsOut, DirIsOut, Done

LEMMA FilesAreStreamed ==
  ASSUME DumpTypeOK, Outputs, NEW g \in Group, SweepFiles(g), pc' # "off"
  PROVE  Outputs'
<1>1. pc = "sweep" /\ pc' \in {"sweep", "evict"} /\ job' = job /\ ~Whole
  BY SweepingType DEF SweepFiles, Swept, Leaves, Sweeping, Exits
<1>2. PICK taken : out' = out \cup taken /\ Streams(taken)
  BY <1>1 DEF SweepFiles, Exits
<1>3. IntoFile' = IntoFile /\ IntoDir' = IntoDir /\ ~IntoDir
  BY <1>1, SameJob DEF IntoDir, Whole
<1>4. IntoFile => file = Opened(out)
  BY <1>1 DEF Outputs, FileIsOut, Sweeps
<1>5. IntoFile => file' = Opened(out')
  <2>1. IntoFile => file.entries = out
    BY <1>4 DEF Opened
  <2>2. IntoFile => file' = Opened(file.entries \cup taken)
    BY <1>2 DEF Streams
  <2>3. QED
    BY <1>2, <2>1, <2>2
<1>6. QED
  BY <1>1, <1>3, <1>5 DEF Outputs, FileIsOut, DirIsOut, Done, Opened

(* The directory follows out from one archive to the next: an archive at   *)
(* hand may have a file that is not what it should be, the others have not. *)
LEMMA DirStep ==
  ASSUME JobAllows, DirIsOut, Sweeps, IntoDir, job' = job, was' = was,
         lost => lost', job.type = "if" => Listed(Index)' = Listed(Index),
         NEW a \in ArchiveIds, NEW at, at = <<job.type, a>>, a \notin todo', todo' \in {todo, todo \ {a}},
         \A e : e[1] # a => (e \in out' <=> e \in out),
         \A b \in ArchiveIds : b # a => cur # b /\ cur' # b,
         \A own \in {"if", "gameval"} \X ArchiveIds : own # at => dir'[own] = dir[own],
         IF cur' = a THEN AtHand(at)' ELSE Current(at)',
         job.type = "if" => (cur' = None \/ cur' \in Listed(Index))
  PROVE  DirIsOut'
<1>1. IntoDir' = IntoDir
  BY SameJob
<1>2. ASSUME NEW own \in {"if", "gameval"} \X ArchiveIds, own # at
      PROVE  Current(own)' /\ own # <<job.type, cur'>>
  <2>1. own = <<own[1], own[2]>> /\ own[2] \in ArchiveIds /\ dir'[own] = dir[own]
    BY <1>2
  <2>2. own # <<job.type, cur>> /\ own # <<job.type, cur'>>
    <3>1. own[1] = job.type => own[2] # a
      BY <1>2, <2>1
    <3>2. own[1] = job.type => own[2] # cur /\ own[2] # cur'
      BY <2>1, <3>1
    <3>3. QED
      BY <2>1, <3>2
  <2>3. Current(own)
    BY <2>2 DEF DirIsOut
  <2>4. FoundFor(own)' = FoundFor(own)
    <3>1. CASE own[1] = job.type
      <4>1. own[2] # a
        BY <1>2, <2>1, <3>1
      <4>2. FoundIn(own[2])' = FoundIn(own[2])
        BY <4>1 DEF FoundIn
      <4>3. QED
        BY <4>2 DEF FoundFor
    <3>2. CASE own[1] # job.type
      BY <3>2 DEF FoundFor
    <3>3. QED
      BY <3>1, <3>2
  <2>5. own[1] = job.type => (own[2] \in todo' <=> own[2] \in todo)
    BY <1>2, <2>1
  <2>6. Written(own, FoundFor(own)) => Written(own, FoundFor(own))'
    BY <2>1, <2>4 DEF Written
  <2>7. Current(own)'
    BY <2>1, <2>3, <2>4, <2>5, <2>6 DEF Current
  <2>8. QED
    BY <2>2, <2>7
<1>3. ASSUME NEW own \in {"if", "gameval"} \X ArchiveIds
      PROVE  IF own = <<job.type, cur'>> THEN AtHand(own)' ELSE Current(own)'
  <2>1. CASE own = at
    <3>1. own = <<job.type, cur'>> <=> cur' = a
      BY <2>1
    <3>2. QED
      BY <2>1, <3>1
  <2>2. CASE own # at
    BY <1>2, <2>2
  <2>3. QED
    BY <2>1, <2>2
<1>4. job.type = "if" => todo \subseteq Listed(Index)
  BY DEF DirIsOut
<1>5. job.type = "if" => todo' \cup ({cur'} \ {None}) \subseteq Listed(Index)'
  BY <1>4
<1>6. QED
  BY <1>1, <1>3, <1>5 DEF DirIsOut

(* The file of an interface is opened and takes what is found of it, that  *)
(* of a gameval group only if something is.                                *)
LEMMA ArchiveIsOpened ==
  ASSUME DumpTypeOK, CacheInv, CacheInv', JobAllows, TodoIsUntouched, SweptIsOut, Outputs,
         NEW g \in Group, SweepArchive(g), pc' # "off"
  PROVE  Outputs'
<1>0. PICK own : own = <<job.type, g[2]>>
  OBVIOUS
<1> DEFINE found == Finds(g)'
<1>1. /\ Sweeping(g) /\ Obtains(g) /\ UNCHANGED <<file, arrived, lost, was>> /\ Whole
      /\ out' = out \cup Of(g[2], found) /\ Chokes(g)' = {}
      /\ IF HasOwnFile(g) THEN Leaves(g, "write") ELSE Swept(g)
  BY DEF SweepArchive, Exits, history
<1>2. /\ pc = "sweep" /\ pc' \in {"sweep", "write", "evict"} /\ job' = job /\ g[2] \in todo
      /\ g[2] \in ArchiveIds /\ todo' = todo \ {g[2]} /\ cur = None /\ cur' \in {None, g[2]}
  BY <1>1, SweepingType DEF Swept, Leaves, Sweeping
<1>3. IntoFile' = IntoFile /\ IntoDir' = IntoDir /\ ~IntoFile
  BY <1>1, <1>2, SameJob DEF Whole, IntoFile
<1>4. FileIsOut'
  BY <1>2, <1>3 DEF FileIsOut
<1>5. CASE ~IntoDir
  BY <1>3, <1>4, <1>5 DEF Outputs, DirIsOut
<1>6. CASE IntoDir
  <2>1. FoundFor(own) = {} /\ FoundFor(own)' = Of(g[2], found)
    <3>1. \A d \in out : d[1] # g[2]
      BY <1>2, NotYetOut
    <3>2. FoundIn(g[2]) = {} /\ FoundIn(g[2])' = Of(g[2], found)
      BY <1>1, <3>1 DEF FoundIn, Of
    <3>3. QED
      BY <1>0, <1>2, <3>2 DEF FoundFor
  <2>2. Of(g[2], found) = {} <=> found = {}
    BY OfNothing
  <2>3. own \in {"if", "gameval"} \X ArchiveIds /\ DOMAIN dir = {"if", "gameval"} \X ArchiveIds
    BY <1>0, <1>2, <1>6 DEF IntoDir, DumpTypeOK, Dir
  <2>4. DirIsOut /\ Sweeps /\ None \notin ArchiveIds
    BY <1>2, DumperAssumption DEF Outputs, Sweeps, None
  <2>5. HasOwnFile(g) <=> job.type = "if" \/ found # {}
    BY <1>1, <1>6 DEF HasOwnFile
  <2>6. dir' = IF HasOwnFile(g) THEN [dir EXCEPT ![own] = Opened(Of(g[2], found))] ELSE dir
    <3>1. {f \in found : \A h \in Chokes(g)' : f < h} = found
      BY <1>1
    <3>2. QED
      BY <1>0, <1>1, <3>1 DEF SweepArchive, Exits
  <2> HIDE DEF found
  <2>7. \A o \in {"if", "gameval"} \X ArchiveIds : o # own => dir'[o] = dir[o]
    BY <2>3, <2>6
  <2>8. IF cur' = g[2] THEN AtHand(own)' ELSE Current(own)'
    <3>1. CASE HasOwnFile(g)
      <4>1. pc' = "write" /\ cur' = g[2]
        BY <1>1, <3>1 DEF Leaves
      <4>2. dir'[own] = Opened(FoundFor(own)')
        BY <2>1, <2>3, <2>6, <3>1
      <4>3. FoundFor(own)' = {} => job'.type = "if"
        BY <1>2, <2>1, <2>2, <2>5, <3>1
      <4>4. QED
        BY <1>2, <4>1, <4>2, <4>3 DEF AtHand
    <3>2. CASE ~HasOwnFile(g)
      <4>1. job.type # "if" /\ found = {}
        BY <2>5, <3>2
      <4>2. ~Evicts
        BY <1>3, <1>6, <4>1 DEF Evicts, Scans, IntoDir
      <4>3. cur' = None
        BY <1>1, <3>2, <4>2 DEF Swept, Leaves
      <4>4. Current(own)
        <5>1. own # <<job.type, cur>>
          BY <1>0, <1>2, <2>4
        <5>2. QED
          BY <1>6, <2>3, <2>4, <5>1 DEF DirIsOut
      <4>5. dir[own] = was.dir[own]
        BY <2>1, <4>1, <4>4 DEF Current
      <4>6. FoundFor(own)' = {} /\ dir'[own] = was'.dir[own]
        BY <1>1, <2>1, <2>2, <2>6, <3>2, <4>1, <4>5
      <4>7. Current(own)'
        BY <1>2, <4>1, <4>6 DEF Current
      <4>8. QED
        BY <1>2, <2>4, <4>3, <4>7
    <3>3. QED
      BY <3>1, <3>2
  <2>9. job.type = "if" => Listed(Index)' = Listed(Index)
    <3>1. job.type = "if" => Named = {}
      BY <1>2, <1>6 DEF JobAllows, Refused, Named
    <3>2. Named = {} => table'[Index] = table[Index]
      BY <1>1, SweepReads
    <3>3. Index' = Index
      BY <1>2, SameJob
    <3>4. QED
      BY <3>1, <3>2, <3>3 DEF Listed
  <2>10. job.type = "if" => g[2] \in Listed(Index)
    BY <1>2, <1>6, <2>4 DEF DirIsOut
  <2>11. \A e : e[1] # g[2] => (e \in out' <=> e \in out)
    BY <1>1 DEF Of
  <2>12. \A b \in ArchiveIds : b # g[2] => cur # b /\ cur' # b
    BY <1>2, <2>4
  <2>13. g[2] \notin todo' /\ todo' \in {todo, todo \ {g[2]}}
    BY <1>2
  <2>14. job.type = "if" => (cur' = None \/ cur' \in Listed(Index))
    BY <1>2, <2>10
  <2>15. DirIsOut'
    BY <1>0, <1>1, <1>2, <1>6, <2>4, <2>7, <2>8, <2>9, <2>11, <2>12, <2>13, <2>14, DirStep
  <2>16. QED
    BY <1>4, <2>15 DEF Outputs
<1>7. QED
  BY <1>5, <1>6

LEMMA ArchiveIsWritten ==
  ASSUME DumpTypeOK, JobAllows, TodoIsUntouched, Outputs, WritesFile
  PROVE  Outputs'
<1>0. PICK a, own : a = cur /\ own = <<job.type, a>>
  OBVIOUS
<1>1. /\ pc = "write" /\ job' = job /\ UNCHANGED <<cache, file, out, todo, was>> /\ IntoDir
      /\ a \in ArchiveIds /\ lost \in BOOLEAN /\ job.type \in {"if", "gameval"}
  BY <1>0, Zenon DEF WritesFile, JobAllows, DumpTypeOK, IntoDir
<1>2. IF Evicts THEN pc' = "evict" /\ cur' = cur ELSE pc' = "sweep" /\ cur' = None
  BY <1>0 DEF WritesFile
<1>3. IntoFile' = IntoFile /\ ~IntoFile /\ None \notin ArchiveIds
  BY <1>1, SameJob, DumperAssumption DEF IntoFile, IntoDir, None
<1>4. FileIsOut'
  BY <1>2, <1>3 DEF FileIsOut
<1>5. own \in {"if", "gameval"} \X ArchiveIds /\ DOMAIN dir = {"if", "gameval"} \X ArchiveIds
  BY <1>0, <1>1 DEF DumpTypeOK, Dir
<1>6. DirIsOut /\ Sweeps /\ a \notin todo
  BY <1>0, <1>1 DEF Outputs, Sweeps, TodoIsUntouched
<1>7. AtHand(own)
  BY <1>0, <1>1, <1>5, <1>6 DEF DirIsOut
<1>8. dir[own] = Opened(FoundFor(own)) /\ (FoundFor(own) = {} => job.type = "if")
  BY <1>1, <1>7 DEF AtHand
<1>9. FoundFor(own)' = FoundFor(own)
  BY <1>1 DEF FoundFor, FoundIn
<1> DEFINE found == FoundFor(own)
<1>10. \/ dir' = [dir EXCEPT ![own].state = "whole"] /\ lost' = lost
       \/ dir' = dir /\ lost' = TRUE
  BY <1>0 DEF WritesFile
<1>11. Written(own, found)'
  <2>1. dir[own].entries = found /\ dir[own].state = "open"
    BY <1>8 DEF Opened
  <2>2. CASE dir' = [dir EXCEPT ![own].state = "whole"]
    <3>1. dir'[own] = [dir[own] EXCEPT !.state = "whole"]
      BY <1>5, <2>2
    <3>2. dir'[own].entries = found /\ dir'[own].state = "whole"
      BY <1>8, <3>1 DEF Opened
    <3>3. QED
      BY <1>9, <3>2 DEF Written
  <2>3. CASE dir' = dir /\ lost' = TRUE
    BY <1>9, <2>1, <2>3 DEF Written
  <2>4. QED
    BY <1>10, <2>2, <2>3
<1>12. IF cur' = a THEN AtHand(own)' ELSE Current(own)'
  <2>1. CASE Evicts
    BY <1>0, <1>1, <1>2, <1>9, <1>11, <2>1 DEF AtHand
  <2>2. CASE ~Evicts
    <3>1. job.type # "if"
      BY <1>1, <2>2 DEF Evicts
    <3>2. FoundFor(own)' # {}
      BY <1>8, <1>9, <3>1
    <3>3. cur' # a
      BY <1>0, <1>1, <1>2, <1>3, <2>2
    <3>4. QED
      BY <1>1, <1>9, <1>11, <3>2, <3>3 DEF Current
  <2>3. QED
    BY <2>1, <2>2
<1>13. Listed(Index)' = Listed(Index)
  BY <1>1, SameJob DEF Listed, cache, client
<1>14. \A o \in {"if", "gameval"} \X ArchiveIds : o # own => dir'[o] = dir[o]
  BY <1>5, <1>10
<1>15. job.type = "if" => (cur' = None \/ cur' \in Listed(Index))
  BY <1>0, <1>1, <1>2, <1>3, <1>6 DEF DirIsOut
<1>16. \A b \in ArchiveIds : b # a => cur # b /\ cur' # b
  BY <1>0, <1>2, <1>3
<1>17. lost => lost'
  BY <1>10
<1>18. a \notin todo' /\ todo' \in {todo, todo \ {a}}
  BY <1>1, <1>6
<1>19. \A e : e[1] # a => (e \in out' <=> e \in out)
  BY <1>1
<1> HIDE DEF found
<1>20. DirIsOut'
  BY <1>0, <1>1, <1>6, <1>12, <1>13, <1>14, <1>15, <1>16, <1>17, <1>18, <1>19, DirStep
<1>21. QED
  BY <1>4, <1>20 DEF Outputs

(* An interface of which nothing was found has no file when it is evicted. *)
LEMMA EmptyIsRemoved ==
  ASSUME DumpTypeOK, JobAllows, TodoIsUntouched, Outputs, EvictSwept, pc' # "off"
  PROVE  Outputs'
<1>0. PICK a, own : a = cur /\ own = <<job.type, a>>
  OBVIOUS
<1>1. /\ pc = "evict" /\ pc' = "sweep" /\ cur' = None /\ job' = job /\ table' = table
      /\ UNCHANGED <<file, out, todo, lost, was>>
      /\ dir' = IF IntoDir /\ FoundIn(a) = {} THEN [dir EXCEPT ![own] = NoFile] ELSE dir
  BY <1>0 DEF EvictSwept, Exits, Evict, history
<1>2. a \in ArchiveIds /\ None \notin ArchiveIds
  <2>1. None \notin ArchiveIds
    BY DumperAssumption DEF None
  <2>2. cur \in ArchiveIds
    BY <1>1, Zenon DEF DumpTypeOK
  <2>3. QED
    BY <1>0, <2>1, <2>2
<1>3. IntoFile' = IntoFile /\ IntoDir' = IntoDir
  BY <1>1, SameJob
<1>4. FileIsOut'
  BY <1>1, <1>3 DEF Outputs, FileIsOut, Sweeps
<1>5. CASE ~IntoDir
  BY <1>3, <1>4, <1>5 DEF Outputs, DirIsOut
<1>6. CASE IntoDir
  <2>1. job.type = "if"
    BY <1>1, <1>6 DEF JobAllows, Evicts, IntoFile, IntoDir, Scans
  <2>2. own \in {"if", "gameval"} \X ArchiveIds /\ DOMAIN dir = {"if", "gameval"} \X ArchiveIds
    BY <1>0, <1>2, <2>1 DEF DumpTypeOK, Dir
  <2>3. DirIsOut /\ Sweeps /\ a \notin todo
    BY <1>0, <1>1 DEF Outputs, Sweeps, TodoIsUntouched
  <2>4. AtHand(own) /\ a \in Listed(Index)
    BY <1>0, <1>2, <1>6, <2>1, <2>2, <2>3 DEF DirIsOut
  <2>5. Listed(Index)' = Listed(Index)
    BY <1>1, SameJob DEF Listed
  <2>6. FoundFor(own) = FoundIn(a) /\ FoundFor(own)' = FoundFor(own)
    BY <1>0, <1>1 DEF FoundFor, FoundIn
  <2>7. Current(own)'
    <3>1. CASE FoundFor(own) # {}
      <4>1. Written(own, FoundFor(own)) /\ dir' = dir
        BY <1>1, <2>4, <2>6, <3>1 DEF AtHand
      <4>2. Written(own, FoundFor(own))'
        BY <1>1, <2>6, <4>1 DEF Written
      <4>3. QED
        BY <1>1, <2>6, <3>1, <4>2 DEF Current
    <3>2. CASE FoundFor(own) = {}
      <4>1. dir'[own] = NoFile
        BY <1>1, <1>6, <2>2, <2>6, <3>2
      <4>2. a \in Listed(Index)' \ todo'
        BY <1>1, <2>3, <2>4, <2>5
      <4>3. QED
        BY <1>0, <1>1, <2>1, <2>6, <3>2, <4>1, <4>2 DEF Current
    <3>3. QED
      BY <3>1, <3>2
  <2>8. \A o \in {"if", "gameval"} \X ArchiveIds : o # own => dir'[o] = dir[o]
    BY <1>1, <2>2
  <2>9. \A b \in ArchiveIds : b # a => cur # b /\ cur' # b
    BY <1>0, <1>1, <1>2
  <2>10. cur' # a
    BY <1>1, <1>2
  <2>11. a \notin todo' /\ todo' \in {todo, todo \ {a}}
    BY <1>1, <2>3
  <2>12. \A e : e[1] # a => (e \in out' <=> e \in out)
    BY <1>1
  <2>13. IF cur' = a THEN AtHand(own)' ELSE Current(own)'
    BY <2>7, <2>10
  <2>14. DirIsOut'
    BY <1>0, <1>1, <1>2, <1>6, <2>3, <2>5, <2>8, <2>9, <2>11, <2>12, <2>13, DirStep
  <2>15. QED
    BY <1>4, <2>14 DEF Outputs
<1>7. QED
  BY <1>5, <1>6

LEMMA OutputsAreKept ==
  ASSUME Outputs, UNCHANGED <<process, outputs, lost, was, table>>
  PROVE  Outputs'
<1>1. job' = job /\ UNCHANGED <<pc, exit, out, todo, cur, file, dir>>
  BY DEF process, outputs
<1>2. IntoFile' = IntoFile /\ IntoDir' = IntoDir /\ Index' = Index
  BY <1>1, SameJob
<1>3. Sweeps' = Sweeps /\ Done' = Done
  BY <1>1 DEF Sweeps, Done
<1>4. FileIsOut'
  BY <1>1, <1>2, <1>3 DEF Outputs, FileIsOut
<1>5. Listed(Index)' = Listed(Index) /\ \A own : FoundFor(own)' = FoundFor(own)
  BY <1>1, <1>2 DEF Listed, FoundFor, FoundIn
<1>6. \A own, found : Written(own, found)' <=> Written(own, found)
  BY <1>1 DEF Written
<1>7. \A own : Current(own)' <=> Current(own)
  BY <1>1, <1>5, <1>6 DEF Current
<1>8. \A own : AtHand(own)' <=> AtHand(own)
  BY <1>1, <1>5, <1>6 DEF AtHand
<1>9. DirIsOut'
  BY <1>1, <1>2, <1>3, <1>5, <1>7, <1>8 DEF Outputs, DirIsOut
<1>10. QED
  BY <1>4, <1>9 DEF Outputs

LEMMA OutputsAreDone ==
  ASSUME DumpTypeOK, JobAllows, Outputs, SweepDone
  PROVE  Outputs'
<1>1. /\ job' = job /\ job \in Jobs /\ pc = "sweep" /\ UNCHANGED <<cache, out, dir, lost, was>>
      /\ (todo = {} \/ Full) /\ todo' = {} /\ cur' = None /\ cur = None
      /\ IF IntoDir THEN pc' = "off" ELSE pc' = "print" /\ OpensOutput
  BY DEF SweepDone, Exits, GoesOn, DumpTypeOK, history
<1>2. IntoFile' = IntoFile /\ IntoDir' = IntoDir /\ Index' = Index
  BY <1>1, SameJob
<1>3. CASE ~IntoDir
  <2>1. IntoFile => file = Opened(out)
    BY <1>1 DEF Outputs, FileIsOut, Sweeps
  <2>2. job.out => file' = Opened(out')
    BY <1>1, <1>3, <2>1 DEF OpensOutput
  <2>3. QED
    BY <1>1, <1>2, <1>3, <2>2 DEF Outputs, FileIsOut, DirIsOut, Sweeps
<1>4. CASE IntoDir
  <2>1. job.type = "if" => todo = {}
    <3>1. job.type = "if" => ~Limited
      BY <1>1, <1>4 DEF JobAllows, Sweeps, Limited
    <3>2. QED
      BY <1>1, <3>1 DEF Full, More
  <2>2. Listed(Index)' = Listed(Index) /\ \A own : FoundFor(own)' = FoundFor(own)
    BY <1>1, <1>2 DEF Listed, FoundFor, FoundIn, cache, client
  <2>3. ASSUME NEW own \in {"if", "gameval"} \X ArchiveIds
        PROVE  own # <<job.type, cur'>> /\ Current(own)'
    <3>1. own # <<job.type, None>>
      BY DumperAssumption DEF None
    <3>2. Current(own)
      BY <1>1, <1>4, <3>1 DEF Outputs, DirIsOut, Sweeps
    <3>3. Written(own, FoundFor(own))' <=> Written(own, FoundFor(own))
      BY <1>1, <2>2 DEF Written
    <3>4. Current(own)'
      BY <1>1, <2>1, <2>2, <3>2, <3>3 DEF Current
    <3>5. QED
      BY <1>1, <3>1, <3>4
  <2>4. DirIsOut' /\ FileIsOut'
    BY <1>1, <1>2, <1>4, <2>3 DEF DirIsOut, FileIsOut, Sweeps
  <2>5. QED
    BY <2>4 DEF Outputs
<1>5. QED
  BY <1>3, <1>4

(* A file that is open is closed with all in it, or a write failed. *)
LEMMA OutputsArePrinted ==
  ASSUME JobAllows, Outputs, Prints \/ (IconModel /\ pc' # "off")
  PROVE  Outputs'
<1>1. CASE Prints
  <2>1. /\ pc = "print" /\ job' = job /\ out' = out /\ pc' = "off" /\ ~IntoDir
    BY <1>1 DEF Prints, Exits, JobAllows
  <2>2. IntoDir' = IntoDir
    BY <2>1, SameJob
  <2>3. job.out /\ ~lost' => file' = [file EXCEPT !.state = "whole"]
    BY <1>1 DEF Prints
  <2>4. job.out => file = Opened(out)
    BY <2>1 DEF Outputs, FileIsOut
  <2>5. job.out /\ ~lost' => file' = [state |-> "whole", entries |-> out']
    BY <2>1, <2>3, <2>4 DEF Opened
  <2>6. QED
    BY <2>1, <2>2, <2>5 DEF Outputs, FileIsOut, DirIsOut, Sweeps
<1>2. CASE IconModel /\ pc' # "off"
  <2>1. /\ pc' = "print" /\ job' = job /\ job.type = "itemicon" /\ OpensOutput
    BY <1>2 DEF IconModel, GoesOn, Exits, JobAllows
  <2>2. ~IntoDir /\ ~IntoFile /\ IntoDir' = IntoDir /\ IntoFile' = IntoFile
    BY <2>1, SameJob DEF IntoDir, IntoFile
  <2>3. job.out => file' = Opened(out')
    BY <2>1, <2>2 DEF OpensOutput
  <2>4. QED
    BY <2>1, <2>2, <2>3 DEF Outputs, FileIsOut, DirIsOut, Sweeps
<1>3. QED
  BY <1>1, <1>2
-----------------------------------------------------------------------------
LEMMA ProgressStep == DumpInv /\ CacheInv' /\ [DumpNext]_all => Progress'
<1> SUFFICES ASSUME DumpTypeOK, CacheInv, JobAllows, BeginsFresh, Progress, CacheInv',
                    [DumpNext]_all
             PROVE  Progress'
  BY DEF DumpInv
<1>1. TodoIsUntouched /\ SweptIsOut /\ RowsAreRead
  BY DEF Progress
<1>2. ASSUME NEW j \in Jobs, Start(j) PROVE Progress'
  <2>1. pc' \in {"off", "begin"} /\ todo' = {} /\ (pc' = "off" => exit' = 1)
    BY <1>2 DEF Start
  <2>2. ~Done'
    BY <2>1 DEF Done
  <2>3. QED
    BY <2>1, <2>2, NothingClaimed
<1>3. CASE Refuse \/ OutputFails \/ Kill
  BY <1>3, FailureClaimsNothing DEF Refuse, OutputFails, Kill
<1>4. CASE BeginNamed \/ BeginSweep
  BY <1>4, BeginNamedClaims, BeginSweepClaims
<1>5. ASSUME NEW g \in Group, SweepFiles(g) \/ SweepArchive(g) PROVE Progress'
  <2>1. CASE Exits(1)
    BY <2>1, FailureClaimsNothing
  <2>2. CASE ~Exits(1)
    <3>1. pc' \in {"sweep", "write", "evict"}
      BY <1>5, <2>2 DEF SweepFiles, SweepArchive, Swept, Leaves
    <3>2. TodoIsUntouched' /\ SweptIsOut'
      BY <1>1, <1>5, <3>1, SweepFilesTakes, SweepArchiveTakes
    <3>3. QED
      BY <3>1, <3>2 DEF Progress, RowsAreRead
  <2>3. QED
    BY <2>1, <2>2
<1>6. CASE EvictSwept \/ SweepDone \/ WritesFile \/ Prints
  <2>1. CASE EvictSwept
    <3>1. CASE Exits(1)
      BY <3>1, FailureClaimsNothing
    <3>2. CASE ~Exits(1)
      <4>1. pc' # "off"
        BY <2>1, <3>2 DEF EvictSwept
      <4>2. QED
        BY <2>1, <4>1, EvictionClaims
    <3>3. QED
      BY <3>1, <3>2
  <2>2. CASE Prints /\ ~Done'
    <3>1. pc' = "off" /\ todo' = {}
      BY <2>2 DEF Prints, Exits
    <3>2. QED
      BY <2>2, <3>1, NothingClaimed
  <2>3. QED
    BY <1>6, <2>1, <2>2, DoneClaims, WritingClaims
<1>7. CASE LoadRows
  <2>1. CASE Exits(1)
    BY <2>1, FailureClaimsNothing
  <2>2. CASE ~Exits(1)
    <3>1. pc' = "rows"
      BY <1>7, <2>2 DEF LoadRows
    <3>2. RowsAreRead'
      BY <1>7, <3>1, LoadRowsReads
    <3>3. QED
      BY <3>1, <3>2 DEF Progress, TodoIsUntouched, SweptIsOut, Sweeps, Done
  <2>3. QED
    BY <2>1, <2>2
<1>8. CASE DumpRows
  <2>1. CASE Exits(1)
    BY <2>1, FailureClaimsNothing
  <2>2. CASE ~Exits(1)
    <3>1. pc' = "sweep"
      BY <1>8, <2>2 DEF DumpRows, GoesOn
    <3>2. TodoIsUntouched' /\ SweptIsOut'
      BY <1>1, <1>8, <3>1, DumpRowsTakes
    <3>3. QED
      BY <3>1, <3>2 DEF Progress, RowsAreRead
  <2>3. QED
    BY <2>1, <2>2
<1>9. CASE IconItem \/ IconModel
  <2>1. job' = job /\ job.type = "itemicon"
    BY <1>9 DEF IconItem, IconModel, JobAllows
  <2>2. pc' \in {"off", "model", "print"} /\ (pc' \in {"off", "print"} => todo' = {})
    BY <1>9 DEF IconItem, IconModel, Exits, GoesOn
  <2>3. QED
    BY <2>1, <2>2, NothingClaimed DEF Done
<1>10. CASE Environment \/ UNCHANGED all
  BY <1>10, UntouchedClaims
<1>11. QED
  BY <1>2, <1>3, <1>4, <1>5, <1>6, <1>7, <1>8, <1>9, <1>10 DEF DumpNext

LEMMA OutputsStep == DumpInv /\ CacheInv' /\ [DumpNext]_all => Outputs'
<1> SUFFICES ASSUME DumpTypeOK, CacheInv, JobAllows, BeginsFresh, DirIsAsFound, Progress,
                    Outputs, CacheInv',
                    [DumpNext]_all
             PROVE  Outputs'
  BY DEF DumpInv
<1>1. TodoIsUntouched /\ SweptIsOut
  BY DEF Progress
<1>2. ASSUME NEW j \in Jobs, Start(j) PROVE Outputs'
  <2>1. pc' \in {"off", "begin"} /\ todo' = {} /\ (pc' = "off" => exit' = 1)
    BY <1>2 DEF Start
  <2>2. ~Done'
    BY <2>1 DEF Done
  <2>3. QED
    BY <2>1, <2>2, NothingWritten DEF Sweeps
<1>3. ASSUME NEW code \in {1, 2, Killed, Aborted}, Exits(code) PROVE Outputs'
  BY <1>3, NothingWritten DEF Exits, Sweeps, Done, Killed, Aborted
<1>4. CASE Refuse \/ OutputFails \/ Kill
  BY <1>3, <1>4 DEF Refuse, OutputFails, Kill
<1>5. CASE BeginNamed
  BY <1>5, NamedBeginsEmpty
<1>6. CASE BeginSweep
  <2>1. CASE pc' = "off"
    BY <1>3, <1>6, <2>1 DEF BeginSweep, GoesOn
  <2>2. QED
    BY <1>6, <2>1, SweepBeginsEmpty
<1>7. ASSUME NEW g \in Group, SweepFiles(g) \/ SweepArchive(g) PROVE Outputs'
  <2>1. CASE pc' = "off"
    BY <1>3, <1>7, <2>1 DEF SweepFiles, SweepArchive, Swept, Leaves
  <2>2. QED
    BY <1>1, <1>7, <2>1, FilesAreStreamed, ArchiveIsOpened
<1>8. CASE EvictSwept \/ WritesFile
  <2>1. CASE EvictSwept /\ pc' = "off"
    BY <1>3, <2>1 DEF EvictSwept
  <2>2. QED
    BY <1>1, <1>8, <2>1, EmptyIsRemoved, ArchiveIsWritten
<1>9. CASE SweepDone \/ Prints
  BY <1>9, OutputsAreDone, OutputsArePrinted
<1>10. CASE LoadRows
  BY <1>3, <1>10, NothingWritten DEF LoadRows, Sweeps, Done
<1>11. CASE DumpRows
  <2>1. CASE pc' = "off"
    BY <1>3, <1>11, <2>1 DEF DumpRows, GoesOn
  <2>2. QED
    BY <1>11, <2>1, RowsWriteNothing
<1>12. CASE IconItem \/ IconModel
  <2>1. CASE IconModel /\ pc' # "off"
    BY <2>1, OutputsArePrinted
  <2>2. CASE IconItem \/ pc' = "off"
    <3>1. job' = job /\ job.type = "itemicon"
      BY <1>12 DEF IconItem, IconModel, JobAllows
    <3>2. pc' \in {"off", "model"}
      BY <1>12, <2>2 DEF IconItem, Exits, GoesOn
    <3>3. QED
      BY <3>1, <3>2, NothingWritten DEF Sweeps, Done
  <2>3. QED
    BY <1>12, <2>1, <2>2
<1>13. CASE Environment \/ UNCHANGED all
  <2>1. UNCHANGED <<process, outputs, lost, was, table>>
    BY <1>13 DEF Environment, all, cache, client, history, LinkChanges, RefStored, RowStored
  <2>2. QED
    BY <2>1, OutputsAreKept
<1>14. QED
  BY <1>2, <1>4, <1>5, <1>6, <1>7, <1>8, <1>9, <1>10, <1>11, <1>12, <1>13 DEF DumpNext

(* Every behaviour of the dumper keeps the invariant. *)
THEOREM DumpInvariance == DumpSpec => []DumpInv
<1>1. DumpInit => DumpInv
  <2> SUFFICES ASSUME DumpInit PROVE DumpInv
    OBVIOUS
  <2>1. DumpTypeOK /\ JobAllows /\ CacheInv
    BY TypedInit
  <2>2. pc = "off" /\ exit = None /\ todo = {}
    BY DEF DumpInit
  <2>3. BeginsFresh /\ DirIsAsFound /\ Progress /\ Outputs
    BY <2>2 DEF BeginsFresh, DirIsAsFound, Progress, TodoIsUntouched, RowsAreRead, SweptIsOut, Outputs,
                FileIsOut, DirIsOut, Sweeps, Done, None
  <2>4. QED
    BY <2>1, <2>3 DEF DumpInv
<1>2. DumpInv /\ [DumpNext]_all => DumpInv'
  <2> SUFFICES ASSUME DumpInv, [DumpNext]_all PROVE DumpInv'
    OBVIOUS
  <2>1. DumpTypeOK' /\ JobAllows' /\ CacheInv'
    BY TypedStep DEF DumpInv
  <2>2. BeginsFresh' /\ DirIsAsFound'
    BY FreshStep, FoundStep DEF DumpInv
  <2>3. Progress' /\ Outputs'
    BY <2>1, ProgressStep, OutputsStep
  <2>4. QED
    BY <2>1, <2>2, <2>3 DEF DumpInv
<1>3. QED
  BY <1>1, <1>2, PTL DEF DumpSpec

(* A dump that exits with 0 has all that the cache had to offer from the   *)
(* start, and nothing it could not have had, save what is behind the       *)
(* limit; so does its document.                                            *)
THEOREM WholeDump == DumpSpec => []DumpIsWhole
<1>1. DumpInv => DumpIsWhole
  <2> SUFFICES ASSUME DumpInv, pc = "off", exit = 0, job.type # "itemicon"
               PROVE  /\ out \subseteq Possible
                      /\ Limited => Count(out) <= job.limit
                      /\ \A e \in Available \ out : Behind(e)
                      /\ job.out /\ ~IntoDir /\ ~lost => file = [state |-> "whole", entries |-> out]
    BY Zenon DEF DumpIsWhole, Behind
  <2>1. Done /\ todo = {}
    BY DEF Done, DumpInv, Progress
  <2>2. QED
    BY <2>1 DEF DumpInv, Progress, SweptIsOut, Outputs, FileIsOut
<1>2. QED
  BY <1>1, DumpInvariance, PTL

(* Whatever runs were killed or failed in the same directory before, a     *)
(* sweep that exits with 0 leaves there what it found, unless a write      *)
(* failed, no file of an interface that is listed and empty, and every     *)
(* other file as it was.                                                   *)
THEOREM CurrentOutDir == DumpSpec => []OutDirIsCurrent
<1>1. DumpInv /\ pc = "off" => todo = {}
  BY DEF DumpInv, Progress
<1>2. DumpInv => OutDirIsCurrent
  <2> SUFFICES ASSUME DumpInv, pc = "off", exit = 0, IntoDir, NEW own \in DOMAIN dir
               PROVE  Current(own)
    BY <1>1 DEF OutDirIsCurrent, Current, Written, FoundFor
  <2>1. Done /\ own \in {"if", "gameval"} \X ArchiveIds
    BY DEF Done, DumpInv, DumpTypeOK, Dir, IntoDir
  <2>2. own # <<job.type, cur>>
    <3>1. cur = None
      BY DEF DumpInv, DumpTypeOK
    <3>2. QED
      BY <2>1, <3>1, DumperAssumption DEF None
  <2>3. QED
    BY <2>1, <2>2 DEF DumpInv, Outputs, DirIsOut
<1>3. QED
  BY <1>2, DumpInvariance, PTL
=============================================================================

# NXT cache library: verification project

TLA+ models, TLC runs and TLAPS proofs for the NXT cache library: the C++20
library that reads RuneScape NXT caches from local sqlite files or from the live
JS5 servers, its flat C ABI, and the `nxtcache-dumper` and `nxtcache-mirror`
tools. Paths below are relative to the repository; line numbers are those
of the modelled commit.

## 1. Inventory

### Components, state, operations

| Component | Source | State it keeps | Operations |
|---|---|---|---|
| Local cache | `src/core/RSCache.*`, `Index.*`, `Archive.*`, `FileHeader.h` | open indices (one sqlite file each), the reference table each decoded, archives (place-holder, declared, loaded), the fallback flag and a resolver per index | `index`, `archiveIds`, `archive`, `fileIds`, `evictArchive`, `enableLiveFallback` |
| Live cache | `src/network/Js5Cache.*`, `Js5Index.*` | one socket, indices, loaded archives | `index`, `archiveIds`, `archive`, `fileIds`; `evictArchive` is inherited and does nothing |
| JS5 socket | `src/network/Js5Socket.*`, `Js5Config.*`, `HttpClient.*` | connection, position in the byte stream, server config | config fetch, handshake, `getFile` |
| Containers | `src/network/Js5Compression.*`, `Js5Archive.*`, `src/core/Index.cpp` | none (pure) | decompress, unpack network archives, decode local archives, `Archive::readFile` |
| Mirror | `src/mirror/main.cpp` | sqlite rows, the open transaction, the retry budget, statistics | mirror master, reference tables, archives; resume; retry and reconnect |
| Map squares | `src/maps/MapSquare.*` | clip grids, crossings, spawns, the loc/overlay definition cache | build clip, locs, crossings and plane mask of a square |
| Definition access | `src/core/ConfigProvider.h`, `DbRowProvider.h`, `TypeMappings.h` | memoised types, rows per table | `load`, `preload`, `getCapacity`, row queries |
| C ABI | `src/c_api/nxtcache_c.*` | a handle per cache: source, definition cache, row provider | about forty getters, dump, list, enable fallback |
| Decoders | `src/config_types/*` | none (pure) | opcode loops over an `RSBuffer` |
| Buffer | `src/core/RSBuffer.h` | read and write position, ownership | bounded reads, writes, sub-buffers |
| Dumper | `src/dumper/*` | output streams | one item, ranges, streamed sweeps that evict |
| Icons | `src/render/*` | none | rasterise an item model |
| Interface script | `scripts/pretty_interfaces.py` | none | rewrite a file atomically |
| gzip | `src/gzip/*` | none | vendored |

### How they interact

Callers (C ABI, dumper, map-square builder) hold a `CacheSource`: either an
`RSCache` or a `Js5Cache`. An `RSCache` owns its indices, and after
`enableLiveFallback` also a `Js5Socket`, to which every index holds a resolver
by raw pointer. A `Js5Cache` owns one socket and gives it to every index. The
mirror owns a socket that it replaces after every failure, and writes sqlite
files that other programs (an `RSCache` among them) may have open. Definitions,
rows and map overlays are memoised by the layers above the cache and are not
told when the cache changes.

### What is hard

Everything runs on the caller's thread: there are no locks, callbacks or worker
threads, and `Js5Socket` is documented as thread-unsafe. What is hard is the
order of calls and what stays behind after a failure:

- memoisation at four levels (index, archive, definition, row), each with its own
  idea of when an absent answer may be asked for again;
- `std::map::operator[]`, which inserts a place-holder for every id asked for;
- the fallback, enabled at any time, before or after indices were opened;
- one TCP stream without resynchronisation, used by everything that is fetched;
- a mirror that may be killed and resumed, against servers that may have moved to
  a new build between two runs, or between two fetches of one run;
- geometry that is written once per rotation and once per neighbour, and has to
  agree with itself across tiles and planes.

The hazards, each at its line, are listed in `PROJECT.json`.

### What makes each component correct

- Local and live cache: content handed out is never replaced; only declared
  archives load; the fallback reaches every index; a failure leaves the archive
  retryable.
- JS5 socket: the bytes returned are those of the request, and the call consumes
  exactly its response, for every size around the block boundary; a call behind
  one that failed fails too or returns what was asked for, as long as no bytes in
  the middle of a container are mistaken for the name it waits for (section 7).
- Mirror: committed rows are never lost or replaced, a crash loses at most a
  batch, DONE without failures means everything listed is stored, every run ends.
- Map squares: a wall blocks from both sides, the plane mask and the crossings
  agree with the clip bits, the result does not depend on the order of
  placements, and a file that is cut off yields nothing that it does not hold.
- Containers: a table is decoded to what was written, and the slices of an
  unpacked archive are the files that were packed, in every layout, container
  and chunking; what is refused leaves no trace.
- Decoders and buffer: no read leaves the buffer; a whole definition is consumed
  to its end; one that is cut off keeps what stood before the cut, throws only
  for want of bytes, allocates no more than its bytes allow, and ends.
- Definition access and C ABI: memoised answers agree with the cache; a buffer is
  published exactly when the call succeeds.
- Dumper: a dump that exits with 0 has found all there was, a sweep holds one
  archive at a time, and a run that fails before everything is decoded costs no
  document of an earlier one.

## 2. Plan

The most important behaviour first: what a caller is handed, then what is kept on
disk, then the stream everything comes over, then what is computed from it, down
to the bytes; at last the programs on top.

| # | Module | Models | Composes, refines | State of the plan |
|---|---|---|---|---|
| 1 | `CacheSource` | what every backend promises, one archive at a time | the abstract specification | done |
| 2 | `RSCache`, `RSCacheProofs` | local cache with live fallback | implements `CacheSource` | done, proved |
| 3 | `Js5Cache`, `Js5CacheProofs` | live cache | implements `CacheSource` | done, proved |
| 4 | `Mirror`, `MirrorProofs` | the mirror, its crashes and restarts | - | done, proved |
| 5 | `Js5Socket`, `Js5Proofs` | one JS5 connection | - | done, proved |
| 6 | `MapSquare`, `MapSquareProofs` | clip grid, crossings, spawns | what `MapStream` decodes is its input | done, proved |
| 7 | `MapStream`, `MapFiles`, `DecoderProofs` | the placement and terrain decoders; what a whole file means and what is left of one that is cut off | feeds `MapSquare` | done, proved |
| 8 | `Containers`, `Groups`, `Tables`, `Js5Proofs` | reference tables, containers, both archive layouts, `readFile`; what a packed group is, and a written table | uses `RSBuffer`; explains `framed` in `RSCache` and `Js5Cache`; what `Js5Socket` delivers | done, proved |
| 9 | `RSBuffer`, `Formats`, `InterfaceFormats`, `Definitions`, `DecoderProofs` | the readers, the opcodes of every type, the machine that works them off | `Definitions` over the three others | done; what needs no induction is proved |
| 10 | `CacheCalls`, `CApi`, `CApiProofs` | the C ABI handle, `DbRowProvider`, `TypeMappings` | steps composed of `RSCache`'s actions | done for local caches, proved |
| 11 | `Dumper`, `DumperProofs` | every mode of the dumper, run after run | the same calls as `CApi` | done for local caches, proved |
| 12 | `LiveHandle` | `CApi`'s calls over a `Js5Cache`, `nxt_fetch_master_crcs`, `--source live` | over `Js5Cache` | if it says more than `CApi` with other names |

Every invariant and every action property of the runs is proved, except two of the
decoders of definitions (section 6). Still worth proving: `LiveHandle`, if it is
written.

## 3. The modules

Each module names in comments the operation an action stands for;
`PROJECT.json` gives the lines of every definition. Definitions under a
comment that starts with "Mutant" are never part of a specification: they are what
a plausible bug would make of the definition that follows, kept to show that a
property can fail.

### CacheSource (abstract)

Two variables per archive: where it is in its life (`unopened`, `absent`,
`phantom`, `declared`, `loaded`) and what it holds. A step is one call: it may open
one index and touch one archive of it. What the steps leave out is the promise:
loaded content is never replaced, a place-holder never becomes content, and a call
for one archive does not disturb another.

### RSCache

| Variable | Code |
|---|---|
| `opened` | keys of `RSCache::indices` |
| `table` | which table the `Index` constructor decoded |
| `archives` | `Index::archives`: no entry, the default entry `operator[]` inserts (`id = -1`), `loaded = false`, `loaded = true` |
| `content` | `Archive::data`, as where it came from, its build, and whether the table's file ids fit it (`framed`; how a blob is cut by them is in `Containers`) |
| `resolver`, `fallbackEnabled`, `link` | `Index::fallback_`, `RSCache::fallbackEnabled_`, `liveSocket_` |
| `refFormat`, `refBuild`, `rowFormat`, `rowBuild` | the sqlite rows: absent, undecodable, throwing, readable |

`Opens` is a conjunct of every read, because `RSCache::index` is the first thing
each call does; a constructor that throws leaves nothing. `ReadFromDisk`,
`ReadFromLive`, `ReadUndeclared` and `ReadFails` are the paths through
`Index::archive`. `Evict` is `evictArchive`, `EnableLiveFallback` the successful
call (the one that throws changes nothing a call can see: the socket is created
only by a constructor that returns). The environment adds rows, as a mirror or the
game client does, and changes the link (`LinkChanges`): what stays unread after a
failed call makes the calls behind it fail, and once it is read they succeed
again, which `Js5Socket` says more of. Nothing in `src/core` reconnects.

Left out: an archive that a table declares with no files at all; which bytes are
damaged (a reference blob the decoder rejects is "corrupt", one whose deflate
stream is broken "throws"; a multi-file row left in network layout counts as
corrupt); that a misread blob may also fail to decode is allowed by `ReadFails`; and
what a connection gone astray may return (`Js5Socket`): here and in `Js5Cache` a
link that is up answers with the archive asked for.

### Js5Cache

The same shape over one connection: a failed call throws. `OpenIndex` also stands
for an `archive()` whose own fetch fails after the index was opened. The link breaks
and comes back as in `RSCache`; the servers move to a new build between any two
fetches.

### Mirror

`pc` is where the sequential program is, `attempt` the retry counter that
`getFileWithRetry` and `loadIndex` each keep, `socket` whether there is one, `txn`
the open transaction, `refRow` and `rows` what is committed. A blob is the build it was
fetched from. `MirrorMaster`, `StoreRefTable`, `LoadListing`, `Skip`, `Download`,
`CommitBegin` and `FinishIndex` are the program when nothing fails;
`AttemptFails`, `GiveUp`, `Abandon`, `InsertFails` and `Throws` are its error
paths, including the one where sqlite rolls a transaction back by itself and the
inserts that follow commit one by one. `Crash` drops the transaction; `Start` runs
the program again over the same files.

Archives are processed in ascending order, as the `std::map` is iterated. Left
out: argument parsing, progress output, the statistics except whether `failed` is
zero, and which sqlite file an index is in.

### Js5Socket

Bytes are their places: `wire` lists the containers still to be read off the
connection, `inBlock` and `offset` are where in the first of them the next byte is by
the server's framing, `total`, `current` and `bytesread` the client's own count. The
two sides are computed independently: `misread` becomes TRUE when the client takes a
header for data, or data for a header. `Request`, `ReadId`, `ReadComp`, `ReadPayload`
are the reads of `getFile`'s loop, `Mismatch`, `ReadFails` and `SendFails` its
exceptions. Both handshakes are one step, the constructor; descriptors are not
modelled.

A failed call leaves `connected_` set, and only the mirror reconnects: `RSCache` and
`Js5Cache` call the same object again. So `Request` is enabled after a failure as
after an answer, and starts where the failed call stopped. A mismatch has taken its
five bytes off the stream (`TakesFive`): a name, or what is left of one and data
behind it, or data and the name or container that follow. As bytes have no values,
every read that does not begin where a container begins may also be taken for the
name the call waits for (`GoesAstray`). Of a connection gone astray nothing more is
known: its calls return, throw or wait (`Blind`).

### MapSquare

A call is `Begin` (or `Absent`), one of `DropBelow`, `Apply`, `Unread` per
placement, `LocationsDone`, `LookUp` per overlay, `Finish`, or `Raise` at any read.
`locDefs` and `waterOverlays` are the `DefCache` that outlives the call, and
`clip`, `crossings`, `planeMask` the caller's output, which a failed call leaves
as far as it got. A wall or footprint is a *stamp*, a set of offset and flag;
`Stamped` is `setClip` over it, which drops what falls outside the square.

A square is given as `MapStream` decodes it. Left out: a menu option
is the set of words the code searches it for; a tile's bits are a set of names;
crossings are a set rather than a list; the overlays of a square are looked up
in any order instead of tile by tile; the caller's squares are those whose world
coordinates fit in 16 bits (beyond that, `worldX` wraps).

### MapStream

`decodeLocationData` and `decodeMapTerrain` over one file of a square: a step is
one value of the placements, or one part of a tile. `ptr` counts as in the code,
past the end too, `phase` is where the loops are, `incr` the sentinels of a
difference so far. `MoreSentinels`, `NextObject` and `NextPlacement` are the three
nested loops; `Tile`, `Overlay`, `Rule` and `Underlay` the parts of a tile, each of
which may be the end of the file. The reader of a small number (`readMapSmart`, in the
code the file's own `readSmart`) is not `RSBuffer`'s: it leaves a first byte that has
no second one unread.

### MapFiles

What the two files mean, with no word about a decoder: a whole file (`Sources`)
comes with its pieces, each with the place it begins at and what it adds, and with
its placements (`FileOfPlacements`), or with the place and the values of each tile
(`FileOfTerrain`). A stream is a file that may be cut off at any byte. The properties
of cut files are stated against this description, and not against a writer, so that
they can be proved for every file.

### Containers

Pure operators, named as the functions: `decodeReferenceTable` and
`decodeReferenceBlob` (with `Table`, its parts in the order of the code),
`decompress` and `decompressRow` (one for answers of the servers, one for rows of
sqlite, which may also be ZLB), `decodeArchiveBlob` and `unpackNetworkArchive` (the
two layouts), `fileBytes` (`Archive::readFile`, by way of `FileSize` and
`subBuffer`). What they make of bytes is `Result`, `Refused` (an error code or an
exception), or `Undefined`, where the code would leave a buffer. The codecs are the
parameter `Inflate`. What reads a number, a pair or a whirlpool is a function of the
position (`Numbers`, `Ints`, `SizePairs`, `Whirlpools`), so that one loop over it
(`Repeated`, `Rows`) stands for each of the code's.

Around them one index: it is opened by either backend, and one archive is read
until a blob is accepted (`ReadRow`, `Fetch`, `IsRefused`), with readers that ask
for files that are not there in between (`ReadFile`, which leaves a place-holder
header). The live cache cuts by the ids of the table as they stand, the fallback
by the archive's sorted ones, as in the code. Left out: allocation failures, and
sizes of 2^31 - 16 and more (section 7).

### Groups

What a packed group is, said without any decoder: the files and where they begin when
they are joined (`AreJoined`); how one payload holds them, as a single file, a row of
places (`IsRow`) or parts in chunks with a footer of differences (`IsChunked`, which
names where each file is divided and where in the payload each part ends); what a
container says of its payload and what the codec makes of its body (`IsContainer`).
A blob is a container that is whole, with or without bytes behind it, cut at any byte,
lying about its size, of an unknown type, without a row's leading 1, or anything
else (`IsBlob`; of the last kind nothing is claimed). `GroupsAssumption` says this of the
constants, and that a table declares as many files as a group has, in rising order.
`FilesReadBack` compares what `readFile` returns with the files. `MCContainers` packs the groups
and their blobs with a writer; that they satisfy the assumption TLC checks.

### Tables

What a written reference table is, said without any decoder: its format and mask, the
values of its archives as a column for each part, its bytes, and where in them each
number of the parts without a fixed width ends (`ends`; the other parts follow from
those, `NamesOf` to `CountsOf`). `IsNumber` says which bytes are a number, in two bytes or, in
format 7, four; `HasHead`, `HasArchiveIds`, `HasValues`, `HasFiles` and `HasFileNames` that each
part is where it should be, and `IsTable` that all are. `TablesAssumption` says this of the
constants, and that an index reads a beginning of a table or all of it. `Written` is what
a table declares; `TablesAreExact` compares the decoded index with it. `MCContainers` makes
the tables with a writer; that they satisfy the assumption TLC checks.

### RSBuffer, Formats, InterfaceFormats, Definitions

`RSBuffer` has the readers, each from a buffer and a position to a value and a
position. They do not throw at the end: they answer 0, or what the first byte alone
amounts to. `Formats` is a table: for each of fourteen types, which *shapes* each
opcode reads and what they do to which field; `InterfaceFormats` the same for
the tail of each component type and subtype. A shape is a reader, or something that
reads a number and becomes other shapes: a count and its body, a mask and its
options, a loop bounded by what is left (`upto`).

`Definitions` works them off: `NextOpcode`, `UnknownOpcode` (which falls through the
chain of `if`s, so that the next byte is taken for an opcode), `ReadOperand`,
`ReadVector` (a `resize` by a count, which throws if that is negative), `Expand`,
`Assign`, `End`, and the rows of a `DbRowType` (`RowBegins`, `ReadLength`,
`ReadCell`, `StoreRow`, `RowsEnd`). `todo` is what is still to be read, `got` what
was, `store` the fields. `IntValues` is the row query that divides and indexes by
what the row says of itself.

### CacheCalls

What callers see of a local cache, one call at a time, made of `RSCache`'s own
`Read`, `ReadFails` and `OpenIndex`: `Obtains` and `Raises` are the two ways
`CacheSource::archive` ends, `Lists` is `archiveIds`, `NewCache` a new `RSCache`.
`UsesCacheSource` says of a caller that it is one of `CacheSource`: each of its steps is a
call of it, or none, unless it begins with a new one.
What a file holds is `good`, `empty` or `bad` (its decoder throws).

### CApi

A handle is an `RSCache` (by way of `CacheCalls`) and a row provider. `pc` is
where a call is, `call` what it was asked, `todo` and `out` a dump's remaining
archives and the entries it has, `provider` the `DbRowProvider` (`made` is the
`unique_ptr` being set, `rows` its map), `buffers` what `malloc` gave and is
neither freed nor handed over, `published` and `result` what the caller gets.

A call that reads one archive, or none, is one step (`Get`, `ReadRaw`, `GetWhole`,
`ListIds`, `ListArchives`, `Invalid`, and `DumpNull` for the dump of gamevals, which
passes the check of the type, is in none of the branches behind it and answers the
text `null`) and then `Reply` or `ReplyFails`; calls
that read several take a step for each, with `RSCache`'s environment in between:
`Icon`, `IconModel`; `GetSquare`, `ReadPlaced`, `SquareDone`; `BeginRows`,
`LoadRows`, `GetRow`, `DumpRows`; `BeginDump` or `BeginGameVals`, `SweepFiles`,
`SweepArchive`, `SweepDone`. `Second` and `SecondFails` are the second `malloc` of
`nxt_get_mapsquare_clip_and_crossings`; `Reopen` is `nxt_cache_close` followed by
`nxt_cache_open_local`.

Left out: the JSON, the pixels and the numbers that are made of a file, the message
of `nxt_last_error`, `MapSquare`'s geometry (its own module) and the memoised map
definitions, which only spare reads. Live handles are not composed: all they
change is the source below.

### Dumper

The program runs again and again over the same output file and directories. `job`
is its command line, accepted already; `pc` where it is; `todo`, `cur` the archives
still to sweep and the one at hand; `rows` the row provider's; `out` the
entries decoded; `exit` the exit code; `file` and `dir` what `--out` and `--out-dir`
hold, each file absent, open (truncated, with part of its entries on the disk or
all) or whole. `arrived`, `lost` and `was` are history: rows that came during the
process, that a write failed or a kill met an open output, and the outputs as the
process found them. `Start` opens the source, `Refuse` is a command that is no use.
`BeginNamed` and `BeginSweep` are the two ways a list of archives is made, the
second where `archiveIds` may throw, for gamevals outside of any handler. Then
`SweepFiles` (`dumpRange`, `streamShardedToFile`, the scans) or `SweepArchive`
(interfaces, gamevals) with `WritesFile` and `EvictSwept`, to `SweepDone`;
`LoadRows` and `DumpRows` are `dumpDbRows`, `IconItem` and `IconModel` the icon.
`OutputFails` is a file that cannot be opened, `Kill` the death of the process.

An output is opened, written and closed in steps of their own: opening truncates what
was there (`OpensFile` for streams, `OpensOutput` for documents and icons, `SweepArchive`
for a file of the directory), and `WritesFile` and `Prints` end it or fail to,
which only an icon's exit code tells, and that not of the last bytes. A kill between
leaves the file open.

Left out: how a command line is parsed, what a decoded entry is printed as, stderr,
live sources, and `dbrow` with `--index` or `--archive`: its provider loads its
own group all the same (`DbRowProvider.h:14-15`), and only the ids come from the
one that is given.

## 4. The runs

| Run | Instance | Distinct states | Shows |
|---|---|---|---|
| `local_cache` | 2 indices, 1 archive, 2 builds, every state of the rows | 30 370 | opening, reading, evicting and enabling in any order keep indices and resolvers consistent, implement `CacheSource`, and a client that keeps asking is served |
| `live_cache` | 2 indices, 2 archives, 2 builds | 358 | the same interface over a connection that breaks and servers that update |
| `mirror` | 2 indices, 3 archives, 2 builds, 1 retry, batches of 2 | 34 162 | crash consistency, bounded loss, completeness, termination |
| `socket` | 14 containers, blocks of 12 bytes, 2 stray containers, at most 3 on the wire | 138 027 | framing at every boundary, and calls on what failed ones left |
| `map_square` | 3x3 tiles, 2 planes, 15 squares, 1 failed read | 10 639 | the grid against a definition of what it should be |
| `map_stream` | 3 files of placements and 4 of terrain, cut at every byte, 2x2 tiles, 4 planes | 13 385 | a cut file yields what it still holds, and nothing else |
| `containers` | 72 tables, cut at every byte; 18 groups of one to three files in every container and layout, whole, cut, lying | 53 534 | decoders against a packer: what was packed is what is read |
| `definitions` | every opcode of 14 types, rows and three components, 3 writings, cut at every byte; every component type whole, and with counts that lie | 112 726 | what is cut keeps what stood before the cut, whatever a count says allocates no more than the bytes allow, and decoders end |
| `handle` | 2 indices, 3 archives, 1 build, 8 types, 4 ids, limits none and 1 | 105 458 | what getters, dumps and listings of one handle say agrees, in any order of calls; failed calls keep no buffer |
| `dumper` | 2 indices, 2 archives, 2 files, 22 command lines | 695 277 | complete dumps, directories that are current, what failures and kills cost, sweeps that hold one archive |

The other two runs each refute one statement of the documentation (section 7).

Why the bounds are enough:

- **local_cache, live_cache.** The code keeps nothing that relates more than two
  archives or two indices (`operator[]`, `evictArchive` and the resolver loop work
  per entry), so two show every interference. The violation run uses one
  index, one archive and two builds. Two builds make a blob fit or not
  fit a table; a third adds nothing to that. Initial states enumerate every state
  of every row.
- **mirror.** Three archives with a batch of two give a full batch, a partial one
  and a commit between them; one retry separates the first failure from the last;
  two builds with different listings give an archive that appears and one that
  disappears. The number of runs and crashes is not bounded.
- **socket.** The container sizes are the shortest there are and those that end
  just before, at and just after the first and the second block, with and without
  the four bytes of an unpacked size. Only differences from the block size
  matter; 12 is the least that leaves room for payload after both headers. Two
  strays and three containers on the wire let a call that fails follow another
  that failed, each in front of, in and behind a block boundary; the smallest sizes
  let five bytes be the end of a container and the beginning of the next.
- **map_square.** Each flag is written at a tile or at distance one, so 3x3 holds
  a middle and all borders. Footprints are up to three tiles, so they leave the
  square. Every wall and object shape occurs in every rotation, solid in each, over
  and beside a bridge, before and after a failed read.
- **map_stream.** The placements go to the first and the last location, beyond the
  last plane, through differences of several sentinels and of zero, and through
  customizations of every flag; the tiles go through all sixteen sets of parts,
  each also as the last of a file. Four planes are the code's.
- **containers.** Formats 5 to 7, six masks that have each part alone and all
  together, four contents (several archives, ids that need four bytes, an archive
  without files, none at all). Groups have files of no, one and several bytes, in
  one to three chunks, so that a file has parts in some chunks only. Each container
  occurs cut at every byte, with trailing bytes, with a header one too large and
  one too small, with an unknown type, and with the payload of another layout.
- **definitions.** Three writings of every operand choose short and long forms,
  zero and more repetitions, negative numbers; each opcode is followed by one
  that writes the same field (or by itself), some by bytes no decoder knows. All
  are cut at every byte; of the components only the three with the most loops are,
  every type of them is whole. In the `BogusSources` each two-byte count of a component
  is 4095 in turn, far more than the file has bytes.
- **handle.** The overlays and the rows share an index of single archives, all
  other types one of sharded archives with two files each: a dump crosses an
  archive boundary, the limit of 1 is reached inside an archive, and a dump of
  everything meets an archive it cannot decode. One of three rows and one of four
  sharded files are bad. Of the four reference tables and group rows whose state
  varies at most one is not readable at first; rows that come later, the fallback
  and a lost connection do the rest. One build is enough, because what a second
  one does to an archive is `local_cache`'s.
- **dumper.** The command lines have every mode and every output, by id and in
  bulk, with limits that end inside an archive and between two, with and without
  the fallback, and those that are refused. One file is bad and one empty, at most one
  table or row is not readable at first, and one row may be that of an older
  build, with fewer files than the table declares. The number of processes over the same outputs is
  not bounded.

Deadlock checking is off where the system stops: in the runs of the two caches (a
client whose files all fail, or which has read everything, has nothing left that
changes the state), and in `map_stream`, `containers` and `definitions` (a decoder
that has ended).

### What the properties are about

- `ResolverEverywhere`: the fallback reaches indices opened before and after.
- `ImplementsCacheSource` (twice): the abstract promise, step by step.
- `RetryRecovers`: a failed read stays retryable.
- `MisreadsOnlyAfterUpdate`: a live group is cut wrongly only if the servers
  moved on after its index was opened.
- `CrashSafe`: at every instant, so after a crash at any, a stored archive has its
  table and a table the master, none newer than what lies under it
  (`FilesAgree`), and what a crash would lose is a batch at most (`LossBounded`).
- `StoredRowsStay`, `DoneIsComplete`, `RunEnds`, `EventuallyMirrored`: what a mirror
  never takes back, promises at the end, and reaches.
- `AnswerIsExact`, `FailsWithCause`, `CallEnds`: each call that returns has consumed
  exactly its answer, whatever its length, and stands where a container begins, also
  behind calls that failed anywhere; none fails on a connection that is open and
  brought nothing unasked for; and none waits for a byte that is not owed. All
  three except a connection gone astray, which takes a stray container.
- `WallsAgree`, `CrossingsMatchMarkers`, `CrossingsUsable`, `Exact`:
  walls block from both sides, grid and crossings name the same tiles, what a
  crossing says to click is there, and the grid is the geometry of the square and
  nothing of an earlier one.
- `CutKeepsItsOwn`: of a cut file, the placements are a prefix of the whole file's
  and each tile has its own values or none (one exception, section 7).
- `TablesAreExact`: both decoders make of a table what was written; of a cut one,
  unless it has whirlpools, they declare nothing that was not, but for the id 0.
- `FilesReadBack`: whatever was tried before, an accepted group has exactly the files
  that were packed, and a whole one is always accepted.
- `CutKeepsEarlier`, `DamageIsBounded`, `ThrowsOnlyWhenCut`, `DecodeEnds`: of a
  definition cut anywhere, every field whose bytes are all there has its value, no
  other is touched, and the row queries answer nothing that the row does not hold;
  a count that lies makes a component no larger than its bytes allow; a
  decoder throws only for want of bytes, and ends.
- `DumpIsComplete`: a dump, which takes many steps, ends with exactly the entries
  the getters can decode at that moment, and a limited one with those that come
  first. Two exceptions are named in it: rows whose provider was loaded in part, and
  the dump of gamevals, whose text is always `null`.
- `ListedIdsResolve`: ids composed by a listing are taken apart by the getters to
  the same files, one for one.
- `HandleKeepsEntries`: no call makes another call forget.
- `CallTypeOK`: with the types, that between two calls no buffer is left that the
  caller does not own, and that a call that fails hands over none.
- `DumpIsWhole`: exit code 0 means that everything that was readable all along was
  found, up to the limit; and that it is in the document, and the document closed,
  unless a write failed, of which exit code 0 says nothing.
- `OutDirIsCurrent`: after a sweep that succeeds, and any number of others that were
  killed, what it found has its file (whole, unless a write failed), an interface
  that is listed and empty has none, and every other file, that of an id
  no longer listed included, is as the process found it.
- `FailedRunKeepsFile`: a run that fails or is killed leaves an earlier document as it
  was, unless it is a streamed sweep or had come to writing its own.
- `MemoryBounded`: a sweep that evicts holds the archive at hand and no other.

## 5. Fairness

- `RSCache!FairSpec`: weak fairness of the successful reads. The cache retries
  nothing by itself, so recovery is a promise to a client that keeps asking; no
  fairness is assumed of the environment or of enabling the fallback.
- `Mirror!RunSpec`: weak fairness of the program's own steps, failing ones
  included: it is sequential, and waits only for a request (which ends in an
  answer or an exception, see below) and for one second before a reconnect.
  `RestartSpec` adds that somebody starts it again when it has ended.
  `EventuallyMirrored` assumes moreover that from some time on nothing fails.
- `Js5Socket!FairSpec`: weak fairness of the reads, that is, a server that sends
  what it owes, and a `recv` that fails once the peer has closed. The socket has no timeout: without that assumption a call may wait
  forever, and so may the mirror.
- `Definitions!FairSpec`: weak fairness of the only loop of a decoder, a function
  that waits for nothing.
- The other modules state no liveness: their operations are straight lines or
  loops over finite sets.

## 6. What is proved

TLAPS checks every proof; nothing is taken on trust. The only assumptions are the
named `ASSUME`s on the constants, which TLC evaluates in the runs.

- **RSCacheProofs.** `TypeOK /\ ResolverEverywhere /\ LoadedIsDeclared` is
  inductive. Under it every step is a `CacheSource` step or a stutter
  (`StepIsAbstract`): an index that is not open holds nothing
  (`UnopenedHoldsNothing`), so opening changes only unopened archives, and the one
  archive a read touches was `unopened`, `absent` or `declared`. The theorem
  `Refinement` is the refinement itself. The module ends with what `CApiProofs` and
  `DumperProofs` share: every call of `CacheCalls` is a step of `RSCache`
  (`CallIsStep`, `ListsIsStep`, `EvictIsStep`), so that `CacheInv` is kept
  (`CacheStep`); a call loads the archive it asks for and no other
  (`CallLoadsOnly`); and a limit leaves of a finite set its least elements, as many
  as there is room for (`PrefixFacts`).
- **Js5CacheProofs.** `MisreadsOnlyAfterUpdate` is not inductive. It becomes so with
  the order in which things are fetched: a table in memory was served at some
  time (`TablesWereServed`), a group after the table that declares it
  (`TableBeforeGroup`), and an index that is not open holds nothing. The refinement
  is proved from the same invariant.
- **MirrorProofs.** The types are inductive only with `Position`, what holds at
  each place of the program. `StoredRowsStay`, `ReadableAfterCrash` and
  `RefNoNewerThanRows` need `Written`: the open transaction holds nothing that its
  file has, and nothing older than the stored table. `LossBounded` needs that
  `sinceCommit` counts at least what is uncommitted; `CrashesAreSafe` puts the
  three together. `DoneIsComplete` needs
  that every listed archive of a processed index is stored, still to do, in the
  transaction, or counted as failed.
- **Js5Proofs.** Of `Js5Socket`: `Counts` ties the client's count to the server's
  framing: `bytesread` equals `inBlock` inside a block, `current` equals `offset`
  inside a container, and a block that is full is one the server ended too. Between
  calls, and while a call waits for its first block, it only says that the place is
  one inside what is still to be read: five bytes that a mismatch takes leave such a
  place again. From it, framing is exact for every block size above ten bytes and
  every container length, behind any failures, unless the connection went astray;
  and without a stray nothing precedes the answer, so that a failure has a cause.
  Of `Containers` and `Groups`: `FilesReadBackAlways`, for every group, container,
  chunking and codec. First what the recursions of the decoders amount to: numbers in a row are
  read one by one (`IntsRead`), `Sums` of differences are the numbers
  (`SumsAre`), and parts that follow each other join to the whole (`FlatIs`); each by
  comparing the recursion with the answer step for step (`Unrolled`), which rests on the
  least element of a set of naturals. With them the footer gives the sizes
  (`SizesAreRead`), the sizes where each part ends (`SizesJoin`, `EndsOf`), the
  parts the files (`FilesAssembled`), and the files their starts (`AllJoined`); a container gives
  its payload or is refused (`ContainerOpens`, `RowOpens`, `CutIsRefused`). So a whole
  blob gives data with each file at its place, and any other that is not made up is refused
  (`BlobUnpacks`). `GroupsInv` carries this through the retries: an archive has the ids of its
  table and a header for each (`HasIds`), also after headers for files that are not
  there, and the data it accepted has the files at the places of the headers
  (`AreAt`); between two of them `readFile` cuts exactly a file (`FileIsRead`).
  Of `Containers` and `Tables`: `TablesAreExactAlways`, for every table, whole or cut off
  anywhere. A number is read where it begins and left where `ends` says, or, once the
  table is cut off in front of its end, gives 0 and leaves the position at the cut (`Upto`,
  `Until`); every column and row repeats that (`NumbersOfCut`, `ColumnOfCut`, `SizesOfCut`,
  `RowsOfCut`), and so the parts follow from the first on (`HeadOfCut`,
  `ColumnsOfCut`). If nothing is cut off, these are the columns themselves
  (`ColumnsOfWhole`), the sums of the differences the ids, and the multiset of rising ids the
  ids in their order (`MultisetIs`), so that the table is what was written (`WholeTable`);
  ids that all differ are as many as there are archives (`AsManyIds`), so that the local
  decoder does not count wrongly. If something is cut off, the sums stop growing at the
  cut (`SumsOfCut`), and every id that is declared is one of the table or 0
  (`CutDeclares`). The invariant, `TableIsDecoded`, only ties the index to the bytes.
- **MapSquareProofs.** `TypeOK` is inductive as it stands (its Boolean and its
  other conjuncts are proved apart); the work is in `CrossingType`: plane,
  coordinates, sizes and option of every crossing fit its fields. `WallsAgree` needs no strengthening: every stamp is `Mirrored`
  (whatever flag it has at an offset it has the opposite one across) and
  stamping preserves the property for any grid size. `CrossingsMatchMarkers`
  follows from `MarkerStamp` (a stamp has a marker exactly on its own tile),
  `DoorsBlock` from `DoorStamp` (what is marked a door is solid and of a shape that
  writes a wall or an object, also with a size of 0).
  `CrossingsUsable` needs `RestIsLeft`: what is still to place is the rest of the
  square's own placements, so that what a crossing names is among them. `Exact`,
  which speaks of the finished grid only, is the end of `GridSoFar`: at each
  placement the grid shows at most the terrain and what has been placed, and no
  less unless a definition could not be read. A stamp is shown tile by tile to be
  the shape's edges, or the footprint, as the reference definition has them.
  Its last part, water, needs `WaterKnown`: the cache of overlays never takes a dry
  one for water, and forgets water only after a failed read.
- **DecoderProofs.** Of `Definitions`: one lemma for each reader says that it moves
  forward and not past the end, and one that a number that sizes a vector is
  negative only if the buffer is used up (`NegativeOnlyAtEnd`). From these
  `ReadsStayInside` and `ThrowsMeanCut`, for every type and any bytes; the types
  and `ThrowsOnlyWhenCut` are inductive together. The two readers that look for the
  end of a string or a number rest on the least element of a set of naturals. Of
  `MapStream`: every placement that is decoded fits the grid (`DecodedFitsGrid`),
  for any grid and whatever the bytes are, because a location is kept only if its
  plane is one and its coordinates are remainders. Of `MapFiles`:
  `CutFilesKeepTheirOwn`, for every file and every cut. Two facts of a file need an
  induction over its pieces, by a least counterexample: the placements counted at
  a piece end before it (`AllBehind`), the others behind its first value
  (`AllAhead`); and one over its tiles (`TilesInOrder`). `CutInv` then says where a decoder
  may be: at a piece, or a part of a tile, with all that is in front of it
  decoded (`AtPiece`, `InTile`); at half an overlay's id (`InHalf`); or behind the cut
  (`NoMorePieces`, `NoMoreTiles`), where no step adds anything any more
  (`NothingIsAdded`, `NothingIsDecoded`), though two loops still run there.
- **CApiProofs.** `CallInv` is `CacheInv`, the types, and `Positions`: what holds at
  each place of a call. `CallTypeOK` and `HandleKeepsEntries` follow; the second
  because no step of any call unloads an archive or forgets rows.
  `ListedIdsResolve` needs `KnownIsListed` (what a table declares the index
  keeps) and `ListingIsTable` (the ids are those of the table's files, composed); that
  the ids are as many as the files is a bijection, because a composed id is taken
  apart to the same archive and file (`/` and `%` by a power of two).
  `DumpIsComplete` needs `SweepInv`, which holds between any two archives of a sweep:
  the entries so far can all be read; of the archives that were swept each entry that
  can be read is among them, or comes after a limit that is met; and the ids of
  the archives that remain are above them all. For rows it needs `RowsAreKnown`: a
  provider whose `load` did not throw has exactly the rows that can be read. That
  the dump of gamevals is `null`, and no other call's answer is, is in the statement.
  `HandleUsesCacheSource` composes the refinement: from opening to closing a handle,
  every step of every entry point is at most one step of `CacheSource`.
- **DumperProofs.** `DumpTypeOK`, `MemoryBounded` and `FailedRunKeepsFile` are
  proved from the types and the places, the last from `FileIsKept`: until the output
  is opened it is what the process found. `DumpIsWhole` and `OutDirIsCurrent`, about the end
  of a run, follow from `DumpInv`: a run begins with an empty cache
  (`BeginsFresh`), what is left to sweep is untouched and comes after what is
  out (`TodoIsUntouched`), what was readable all along is out, still to come, or
  behind the limit (`SweptIsOut`), and file and directory hold what is out
  (`FileIsOut`, `DirIsOut`), whatever the runs before have left there.
  `DumperUsesCacheSource` composes the refinement as in `CApiProofs`, evictions and kills
  included.

What these rest on, beyond the types of the constants: the sets of archive and file
ids are finite sets of naturals, as they are 32-bit numbers (`CApiAssumption`,
`DumperAssumption`); a type whose archives are swept whole is sharded, and one of rows
is not, as `TypeMappings` has it; a file id is below 2^shift; an id that is asked for, and a model
that an item names, is in some archive of `ArchiveIds` (`JobsAssumption`,
`ModelsAssumption`), which the cache may well lack. A block is longer than its header
(`SocketAssumption`). A group's blobs, unless of the kind `other`, are a container of
it, or what is left of one, and its table's ids rise, none twice (`GroupsAssumption`); a table's ids rise too, its
parts are complete, and its first byte is its format (`TablesAssumption`);
the codec is any that gives a body's payload back, and refuses what is cut off of a
ZLB's body. A square's tiles have 16-bit coordinates (`MapAssumption`). The files of `CutFilesKeepTheirOwn` are well formed before
they are cut off (`SourcesAssumption`); `DecodedFitsGrid` does not use that, and holds of
any bytes.

`LoadedIsDeclared` (`DeclaredSafe`) and `DoorsBlock` (`DoorsStandInSomething`) are
proved and in no run.

Only model-checked, because the prover does not reach it:

- `RetryRecovers`, `RunEnds`, `EventuallyMirrored`, `CallEnds`, `DecodeEnds`:
  liveness under fairness.
- `CutKeepsEarlier`, which compares the machine of the definitions with a
  writer of their bytes, and `DamageIsBounded`, which adds up what a whole definition
  expands to: both are inductions over data (and the writers are recursive operators).

## 7. What the code does and its documentation does not say

Each of these is a run that TLC refutes, with the statement quoted in
`PROJECT.json`:

| Run | Statement | What happens |
|---|---|---|
| `fallback_ignores_table_version` | `RSCache.h:39-40` | a live group is cut with the local table's file ids, whatever its version |
| `half_loaded_rows` | `nxtcache_c.h:211` | the row provider is kept although its `load` threw: rows behind the damaged one are answered `NXT_ERR_NOT_FOUND` from then on |

Noticed while modelling, each an outcome that the models above have, without a run
of its own:

Caches and the C ABI.
- `evictArchive` drops the declared file ids with the data (`RSCache.cpp:99`), and a
  later read finds a place-holder, where `CacheSource.h:17-19` speaks of memory only.
- An index opened without a reference row stays empty after the fallback is enabled
  (`nxtcache_c.h:63-66`).
- The fallback is asked for a missing row, never for one that fails to decode, so
  that the retry of `Index.cpp:97` does not recover it.
- `CacheSource.h:32` says that live caches do not memoize archives; `Js5Index` keeps
  every archive it loads, and the inherited `evictArchive` frees none.
- A damaged or unreadable archive is answered `NXT_ERR_NOT_FOUND`, as an id that does
  not exist is; a map square that is declared but cannot be read is an empty grid
  and `NXT_OK`; `nxt_dump_all_json("gameval")` succeeds with the text `null`.
- `ConfigProvider::getCapacity` is the id of the last definition where there are
  shards and the number of files where there are none (`ConfigProvider.h:36-83`).

Mirror and socket.
- `--indices 5,255` always ends as fatal (`README.md:93`).
- A mirror resumed after (or crossing) a game update ends with `failed=0` and
  archives of two builds (`RefNoNewerThanRows` says which mixtures are possible),
  where `README.md:87-88` says "byte-for-byte".
- `main.cpp:45` says that an archive is abandoned after five attempts, the code makes
  six. A reconnect sends the key of the first connection again, although
  `Js5Config.cpp:116-118` says that the key rotates on every request and one fetch
  feeds one handshake.
- A file-id mismatch leaves `connected_` set and the rest of the stream unread
  (`Js5Socket.cpp:231-241`), and the next call takes what follows for the name of its
  file. As a rule it fails in turn, until what is left has been read. An answer that
  an earlier, failed call had asked for serves a retry. But a compression type
  and a size that happen to be the index and the archive asked for, or the name on a
  later block of the stray container itself, make it return what is not that file,
  or wait for ever.
- A constructor that throws after `socket_` is set leaks the descriptor
  (`Js5Socket.cpp:136`); the index id is one byte on the wire (`Js5Socket.cpp:214`).

Containers and streams.
- A table that names an id twice, as one that is cut off does, makes the local
  decoder index beyond the counts it has read (`Index.cpp:284-293`): they are as many
  as the archives of the map, and the loop goes over the ids of the table.
- A reference row that cannot be unpacked is decoded all the same
  (`Index.cpp:47-48`).
- `unpackNetworkArchive` does not compare the sizes of the footer with the bytes
  there are (`Js5Archive.cpp:69-95`); the sums of a header and a size wrap near 2^32
  (`Js5Compression.cpp:37`, `:49`). An LZMA container that unpacks to more than it
  says is accepted, short.
- Half a whirlpool is not consumed, and read as what follows it.
- `readFile` inserts a place-holder file for an id the archive does not have.
- Of a tile that ends within its overlay's id, the first half is taken for its rule
  (`MapSquare.cpp:198-206`). A component whose event scripts are cut reads
  what is left of them as the fields behind (`InterfaceTypes.cpp:121`).
- `InterfaceTypes.h:45-46` says that a component's `ColorState` is 16 bytes or 20; the
  code reads 19, 20 or 24. `InterfaceTypes.cpp:112-114` says that the count of event
  scripts is read again in every iteration; the code reads it once (`:118`). The
  widths in `Formats` and `InterfaceFormats` are the code's: nothing else in the
  repository describes the format, so that no run can tell a wrong width.
- A two-byte count is clamped in components only (`InterfaceTypes.cpp:43-54`); the
  vectors of `Types.cpp` are resized to whatever they are told.
- The readers of wide numbers test the sign of a `char`, and so assume that it has one.
- An agility crossing names the slot of the cursor, which may have no option text
  (`MapSquare.cpp:506`); `squareX` is cut to seven bits, so that a square beyond 127
  is another (`:800`).

Dumper.
- The list of gamevals is made outside of any handler (`main.cpp:847`): a damaged
  reference table ends the process by `std::terminate`. With `--index`, another index
  is listed than is read.
- `--limit` is ignored by gamevals, by both scans, and with `--id`; a negative one
  dumps nothing, where the C ABI takes it for none.
- A scan for locations fetches squares that are declared but not stored, although
  `main.cpp:647-649` says that it does not.
- No write is checked, except an icon's, and of that not the last: exit code 0 does
  not say that the document is there. The earlier one is gone as soon as the output
  has been opened (`main.cpp:1120`, `:734`, `:813`, `:905`, `:298`, `:335`), so that a
  kill or a full disk from then on costs both.
- `--out-dir` keeps the older file of a gameval group that cannot be read, and of an
  interface that the index no longer lists (`main.cpp:944-995`). A command
  that makes no sense is refused after the source was opened, with a fallback after
  connecting.

## 8. What is not modelled

- **Live handles and live dumps** (`nxt_cache_open_live`, `--source live`,
  `nxt_fetch_master_crcs`): all they change below `CApi` and `Dumper` is
  `Js5Cache`, whose promise is the same `CacheSource`; the last is one request on a
  connection of its own, without a handle.
- **`ConfigProvider`, `dbFind`**: nothing in `src/` calls them. No document
  says what `preload` promises, and `dbFind` is a lookup in what `DbRowProvider`
  holds.
- **`RSBuffer`'s writing half and ownership**: no decoder writes, and who frees the
  bytes is a matter of C++ types. `readFloat` is taken as the int of its bits.
- **Memory that runs out in the middle of a decoder or a call** (`bad_alloc`), except
  the second `malloc` of the C ABI and what a negative count makes of a `resize`.
- **Two details of the decoders**: `EnumType::entryCount`, which the opcode that
  follows overwrites, and the table of gameval names.
- **What is printed**: JSON, BMP, progress, and how a command line is parsed.
- **Sprite and model decoders**: arrays of pixels and vertices, without control beyond
  their counts.
- **Js5Config, HttpClient**: one request and a line parser; a step that succeeds
  or fails in `Mirror` and `Js5Socket`.
- **Icon renderer**: floating-point rasterisation without state.
- **gzip**: vendored. **Interface script**: maintenance script.

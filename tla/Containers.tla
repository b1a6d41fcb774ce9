----------------------------- MODULE Containers -----------------------------
(***************************************************************************)
(* What is in the bytes of an index: its reference table (core/Index.cpp,    *)
(* network/Js5Index.cpp), the container around a group (Index::decompress,     *)
(* js5::decompress), the two layouts of the files in it (decodeArchiveBlob for  *)
(* a row of sqlite, js5::unpackNetworkArchive for an answer of the servers) and  *)
(* the slices Archive::readFile cuts.                                           *)
(*                                                                              *)
(* An index is opened by one of the backends, and one of its archives is read    *)
(* until a blob is accepted.  The codecs are a parameter.  Sizes are taken to be  *)
(* below 2^31 - 16, where the code's unsigned sums do not wrap.                   *)
(***************************************************************************)
EXTENDS RSBuffer, FiniteSets, SequencesExt

CONSTANTS
  Inflate(_, _),  \* the codec of a container type: the bytes, or Refused
  Indices,        \* [table, asked, group]: a table, an archive, and what is stored for it
  Blobs,          \* by a group, what may be read of it
  Asked           \* the files that are asked for

(* What the code makes of bytes: something, an error, or a step out of a      *)
(* buffer.  An error is a code in core and an exception in network; whoever     *)
(* asked for an archive leaves it as it was in both cases.                       *)
Result(r) == [how |-> "result", of |-> r]
Refused == [how |-> "refused", of |-> <<>>]
Undefined == [how |-> "undefined", of |-> <<>>]

VARIABLES
  input,      \* the member of Indices
  backend,    \* "none" before the index is opened
  index,      \* the decoded table
  archive,    \* the Archive of input.asked
  accepted    \* the blob that was decoded into it, if any

indexVars == <<input, backend, index, archive, accepted>>

-----------------------------------------------------------------------------
(* Reference tables.                                                         *)

\* What is read at a position, of the numbers of a format and of the fixed parts.  A
\* whirlpool is read whole or not at all, not even what is left.
Numbers(buf, format) ==
  [pos \in Nat |-> IF format >= 7 THEN readSmartInt(buf, pos) ELSE readUnsignedShort(buf, pos)]

Ints(buf) == [pos \in Nat |-> readInt(buf, pos)]

Whirlpools(buf) ==
  [pos \in Nat |-> Answer(<<0>>, IF canRead(buf, pos, 64) THEN pos + 64 ELSE pos)]

SizePairs(buf) ==
  [pos \in Nat |->
     LET compressed == readInt(buf, pos)
         uncompressed == readInt(buf, compressed.pos)
     IN  Answer(<<compressed.value \o uncompressed.value>>, uncompressed.pos)]

\* n values in a row, and the position behind them.
Repeated(reads, pos, n) ==
  LET read[i \in 0 .. n] ==
        IF i = 0 THEN Answer(<<>>, pos)
        ELSE LET before == read[i - 1]
                 next == reads[before.pos]
             IN  Answer(before.value \o next.value, next.pos)
  IN  read[n]

\* As many rows of values as there are counts, each as long as its count.
Rows(reads, pos, counts) ==
  LET read[i \in 0 .. Len(counts)] ==
        IF i = 0 THEN Answer(<<>>, pos)
        ELSE LET before == read[i - 1]
                 row == Repeated(reads, before.pos, counts[i])
             IN  Answer(Append(before.value, row.value), row.pos)
  IN  read[Len(counts)]

\* Differences to the one before, and sizes to where each ends.
Sums(seq) ==
  LET sums[i \in 0 .. Len(seq)] ==
        IF i = 0 THEN <<>>
        ELSE LET before == sums[i - 1]
             IN  Append(before, seq[i] + (IF i = 1 THEN 0 ELSE Last(before)))
  IN  sums[Len(seq)]

\* Whether a mask has the bit of a part: names 1, whirlpools 2, sizes 4, hashes 8.
Has(mask, part) == (mask \div part) % 2 = 1

\* The format, the version, the mask and the number of archives.
TableHead(buf) ==
  LET format == readUnsignedByte(buf, 0)
      version == IF format.value[1] >= 6 THEN readInt(buf, format.pos) ELSE Answer(<<0>>, format.pos)
      mask == readUnsignedByte(buf, version.pos)
      count == Numbers(buf, format.value[1])[mask.pos]
  IN  [format |-> format.value[1], version |-> version.value[1], mask |-> mask.value[1],
       count |-> count.value[1], pos |-> count.pos]

\* Mutant: whirlpools before hashes, as the bits of the mask are ordered.
WhirlpoolsFirst(buf, pos, n, mask) ==
  LET whirlpools == Repeated(Whirlpools(buf), pos, IF Has(mask, 2) THEN n ELSE 0)
      hashes == Repeated(Ints(buf), whirlpools.pos, IF Has(mask, 8) THEN n ELSE 0)
  IN  hashes

\* The hashes, and where the whirlpools behind them end.
HashesAndWhirlpools(buf, pos, n, mask) ==
  LET hashes == Repeated(Ints(buf), pos, IF Has(mask, 8) THEN n ELSE 0)
      whirlpools == Repeated(Whirlpools(buf), hashes.pos, IF Has(mask, 2) THEN n ELSE 0)
  IN  Answer(hashes.value, whirlpools.pos)

\* The parts behind, each with a value for every archive, or none if the table has not
\* the part; of the files of an archive a value for each.
TableColumns(buf, head) ==
  LET ints == Ints(buf)
      numbers == Numbers(buf, head.format)
      n == head.count
      Only(part) == IF Has(head.mask, part) THEN n ELSE 0
      ids == Repeated(numbers, head.pos, n)
      names == Repeated(ints, ids.pos, Only(1))
      crcs == Repeated(ints, names.pos, n)
      hashes == HashesAndWhirlpools(buf, crcs.pos, n, head.mask)
      sizes == Repeated(SizePairs(buf), hashes.pos, Only(4))
      versions == Repeated(ints, sizes.pos, n)
      counts == Repeated(numbers, versions.pos, n)
      files == Rows(numbers, counts.pos, counts.value)
      fileNames == Rows(ints, files.pos, IF Has(head.mask, 1) THEN counts.value ELSE <<>>)
  IN  [ids |-> ids.value, names |-> names.value, crcs |-> crcs.value, hashes |-> hashes.value,
       sizes |-> sizes.value, versions |-> versions.value, files |-> files.value,
       fileNames |-> fileNames.value]

\* The ids as std::multiset holds them: each goes behind those that are not greater.
Inserted(ids, id) ==
  LET place == Cardinality({i \in DOMAIN ids : ids[i] <= id})
  IN  SubSeq(ids, 1, place) \o <<id>> \o SubSeq(ids, place + 1, Len(ids))

Multiset(ids) ==
  LET inserted[i \in 0 .. Len(ids)] ==
        IF i = 0 THEN <<>> ELSE Inserted(inserted[i - 1], ids[i])
  IN  inserted[Len(ids)]

LastPlace(x, seq) == CHOOSE i \in DOMAIN seq : seq[i] = x /\ \A j \in DOMAIN seq : seq[j] = x => j <= i

\* The Archive of one id.  Where the table names an id twice, the values are those of
\* its last place, its files those of all of them.
ArchiveOf(id, ids, values, fileIds, fileNames) ==
  LET Of(rows) == FlattenSeq([i \in DOMAIN ids |-> IF ids[i] = id THEN rows[i] ELSE <<>>])
      files == Of(fileIds)
  IN  [values |-> values[LastPlace(id, ids)],
       fileIds |-> Multiset(files),
       subIds |-> fileIds[LastPlace(id, ids)],
       names |-> [f \in Range(files) |->
                    IF fileNames = <<>> THEN 0 ELSE Of(fileNames)[LastPlace(f, files)]]]

\* What they declare: a version, and the archives by their ids.
Declaring(head, columns) ==
  LET At(column, i, default) == IF column = <<>> THEN default ELSE column[i]
      values == [i \in 1 .. head.count |->
                   [nameHash |-> At(columns.names, i, 0), crc |-> At(columns.crcs, i, 0),
                    hash |-> At(columns.hashes, i, 0), sizes |-> At(columns.sizes, i, <<0, 0>>),
                    version |-> At(columns.versions, i, 0)]]
      archiveIds == Sums(columns.ids)
      fileIds == [i \in 1 .. head.count |-> Sums(columns.files[i])]
  IN  [version |-> head.version, archiveIds |-> archiveIds,
       archives |-> [id \in Range(archiveIds) |->
                       ArchiveOf(id, archiveIds, values, fileIds, columns.fileNames)]]

Table(buf) == LET head == TableHead(buf) IN Declaring(head, TableColumns(buf, head))

\* The live decoder: an unknown format throws.
decodeReferenceTable(buf) ==
  IF readUnsignedByte(buf, 0).value[1] \in 5 .. 7 THEN Result(Table(buf)) ELSE Refused

\* The local one counts the archives of the map, not of the table: with an id twice
\* it reads fewer numbers of files than it then looks up.
decodeReferenceBlob(buf) ==
  LET decoded == decodeReferenceTable(buf)
  IN  IF decoded.how = "result" /\ Cardinality(Range(decoded.of.archiveIds)) < Len(decoded.of.archiveIds)
      THEN Undefined
      ELSE decoded

-----------------------------------------------------------------------------
(* Containers: their payload.                                                *)

IntOf(blob, pos) == readInt(blob, pos).value[1]

\* The payload, if the codec makes exactly as much as the header says.
Exactly(size, inflated) ==
  IF inflated.how = "result" /\ Len(inflated.of) = size THEN inflated ELSE Refused

\* The LZMA decoder stops when its output is full, whatever the stream has left.
AtLeast(size, inflated) ==
  IF inflated.how = "result" /\ size \in 0 .. Len(inflated.of)
  THEN Result(SubSeq(inflated.of, 1, size))
  ELSE Refused

\* js5::decompress: type, size, size when unpacked unless the type is 0, bytes.
decompress(blob) ==
  LET type == blob[1]
      compressedSize == IntOf(blob, 1)
      uncompressedSize == IntOf(blob, 5)
      header == IF type = 0 THEN 5 ELSE 9
      body == SubSeq(blob, header + 1, header + compressedSize)
  IN  IF Len(blob) < 5 \/ Len(blob) < header \/ compressedSize \notin 0 .. Len(blob) - header
      THEN Refused
      ELSE CASE type = 0 -> Result(body)
             [] type \in {1, 2} -> Exactly(uncompressedSize, Inflate(type, body))
             [] type = 3 /\ compressedSize >= 5 -> AtLeast(uncompressedSize, Inflate(3, body))
             [] OTHER -> Refused

ZLB == <<90, 76, 66, 1>>

\* Index::decompress: a row of sqlite is a ZLB container or one of the above.
decompressRow(blob) ==
  IF Len(blob) < 4 THEN Refused
  ELSE IF SubSeq(blob, 1, 4) = ZLB
  THEN Exactly(IntOf(blob, 4), Inflate(2, SubSeq(blob, 9, Len(blob))))
  ELSE decompress(blob)

-----------------------------------------------------------------------------
(* Layouts: the bytes of the files, and where in them each starts.           *)

FilesAt(data, starts) == Result([data |-> data, starts |-> starts])

\* decodeArchiveBlob: one file, or a 1, the place of each, and the files.  A place
\* counts from the 1, and the whole payload is kept.
decodeArchiveBlob(payload, fileIds) ==
  LET first == readUnsignedByte(payload, 0) IN
  IF Len(fileIds) = 1 THEN FilesAt(payload, <<0>>)
  ELSE IF first.value # <<1>> THEN Refused
  ELSE FilesAt(payload, Repeated(Ints(payload), first.pos, Len(fileIds)).value)

\* Mutant: the sizes of a chunk continue those of the one before.
SizesAcrossChunks(payload, footer, nchunks, n) ==
  LET sizes == Sums(Repeated(Ints(payload), footer, n * nchunks).value)
  IN  [c \in 1 .. nchunks |-> SubSeq(sizes, (c - 1) * n + 1, c * n)]

\* Of each chunk the sizes of its parts of the files, each as the difference to the
\* one before it in the same chunk.
chunkSizes(payload, footer, nchunks, n) ==
  [c \in 1 .. nchunks |-> Sums(Repeated(Ints(payload), footer + 4 * n * (c - 1), n).value)]

\* The parts of the files lie chunk by chunk: the part of a file in each chunk, joined.
Assembled(payload, sizes, n) ==
  LET ends == Sums(FlattenSeq(sizes))
      Part(c, f) == LET to == ends[(c - 1) * n + f] IN SubSeq(payload, to - sizes[c][f] + 1, to)
  IN  [f \in 1 .. n |-> FlattenSeq([c \in DOMAIN sizes |-> Part(c, f)])]

\* js5::unpackNetworkArchive: the last byte counts the chunks, a footer before it has
\* their sizes.  Nothing compares those with the bytes there are.
unpackNetworkArchive(payload, subIds) ==
  LET n == Len(subIds)
      nchunks == Last(payload)
      footer == Len(payload) - 1 - 4 * n * nchunks
      sizes == chunkSizes(payload, footer, nchunks, n)
      files == Assembled(payload, sizes, n)
  IN  IF payload = <<>> THEN FilesAt(<<>>, [f \in 1 .. n |-> 0])
      ELSE IF n <= 1 THEN FilesAt(payload, [f \in 1 .. n |-> 0])
      ELSE IF nchunks = 0 \/ footer < 0 THEN Refused
      ELSE IF \E c \in 1 .. nchunks, f \in 1 .. n : sizes[c][f] < 0 THEN Undefined
      ELSE IF Last(Sums(FlattenSeq(sizes))) > Len(payload) THEN Undefined
      ELSE FilesAt(FlattenSeq(files), [f \in 1 .. n |-> Len(FlattenSeq(SubSeq(files, 1, f - 1)))])

-----------------------------------------------------------------------------
(* Files of an archive: FileHeader, Archive::readFile.                       *)

Header(id, offset) == [id |-> id, fileOffset |-> offset]

\* A part of the data, and nothing where it is empty or not inside it.  (A length
\* below 0 wraps in the code; the places of a group's files do not decrease.)
subBuffer(data, start, length) ==
  IF start \notin 0 .. Len(data) - 1 \/ length \notin 1 .. Len(data) - start
  THEN <<>>
  ELSE SubSeq(data, start + 1, start + length)

\* A file ends where the next of the sorted ids starts, the last with the data.
FileSize(a, f) ==
  LET first == CHOOSE i \in DOMAIN a.fileIds :
                 a.fileIds[i] = f /\ \A j \in 1 .. i - 1 : a.fileIds[j] # f
  IN  (IF first = Len(a.fileIds) THEN Len(a.data) ELSE a.files[a.fileIds[first + 1]].fileOffset)
        - a.files[f].fileOffset

fileBytes(a, f) ==
  IF f \notin DOMAIN a.files \/ f \notin Range(a.fileIds) THEN <<>>
  ELSE subBuffer(a.data, a.files[f].fileOffset, FileSize(a, f))

-----------------------------------------------------------------------------
NoArchive == [fileIds |-> <<>>, subIds |-> <<>>, files |-> <<>>, data |-> <<>>, state |-> "absent"]

\* The Archive a decoded table declares for an id.
Declared(table, id) ==
  IF id \notin DOMAIN table.archives THEN NoArchive
  ELSE LET a == table.archives[id] IN
       [fileIds |-> a.fileIds, subIds |-> a.subIds,
        files |-> [f \in Range(a.fileIds) |-> Header(f, 0)], data |-> <<>>, state |-> "declared"]

IndexInit ==
  /\ input \in Indices
  /\ backend = "none" /\ index = Refused
  /\ archive = NoArchive /\ accepted = {}

Opens(by, decoded) ==
  /\ backend = "none" /\ backend' = by
  /\ index' = decoded
  /\ archive' = IF decoded.how = "result" THEN Declared(decoded.of, input.asked) ELSE NoArchive
  /\ UNCHANGED <<input, accepted>>

OpenLocal == Opens("local", decodeReferenceBlob(input.table))
OpenLive == Opens("live", decodeReferenceTable(input.table))

\* What a blob holds for the archive: of a row, or of an answer of the servers, which
\* is cut by the ids of the table in the live cache, by the archive's in the fallback.
Unpacked(blob) ==
  LET ids == IF backend = "live" THEN archive.subIds ELSE archive.fileIds
      payload == IF blob.layout = "row" THEN decompressRow(blob.bytes) ELSE decompress(blob.bytes)
      files == IF blob.layout = "row" THEN decodeArchiveBlob(payload.of, ids)
               ELSE unpackNetworkArchive(payload.of, ids)
  IN  IF payload.how = "refused" THEN Refused ELSE files

Accepts(blob, ids) ==
  LET unpacked == Unpacked(blob)
      StartOf(f) == LET places == {i \in DOMAIN ids : ids[i] = f}
                    IN  unpacked.of.starts[CHOOSE i \in places : \A j \in places : j <= i]
      Placed(files) == [f \in DOMAIN files |-> IF f \in Range(ids) THEN Header(f, StartOf(f)) ELSE files[f]]
  IN  /\ archive.state = "declared" /\ unpacked.how # "refused"
      /\ archive' = IF unpacked.how = "undefined" THEN [archive EXCEPT !.state = "undefined"]
                    ELSE [archive EXCEPT !.state = "loaded", !.data = unpacked.of.data,
                                         !.files = Placed(@)]
      /\ accepted' = {blob}
      /\ UNCHANGED <<input, backend, index>>

\* Index::archive of a row of sqlite.
ReadRow(blob) == backend = "local" /\ blob.layout = "row" /\ Accepts(blob, archive.fileIds)

\* Js5Index::archive, and the fallback of Index::archive.
Fetch(blob) ==
  \/ backend = "live" /\ blob.layout = "network" /\ Accepts(blob, archive.subIds)
  \/ backend = "local" /\ blob.layout = "network" /\ Accepts(blob, archive.fileIds)

\* A blob that is refused leaves the archive as it was, to be read again.
IsRefused(blob) ==
  /\ archive.state = "declared" /\ Unpacked(blob).how = "refused"
  /\ UNCHANGED indexVars

\* Archive::readFile of a file that is not there leaves a header behind.
ReadFile(f) ==
  /\ archive.state \in {"declared", "loaded"} /\ f \notin DOMAIN archive.files
  /\ archive' = [archive EXCEPT !.files = [id \in DOMAIN @ \union {f} |->
                                             IF id = f THEN Header(-1, 0) ELSE @[id]]]
  /\ UNCHANGED <<input, backend, index, accepted>>

IndexNext ==
  \/ OpenLocal \/ OpenLive
  \/ \E blob \in Blobs[input.group] : ReadRow(blob) \/ Fetch(blob) \/ IsRefused(blob)
  \/ \E f \in Asked : ReadFile(f)

IndexSpec == IndexInit /\ [][IndexNext]_indexVars

=============================================================================

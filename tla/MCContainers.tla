---------------------------- MODULE MCContainers ----------------------------
(***************************************************************************)
(* Tables and groups made by a packer that is the decoders' opposite: every  *)
(* format with the parts a table may have, cut off at every byte, and groups   *)
(* of up to three files, some empty, in every container and layout, whole,      *)
(* cut, and with headers that lie.                                             *)
(***************************************************************************)
EXTENDS Groups, Tables

\* A function on 1 .. n as the tuple it is, so that TLC evaluates its elements once.
Tuple(f) == <<>> \o f

Unsigned4(n) == <<n \div 16777216, (n \div 65536) % 256, (n \div 256) % 256, n % 256>>
Int4(n) ==
  IF n >= 0 THEN Unsigned4(n)
  ELSE LET rest == Unsigned4(n + 2147483647 + 1) IN <<rest[1] + 128>> \o Tail(rest)
Short(n) == <<n \div 256, n % 256>>
SmartInt(n) == IF n < 32768 THEN Short(n) ELSE <<128 + n \div 16777216>> \o Tail(Unsigned4(n))

-----------------------------------------------------------------------------
(* Tables.                                                                   *)

\* The k-th archive of a table, its files named by their ids.
Entry(id, k, files) ==
  [id |-> id, name |-> 1000 + k, crc |-> k - 3, hash |-> 70000 * k, sizes |-> <<k, 9 * k>>,
   version |-> 16777216 * k, files |-> files, names |-> [i \in DOMAIN files |-> k - 3 - files[i]]]

Contents ==
  << <<Entry(0, 1, <<4>>), Entry(5, 2, <<1, 2, 7>>), Entry(300, 3, <<0, 260>>)>>,
     <<Entry(40000, 4, <<1, 33000>>), Entry(80000, 5, <<>>)>>,
     <<Entry(2, 6, <<0, 1>>)>>,
     <<>> >>

Masks == <<0, 1, 4, 8, 10, 15>>

\* The numbers of a sequence as differences.
Differences(seq) == [i \in DOMAIN seq |-> seq[i] - (IF i = 1 THEN 0 ELSE seq[i - 1])]

\* Where pieces of bytes that follow each other from a position on begin and end.
EndsOf(from, pieces) == [i \in 0 .. Len(pieces) |-> from + Len(FlattenSeq(SubSeq(pieces, 1, i)))]

TableOf(format, mask, entries) ==
  LET n == Len(entries)
      Number(k) == IF format = 7 THEN SmartInt(k) ELSE Short(k)
      NumbersOf(seq) == [i \in DOMAIN seq |-> Number(seq[i])]
      IntsOf(seq) == FlattenSeq([i \in DOMAIN seq |-> Int4(seq[i])])
      Only(part, bytes) == IF Has(mask, part) THEN bytes ELSE <<>>
      column == [ids |-> [i \in 1 .. n |-> entries[i].id], names |-> [i \in 1 .. n |-> entries[i].name],
                 crcs |-> [i \in 1 .. n |-> entries[i].crc], hashes |-> [i \in 1 .. n |-> entries[i].hash],
                 sizes |-> [i \in 1 .. n |-> entries[i].sizes],
                 versions |-> [i \in 1 .. n |-> entries[i].version],
                 files |-> [i \in 1 .. n |-> entries[i].files],
                 fileNames |-> [i \in 1 .. n |-> entries[i].names]]
      head == <<format>> \o (IF format >= 6 THEN Int4(77) ELSE <<>>) \o <<mask>> \o Number(n)
      ids == NumbersOf(Differences(column.ids))
      values == Only(1, IntsOf(column.names)) \o IntsOf(column.crcs) \o Only(8, IntsOf(column.hashes))
                \o Only(2, [i \in 1 .. 64 * n |-> IF i % 64 = 40 THEN 1 ELSE 0])
                \o Only(4, FlattenSeq([i \in 1 .. n |-> IntsOf(entries[i].sizes)]))
                \o IntsOf(column.versions)
      counts == NumbersOf([i \in 1 .. n |-> Len(entries[i].files)])
      files == [i \in 1 .. n |-> NumbersOf(Differences(entries[i].files))]
      rows == [i \in 1 .. n |-> FlattenSeq(files[i])]
      fileNames == [i \in 1 .. n |-> IntsOf(entries[i].names)]
      idEnds == EndsOf(Len(head), ids)
      countEnds == EndsOf(idEnds[n] + Len(values), counts)
      rowEnds == EndsOf(countEnds[n], rows)
  IN  [format |-> format, mask |-> mask, version |-> IF format >= 6 THEN 77 ELSE 0,
       bytes |-> head \o FlattenSeq(ids) \o values \o FlattenSeq(counts) \o FlattenSeq(rows)
                 \o Only(1, FlattenSeq(fileNames)),
       ends |-> [ids |-> idEnds, counts |-> countEnds, rows |-> rowEnds,
                 files |-> [i \in 1 .. n |-> EndsOf(rowEnds[i - 1], files[i])],
                 names |-> EndsOf(rowEnds[n], fileNames)]]
      @@ column

\* By the number of the format, the mask and the content.  (TLC keeps the value of this
\* one, and computes what the cfg names at every use.)
Sources ==
  Tuple([n \in 1 .. 3 * Len(Masks) * Len(Contents) |->
           TableOf(5 + (n % 3), Masks[1 + ((n \div 3) % Len(Masks))],
                   Contents[1 + ((n \div 18) % Len(Contents))])])

mcTables == Sources

-----------------------------------------------------------------------------
(* Groups.  The codec marks its type, and the end of what it packed.            *)

Deflate(type, bytes) == <<type, 9, 9, 9, 9>> \o bytes \o <<255>>

mcInflate(type, bytes) ==
  IF Len(bytes) >= 6 /\ bytes[1] = type /\ Last(bytes) = 255
  THEN Result(SubSeq(bytes, 6, Len(bytes) - 1))
  ELSE Refused

\* A container whose header says that it unpacks to `more` bytes more than it does,
\* with the payload and where in it the parts of the files are.
Contained(type, packed, more) ==
  LET p == packed.payload
      body == IF type = 0 THEN p ELSE Deflate(IF type = 90 THEN 2 ELSE type, p)
      size == Int4(Len(p) + more)
      header == CASE type = 0 -> <<0>> \o Int4(Len(p))
                  [] type = 90 -> ZLB \o size
                  [] OTHER -> <<type>> \o Int4(Len(body)) \o size
  IN  [type |-> type, payload |-> p, size |-> Len(p) + more, body |-> body,
       bytes |-> header \o body, cuts |-> packed.cuts, ends |-> packed.ends]

Payload(p) == [payload |-> p, cuts |-> <<>>, ends |-> <<>>]

\* The files, part by part in n chunks, as equal as they get, and the footer.
Chunked(files, n) ==
  LET From(f, c) == (Len(files[f]) * c) \div n
      Sizes(c) == [f \in DOMAIN files |-> From(f, c) - From(f, c - 1)]
      parts == FlattenSeq([c \in 1 .. n |-> [f \in DOMAIN files |->
                             SubSeq(files[f], From(f, c - 1) + 1, From(f, c))]])
  IN  [payload |->
         FlattenSeq(parts)
         \o FlattenSeq([c \in 1 .. n |-> LET d == Differences(Sizes(c)) IN
                          FlattenSeq([f \in DOMAIN files |-> Int4(d[f])])])
         \o <<n>>,
       cuts |-> [f \in DOMAIN files |-> [c \in 0 .. n |-> From(f, c)]],
       ends |-> [k \in 0 .. Len(parts) |-> Len(FlattenSeq(SubSeq(parts, 1, k)))]]

StartsOf(files) == [f \in 0 .. Len(files) |-> Len(FlattenSeq(SubSeq(files, 1, f)))]

\* The files behind a 1 and the place of each.
Placed(files) ==
  Payload(<<1>> \o FlattenSeq([f \in DOMAIN files |-> Int4(1 + 4 * Len(files) + StartsOf(files)[f - 1])])
            \o FlattenSeq(files))

Payloads(files, layout) ==
  IF Len(files) = 1 THEN {Payload(files[1])}
  ELSE IF layout = "row" THEN {Placed(files)}
  ELSE {Chunked(files, n) : n \in 1 .. 3}

Blob(layout, kind, bytes, container) ==
  [layout |-> layout, kind |-> kind, bytes |-> bytes, of |-> container]

Types(layout) == IF layout = "row" THEN {0, 1, 2, 3, 90} ELSE 0 .. 3

\* A container as it is, and with the two bytes of a version behind.
Followed(layout, kind, c) ==
  {Blob(layout, kind, c.bytes, c), Blob(layout, kind, c.bytes \o (IF c.type = 90 THEN <<>> ELSE <<0, 7>>), c)}

\* Whole; with headers that lie, of which LZMA's decoder believes the ones that say
\* less; with a type nobody knows; with another payload.
WholeBlobs(files, layout) ==
  UNION {LET c == Contained(t, p, 0)
             more == Contained(t, p, 1)
             less == Contained(t, p, IF p.payload = <<>> THEN 0 ELSE -1)
             odd == Contained(t, Payload(<<2>> \o Tail(Placed(<<p.payload, p.payload>>).payload)), 0)
         IN  Followed(layout, "whole", c)
             \cup {Blob(layout, IF SaysItsSize(more) THEN "whole" ELSE "lies", more.bytes, more),
                   Blob(layout, IF SaysItsSize(less) THEN "whole" ELSE IF t = 3 THEN "other" ELSE "lies",
                        less.bytes, less),
                   Blob(layout, "unknown type", <<4>> \o Tail(c.bytes), c),
                   Blob("row", IF Len(files) = 1 THEN "other" ELSE "no row", odd.bytes, odd)} :
           t \in Types(layout), p \in Payloads(files, layout)}

\* Cut off anywhere.
CutBlobs(files, layout) ==
  UNION {LET c == Contained(t, p, 0) IN
         {Blob(layout, "cut", SubSeq(c.bytes, 1, cut), c) : cut \in 0 .. Len(c.bytes) - 1} :
           t \in Types(layout), p \in Payloads(files, layout)}

File(f, length) == [k \in 1 .. length |-> 10 * f + k]

\* The archive that is read in each content, and the lengths of its files.
AskedArchive == <<5, 40000, 2, 9>>
FileLengths ==
  << << <<2, 3, 1>>, <<0, 2, 4>>, <<3, 0, 0>>, <<5, 1, 0>>, <<0, 0, 0>> >>,
     << <<0, 0>>, <<0, 1>>, <<0, 4>>, <<1, 0>>, <<1, 1>>, <<1, 4>>, <<4, 0>>, <<4, 1>>, <<4, 4>> >>,
     << <<6, 7>> >>,
     << >> >>

\* An archive of one file, which no layout cuts.
SingleLengths == << <<0>>, <<1>>, <<6>> >>

\* The groups by their number, the last one has nothing stored.
Lengths == FlattenSeq(FileLengths) \o SingleLengths
Nothing == Len(Lengths) + 1

FilesOf(g) == IF g = Nothing THEN <<>> ELSE Tuple([f \in DOMAIN Lengths[g] |-> File(f, Lengths[g][f])])
BlobsOf(files) == UNION {WholeBlobs(files, l) \cup CutBlobs(files, l) : l \in {"row", "network"}}

\* (TLC keeps the values of these two, and computes what the cfg names at every use.)
GroupFiles ==
  Tuple([g \in 1 .. Nothing |-> [files |-> FilesOf(g), starts |-> StartsOf(FilesOf(g)),
                                 joined |-> FlattenSeq(FilesOf(g))]])
GroupBlobs == Tuple([g \in 1 .. Nothing |-> IF g = Nothing THEN {} ELSE {b : b \in BlobsOf(FilesOf(g))}])

mcPacked == GroupFiles
mcBlobs == GroupBlobs

Index(sources, n, cut, asked, g) ==
  [source |-> n, whole |-> cut = Len(sources[n].bytes), table |-> SubSeq(sources[n].bytes, 1, cut),
   asked |-> asked, group |-> g]

\* Where the table is whole, one of its archives has a group; where it may be cut,
\* nothing is read.
WholeIndices(sources) ==
  UNION {LET c == 1 + ((n \div 18) % 4) IN
         {Index(sources, n, Len(sources[n].bytes), AskedArchive[c], g) :
            g \in {g \in DOMAIN Lengths : Lengths[g] \in Range(FileLengths[c])}} : n \in {1, 20, 38}}
  \cup {Index(sources, 1, Len(sources[1].bytes), 0, g) :
          g \in {g \in DOMAIN Lengths : Lengths[g] \in Range(SingleLengths)}}

CutIndices(sources) ==
  UNION {{Index(sources, n, cut, AskedArchive[1], Nothing) : cut \in 0 .. Len(sources[n].bytes)} :
           n \in DOMAIN sources}

mcIndices == LET sources == Sources IN WholeIndices(sources) \cup CutIndices(sources)

=============================================================================

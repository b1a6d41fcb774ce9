------------------------------- MODULE Tables --------------------------------
(***************************************************************************)
(* What a reference table says, and what decoding it must give.  A table has *)
(* its format and mask, the values of its archives, one column for each part,  *)
(* and its bytes, of which it is said where each number is and what it means.   *)
(* None of it says how a decoder gets there.                                     *)
(***************************************************************************)
EXTENDS Containers

CONSTANT WrittenTables   \* by input.source

-----------------------------------------------------------------------------
(* Numbers.                                                                  *)

\* The bytes from `from` to `to` are v: two, or in format 7 also four with the highest
\* bit set, which tells them from two.
IsNumber(w, from, to, v) ==
  /\ to <= Len(w.bytes)
  /\ \/ /\ to = from + 2
        /\ w.format = 7 => w.bytes[from + 1] < 128
        /\ v = 256 * w.bytes[from + 1] + w.bytes[from + 2]
     \/ /\ to = from + 4
        /\ w.format = 7 /\ w.bytes[from + 1] >= 128
        /\ v = WithoutSign(IntAt(w.bytes, from))

\* Ids are written as differences, the first as it is.
Difference(ids, i) == ids[i] - (IF i = 1 THEN 0 ELSE ids[i - 1])

Rising(ids) == \A i, j \in DOMAIN ids : i < j => ids[i] < ids[j]

\* A column of n values of four bytes each, from a position on.
IsColumn(w, from, column, n) ==
  /\ column \in Seq(Int) /\ Len(column) = n
  /\ from + 4 * n <= Len(w.bytes)
  /\ \A i \in 1 .. n : IntAt(w.bytes, from + 4 * (i - 1)) = column[i]

-----------------------------------------------------------------------------
(* A table.  Its parts follow each other in this order; `ends` says where the   *)
(* numbers of each are, which have no fixed width: ends.ids[i] is where the one   *)
(* of the archive i ends, and ends.ids[0] where the first begins.                 *)

Width(w, part, size) == IF Has(w.mask, part) THEN size * Len(w.ids) ELSE 0

FlagsOf(w) == IF w.format = 5 THEN 1 ELSE 5
NamesOf(w) == w.ends.ids[Len(w.ids)]
CrcsOf(w) == NamesOf(w) + Width(w, 1, 4)
HashesOf(w) == CrcsOf(w) + 4 * Len(w.ids)
WhirlpoolsOf(w) == HashesOf(w) + Width(w, 8, 4)
SizesOf(w) == WhirlpoolsOf(w) + Width(w, 2, 64)
VersionsOf(w) == SizesOf(w) + Width(w, 4, 8)
CountsOf(w) == VersionsOf(w) + 4 * Len(w.ids)

HasHead(w) ==
  /\ w.format \in 5 .. 7 /\ FlagsOf(w) < Len(w.bytes)
  /\ w.bytes[1] = w.format /\ w.bytes[FlagsOf(w) + 1] = w.mask
  /\ w.version = IF w.format = 5 THEN 0 ELSE IntAt(w.bytes, 1)
  /\ IsNumber(w, FlagsOf(w) + 1, w.ends.ids[0], Len(w.ids))

HasArchiveIds(w) ==
  LET n == Len(w.ids) IN
  /\ w.ids \in Seq(Nat) /\ Rising(w.ids)
  /\ w.ends.ids \in [0 .. n -> Nat]
  /\ \A i \in 1 .. n : IsNumber(w, w.ends.ids[i - 1], w.ends.ids[i], Difference(w.ids, i))

HasValues(w) ==
  LET n == Len(w.ids) IN
  /\ Has(w.mask, 1) => IsColumn(w, NamesOf(w), w.names, n)
  /\ IsColumn(w, CrcsOf(w), w.crcs, n)
  /\ Has(w.mask, 8) => IsColumn(w, HashesOf(w), w.hashes, n)
  /\ Has(w.mask, 4) =>
       /\ w.sizes \in Seq(Int \X Int) /\ Len(w.sizes) = n
       /\ \A i \in 1 .. n :
            w.sizes[i] = <<IntAt(w.bytes, SizesOf(w) + 8 * (i - 1)),
                           IntAt(w.bytes, SizesOf(w) + 8 * (i - 1) + 4)>>
  /\ IsColumn(w, VersionsOf(w), w.versions, n)

\* How many files each archive has, and then the ids of them.
HasFiles(w) ==
  LET n == Len(w.ids) IN
  /\ w.files \in Seq(Seq(Nat)) /\ Len(w.files) = n
  /\ \A i \in 1 .. n : Rising(w.files[i])
  /\ w.ends.counts \in [0 .. n -> Nat] /\ w.ends.counts[0] = CountsOf(w)
  /\ \A i \in 1 .. n :
       IsNumber(w, w.ends.counts[i - 1], w.ends.counts[i], Len(w.files[i]))
  /\ w.ends.rows \in [0 .. n -> Nat] /\ w.ends.rows[0] = w.ends.counts[n]
  /\ \A i \in 1 .. n :
       LET m == Len(w.files[i])
           ends == w.ends.files[i]
       IN  /\ ends \in [0 .. m -> Nat] /\ ends[0] = w.ends.rows[i - 1] /\ ends[m] = w.ends.rows[i]
           /\ \A f \in 1 .. m : IsNumber(w, ends[f - 1], ends[f], Difference(w.files[i], f))

\* And, where the archives have names, the names of their files.
HasFileNames(w) ==
  LET n == Len(w.ids) IN
  Has(w.mask, 1) =>
    /\ w.fileNames \in Seq(Seq(Int)) /\ Len(w.fileNames) = n
    /\ w.ends.names \in [0 .. n -> Nat] /\ w.ends.names[0] = w.ends.rows[n]
    /\ \A i \in 1 .. n :
         /\ w.ends.names[i] = w.ends.names[i - 1] + 4 * Len(w.files[i])
         /\ IsColumn(w, w.ends.names[i - 1], w.fileNames[i], Len(w.files[i]))

IsTable(w) ==
  /\ w.bytes \in Seq(Byte)
  /\ HasHead(w) /\ HasArchiveIds(w) /\ HasValues(w) /\ HasFiles(w) /\ HasFileNames(w)

\* The index reads a beginning of a table, or all of it.
ASSUME TablesAssumption ==
  /\ \A i \in Indices : i.source \in DOMAIN WrittenTables
  /\ \A s \in DOMAIN WrittenTables : IsTable(WrittenTables[s])
  /\ \A i \in Indices :
       LET bytes == WrittenTables[i.source].bytes
       IN  \E cut \in 0 .. Len(bytes) : i.table = SubSeq(bytes, 1, cut) /\ i.whole = (cut = Len(bytes))

-----------------------------------------------------------------------------
(* What it declares.                                                         *)

PlaceOf(x, seq) == CHOOSE i \in DOMAIN seq : seq[i] = x

\* The archive in the i-th place.
WrittenArchive(w, i) ==
  LET Kept(part, column, default) == IF Has(w.mask, part) THEN column[i] ELSE default IN
  [values |-> [nameHash |-> Kept(1, w.names, 0), crc |-> w.crcs[i], hash |-> Kept(8, w.hashes, 0),
               sizes |-> Kept(4, w.sizes, <<0, 0>>), version |-> w.versions[i]],
   fileIds |-> w.files[i], subIds |-> w.files[i],
   names |-> [f \in Range(w.files[i]) |->
                IF Has(w.mask, 1) THEN w.fileNames[i][PlaceOf(f, w.files[i])] ELSE 0]]

Written(w) ==
  [version |-> w.version, archiveIds |-> w.ids,
   archives |-> [id \in Range(w.ids) |-> WrittenArchive(w, PlaceOf(id, w.ids))]]

\* Both decoders make of a table exactly what was written, whatever its format and
\* the parts it has: nothing delimits a part, so that one byte more or less would
\* shift all that follows.  Of a table that is cut off, no archive and no file is
\* declared that the whole one does not declare, but for the id 0 (a table with
\* whirlpools excepted, half of one being read as what follows it).
TablesAreExact ==
  LET w == WrittenTables[input.source] IN
  backend # "none" =>
    /\ input.whole => index = Result(Written(w))
    /\ index.how = "result" /\ ~Has(w.mask, 2) =>
         \A id \in DOMAIN index.of.archives :
           /\ id \in Range(w.ids) \cup {0}
           /\ Range(index.of.archives[id].fileIds)
                \subseteq {0} \cup UNION {Range(w.files[i]) : i \in DOMAIN w.files}

=============================================================================

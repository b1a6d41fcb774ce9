------------------------------- MODULE Groups --------------------------------
(***************************************************************************)
(* What a packed group of files is, and what reading it back must give.  A   *)
(* group has its files, and each of its blobs the container it was made from: *)
(* how that describes itself, what it holds, and where in that the parts of    *)
(* the files are.  None of it says how a decoder finds them.                    *)
(***************************************************************************)
EXTENDS Containers

CONSTANT PackedGroups   \* by a group: its files, and the same joined

-----------------------------------------------------------------------------
(* Payloads.  Where all files are joined, starts[f - 1] is where the file f      *)
(* begins and starts[f] is where it ends.                                        *)

AreJoined(files, starts, joined) ==
  /\ files \in Seq(Seq(Byte)) /\ joined \in Seq(Byte)
  /\ starts \in [0 .. Len(files) -> Nat]
  /\ starts[0] = 0 /\ starts[Len(files)] = Len(joined)
  /\ \A f \in 1 .. Len(files) :
       /\ starts[f] = starts[f - 1] + Len(files[f])
       /\ SubSeq(joined, starts[f - 1] + 1, starts[f]) = files[f]

IsSingle(p, files) == Len(files) = 1 /\ p = files[1]

\* A row: a 1, the place of each file from there, and the files.
IsRow(p, files, starts) ==
  LET n == Len(files)
      head == 1 + 4 * n
  IN  /\ n > 1
      /\ Len(p) = head + starts[n] /\ p[1] = 1
      /\ \A f \in 1 .. n :
           /\ IntAt(p, 1 + 4 * (f - 1)) = head + starts[f - 1]
           /\ SubSeq(p, head + starts[f - 1] + 1, head + starts[f]) = files[f]

\* An answer of the servers: in each chunk a part of every file, from where the chunk
\* before left off (`cuts`).  The parts follow each other (`ends`), then, chunk by chunk,
\* how much longer each part is than the one before it, and the number of chunks.
IsChunked(p, cuts, ends, files) ==
  LET n == Len(files)
      m == p[Len(p)]
      Size(c, f) == cuts[f][c] - cuts[f][c - 1]
  IN  /\ n > 1 /\ Len(p) > 0 /\ m > 0
      /\ cuts \in [1 .. n -> [0 .. m -> Nat]]
      /\ \A f \in 1 .. n : cuts[f][0] = 0 /\ cuts[f][m] = Len(files[f])
      /\ ends \in [0 .. m * n -> Nat] /\ ends[0] = 0
      /\ Len(p) = ends[m * n] + 4 * n * m + 1
      /\ \A c \in 1 .. m, f \in 1 .. n :
           LET k == (c - 1) * n + f IN
           /\ Size(c, f) \in Nat /\ ends[k] = ends[k - 1] + Size(c, f)
           /\ SubSeq(p, ends[k - 1] + 1, ends[k]) = SubSeq(files[f], cuts[f][c - 1] + 1, cuts[f][c])
           /\ IntAt(p, ends[m * n] + 4 * (k - 1)) =
                Size(c, f) - (IF f = 1 THEN 0 ELSE Size(c, f - 1))

-----------------------------------------------------------------------------
(* Containers: of the numbered types, or ZLB (type 90).  `size` is what the      *)
(* header says of the payload, `body` is what the codec made of it.              *)

HeaderSize(type) == IF type = 0 THEN 5 ELSE IF type = 90 THEN 8 ELSE 9

\* A part of what was deflated does not inflate.
IsWhole(body) == body # <<>> /\ \A k \in 0 .. Len(body) - 1 : Inflate(2, SubSeq(body, 1, k)) = Refused

IsContainer(c) ==
  LET h == HeaderSize(c.type) IN
  /\ c.type \in {0, 1, 2, 3, 90}
  /\ c.bytes \in Seq(Byte) /\ c.body \in Seq(Byte) /\ c.payload \in Seq(Byte) /\ c.size \in Int
  /\ Len(c.bytes) = h + Len(c.body) /\ SubSeq(c.bytes, h + 1, Len(c.bytes)) = c.body
  /\ c.type # 90 => c.bytes[1] = c.type /\ IntAt(c.bytes, 1) = Len(c.body)
  /\ c.type = 0 => c.payload = c.body
  /\ c.type \in {1, 2, 3} => IntAt(c.bytes, 5) = c.size /\ Inflate(c.type, c.body) = Result(c.payload)
  /\ c.type = 3 => Len(c.body) >= 5
  /\ c.type = 90 =>
       /\ SubSeq(c.bytes, 1, 4) = ZLB /\ IntAt(c.bytes, 4) = c.size
       /\ Inflate(2, c.body) = Result(c.payload) /\ IsWhole(c.body)

\* Type 0 has no size to be wrong about.
SaysItsSize(c) == c.type = 0 \/ c.size = Len(c.payload)

\* The bytes are those of a container; of a ZLB, nothing may follow.
BeginsWith(bytes, c) ==
  /\ Len(c.bytes) <= Len(bytes) /\ SubSeq(bytes, 1, Len(c.bytes)) = c.bytes
  /\ c.type = 90 => Len(bytes) = Len(c.bytes)

HoldsGroup(layout, c, files, starts) ==
  \/ IsSingle(c.payload, files)
  \/ layout = "row" /\ IsRow(c.payload, files, starts)
  \/ layout = "network" /\ IsChunked(c.payload, c.cuts, c.ends, files)

\* What may be found where a group should be, and which part of it is the group's.
IsBlob(blob, files, starts) ==
  LET c == blob.of IN
  /\ blob.layout \in {"row", "network"} /\ blob.bytes \in Seq(Byte)
  /\ IsContainer(c) /\ (c.type = 90 => blob.layout = "row")
  /\ \/ blob.kind = "whole" /\ BeginsWith(blob.bytes, c) /\ SaysItsSize(c)
        /\ HoldsGroup(blob.layout, c, files, starts)
     \/ blob.kind = "cut" /\ \E cut \in 0 .. Len(c.bytes) - 1 : blob.bytes = SubSeq(c.bytes, 1, cut)
     \/ blob.kind = "lies" /\ BeginsWith(blob.bytes, c) /\ ~SaysItsSize(c)
        /\ (c.type = 3 => c.size > Len(c.payload))
     \/ blob.kind = "unknown type" /\ blob.bytes[1] \notin {0, 1, 2, 3, 90}
     \/ blob.kind = "no row" /\ BeginsWith(blob.bytes, c) /\ SaysItsSize(c) /\ blob.layout = "row" /\ Len(files) > 1
        /\ (c.payload = <<>> \/ c.payload[1] # 1)
     \/ blob.kind = "other"

-----------------------------------------------------------------------------
(* Where there are blobs, the table declares as many files, in their order.   *)

DeclaresFiles(i) ==
  LET table == decodeReferenceTable(i.table)
      a == table.of.archives[i.asked]
      n == Len(PackedGroups[i.group].files)
  IN  /\ table.how = "result" /\ i.asked \in DOMAIN table.of.archives
      /\ n > 0 /\ a.fileIds \in Seq(Int) /\ Len(a.fileIds) = n /\ a.subIds = a.fileIds
      /\ \A f, g \in 1 .. n : f < g => a.fileIds[f] < a.fileIds[g]

ASSUME GroupsAssumption ==
  /\ \A i \in Indices : i.group \in DOMAIN Blobs
  /\ \A i \in Indices : Blobs[i.group] # {} => DeclaresFiles(i)
  /\ \A g \in DOMAIN Blobs :
       LET files == PackedGroups[g].files
           starts == PackedGroups[g].starts
       IN  /\ AreJoined(files, starts, PackedGroups[g].joined)
           /\ \A blob \in Blobs[g] : IsBlob(blob, files, starts)

-----------------------------------------------------------------------------
(* Properties.                                                                *)

\* A group that is all there is accepted, in every container and both layouts.  And
\* whatever was tried and refused or asked for before, an archive that accepted a blob
\* has exactly the files that were packed: not those of a container that was cut or
\* that lies, and nothing for an id that is not there.  (An LZMA container that
\* unpacks to more than it says is the exception: the decoder stops when it is full.)
FilesReadBack ==
  LET ids == archive.fileIds IN
  /\ archive.state = "declared" =>
       \A blob \in Blobs[input.group] :
         blob.kind = "whole" /\ (blob.layout = "row" => backend = "local") => Unpacked(blob).how = "result"
  /\ \A blob \in accepted : blob.kind # "other" =>
       /\ archive.state = "loaded"
       /\ \A i \in DOMAIN ids : fileBytes(archive, ids[i]) = PackedGroups[input.group].files[i]
       /\ \A f \in Asked \ Range(ids) : fileBytes(archive, f) = <<>>

=============================================================================

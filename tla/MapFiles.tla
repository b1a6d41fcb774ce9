------------------------------ MODULE MapFiles -------------------------------
(***************************************************************************)
(* What the two files of a map square mean, and what is left of that where   *)
(* one of them is cut off.  A whole file comes with a description of what is  *)
(* in it, which says nothing of a decoder: for each value of a file of         *)
(* placements where it stands and what it adds, and for each tile where it      *)
(* begins and what it has.                                                       *)
(***************************************************************************)
EXTENDS MapStream

CONSTANT Sources    \* the whole files, by their ids: a stream is a part of one

\* A value below 32768, in one byte or in two.
IsLong(b, p) == b[p + 1] >= 128
SmartOf(b, p) == IF IsLong(b, p) THEN 256 * (b[p + 1] - 128) + b[p + 2] ELSE b[p + 1]
AfterSmart(b, p) == p + (IF IsLong(b, p) THEN 2 ELSE 1)
HasSmart(b, p) == p < Len(b) /\ AfterSmart(b, p) <= Len(b)

HasBit(n, w) == (n \div w) % 2 = 1

-----------------------------------------------------------------------------
(* Placements.  A piece is a value of the file: one of the parts ("more", all  *)
(* but the last) that make the difference to the id before, a placement, the     *)
(* zero behind an object's placements, or the one behind the last object.  `base` *)
(* is the id before, `id` is the id as far as it is known in front of the piece,    *)
(* `location` and `kept` are that of the placement before, and their number.        *)

\* What follows the byte of shape and rotation, if that has its highest bit.
CustomBytes(flags) ==
  LET Pair(w) == IF HasBit(flags, w) THEN 2 ELSE 0
  IN  (IF HasBit(flags, 1) THEN 8 ELSE 0) + Pair(2) + Pair(4) + Pair(8)
      + (IF HasBit(flags, 16) THEN 2 ELSE Pair(32) + Pair(64) + Pair(128))

AfterPacked(b, p) == IF b[p + 1] >= 128 THEN p + 2 + CustomBytes(b[p + 2]) ELSE p + 1

MorePiece(b, q, r) ==
  /\ q.kind = "more" /\ SmartOf(b, q.at) = Sentinel
  /\ r.kind \in {"more", "object"}
  /\ r.at = AfterSmart(b, q.at) /\ r.id = q.id + Sentinel
  /\ r.base = q.base /\ r.kept = q.kept

ObjectPiece(b, q, r) ==
  /\ q.kind = "object" /\ SmartOf(b, q.at) # Sentinel
  /\ r.kind \in {"placement", "close"}
  /\ r.at = AfterSmart(b, q.at) /\ r.id = q.id + SmartOf(b, q.at) /\ r.id # q.base
  /\ r.location = 0 /\ r.kept = q.kept

\* Where a placement is: the grid is numbered plane by plane, column by column.
StandsAt(what, l) ==
  /\ what.plane \in Nat /\ what.localX \in 0 .. SIZE - 1 /\ what.localY \in 0 .. SIZE - 1
  /\ l = (what.plane * SIZE + what.localX) * SIZE + what.localY

PlacementPiece(f, q, r) ==
  LET b == f.bytes
      packed == AfterSmart(b, q.at)
      l == q.location + SmartOf(b, q.at) - 1
  IN  /\ q.kind = "placement" /\ SmartOf(b, q.at) # 0
      /\ packed < Len(b) /\ AfterPacked(b, packed) <= Len(b)
      /\ r.kind \in {"placement", "close"}
      /\ r.at = AfterPacked(b, packed) /\ r.id = q.id /\ r.location = l
      /\ IF l < PLANES * SIZE * SIZE
         THEN LET e == f.there[r.kept] IN
              /\ r.kept = q.kept + 1 /\ r.kept <= Len(f.there)
              /\ e.end = packed + 1 /\ StandsAt(e.what, l)
              /\ e.what = [e.what EXCEPT !.objectId = q.id, !.rotation = b[packed + 1] % 4,
                                         !.shape = (b[packed + 1] \div 4) % 32]
         ELSE r.kept = q.kept

ClosePiece(b, q, r) ==
  /\ q.kind = "close" /\ SmartOf(b, q.at) = 0
  /\ r.kind \in {"more", "object", "last"}
  /\ r.at = AfterSmart(b, q.at) /\ r.base = q.id /\ r.id = q.id /\ r.kept = q.kept

Piece == [kind : {"more", "object", "placement", "close", "last"}, at : Nat, base : Int, id : Int,
          location : Nat, kept : Nat]

FileOfPlacements(f) ==
  LET n == Len(f.pieces)
      first == f.pieces[1]
      last == f.pieces[n]
  IN  /\ f.bytes \in Seq(Byte) /\ f.pieces \in Seq(Piece) /\ n > 0
      /\ f.there \in Seq([end : Nat, what : [objectId : Int, plane : Nat, localX : Nat, localY : Nat,
                                             shape : Nat, rotation : Nat]])
      /\ first.kind \in {"more", "object", "last"} /\ first.at = 0
      /\ first.base = -1 /\ first.id = -1 /\ first.kept = 0
      /\ \A i \in 1 .. n : HasSmart(f.bytes, f.pieces[i].at)
      /\ \A i \in 1 .. n - 1 :
           \/ MorePiece(f.bytes, f.pieces[i], f.pieces[i + 1])
           \/ ObjectPiece(f.bytes, f.pieces[i], f.pieces[i + 1])
           \/ PlacementPiece(f, f.pieces[i], f.pieces[i + 1])
           \/ ClosePiece(f.bytes, f.pieces[i], f.pieces[i + 1])
      /\ last.kind = "last" /\ SmartOf(f.bytes, last.at) = 0 /\ last.kept = Len(f.there)

-----------------------------------------------------------------------------
(* Terrain.  A tile is its flags and the parts they name: a byte and an overlay's *)
(* id, a rule, and two ids of underlays.                                           *)

RulePlace(b, p) == IF HasBit(b[p + 1], 1) THEN AfterSmart(b, p + 2) ELSE p + 1
UnderlayPlace(b, p) == RulePlace(b, p) + (IF HasBit(b[p + 1], 2) THEN 1 ELSE 0)
AfterUnderlay(b, p) ==
  IF HasBit(b[p + 1], 4) THEN AfterSmart(b, UnderlayPlace(b, p)) ELSE UnderlayPlace(b, p)
AfterTile(b, p) == AfterUnderlay(b, p) + (IF HasBit(b[p + 1], 8) THEN 2 ELSE 0)

FileOfTerrain(f) ==
  /\ f.bytes \in Seq(Byte) /\ HeaderSize <= Len(f.bytes)
  /\ f.tiles \in [Tiles -> [at : Nat, overlay : Nat, rule : Byte]]
  /\ 0 \in Tiles => f.tiles[0].at = HeaderSize
  /\ \A t \in Tiles :
       LET b == f.bytes
           p == f.tiles[t].at
       IN  /\ p < Len(b) /\ AfterTile(b, p) <= Len(b)
           /\ t + 1 \in Tiles => f.tiles[t + 1].at = AfterTile(b, p)
           /\ f.tiles[t].overlay = IF HasBit(b[p + 1], 1) THEN SmartOf(b, p + 2) ELSE 0
           /\ f.tiles[t].rule = IF HasBit(b[p + 1], 2) THEN b[RulePlace(b, p) + 1] ELSE 0

-----------------------------------------------------------------------------
(* A stream is a file that may be cut off anywhere. *)
ASSUME SourcesAssumption ==
  /\ \A n \in DOMAIN Sources :
       \/ Sources[n].file = "locations" /\ FileOfPlacements(Sources[n])
       \/ Sources[n].file = "terrain" /\ FileOfTerrain(Sources[n])
  /\ \A s \in Streams :
       /\ s.id \in DOMAIN Sources /\ s.file = Sources[s.id].file
       /\ \E cut \in 0 .. Len(Sources[s.id].bytes) : s.bytes = SubSeq(Sources[s.id].bytes, 1, cut)

source == Sources[stream.id]

-----------------------------------------------------------------------------
(* Properties.                                                               *)

\* Of a file of placements that is cut off anywhere, the placements are a prefix of
\* the whole file's: exactly those whose byte with shape and rotation is there,
\* with their own ids and places.  None is made up from half a value.
PlacementsArePrefix ==
  phase = "done" /\ stream.file = "locations" =>
    /\ Len(result) <= Len(source.there)
    /\ \A i \in DOMAIN result : result[i] = source.there[i].what
    /\ \A i \in DOMAIN source.there : source.there[i].end <= end <=> i <= Len(result)

\* The first half of an overlay's id, where the file ends behind it and a rule was to
\* come.
HalfId(b, p) ==
  IF HasBit(b[p + 1], 1) /\ HasBit(b[p + 1], 2) /\ IsLong(b, p + 2) /\ end = p + 3
  THEN {b[p + 3]} ELSE {}

\* Of a cut file of terrain, a tile that is all there has its own values and a tile
\* that is not begun has none, so that a square is blocked, flooded and bridged
\* where its whole file says so.  The tile with the cut has its own values or none,
\* but for the first half of an overlay's id that is taken for its rule.
TilesAreTheirOwn ==
  phase = "done" /\ stream.file = "terrain" /\ end >= HeaderSize =>
    \A t \in Tiles :
      LET b == source.bytes
          w == source.tiles[t]
      IN  /\ overlayIds[t] \in {0, w.overlay}
          /\ renderRules[t] \in {0, w.rule} \cup HalfId(b, w.at)
          /\ end >= AfterTile(b, w.at) => overlayIds[t] = w.overlay /\ renderRules[t] = w.rule
          /\ end <= w.at => overlayIds[t] = 0 /\ renderRules[t] = 0

\* Of what a cut file still holds, nothing is lost, moved or made up.
CutKeepsItsOwn == PlacementsArePrefix /\ TilesAreTheirOwn

=============================================================================

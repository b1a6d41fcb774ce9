------------------------------ MODULE MapStream ------------------------------
(***************************************************************************)
(* The two files of a map square, as maps/MapSquare.cpp decodes them: the    *)
(* placements of locations (decodeLocationData) and the terrain               *)
(* (decodeMapTerrain).  What comes out is what MapSquare builds a square from.  *)
(*                                                                             *)
(* Neither decoder reports that a stream was cut off.  A step is one value of   *)
(* a stream of placements, or one part of a tile; `ptr` counts the bytes read,   *)
(* and may pass the end, where nothing is read any more.                          *)
(***************************************************************************)
EXTENDS RSBuffer

CONSTANTS
  SIZE,        \* MapSquareClip::SIZE, a power of two
  PLANES,      \* MapSquareClip::PLANES
  Streams      \* the files: [file, bytes]

ASSUME StreamAssumption ==
  /\ SIZE \in Nat \ {0} /\ PLANES \in Nat \ {0}
  /\ \A s \in Streams : s.file \in {"locations", "terrain"} /\ s.bytes \in Seq(Byte)

VARIABLES
  stream,      \* the file that is decoded
  ptr,
  phase,       \* what is read next, or "done"
  incr,        \* the sentinels of the difference being read
  objectId, location,
  result,      \* the placements
  tile,        \* how many tiles are done
  streamFlags, \* of the tile being read
  overlayIds, renderRules     \* of the tiles, 0 where none was read

locs == <<incr, objectId, location, result>>
tiles == <<tile, streamFlags, overlayIds, renderRules>>
streamVars == <<stream, ptr, phase, locs, tiles>>

data == stream.bytes
end == Len(data)
At(p) == data[p + 1]

HeaderSize == 5
Tiles == 0 .. PLANES * SIZE * SIZE - 1
Sentinel == 32767

-----------------------------------------------------------------------------
(* Readers: [value, ptr].                                                    *)

Read(value, p) == [value |-> value, ptr |-> p]

\* Unlike RSBuffer's, this one leaves a byte that needs a second one unread.
readMapSmart(p) ==
  IF p >= end THEN Read(0, p)
  ELSE IF At(p) < 128 THEN Read(At(p), p + 1)
  ELSE IF p + 1 >= end THEN Read(0, p)
  ELSE Read(256 * At(p) + At(p + 1) - 32768, p + 2)

\* The bit of n that is worth w.
FlagBit(n, w) == (n \div w) % 2

\* Mutant: three of the parts are there whatever the flags.
CustomizationWithoutElse(flags) ==
  8 * FlagBit(flags, 1) + 2 * (FlagBit(flags, 2) + FlagBit(flags, 4) + FlagBit(flags, 8) + FlagBit(flags, 16)
                           + FlagBit(flags, 32) + FlagBit(flags, 64) + FlagBit(flags, 128))

\* The bytes of a customization behind its flags.
CustomizationLength(flags) ==
  8 * FlagBit(flags, 1) + 2 * (FlagBit(flags, 2) + FlagBit(flags, 4) + FlagBit(flags, 8))
  + (IF FlagBit(flags, 16) = 1 THEN 2 ELSE 2 * (FlagBit(flags, 32) + FlagBit(flags, 64) + FlagBit(flags, 128)))

skipLocCustomization(p) == IF p >= end THEN p ELSE p + 1 + CustomizationLength(At(p))

-----------------------------------------------------------------------------
(* Placements.                                                               *)

Done == phase' = "done" /\ UNCHANGED <<stream, locs, tiles>>

\* A difference between ids is any number of sentinels, and what is left.
MoreSentinels ==
  /\ phase = "object" /\ readMapSmart(ptr).value = Sentinel
  /\ ptr' = readMapSmart(ptr).ptr
  /\ incr' = incr + Sentinel
  /\ UNCHANGED <<stream, phase, objectId, location, result, tiles>>

\* The next object, or the end of the file.
NextObject ==
  /\ phase = "object"
  /\ LET current == readMapSmart(ptr)
         difference == incr + current.value
     IN  /\ current.value # Sentinel
         /\ ptr' = current.ptr
         /\ IF difference = 0 \/ current.ptr >= end
            THEN Done
            ELSE /\ objectId' = objectId + difference
                 /\ location' = 0 /\ incr' = 0
                 /\ phase' = "placement"
                 /\ UNCHANGED <<stream, result, tiles>>

\* What a location stands for.
PlaneOf(l) == l \div (SIZE * SIZE)
LocalX(l) == (l \div SIZE) % SIZE
LocalY(l) == l % SIZE

Placed(l, packed) ==
  [objectId |-> objectId, plane |-> PlaneOf(l), localX |-> LocalX(l), localY |-> LocalY(l),
   shape |-> (packed \div 4) % 32, rotation |-> packed % 4]

\* Mutant: a placement is taken on any plane.
OnGridAnywhere(l) == TRUE
OnGrid(l) == PlaneOf(l) < PLANES

\* The next placement of the object, or back to the objects.
NextPlacement ==
  /\ phase = "placement"
  /\ LET step == readMapSmart(ptr)
         l    == location + step.value - 1
     IN  IF step.value = 0 \/ step.ptr >= end
         THEN ptr' = step.ptr /\ phase' = "object" /\ UNCHANGED <<stream, locs, tiles>>
         ELSE LET packed == At(step.ptr) IN
              /\ ptr' = IF packed >= 128 THEN skipLocCustomization(step.ptr + 1) ELSE step.ptr + 1
              /\ location' = l
              /\ result' = IF OnGrid(l) THEN Append(result, Placed(l, packed)) ELSE result
              /\ UNCHANGED <<stream, phase, incr, objectId, tiles>>

-----------------------------------------------------------------------------
(* Terrain: plane by plane, column by column, the parts that a tile's flags    *)
(* name.  A part that is not there at all ends the file, with every tile after   *)
(* it blank.                                                                    *)

Tile ==
  /\ phase = "tile" /\ tile \in Tiles /\ ptr < end
  /\ streamFlags' = At(ptr)
  /\ ptr' = ptr + 1
  /\ phase' = "overlay"
  /\ UNCHANGED <<stream, locs, tile, overlayIds, renderRules>>

TerrainDone ==
  /\ phase = "tile" /\ (tile \in Tiles => ptr >= end)
  /\ Done /\ UNCHANGED ptr

\* A byte that is not kept, and the overlay's id.
Overlay ==
  /\ phase = "overlay"
  /\ IF FlagBit(streamFlags, 1) = 0
     THEN phase' = "rule" /\ UNCHANGED <<stream, ptr, locs, tiles>>
     ELSE IF ptr >= end THEN Done /\ UNCHANGED ptr
     ELSE LET id == readMapSmart(ptr + 1) IN
          /\ overlayIds' = [overlayIds EXCEPT ![tile] = id.value]
          /\ ptr' = id.ptr
          /\ phase' = "rule"
          /\ UNCHANGED <<stream, locs, tile, streamFlags, renderRules>>

Rule ==
  /\ phase = "rule"
  /\ IF FlagBit(streamFlags, 2) = 0
     THEN phase' = "underlay" /\ UNCHANGED <<stream, ptr, locs, tiles>>
     ELSE IF ptr >= end THEN Done /\ UNCHANGED ptr
     ELSE /\ renderRules' = [renderRules EXCEPT ![tile] = At(ptr)]
          /\ ptr' = ptr + 1
          /\ phase' = "underlay"
          /\ UNCHANGED <<stream, locs, tile, streamFlags, overlayIds>>

\* Two ids of underlays, of which none is kept.
Underlay ==
  /\ phase = "underlay"
  /\ LET p == IF FlagBit(streamFlags, 4) = 1 THEN readMapSmart(ptr).ptr ELSE ptr IN
     IF FlagBit(streamFlags, 8) = 1 /\ p + 1 >= end
     THEN Done /\ ptr' = p
     ELSE /\ ptr' = IF FlagBit(streamFlags, 8) = 1 THEN p + 2 ELSE p
          /\ tile' = tile + 1
          /\ phase' = "tile"
          /\ UNCHANGED <<stream, locs, streamFlags, overlayIds, renderRules>>

-----------------------------------------------------------------------------
(* An empty file of placements has none, and a file of terrain that is shorter   *)
(* than its header counts as missing.                                           *)
StreamInit ==
  /\ stream \in Streams
  /\ incr = 0 /\ objectId = -1 /\ location = 0 /\ result = <<>>
  /\ tile = 0 /\ streamFlags = 0
  /\ overlayIds = [t \in Tiles |-> 0] /\ renderRules = [t \in Tiles |-> 0]
  /\ IF stream.file = "locations"
     THEN ptr = 0 /\ phase = IF end = 0 THEN "done" ELSE "object"
     ELSE ptr = HeaderSize /\ phase = IF end < HeaderSize THEN "done" ELSE "tile"

StreamNext ==
  MoreSentinels \/ NextObject \/ NextPlacement \/ Tile \/ TerrainDone \/ Overlay \/ Rule \/ Underlay

StreamSpec == StreamInit /\ [][StreamNext]_streamVars

-----------------------------------------------------------------------------
(* Properties.                                                               *)

\* What decodeLocationData pushes: MapSquare indexes its grid with these without
\* a check of its own (every caller of result).
Placement ==
  [objectId : Int, plane : 0 .. PLANES - 1, localX : 0 .. SIZE - 1, localY : 0 .. SIZE - 1,
   shape : 0 .. 31, rotation : 0 .. 3]

StreamTypeOK ==
  /\ stream.file \in {"locations", "terrain"} /\ data \in Seq(Byte)
  /\ ptr \in Nat
  /\ phase \in {"object", "placement", "tile", "overlay", "rule", "underlay", "done"}
  /\ phase \in {"overlay", "rule", "underlay"} => tile \in Tiles
  /\ incr \in Nat /\ objectId \in Int /\ location \in Nat
  /\ result \in Seq(Placement)
  /\ tile \in Nat /\ streamFlags \in Byte
  /\ overlayIds \in [Tiles -> 0 .. Sentinel] /\ renderRules \in [Tiles -> Byte]

=============================================================================

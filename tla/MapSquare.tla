------------------------------ MODULE MapSquare ------------------------------
(***************************************************************************)
(* maps::buildMapSquareClip and buildMapSquareLocs (src/maps/MapSquare):   *)
(* the collision flags of a map square and the crossings a player can      *)
(* click, built one placement at a time over definitions that a DefCache   *)
(* keeps from one square to the next.                                      *)
(*                                                                         *)
(* A square's two files are taken as decoded: which tiles are blocked, the *)
(* columns that hang under a bridge, the overlays and the placements in    *)
(* stream order.  A square without terrain is one with none of the first   *)
(* three.  A tile's 32 bits are the set of the flags that are set, a       *)
(* menu option the set of the words the code looks for in it.              *)
(*                                                                         *)
(* Environment: a read of the CacheSource may fail (MaxFailures times in   *)
(* all) or throw.                                                          *)
(***************************************************************************)
EXTENDS Integers, Sequences

CONSTANTS
  SIZE,           \* MapSquareClip::SIZE
  PLANES,         \* MapSquareClip::PLANES
  Squares,        \* the <<squareX, squareY>> callers ask for
  World,          \* [archive id -> what index 5 holds of that square]
  Locs,           \* location type ids
  Def,            \* [the Locs that have a definition -> LocationType]
  Overlays,       \* overlay type ids
  WaterOverlays,  \* those that are water
  MaxFailures

Column == (0..SIZE-1) \X (0..SIZE-1)
Tile == (0..PLANES-1) \X (0..SIZE-1) \X (0..SIZE-1)

Placement == [loc : Locs, plane : 0..PLANES-1, x : 0..SIZE-1, y : 0..SIZE-1,
              shape : 0..31, rotation : 0..3]

Square == [blocked : SUBSET Tile, bridge : SUBSET Column,
           overlay : [Tile -> Overlays \cup {"none"}], placements : Seq(Placement)]

Words == {"climb", "over", "across", "through", "cross", "squeeze", "jump",
          "ascend", "descend", "up", "down", "other"}

Slots == 0..4

MaxUint16 == 65535

(* cursors: the slots that show the agility cursor; interactive: the       *)
(* interactType is positive; varbit: varbitId is not -1.                   *)
LocationType == [options : [Slots -> SUBSET Words], cursors : SUBSET (0..5),
                 varbit : BOOLEAN, interactive : BOOLEAN, solidType : 0..2,
                 sizeX : 0..255, sizeY : 0..255]

ASSUME MapAssumption ==
  /\ SIZE \in Nat \ {0} /\ PLANES \in Nat \ {0, 1}
  /\ Squares \subseteq Nat \X Nat
  \* The world's tiles have 16-bit coordinates.
  /\ \A s \in Squares : /\ (s[1] + 1) * SIZE <= MaxUint16 + 1
                        /\ (s[2] + 1) * SIZE <= MaxUint16 + 1
  /\ \A a \in DOMAIN World : World[a] \in Square
  /\ DOMAIN Def \subseteq Locs
  /\ \A l \in DOMAIN Def : Def[l] \in LocationType
  /\ "none" \notin Overlays /\ WaterOverlays \subseteq Overlays
  /\ MaxFailures \in Nat

VARIABLES
  pc,             \* "idle", in a call, or how the last call ended
  square,         \* the square of that call
  wanted,         \* outCrossings is not null
  clip,           \* outClip.flags
  planeMask,
  crossings,      \* outCrossings, in no order and without repetitions
  todo,           \* placements still to apply
  locDefs,        \* the keys of DefCache::locDefs
  waterOverlays,  \* [Overlays -> {"unknown", "water", "dry"}]: DefCache
  lost,           \* history: a read of this call failed, and it went on
  failures        \* history: reads that failed

output == <<square, wanted, clip, planeMask, crossings>>
defs == <<locDefs, waterOverlays>>
vars == <<pc, output, todo, defs, lost, failures>>

WallFlags == {"WALL_NW", "WALL_N", "WALL_NE", "WALL_E",
              "WALL_SE", "WALL_S", "WALL_SW", "WALL_W"}
Markers == {"DOOR", "CLIMBOVER", "PLANE_CHANGE", "AGILITY_SHORTCUT"}
ClipFlag == WallFlags \cup Markers
            \cup {"OBJECT", "FLOOR_DECORATION", "FLOOR", "BLOCKED", "WATER"}

NoOption == 255

(* A crossing's kind is named after the flag of its tile. *)
Crossing == [loc : Locs, worldX : 0..MaxUint16, worldY : 0..MaxUint16,
             plane : 0..PLANES-1, shape : 0..31, rotation : 0..3,
             kind : Markers, sizeX : 1..255, sizeY : 1..255,
             option : 0..5 \cup {NoOption}, climb : SUBSET {"up", "down"}]

(* What the builder, its caller and its cache hold: every value of a        *)
(* crossing fits the field of the record it is cut to (MapSquare.h:60-73).   *)
TypeOK ==
  /\ pc \in {"idle", "locations", "water", "done", "absent", "raised"}
  /\ square \in Squares /\ wanted \in BOOLEAN
  /\ clip \in [Tile -> SUBSET ClipFlag] /\ planeMask \in SUBSET (0..PLANES-1)
  /\ crossings \in SUBSET Crossing
  /\ todo \in Seq(Placement)
  /\ locDefs \in SUBSET DOMAIN Def
  /\ waterOverlays \in [Overlays -> {"unknown", "water", "dry"}]
  /\ lost \in BOOLEAN /\ failures \in 0..MaxFailures
-----------------------------------------------------------------------------
(* How a menu option is read. *)
IsClimbOver(o) == "climb" \in o /\ o \cap {"over", "across", "through"} # {}
IsShortcut(o) == IsClimbOver(o) \/ o \cap {"cross", "squeeze", "jump"} # {}
IsVertical(o) == ~IsClimbOver(o) /\ o \cap {"climb", "ascend", "descend"} # {}

OptionSlots(d) == {i \in Slots : d.options[i] # {}}
ShortcutSlots(d) == {i \in Slots : IsShortcut(d.options[i])}
VerticalSlots(d) == {i \in Slots : IsVertical(d.options[i])}

hasAnyOption(d) == OptionSlots(d) # {} \/ d.varbit

Least(S) == CHOOSE i \in S : \A j \in S : i <= j
FirstOf(S) == IF S = {} THEN NoOption ELSE Least(S)
FirstOr(S, d) == IF S = {} THEN FirstOf(OptionSlots(d)) ELSE Least(S)

(* An option that says both ways goes up; one that says neither goes both. *)
OptionDir(o) ==
  IF o \cap {"up", "ascend"} # {} THEN {"up"}
  ELSE IF o \cap {"down", "descend"} # {} THEN {"down"} ELSE {"up", "down"}

classifyClimbDir(d) == UNION {OptionDir(d.options[i]) : i \in VerticalSlots(d)}

IsDoor(d, q) ==
  /\ d.solidType # 0 /\ d.interactive /\ hasAnyOption(d)
  /\ q.shape \in {0, 1, 2, 3, 9}

(* What the placement is marked as; agility hides a climb-over. *)
MarkersOf(d, q) ==
  (IF d.cursors # {} THEN {"AGILITY_SHORTCUT"}
   ELSE IF ShortcutSlots(d) # {} THEN {"CLIMBOVER"} ELSE {})
  \cup (IF VerticalSlots(d) # {} THEN {"PLANE_CHANGE"} ELSE {})
  \cup (IF IsDoor(d, q) THEN {"DOOR"} ELSE {})

(* Mutant: always the first option. *)
OptionForFirst(k, d) == FirstOf(OptionSlots(d))

OptionFor(k, d) ==
  CASE k = "AGILITY_SHORTCUT" -> FirstOr(d.cursors, d)
    [] k = "CLIMBOVER"        -> FirstOr(ShortcutSlots(d), d)
    [] k = "PLANE_CHANGE"     -> FirstOr(VerticalSlots(d), d)
    [] k = "DOOR"             -> FirstOf(OptionSlots(d))
-----------------------------------------------------------------------------
(* A stamp is a set of <<dx, dy, flag>>, relative to the placement's tile. *)
StraightWall(r) ==
  CASE r = 0 -> {<<0, 0, "WALL_W">>, <<-1, 0, "WALL_E">>}
    [] r = 1 -> {<<0, 0, "WALL_N">>, <<0, 1, "WALL_S">>}
    [] r = 2 -> {<<0, 0, "WALL_E">>, <<1, 0, "WALL_W">>}
    [] r = 3 -> {<<0, 0, "WALL_S">>, <<0, -1, "WALL_N">>}
    [] OTHER -> {}

DiagonalWall(r) ==
  CASE r = 0 -> {<<0, 0, "WALL_NW">>, <<-1, 1, "WALL_SE">>}
    [] r = 1 -> {<<0, 0, "WALL_NE">>, <<1, 1, "WALL_SW">>}
    [] r = 2 -> {<<0, 0, "WALL_SE">>, <<1, -1, "WALL_NW">>}
    [] r = 3 -> {<<0, 0, "WALL_SW">>, <<-1, -1, "WALL_NE">>}
    [] OTHER -> {}

CornerWall(r) ==
  CASE r = 0 -> {<<0, 0, "WALL_W">>, <<0, 0, "WALL_N">>,
                 <<-1, 0, "WALL_E">>, <<0, 1, "WALL_S">>}
    [] r = 1 -> {<<0, 0, "WALL_N">>, <<0, 0, "WALL_E">>,
                 <<0, 1, "WALL_S">>, <<1, 0, "WALL_W">>}
    [] r = 2 -> {<<0, 0, "WALL_E">>, <<0, 0, "WALL_S">>,
                 <<1, 0, "WALL_W">>, <<0, -1, "WALL_N">>}
    [] r = 3 -> {<<0, 0, "WALL_S">>, <<0, 0, "WALL_W">>,
                 <<0, -1, "WALL_N">>, <<-1, 0, "WALL_E">>}
    [] OTHER -> {}

(* Mutant: a corner is not reflected onto the eastern neighbour. *)
WallHalfReflected(q) ==
  CASE q.shape = 0      -> StraightWall(q.rotation)
    [] q.shape \in {1, 3} -> DiagonalWall(q.rotation)
    [] q.shape = 2      -> {s \in CornerWall(q.rotation) : s[1] # 1}

Wall(q) ==
  CASE q.shape = 0      -> StraightWall(q.rotation)
    [] q.shape \in {1, 3} -> DiagonalWall(q.rotation)
    [] q.shape = 2      -> CornerWall(q.rotation)
    [] OTHER            -> {}

(* Mutant: a size that was never set stays 0. *)
Unclamped(n) == n

(* The footprint after rotation; a size of 0 counts as 1. *)
AtLeastOne(n) == IF n > 0 THEN n ELSE 1

Footprint(d, q) ==
  IF q.rotation \in {1, 3} THEN <<AtLeastOne(d.sizeY), AtLeastOne(d.sizeX)>>
                           ELSE <<AtLeastOne(d.sizeX), AtLeastOne(d.sizeY)>>

ObjectStamp(d, q) ==
  LET size == Footprint(d, q)
  IN  (0..size[1]-1) \X (0..size[2]-1) \X {"OBJECT"}

Collision(d, q) ==
  CASE d.solidType = 0      -> {}
    [] d.solidType # 0 /\ q.shape \in 0..3  -> Wall(q)
    [] d.solidType # 0 /\ q.shape \in 9..21 -> ObjectStamp(d, q)
    [] d.solidType = 1 /\ q.shape = 22      -> {<<0, 0, "FLOOR_DECORATION">>}
    [] OTHER                -> {}

Stamp(d, q) == Collision(d, q) \cup {<<0, 0, m>> : m \in MarkersOf(d, q)}

(* setClip for every element of a stamp: what falls outside is dropped. *)
Stamped(p, q, S) ==
  [t \in Tile |-> clip[t] \cup
    {f \in ClipFlag : t[1] = p /\ <<t[2] - q.x, t[3] - q.y, f>> \in S}]

Uint16(n) == n % (MaxUint16 + 1)

CrossingOf(k, d, q, p) ==
  [loc |-> q.loc, worldX |-> Uint16(square[1] * SIZE + q.x),
   worldY |-> Uint16(square[2] * SIZE + q.y), plane |-> p,
   shape |-> q.shape, rotation |-> q.rotation, kind |-> k,
   sizeX |-> Footprint(d, q)[1], sizeY |-> Footprint(d, q)[2],
   option |-> OptionFor(k, d),
   climb |-> IF k = "PLANE_CHANGE" THEN classifyClimbDir(d) ELSE {}]
-----------------------------------------------------------------------------
ArchiveOf(s) == (s[1] % 128) + 128 * s[2]
Present(s) == ArchiveOf(s) \in DOMAIN World
Data(s) == World[ArchiveOf(s)]

(* Under a bridge everything but the water is one plane lower. *)
EffectivePlane(s, p, x, y) == IF <<x, y>> \in Data(s).bridge THEN p - 1 ELSE p

(* Mutant: the floor under a bridge stays on its plane. *)
TerrainUnlowered(s) ==
  [t \in Tile |-> IF t \in Data(s).blocked THEN {"FLOOR", "BLOCKED"} ELSE {}]

Terrain(s) ==
  [t \in Tile |->
    IF \E u \in Data(s).blocked : /\ u[2] = t[2] /\ u[3] = t[3]
                                  /\ EffectivePlane(s, u[1], u[2], u[3]) = t[1]
    THEN {"FLOOR", "BLOCKED"} ELSE {}]

(* buildMapSquareLocs: every placement, where the stream puts it. *)
Spawns(s) ==
  LET spawn(q) == [loc |-> q.loc, worldX |-> s[1] * SIZE + q.x,
                   worldY |-> s[2] * SIZE + q.y, plane |-> q.plane,
                   shape |-> q.shape, rotation |-> q.rotation]
  IN  IF Present(s)
      THEN {spawn(Data(s).placements[n]) : n \in 1..Len(Data(s).placements)}
      ELSE {}

Init ==
  /\ pc = "idle" /\ square \in Squares /\ wanted = FALSE
  /\ clip = [t \in Tile |-> {}] /\ planeMask = {} /\ crossings = {}
  /\ todo = <<>>
  /\ locDefs = {} /\ waterOverlays = [o \in Overlays |-> "unknown"]
  /\ lost = FALSE /\ failures = 0

Idle == pc \in {"idle", "done", "absent", "raised"}

CanFail == failures < MaxFailures

(* Mutant: the list of the last call is not cleared. *)
BeginUncleared(s, w) ==
  /\ Idle /\ Present(s)
  /\ pc' = "locations" /\ square' = s /\ wanted' = w
  /\ clip' = Terrain(s) /\ planeMask' = {}
  /\ todo' = Data(s).placements /\ lost' = FALSE
  /\ UNCHANGED <<crossings, defs, failures>>

(* A call for a square that is there: terrain first. *)
Begin(s, w) ==
  /\ Idle /\ Present(s)
  /\ pc' = "locations" /\ square' = s /\ wanted' = w
  /\ clip' = Terrain(s) /\ planeMask' = {} /\ crossings' = {}
  /\ todo' = Data(s).placements /\ lost' = FALSE
  /\ UNCHANGED <<defs, failures>>

(* A call for a square that is not there, or that cannot be read: of one   *)
(* that is declared nothing is decoded, and the call goes on with that.    *)
Absent(s, w) ==
  /\ Idle
  /\ \/ ~Present(s) /\ pc' = "absent" /\ lost' = FALSE /\ UNCHANGED failures
     \/ /\ CanFail /\ failures' = failures + 1
        /\ \/ pc' = "raised" /\ lost' = FALSE
           \/ Present(s) /\ pc' = "done" /\ lost' = TRUE
  /\ square' = s /\ wanted' = w
  /\ clip' = [t \in Tile |-> {}] /\ planeMask' = {} /\ crossings' = {}
  /\ todo' = <<>>
  /\ UNCHANGED defs

(* The placement at hand, and the plane it comes to. *)
Q == Head(todo)
PlaneOfQ == EffectivePlane(square, Q.plane, Q.x, Q.y)
Placing == pc = "locations" /\ todo # <<>>

DropBelow ==
  /\ Placing /\ PlaneOfQ < 0
  /\ todo' = Tail(todo)
  /\ UNCHANGED <<pc, output, defs, lost, failures>>

(* Its definition is in the DefCache, or is read into it. *)
Apply ==
  /\ Placing /\ PlaneOfQ >= 0 /\ Q.loc \in DOMAIN Def
  /\ LET d == Def[Q.loc] IN
       /\ clip' = Stamped(PlaneOfQ, Q, Stamp(d, Q))
       /\ crossings' = IF wanted
            THEN crossings \cup {CrossingOf(k, d, Q, PlaneOfQ) : k \in MarkersOf(d, Q)}
            ELSE crossings
  /\ locDefs' = locDefs \cup {Q.loc}
  /\ todo' = Tail(todo)
  /\ UNCHANGED <<pc, square, wanted, planeMask, waterOverlays, lost, failures>>

(* There is none, or it cannot be read: nothing is remembered of that. *)
Unread ==
  /\ Placing /\ PlaneOfQ >= 0 /\ Q.loc \notin locDefs
  /\ Q.loc \in DOMAIN Def => CanFail
  /\ lost' = (lost \/ Q.loc \in DOMAIN Def)
  /\ failures' = IF Q.loc \in DOMAIN Def THEN failures + 1 ELSE failures
  /\ todo' = Tail(todo)
  /\ UNCHANGED <<pc, output, defs>>

LocationsDone ==
  /\ pc = "locations" /\ todo = <<>>
  /\ pc' = "water"
  /\ UNCHANGED <<output, todo, defs, lost, failures>>

InUse == {Data(square).overlay[t] : t \in Tile} \cap Overlays

(* isWaterOverlay, the first time: the answer is remembered, also when it  *)
(* is that nothing could be read.  The overlays of a square are looked up  *)
(* in any order.                                                           *)
LookUp(o) ==
  /\ pc = "water" /\ o \in InUse /\ waterOverlays[o] = "unknown"
  /\ \/ /\ waterOverlays' = [waterOverlays EXCEPT ![o] =
                               IF o \in WaterOverlays THEN "water" ELSE "dry"]
        /\ UNCHANGED failures
     \/ /\ CanFail /\ failures' = failures + 1
        /\ waterOverlays' = [waterOverlays EXCEPT ![o] = "dry"]
  /\ UNCHANGED <<pc, output, todo, locDefs, lost>>

(* The water, where the terrain has it, and the plane mask. *)
WaterAt(t) ==
  /\ Data(square).overlay[t] \in Overlays
  /\ waterOverlays[Data(square).overlay[t]] = "water"

PlanesOf(c) == {p \in 0..PLANES-1 : \E t \in Tile : t[1] = p /\ c[t] # {}}

Finish ==
  /\ pc = "water" /\ \A o \in InUse : waterOverlays[o] # "unknown"
  /\ pc' = "done"
  /\ clip' = [t \in Tile |-> clip[t] \cup IF WaterAt(t) THEN {"WATER"} ELSE {}]
  /\ planeMask' = PlanesOf(clip')
  /\ UNCHANGED <<square, wanted, crossings, todo, defs, lost, failures>>

(* The source or a decoder throws at a read; what is in the DefCache stays. *)
Raise ==
  /\ CanFail /\ failures' = failures + 1
  /\ \/ Placing /\ PlaneOfQ >= 0 /\ Q.loc \notin locDefs
     \/ pc = "water" /\ \E o \in InUse : waterOverlays[o] = "unknown"
  /\ pc' = "raised" /\ todo' = <<>>
  /\ UNCHANGED <<output, defs, lost>>

Next ==
  \/ \E s \in Squares, w \in BOOLEAN : Begin(s, w) \/ Absent(s, w)
  \/ DropBelow \/ Apply \/ Unread \/ LocationsDone
  \/ \E o \in Overlays : LookUp(o)
  \/ Finish \/ Raise

Spec == Init /\ [][Next]_vars
-----------------------------------------------------------------------------
(* A wall seen from the other side: whoever looks at a wall's edge from    *)
(* either of the two tiles it separates sees it, as long as both are in    *)
(* the square (the header tells consumers to look at both beyond that).    *)
Directions == ((-1..1) \X (-1..1)) \ {<<0, 0>>}

Side(v) ==
  CASE v = <<-1, 1>>  -> "WALL_NW" [] v = <<0, 1>>  -> "WALL_N"
    [] v = <<1, 1>>   -> "WALL_NE" [] v = <<1, 0>>  -> "WALL_E"
    [] v = <<1, -1>>  -> "WALL_SE" [] v = <<0, -1>> -> "WALL_S"
    [] v = <<-1, -1>> -> "WALL_SW" [] OTHER          -> "WALL_W"

Across(v) == <<-v[1], -v[2]>>
Neighbour(t, v) == <<t[1], t[2] + v[1], t[3] + v[2]>>

WallsAgree ==
  \A t \in Tile, v \in Directions :
    Neighbour(t, v) \in Tile =>
      (Side(v) \in clip[t] <=> Side(Across(v)) \in clip[Neighbour(t, v)])

(* The two outputs name the same things: a tile carries a marker exactly   *)
(* when the list has a crossing of that kind on it.                        *)
TileOf(c) == <<c.plane, c.worldX - square[1] * SIZE, c.worldY - square[2] * SIZE>>

CrossingsMatchMarkers ==
  wanted => \A t \in Tile, k \in Markers :
              k \in clip[t] <=> \E c \in crossings : c.kind = k /\ TileOf(c) = t

(* A door is in something: its tile has a wall or an object. *)
DoorsBlock ==
  \A t \in Tile : "DOOR" \in clip[t] => clip[t] \cap (WallFlags \cup {"OBJECT"}) # {}

(* A crossing is one of the spawns buildMapSquareLocs lists, on its plane  *)
(* or one below, and what it says to click is what makes it a crossing.    *)
CrossingsUsable ==
  \A c \in crossings :
    /\ \E p \in Spawns(square) :
         /\ p.loc = c.loc /\ p.worldX = c.worldX /\ p.worldY = c.worldY
         /\ p.shape = c.shape /\ p.rotation = c.rotation
         /\ c.plane = EffectivePlane(square, p.plane, c.worldX - square[1] * SIZE,
                                                      c.worldY - square[2] * SIZE)
    /\ LET d == Def[c.loc] IN
         /\ c.kind = "CLIMBOVER" => IsShortcut(d.options[c.option])
         /\ c.kind = "PLANE_CHANGE" =>
              /\ OptionDir(d.options[c.option]) \subseteq c.climb
              /\ IsVertical(d.options[c.option])
         /\ c.kind = "DOOR" => \/ c.option = NoOption /\ d.varbit
                               \/ d.options[c.option] # {}

(* What the square should look like, tile by tile, with the walls of a     *)
(* rotation got by turning those of rotation 0 clockwise.                  *)
Turned(v, r) ==
  CASE r = 0 -> v                [] r = 1 -> <<v[2], -v[1]>>
    [] r = 2 -> <<-v[1], -v[2]>> [] r = 3 -> <<-v[2], v[1]>>

Edges(q) ==
  {Turned(v, q.rotation) : v \in CASE q.shape = 0 -> {<<-1, 0>>}
                                   [] q.shape \in {1, 3} -> {<<-1, 1>>}
                                   [] q.shape = 2 -> {<<-1, 0>>, <<0, 1>>}
                                   [] OTHER -> {}}

Standing(s) ==
  {q \in {Data(s).placements[n] : n \in 1..Len(Data(s).placements)} :
    q.loc \in DOMAIN Def /\ EffectivePlane(s, q.plane, q.x, q.y) >= 0}

Scenery(s, t) ==
  LET above == <<IF <<t[2], t[3]>> \in Data(s).bridge THEN t[1] + 1 ELSE t[1],
                 t[2], t[3]>>
      place(q) == <<EffectivePlane(s, q.plane, q.x, q.y), q.x, q.y>>
      solid == {q \in Standing(s) : Def[q.loc].solidType # 0}
      covers(q) ==
        LET size == Footprint(Def[q.loc], q)
        IN  /\ place(q)[1] = t[1]
            /\ q.x <= t[2] /\ t[2] < q.x + size[1]
            /\ q.y <= t[3] /\ t[3] < q.y + size[2]
  IN  (IF above \in Data(s).blocked THEN {"FLOOR", "BLOCKED"} ELSE {})
      \cup {Side(v) : v \in {v \in Directions : \E q \in solid :
              \/ place(q) = t /\ v \in Edges(q)
              \/ place(q) = Neighbour(t, v) /\ Across(v) \in Edges(q)}}
      \cup (IF \E q \in solid : q.shape \in 9..21 /\ covers(q)
            THEN {"OBJECT"} ELSE {})
      \cup (IF \E q \in solid : /\ q.shape = 22 /\ Def[q.loc].solidType = 1
                                /\ place(q) = t
            THEN {"FLOOR_DECORATION"} ELSE {})
      \cup UNION {MarkersOf(Def[q.loc], q) : q \in {q \in Standing(s) : place(q) = t}}

Water(s, t) == IF Data(s).overlay[t] \in WaterOverlays THEN {"WATER"} ELSE {}

(* A finished grid never says more than the square holds, whatever was     *)
(* built before; all of the scenery is there if all of this call's reads   *)
(* succeeded, the water if no read ever failed; and the plane mask is that *)
(* of the grid.                                                            *)
Exact ==
  pc = "done" =>
    /\ \A t \in Tile :
         /\ clip[t] \subseteq Scenery(square, t) \cup Water(square, t)
         /\ ~lost => Scenery(square, t) \subseteq clip[t]
         /\ failures = 0 => Water(square, t) \subseteq clip[t]
    /\ planeMask = {t[1] : t \in {t \in Tile : clip[t] # {}}}
=============================================================================

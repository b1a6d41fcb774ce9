--------------------------- MODULE MapSquareProofs ---------------------------
(***************************************************************************)
(* For a square of any size, any contents and any definitions: the state   *)
(* is well typed, a wall is seen from both of its sides, the markers and   *)
(* the crossings agree, a door stands in something, a crossing is a spawn  *)
(* of the square, and a finished grid is the geometry of the square.       *)
(*                                                                         *)
(* Each rests on a lemma about the stamp of one placement.  The last two   *)
(* are inductive only with what is still to be placed (RestIsLeft), and    *)
(* the grid with what stands of it so far (GridSoFar).                     *)
(***************************************************************************)
EXTENDS MapSquare, TLAPS

LEMMA Sizes == /\ SIZE \in Nat \ {0} /\ PLANES \in Nat \ {0, 1}
               /\ MaxUint16 \in Nat
BY MapAssumption DEF MaxUint16

LEMMA DefType == ASSUME NEW l \in DOMAIN Def
                 PROVE  l \in Locs /\ Def[l] \in LocationType
BY MapAssumption

LEMMA LeastIn ==
  ASSUME NEW S \in SUBSET (0..5), S # {}
  PROVE  Least(S) \in S
<1>1. \E i \in S : \A j \in S : i <= j
  <2>. PICK i \in S : TRUE
    OBVIOUS
  <2>1. \/ 0 \in S \/ 1 \in S \/ 2 \in S \/ 3 \in S \/ 4 \in S \/ 5 \in S
    BY i \in 0..5
  <2>2. QED
    BY <2>1
<1>2. QED
  BY <1>1 DEF Least

LEMMA TileParts ==
  ASSUME NEW t \in Tile
  PROVE  /\ t = <<t[1], t[2], t[3]>>
         /\ t[1] \in 0..PLANES-1 /\ t[2] \in 0..SIZE-1 /\ t[3] \in 0..SIZE-1
BY DEF Tile

LEMMA DataType ==
  ASSUME NEW s \in Squares, Present(s)
  PROVE  Data(s) \in Square
BY MapAssumption DEF Data, Present

LEMMA OptionType ==
  ASSUME NEW d \in LocationType, NEW k \in Markers
  PROVE  OptionFor(k, d) \in 0..5 \cup {NoOption}
<1>1. /\ OptionSlots(d) \in SUBSET (0..5) /\ d.cursors \in SUBSET (0..5)
      /\ ShortcutSlots(d) \in SUBSET (0..5) /\ VerticalSlots(d) \in SUBSET (0..5)
  BY DEF OptionSlots, ShortcutSlots, VerticalSlots, Slots, LocationType
<1>2. FirstOf(OptionSlots(d)) \in 0..5 \cup {NoOption}
  BY <1>1, LeastIn DEF FirstOf
<1>3. ASSUME NEW S \in SUBSET (0..5) PROVE FirstOr(S, d) \in 0..5 \cup {NoOption}
  BY <1>2, LeastIn DEF FirstOr
<1>4. QED
  BY <1>1, <1>2, <1>3 DEF OptionFor, Markers

LEMMA ClimbType ==
  ASSUME NEW d \in LocationType
  PROVE  classifyClimbDir(d) \in SUBSET {"up", "down"}
BY DEF classifyClimbDir, OptionDir

LEMMA MarkersType ==
  ASSUME NEW d \in LocationType, NEW q \in Placement
  PROVE  MarkersOf(d, q) \in SUBSET Markers
BY DEF MarkersOf, Markers

LEMMA FootprintType ==
  ASSUME NEW d \in LocationType, NEW q \in Placement
  PROVE  Footprint(d, q)[1] \in 1..255 /\ Footprint(d, q)[2] \in 1..255
<1>1. d.sizeX \in 0..255 /\ d.sizeY \in 0..255
  BY DEF LocationType
<1>2. \A n \in 0..255 : AtLeastOne(n) \in 1..255
  BY DEF AtLeastOne
<1>3. QED
  BY <1>1, <1>2 DEF Footprint

LEMMA Below ==
  ASSUME NEW k \in Int, 0 <= k, k < MaxUint16 + 1
  PROVE  Uint16(k) = k /\ k \in 0..MaxUint16
<1>1. k % 65536 = k /\ MaxUint16 + 1 = 65536 /\ MaxUint16 \in Nat
  BY DEF MaxUint16
<1>2. k \in 0..MaxUint16
  BY <1>1
<1>3. QED
  BY <1>1, <1>2 DEF Uint16

LEMMA Fits ==
  ASSUME NEW a \in Nat, NEW z \in Nat, NEW w \in Nat, (a + 1) * z <= w
  PROVE  a * z \in Nat /\ a * z + z <= w
OBVIOUS

LEMMA WorldCoordinate ==
  ASSUME NEW s \in Squares, NEW q \in Placement
  PROVE  /\ s[1] * SIZE \in Nat /\ s[2] * SIZE \in Nat
         /\ Uint16(s[1] * SIZE + q.x) = s[1] * SIZE + q.x
         /\ Uint16(s[2] * SIZE + q.y) = s[2] * SIZE + q.y
         /\ s[1] * SIZE + q.x \in 0..MaxUint16 /\ s[2] * SIZE + q.y \in 0..MaxUint16
<1>1. /\ s[1] \in Nat /\ (s[1] + 1) * SIZE <= MaxUint16 + 1
      /\ s[2] \in Nat /\ (s[2] + 1) * SIZE <= MaxUint16 + 1
  BY MapAssumption
<1>2. q.x \in 0..SIZE-1 /\ q.y \in 0..SIZE-1
  BY DEF Placement
<1>3. /\ s[1] * SIZE \in Nat /\ s[1] * SIZE + SIZE <= MaxUint16 + 1
      /\ s[2] * SIZE \in Nat /\ s[2] * SIZE + SIZE <= MaxUint16 + 1
  BY <1>1, Fits, Sizes
<1>4. PICK m1 \in Nat, m2 \in Nat : m1 = s[1] * SIZE /\ m2 = s[2] * SIZE
  BY <1>3
<1>5. /\ m1 + q.x \in Int /\ 0 <= m1 + q.x /\ m1 + q.x < MaxUint16 + 1
      /\ m2 + q.y \in Int /\ 0 <= m2 + q.y /\ m2 + q.y < MaxUint16 + 1
  <2>1. m1 + SIZE <= MaxUint16 + 1 /\ m2 + SIZE <= MaxUint16 + 1
    BY <1>3, <1>4
  <2>2. QED
    BY <1>2, <2>1, Sizes
<1>6. /\ Uint16(m1 + q.x) = m1 + q.x /\ m1 + q.x \in 0..MaxUint16
      /\ Uint16(m2 + q.y) = m2 + q.y /\ m2 + q.y \in 0..MaxUint16
  BY <1>5, Below
<1>7. QED
  BY <1>3, <1>4, <1>6

LEMMA CrossingType ==
  ASSUME NEW d \in LocationType, NEW q \in Placement, NEW k \in Markers,
         NEW p \in 0..PLANES-1, square \in Squares
  PROVE  CrossingOf(k, d, q, p) \in Crossing
<1>1. /\ Uint16(square[1] * SIZE + q.x) \in 0..MaxUint16
      /\ Uint16(square[2] * SIZE + q.y) \in 0..MaxUint16
  BY WorldCoordinate
<1>2. QED
  BY <1>1, OptionType, ClimbType, FootprintType
  DEF CrossingOf, Crossing, Placement
-----------------------------------------------------------------------------
(* Typing, with the flags apart: no prover takes both at once.             *)
Flags == wanted \in BOOLEAN /\ lost \in BOOLEAN

Typed ==
  /\ pc \in {"idle", "locations", "water", "done", "absent", "raised"}
  /\ square \in Squares
  /\ clip \in [Tile -> SUBSET ClipFlag] /\ planeMask \in SUBSET (0..PLANES-1)
  /\ crossings \in SUBSET Crossing
  /\ todo \in Seq(Placement)
  /\ locDefs \in SUBSET DOMAIN Def
  /\ waterOverlays \in [Overlays -> {"unknown", "water", "dry"}]
  /\ failures \in 0..MaxFailures

LEMMA TerrainType ==
  ASSUME NEW s \in Squares
  PROVE  Terrain(s) \in [Tile -> SUBSET ClipFlag]
BY DEF Terrain, ClipFlag

LEMMA CanFailType ==
  ASSUME Typed, CanFail
  PROVE  failures + 1 \in 0..MaxFailures
BY MapAssumption DEF Typed, CanFail

LEMMA Placed ==
  ASSUME Typed, Placing
  PROVE  /\ Q \in Placement /\ Tail(todo) \in Seq(Placement)
         /\ Q.x \in 0..SIZE-1 /\ Q.y \in 0..SIZE-1
         /\ PlaneOfQ >= 0 => PlaneOfQ \in 0..PLANES-1
<1>1. Q \in Placement /\ Tail(todo) \in Seq(Placement)
  BY DEF Typed, Placing, Q
<1>2. /\ Q.plane \in 0..PLANES-1 /\ Q.x \in 0..SIZE-1 /\ Q.y \in 0..SIZE-1
  BY <1>1 DEF Placement
<1>3. PlaneOfQ \in {Q.plane, Q.plane - 1}
  BY DEF PlaneOfQ, EffectivePlane
<1>4. QED
  BY <1>1, <1>2, <1>3, Sizes

LEMMA FlagsKept ==
  ASSUME Flags, [Next]_vars
  PROVE  Flags'
<1>1. ASSUME NEW s \in Squares, NEW w \in BOOLEAN, Begin(s, w) \/ Absent(s, w)
      PROVE  Flags'
  BY <1>1 DEF Begin, Absent, Flags
<1>2. CASE DropBelow \/ Apply \/ LocationsDone \/ Finish \/ Raise
  BY <1>2 DEF DropBelow, Apply, LocationsDone, Finish, Raise, Flags, output
<1>3. CASE Unread
  BY <1>3 DEF Unread, Flags, output
<1>4. ASSUME NEW o \in Overlays, LookUp(o) PROVE Flags'
  BY <1>4 DEF LookUp, Flags, output
<1>5. CASE UNCHANGED vars
  BY <1>5 DEF vars, output, Flags
<1>6. QED
  BY <1>1, <1>2, <1>3, <1>4, <1>5 DEF Next

LEMMA TypedKept ==
  ASSUME Typed, [Next]_vars
  PROVE  Typed'
<1>1. ASSUME NEW s \in Squares, NEW w \in BOOLEAN, Begin(s, w)
      PROVE  Typed'
  <2>1. Data(s).placements \in Seq(Placement)
    BY <1>1, DataType DEF Begin, Square
  <2>2. QED
    BY <1>1, <2>1, TerrainType DEF Begin, Typed, defs
<1>2. ASSUME NEW s \in Squares, NEW w \in BOOLEAN, Absent(s, w)
      PROVE  Typed'
  BY <1>2, CanFailType DEF Absent, Typed, defs
<1>3. CASE DropBelow
  BY <1>3, Placed DEF DropBelow, Typed, output, defs
<1>4. CASE Apply
  <2>1. /\ Q \in Placement /\ Tail(todo) \in Seq(Placement)
        /\ PlaneOfQ \in 0..PLANES-1 /\ Q.loc \in DOMAIN Def
    BY <1>4, Placed DEF Apply
  <2>2. Def[Q.loc] \in LocationType
    BY <2>1, DefType
  <2>3. clip' \in [Tile -> SUBSET ClipFlag]
    BY <1>4 DEF Apply, Stamped, Typed
  <2>4. \A k \in MarkersOf(Def[Q.loc], Q) :
          CrossingOf(k, Def[Q.loc], Q, PlaneOfQ) \in Crossing
    BY <2>1, <2>2, MarkersType, CrossingType DEF Typed
  <2>5. crossings' \in SUBSET Crossing
    BY <1>4, <2>4 DEF Apply, Typed
  <2>6. QED
    BY <1>4, <2>1, <2>3, <2>5 DEF Apply, Typed
<1>5. CASE Unread
  <2>1. failures' \in 0..MaxFailures
    BY <1>5, CanFailType DEF Unread, Typed
  <2>2. QED
    BY <1>5, <2>1, Placed DEF Unread, Typed, output, defs
<1>6. CASE LocationsDone
  BY <1>6 DEF LocationsDone, Typed, output, defs
<1>7. ASSUME NEW o \in Overlays, LookUp(o) PROVE Typed'
  BY <1>7, CanFailType DEF LookUp, Typed, output
<1>8. CASE Finish
  <2>1. clip' \in [Tile -> SUBSET ClipFlag]
    BY <1>8 DEF Finish, Typed, ClipFlag
  <2>2. QED
    BY <1>8, <2>1 DEF Finish, Typed, PlanesOf, defs
<1>9. CASE Raise
  BY <1>9, CanFailType DEF Raise, Typed, output, defs
<1>10. CASE UNCHANGED vars
  BY <1>10 DEF vars, output, defs, Typed
<1>11. QED
  BY <1>1, <1>2, <1>3, <1>4, <1>5, <1>6, <1>7, <1>8, <1>9, <1>10 DEF Next

LEMMA Initially == Init => Flags /\ Typed
<1>1. Init => Flags
  BY DEF Init, Flags
<1>2. Init => Typed
  BY MapAssumption DEF Init, Typed
<1>3. QED
  BY <1>1, <1>2

(* The state of the builder is well typed: in particular a crossing's      *)
(* plane, coordinates and sizes fit the fields of the record.              *)
THEOREM TypeCorrect == Spec => []TypeOK
<1>1. Flags /\ Typed => TypeOK
  BY DEF Flags, Typed, TypeOK
<1>2. QED
  BY <1>1, Initially, FlagsKept, TypedKept, PTL DEF Spec
-----------------------------------------------------------------------------
(* The stamp of a placement reflects itself: what it puts on an edge of    *)
(* one tile it puts on the opposite edge of the tile across.               *)
Mirrored(S) ==
  \A a, b \in Int : \A v \in Directions :
    <<a, b, Side(v)>> \in S <=> <<a + v[1], b + v[2], Side(Across(v))>> \in S

LEMMA DirectionTable ==
  ASSUME NEW v \in Directions
  PROVE  \/ v = <<-1, 1>> /\ Side(v) = "WALL_NW" /\ Side(Across(v)) = "WALL_SE"
         \/ v = <<0, 1>> /\ Side(v) = "WALL_N" /\ Side(Across(v)) = "WALL_S"
         \/ v = <<1, 1>> /\ Side(v) = "WALL_NE" /\ Side(Across(v)) = "WALL_SW"
         \/ v = <<1, 0>> /\ Side(v) = "WALL_E" /\ Side(Across(v)) = "WALL_W"
         \/ v = <<1, -1>> /\ Side(v) = "WALL_SE" /\ Side(Across(v)) = "WALL_NW"
         \/ v = <<0, -1>> /\ Side(v) = "WALL_S" /\ Side(Across(v)) = "WALL_N"
         \/ v = <<-1, -1>> /\ Side(v) = "WALL_SW" /\ Side(Across(v)) = "WALL_NE"
         \/ v = <<-1, 0>> /\ Side(v) = "WALL_W" /\ Side(Across(v)) = "WALL_E"
<1>1. /\ v[1] \in {-1, 0, 1} /\ v[2] \in {-1, 0, 1} /\ v = <<v[1], v[2]>>
      /\ v # <<0, 0>>
  BY DEF Directions
<1>2. QED
  BY <1>1 DEF Side, Across

LEMMA StraightMirrored == \A r \in 0..3 : Mirrored(StraightWall(r))
<1>1. SUFFICES ASSUME NEW r \in 0..3, NEW a \in Int, NEW b \in Int,
                      NEW v \in Directions
      PROVE  <<a, b, Side(v)>> \in StraightWall(r) <=>
               <<a + v[1], b + v[2], Side(Across(v))>> \in StraightWall(r)
  BY DEF Mirrored
<1>2. QED
  BY DirectionTable DEF StraightWall

LEMMA DiagonalMirrored == \A r \in 0..3 : Mirrored(DiagonalWall(r))
<1>1. SUFFICES ASSUME NEW r \in 0..3, NEW a \in Int, NEW b \in Int,
                      NEW v \in Directions
      PROVE  <<a, b, Side(v)>> \in DiagonalWall(r) <=>
               <<a + v[1], b + v[2], Side(Across(v))>> \in DiagonalWall(r)
  BY DEF Mirrored
<1>2. QED
  BY DirectionTable DEF DiagonalWall

LEMMA CornerMirrored == \A r \in 0..3 : Mirrored(CornerWall(r))
<1>1. SUFFICES ASSUME NEW r \in 0..3, NEW a \in Int, NEW b \in Int,
                      NEW v \in Directions
      PROVE  <<a, b, Side(v)>> \in CornerWall(r) <=>
               <<a + v[1], b + v[2], Side(Across(v))>> \in CornerWall(r)
  BY DEF Mirrored
<1>2. QED
  BY DirectionTable DEF CornerWall

LEMMA SideType ==
  ASSUME NEW v \in Directions
  PROVE  Side(v) \in WallFlags /\ Side(Across(v)) \in WallFlags
BY DirectionTable DEF WallFlags

LEMMA WallMirrored ==
  ASSUME NEW q \in Placement
  PROVE  Mirrored(Wall(q))
<1>1. q.rotation \in 0..3
  BY DEF Placement
<1>2. Mirrored({})
  BY DEF Mirrored
<1>3. QED
  BY <1>1, <1>2, StraightMirrored, DiagonalMirrored, CornerMirrored DEF Wall

(* Outside of the walls a stamp has no wall flags. *)
LEMMA StampMirrored ==
  ASSUME NEW d \in LocationType, NEW q \in Placement
  PROVE  Mirrored(Stamp(d, q))
<1>1. Mirrored(Collision(d, q))
  <2>1. CASE Collision(d, q) = Wall(q)
    BY <2>1, WallMirrored
  <2>2. CASE Collision(d, q) # Wall(q)
    <3>1. \/ Collision(d, q) = {} \/ Collision(d, q) = ObjectStamp(d, q)
          \/ Collision(d, q) = {<<0, 0, "FLOOR_DECORATION">>}
      BY <2>2 DEF Collision
    <3>2. \A a, b, f : <<a, b, f>> \in Collision(d, q) => f \notin WallFlags
      BY <3>1 DEF ObjectStamp, WallFlags
    <3>3. QED
      BY <3>2, SideType DEF Mirrored
  <2>3. QED
    BY <2>1, <2>2
<1>2. \A a, b, f : f \in WallFlags =>
        (<<a, b, f>> \in Stamp(d, q) <=> <<a, b, f>> \in Collision(d, q))
  <2>1. MarkersOf(d, q) \cap WallFlags = {}
    BY MarkersType DEF Markers, WallFlags
  <2>2. QED
    BY <2>1 DEF Stamp
<1>3. QED
  BY <1>1, <1>2, SideType DEF Mirrored

LEMMA WallsKept ==
  ASSUME Typed, WallsAgree, [Next]_vars
  PROVE  WallsAgree'
<1>1. SUFFICES ASSUME NEW t \in Tile, NEW v \in Directions, Neighbour(t, v) \in Tile
      PROVE  Side(v) \in clip'[t] <=> Side(Across(v)) \in clip'[Neighbour(t, v)]
  BY DEF WallsAgree
<1> DEFINE u == Neighbour(t, v)
<1>2. Side(v) \in clip[t] <=> Side(Across(v)) \in clip[u]
  BY <1>1 DEF WallsAgree
<1>3. ASSUME NEW s \in Squares, NEW w \in BOOLEAN, Begin(s, w) \/ Absent(s, w)
      PROVE  Side(v) \in clip'[t] <=> Side(Across(v)) \in clip'[u]
  <2>1. clip'[t] \cap WallFlags = {} /\ clip'[u] \cap WallFlags = {}
    BY <1>1, <1>3 DEF Begin, Absent, Terrain, WallFlags
  <2>2. QED
    BY <2>1, SideType
<1>4. CASE Apply
  <2> DEFINE S == Stamp(Def[Q.loc], Q)
             p == PlaneOfQ
  <2>1. Q \in Placement /\ Def[Q.loc] \in LocationType
    BY <1>4, Placed, DefType DEF Apply
  <2>2. Mirrored(S)
    BY <2>1, StampMirrored
  <2>3. clip' = Stamped(p, Q, S)
    BY <1>4 DEF Apply
  <2>4. /\ Side(v) \in clip'[t] <=>
              \/ Side(v) \in clip[t]
              \/ t[1] = p /\ <<t[2] - Q.x, t[3] - Q.y, Side(v)>> \in S
        /\ Side(Across(v)) \in clip'[u] <=>
              \/ Side(Across(v)) \in clip[u]
              \/ u[1] = p /\ <<u[2] - Q.x, u[3] - Q.y, Side(Across(v))>> \in S
    <3>1. Side(v) \in ClipFlag /\ Side(Across(v)) \in ClipFlag
      BY SideType DEF ClipFlag
    <3>2. QED
      BY <1>1, <2>3, <3>1 DEF Stamped
  <2>5. /\ t[2] - Q.x \in Int /\ t[3] - Q.y \in Int /\ u[1] = t[1]
        /\ u[2] - Q.x = (t[2] - Q.x) + v[1] /\ u[3] - Q.y = (t[3] - Q.y) + v[2]
    <3>1. Q.x \in Int /\ Q.y \in Int
      BY <2>1, Sizes DEF Placement
    <3>2. t[2] \in Int /\ t[3] \in Int
      BY TileParts, Sizes
    <3>3. v[1] \in Int /\ v[2] \in Int
      BY DEF Directions
    <3>4. QED
      BY <3>1, <3>2, <3>3 DEF Neighbour
  <2>6. <<t[2] - Q.x, t[3] - Q.y, Side(v)>> \in S <=>
          <<u[2] - Q.x, u[3] - Q.y, Side(Across(v))>> \in S
    BY <2>2, <2>5 DEF Mirrored
  <2>7. QED
    BY <1>2, <2>4, <2>5, <2>6
<1>5. CASE Finish
  <2>1. /\ clip'[t] \cap WallFlags = clip[t] \cap WallFlags
        /\ clip'[u] \cap WallFlags = clip[u] \cap WallFlags
    BY <1>1, <1>5 DEF Finish, WallFlags
  <2>2. QED
    BY <1>2, <2>1, SideType
<1>6. CASE clip' = clip
  BY <1>2, <1>6
<1>7. DropBelow \/ Unread \/ LocationsDone \/ Raise \/ UNCHANGED vars => clip' = clip
  BY DEF DropBelow, Unread, LocationsDone, Raise, output, vars
<1>8. \A o \in Overlays : LookUp(o) => clip' = clip
  BY DEF LookUp, output
<1>9. QED
  BY <1>3, <1>4, <1>5, <1>6, <1>7, <1>8 DEF Next

(* For a grid of any size and any placements: a wall stamped on one tile's *)
(* edge is on the opposite edge of the tile across, at every step.         *)
THEOREM WallsSeenFromBothSides == Spec => []WallsAgree
<1>1. Init => WallsAgree
  <2>1. \A t \in Tile : Init => clip[t] = {}
    BY DEF Init
  <2>2. QED
    BY <2>1 DEF WallsAgree
<1>2. Typed /\ WallsAgree /\ [Next]_vars => WallsAgree'
  BY WallsKept
<1>3. QED
  BY <1>1, <1>2, Initially, TypedKept, PTL DEF Spec
-----------------------------------------------------------------------------
(* The markers of a stamp are those of its placement, on its own tile. *)
LEMMA MarkerStamp ==
  ASSUME NEW d \in LocationType, NEW q \in Placement, NEW k \in Markers,
         NEW a, NEW b
  PROVE  <<a, b, k>> \in Stamp(d, q) <=> a = 0 /\ b = 0 /\ k \in MarkersOf(d, q)
<1>1. <<a, b, k>> \notin Collision(d, q)
  <2>1. k \notin WallFlags \cup {"OBJECT", "FLOOR_DECORATION"}
    BY DEF Markers, WallFlags
  <2>2. <<a, b, k>> \notin Wall(q)
    BY <2>1 DEF Wall, StraightWall, DiagonalWall, CornerWall, WallFlags
  <2>3. <<a, b, k>> \notin ObjectStamp(d, q)
    BY <2>1 DEF ObjectStamp
  <2>4. QED
    BY <2>1, <2>2, <2>3 DEF Collision
<1>2. QED
  BY <1>1 DEF Stamp

LEMMA CrossingPlace ==
  ASSUME NEW d \in LocationType, NEW q \in Placement, NEW k, NEW p,
         square \in Squares
  PROVE  /\ CrossingOf(k, d, q, p).kind = k
         /\ TileOf(CrossingOf(k, d, q, p)) = <<p, q.x, q.y>>
<1>1. PICK m1 \in Nat, m2 \in Nat : m1 = square[1] * SIZE /\ m2 = square[2] * SIZE
  BY WorldCoordinate
<1>2. /\ CrossingOf(k, d, q, p).worldX = m1 + q.x
      /\ CrossingOf(k, d, q, p).worldY = m2 + q.y
      /\ CrossingOf(k, d, q, p).plane = p /\ CrossingOf(k, d, q, p).kind = k
  BY <1>1, WorldCoordinate DEF CrossingOf
<1>3. q.x \in Int /\ q.y \in Int
  BY Sizes DEF Placement
<1>4. (m1 + q.x) - m1 = q.x /\ (m2 + q.y) - m2 = q.y
  BY <1>3
<1>5. QED
  BY <1>1, <1>2, <1>4 DEF TileOf

(* What one placement does to a tile's markers. *)
LEMMA Marked ==
  ASSUME Typed, Apply, NEW t \in Tile, NEW k \in Markers
  PROVE  k \in clip'[t] <=>
           \/ k \in clip[t]
           \/ t = <<PlaneOfQ, Q.x, Q.y>> /\ k \in MarkersOf(Def[Q.loc], Q)
<1> DEFINE S == Stamp(Def[Q.loc], Q)
<1>1. Q \in Placement /\ Def[Q.loc] \in LocationType
  BY Placed, DefType DEF Apply
<1>2. clip' = Stamped(PlaneOfQ, Q, S) /\ k \in ClipFlag
  BY DEF Apply, ClipFlag
<1>3. k \in clip'[t] <=>
        \/ k \in clip[t]
        \/ t[1] = PlaneOfQ /\ <<t[2] - Q.x, t[3] - Q.y, k>> \in S
  BY <1>2 DEF Stamped
<1>4. <<t[2] - Q.x, t[3] - Q.y, k>> \in S <=>
        t[2] - Q.x = 0 /\ t[3] - Q.y = 0 /\ k \in MarkersOf(Def[Q.loc], Q)
  BY <1>1, MarkerStamp
<1>5. (t[2] - Q.x = 0 <=> t[2] = Q.x) /\ (t[3] - Q.y = 0 <=> t[3] = Q.y)
  BY <1>1, TileParts, Sizes DEF Placement
<1>6. t = <<PlaneOfQ, Q.x, Q.y>> <=> t[1] = PlaneOfQ /\ t[2] = Q.x /\ t[3] = Q.y
  BY TileParts
<1>7. QED
  BY <1>3, <1>4, <1>5, <1>6

LEMMA MarkersKept ==
  ASSUME Typed, CrossingsMatchMarkers, [Next]_vars
  PROVE  CrossingsMatchMarkers'
<1>1. SUFFICES ASSUME wanted', NEW t \in Tile, NEW k \in Markers
      PROVE  k \in clip'[t] <=> \E c \in crossings' : c.kind = k /\ TileOf(c)' = t
  BY DEF CrossingsMatchMarkers
<1>2. ASSUME wanted
      PROVE  k \in clip[t] <=> \E c \in crossings : c.kind = k /\ TileOf(c) = t
  BY <1>2 DEF CrossingsMatchMarkers
<1>3. ASSUME NEW s \in Squares, NEW w \in BOOLEAN, Begin(s, w) \/ Absent(s, w)
      PROVE  k \in clip'[t] <=> \E c \in crossings' : c.kind = k /\ TileOf(c)' = t
  <2>1. k \notin clip'[t] /\ crossings' = {}
    BY <1>3 DEF Begin, Absent, Terrain, Markers
  <2>2. QED
    BY <2>1
<1>4. CASE Apply
  <2> DEFINE d == Def[Q.loc]
             new == {CrossingOf(j, d, Q, PlaneOfQ) : j \in MarkersOf(d, Q)}
  <2>1. wanted /\ square' = square
    BY <1>1, <1>4 DEF Apply
  <2>2. crossings' = crossings \cup new
    BY <1>4, <2>1 DEF Apply
  <2>3. \A c : TileOf(c)' = TileOf(c)
    BY <2>1 DEF TileOf
  <2>4. Q \in Placement /\ d \in LocationType /\ square \in Squares
    BY <1>4, Placed, DefType DEF Apply, Typed
  <2>5. \A j : /\ CrossingOf(j, d, Q, PlaneOfQ).kind = j
               /\ TileOf(CrossingOf(j, d, Q, PlaneOfQ)) = <<PlaneOfQ, Q.x, Q.y>>
    BY <2>4, CrossingPlace
  <2>6. (\E c \in new : c.kind = k /\ TileOf(c) = t) <=>
          t = <<PlaneOfQ, Q.x, Q.y>> /\ k \in MarkersOf(d, Q)
    BY <2>5
  <2>7. k \in clip'[t] <=>
          \/ k \in clip[t]
          \/ t = <<PlaneOfQ, Q.x, Q.y>> /\ k \in MarkersOf(d, Q)
    BY <1>4, Marked
  <2>8. QED
    BY <1>2, <2>1, <2>2, <2>3, <2>6, <2>7
<1>5. CASE Finish
  <2>1. /\ wanted /\ square' = square /\ crossings' = crossings
        /\ k \in clip'[t] <=> k \in clip[t]
    BY <1>1, <1>5 DEF Finish, Markers
  <2>2. \A c : TileOf(c)' = TileOf(c)
    BY <2>1 DEF TileOf
  <2>3. QED
    BY <1>2, <2>1, <2>2
<1>6. CASE UNCHANGED output
  <2>1. wanted /\ square' = square /\ crossings' = crossings /\ clip' = clip
    BY <1>1, <1>6 DEF output
  <2>2. \A c : TileOf(c)' = TileOf(c)
    BY <2>1 DEF TileOf
  <2>3. QED
    BY <1>2, <2>1, <2>2
<1>7. /\ DropBelow \/ Unread \/ LocationsDone \/ Raise \/ UNCHANGED vars
         => UNCHANGED output
      /\ \A o \in Overlays : LookUp(o) => UNCHANGED output
  BY DEF DropBelow, Unread, LocationsDone, Raise, LookUp, vars
<1>8. QED
  BY <1>3, <1>4, <1>5, <1>6, <1>7 DEF Next

(* The clip grid and the list of crossings are two views of the same       *)
(* scenery: whatever the placements, a tile has a marker exactly when the  *)
(* list has a crossing of that kind on it.                                 *)
THEOREM MarkersNameCrossings == Spec => []CrossingsMatchMarkers
<1>1. Init => CrossingsMatchMarkers
  BY DEF Init, CrossingsMatchMarkers
<1>2. Typed /\ CrossingsMatchMarkers /\ [Next]_vars => CrossingsMatchMarkers'
  BY MarkersKept
<1>3. QED
  BY <1>1, <1>2, Initially, TypedKept, PTL DEF Spec
-----------------------------------------------------------------------------
LEMMA DoorStamp ==
  ASSUME NEW d \in LocationType, NEW q \in Placement, "DOOR" \in MarkersOf(d, q)
  PROVE  \E f \in WallFlags \cup {"OBJECT"} : <<0, 0, f>> \in Stamp(d, q)
<1>1. IsDoor(d, q)
  BY DEF MarkersOf
<1>2. d.solidType # 0 /\ q.shape \in {0, 1, 2, 3, 9} /\ q.rotation \in 0..3
  BY <1>1 DEF IsDoor, Placement
<1>3. CASE q.shape \in {0, 1, 2, 3}
  <2>1. Collision(d, q) = Wall(q)
    BY <1>2, <1>3 DEF Collision
  <2>2. \E f \in WallFlags : <<0, 0, f>> \in Wall(q)
    BY <1>2, <1>3 DEF Wall, StraightWall, DiagonalWall, CornerWall, WallFlags
  <2>3. QED
    BY <2>1, <2>2 DEF Stamp
<1>4. CASE q.shape = 9
  <2>1. Collision(d, q) = ObjectStamp(d, q)
    BY <1>2, <1>4 DEF Collision
  <2>2. <<0, 0, "OBJECT">> \in ObjectStamp(d, q)
    BY FootprintType DEF ObjectStamp
  <2>3. QED
    BY <2>1, <2>2 DEF Stamp
<1>5. QED
  BY <1>2, <1>3, <1>4

LEMMA DoorsKept ==
  ASSUME Typed, DoorsBlock, [Next]_vars
  PROVE  DoorsBlock'
<1>1. SUFFICES ASSUME NEW t \in Tile, "DOOR" \in clip'[t]
      PROVE  clip'[t] \cap (WallFlags \cup {"OBJECT"}) # {}
  BY DEF DoorsBlock
<1>2. CASE "DOOR" \in clip[t] /\ clip[t] \subseteq clip'[t]
  BY <1>2 DEF DoorsBlock
<1>3. ASSUME NEW s \in Squares, NEW w \in BOOLEAN, Begin(s, w) \/ Absent(s, w)
      PROVE  FALSE
  BY <1>1, <1>3 DEF Begin, Absent, Terrain
<1>4. CASE Apply
  <2>1. clip[t] \subseteq clip'[t]
    BY <1>4 DEF Apply, Stamped
  <2>2. CASE t = <<PlaneOfQ, Q.x, Q.y>> /\ "DOOR" \in MarkersOf(Def[Q.loc], Q)
    <3>1. Q \in Placement /\ Def[Q.loc] \in LocationType
      BY <1>4, Placed, DefType DEF Apply
    <3>2. PICK f \in WallFlags \cup {"OBJECT"} : <<0, 0, f>> \in Stamp(Def[Q.loc], Q)
      BY <2>2, <3>1, DoorStamp
    <3>3. t[1] = PlaneOfQ /\ t[2] - Q.x = 0 /\ t[3] - Q.y = 0
      BY <2>2, <3>1, Sizes DEF Placement
    <3>4. f \in clip'[t]
      BY <1>1, <1>4, <3>2, <3>3 DEF Apply, Stamped, ClipFlag
    <3>5. QED
      BY <3>2, <3>4
  <2>3. "DOOR" \in Markers
    BY DEF Markers
  <2>4. QED
    BY <1>1, <1>2, <1>4, <2>1, <2>2, <2>3, Marked
<1>5. CASE Finish
  <2>1. clip[t] \subseteq clip'[t] /\ "DOOR" \in clip[t]
    BY <1>1, <1>5 DEF Finish
  <2>2. QED
    BY <1>2, <2>1
<1>6. CASE UNCHANGED output
  BY <1>1, <1>2, <1>6 DEF output
<1>7. /\ DropBelow \/ Unread \/ LocationsDone \/ Raise \/ UNCHANGED vars
         => UNCHANGED output
      /\ \A o \in Overlays : LookUp(o) => UNCHANGED output
  BY DEF DropBelow, Unread, LocationsDone, Raise, LookUp, vars
<1>8. QED
  BY <1>3, <1>4, <1>5, <1>6, <1>7 DEF Next

(* A tile marked as a door always has the wall or the object that the door *)
(* is, whatever sizes and shapes the definitions give.                     *)
THEOREM DoorsStandInSomething == Spec => []DoorsBlock
<1>1. Init => DoorsBlock
  BY DEF Init, DoorsBlock
<1>2. Typed /\ DoorsBlock /\ [Next]_vars => DoorsBlock'
  BY DoorsKept
<1>3. QED
  BY <1>1, <1>2, Initially, TypedKept, PTL DEF Spec
-----------------------------------------------------------------------------
(* What is still to place is the rest of the square's placements.          *)
Building == pc \in {"locations", "water"}

Placements(s) == Data(s).placements
Placed0 == Len(Placements(square)) - Len(todo)
Applied == {Placements(square)[n] : n \in 1..Placed0}

RestIsLeft ==
  Building =>
    /\ Present(square) /\ Placed0 >= 0
    /\ \A n \in 1..Len(todo) : todo[n] = Placements(square)[Placed0 + n]

LEMMA PlacementsType ==
  ASSUME NEW s \in Squares, Present(s)
  PROVE  /\ Placements(s) \in Seq(Placement) /\ Len(Placements(s)) \in Nat
         /\ \A n \in 1..Len(Placements(s)) : Placements(s)[n] \in Placement
<1>1. Placements(s) \in Seq(Placement)
  BY DataType DEF Placements, Square
<1>2. QED
  BY <1>1

(* A step that takes the placement at hand. *)
LEMMA TakesOne ==
  ASSUME Typed, RestIsLeft, Placing, pc' = pc, square' = square, todo' = Tail(todo)
  PROVE  /\ Q \in Placement /\ \E n \in 1..Len(Placements(square)) : Q = Placements(square)[n]
         /\ Applied' = Applied \cup {Q} /\ RestIsLeft' /\ Present(square)
         /\ Placements(square)' = Placements(square)
<1>1. /\ Present(square) /\ square \in Squares /\ Placed0 >= 0 /\ Building
      /\ \A n \in 1..Len(todo) : todo[n] = Placements(square)[Placed0 + n]
  BY DEF Typed, RestIsLeft, Placing, Building
<1>2. Placements(square)' = Placements(square)
  BY DEF Placements, Data, ArchiveOf
<1> DEFINE P == Placements(square)
<1>3. P \in Seq(Placement) /\ Len(P) \in Nat
  BY <1>1, PlacementsType
<1> HIDE DEF P
<1>4. todo \in Seq(Placement) /\ todo # <<>> /\ Len(todo) \in Nat \ {0}
  BY DEF Placing, Typed
<1>5. /\ Len(todo') = Len(todo) - 1
      /\ \A n \in 1..Len(todo') : todo'[n] = todo[n + 1]
  BY <1>4
<1>6. Placed0 = Len(P) - Len(todo) /\ Placed0' = Placed0 + 1 /\ Placed0 \in Nat
  BY <1>1, <1>2, <1>3, <1>4, <1>5 DEF Placed0, P
<1>7. Q = todo[1] /\ Q \in Placement
  BY <1>4 DEF Q
<1>8. Q = P[Placed0 + 1] /\ Placed0 + 1 \in 1..Len(P)
  BY <1>1, <1>3, <1>4, <1>6, <1>7 DEF P
<1>9. Applied' = Applied \cup {Q}
  <2>1. Applied' = {P[n] : n \in 1..Placed0 + 1}
    BY <1>2, <1>6 DEF Applied, P
  <2>2. 1..Placed0 + 1 = (1..Placed0) \cup {Placed0 + 1}
    BY <1>6
  <2>3. Applied = {P[n] : n \in 1..Placed0}
    BY DEF Applied, P
  <2>4. QED
    BY <1>8, <2>1, <2>2, <2>3
<1>10. RestIsLeft'
  <2>1. Present(square)' = Present(square)
    BY DEF Present, ArchiveOf
  <2>2. ASSUME NEW n \in 1..Len(todo') PROVE todo'[n] = P[Placed0' + n]
    <3>1. n + 1 \in 1..Len(todo) /\ todo'[n] = todo[n + 1]
      BY <1>4, <1>5
    <3>2. todo[n + 1] = P[Placed0 + (n + 1)]
      BY <1>1, <3>1 DEF P
    <3>3. Placed0 + (n + 1) = Placed0' + n
      BY <1>6
    <3>4. QED
      BY <3>1, <3>2, <3>3
  <2>3. QED
    BY <1>1, <1>2, <1>6, <2>1, <2>2 DEF RestIsLeft, P
<1>11. QED
  BY <1>1, <1>2, <1>7, <1>8, <1>9, <1>10 DEF P

LEMMA TakesNone ==
  ASSUME RestIsLeft, Building' => Building, square' = square, todo' = todo
  PROVE  RestIsLeft' /\ Applied' = Applied /\ Placements(square)' = Placements(square)
BY DEF RestIsLeft, Placed0, Applied, Placements, Data, Present, ArchiveOf

LEMMA RestKept ==
  ASSUME Typed, RestIsLeft, [Next]_vars
  PROVE  RestIsLeft'
<1>1. ASSUME NEW s \in Squares, NEW w \in BOOLEAN, Begin(s, w)
      PROVE  RestIsLeft'
  <2>1. /\ square' = s /\ Present(s) /\ todo' = Placements(s)
    BY <1>1 DEF Begin, Placements
  <2>2. Placements(square)' = Placements(s) /\ Present(square)'
    BY <2>1 DEF Placements, Data, ArchiveOf, Present
  <2>3. Len(Placements(s)) \in Nat
    BY <2>1, PlacementsType
  <2>4. Placed0' = 0
    BY <2>1, <2>2, <2>3 DEF Placed0
  <2>5. QED
    BY <2>1, <2>2, <2>3, <2>4 DEF RestIsLeft
<1>2. ASSUME NEW s \in Squares, NEW w \in BOOLEAN, Absent(s, w)
      PROVE  RestIsLeft'
  BY <1>2 DEF Absent, RestIsLeft, Building
<1>3. CASE DropBelow \/ Apply \/ Unread
  <2>1. Placing /\ pc' = pc /\ square' = square /\ todo' = Tail(todo)
    BY <1>3 DEF DropBelow, Apply, Unread, output
  <2>2. QED
    BY <2>1, TakesOne
<1>4. CASE LocationsDone \/ Finish \/ UNCHANGED vars
  BY <1>4, TakesNone DEF LocationsDone, Finish, vars, output, Building
<1>5. ASSUME NEW o \in Overlays, LookUp(o) PROVE RestIsLeft'
  BY <1>5, TakesNone DEF LookUp, output, Building
<1>6. CASE Raise
  BY <1>6 DEF Raise, RestIsLeft, Building
<1>7. QED
  BY <1>1, <1>2, <1>3, <1>4, <1>5, <1>6 DEF Next
-----------------------------------------------------------------------------
(* What a crossing says to click is why it is one. *)
LEMMA OptionIsReason ==
  ASSUME NEW d \in LocationType, NEW q \in Placement, NEW k \in MarkersOf(d, q)
  PROVE  LET o == OptionFor(k, d) IN
         /\ k = "CLIMBOVER" => IsShortcut(d.options[o])
         /\ k = "PLANE_CHANGE" => IsVertical(d.options[o])
                                  /\ OptionDir(d.options[o]) \subseteq classifyClimbDir(d)
         /\ k = "DOOR" => (o = NoOption /\ d.varbit) \/ d.options[o] # {}
<1>1. /\ OptionSlots(d) \in SUBSET (0..5)
      /\ ShortcutSlots(d) \in SUBSET (0..5) /\ VerticalSlots(d) \in SUBSET (0..5)
  BY DEF OptionSlots, ShortcutSlots, VerticalSlots, Slots
<1>2. CASE k = "CLIMBOVER"
  <2>1. ShortcutSlots(d) # {}
    BY <1>2 DEF MarkersOf
  <2>2. OptionFor(k, d) \in ShortcutSlots(d)
    BY <1>1, <1>2, <2>1, LeastIn DEF OptionFor, FirstOr
  <2>3. QED
    BY <1>2, <2>2 DEF ShortcutSlots
<1>3. CASE k = "PLANE_CHANGE"
  <2>1. VerticalSlots(d) # {}
    BY <1>3 DEF MarkersOf
  <2>2. OptionFor(k, d) \in VerticalSlots(d)
    BY <1>1, <1>3, <2>1, LeastIn DEF OptionFor, FirstOr
  <2>3. QED
    BY <1>3, <2>2 DEF VerticalSlots, classifyClimbDir
<1>4. CASE k = "DOOR"
  <2>1. OptionSlots(d) # {} \/ d.varbit
    BY <1>4 DEF MarkersOf, IsDoor, hasAnyOption
  <2>2. OptionFor(k, d) = FirstOf(OptionSlots(d))
    BY <1>4 DEF OptionFor
  <2>3. CASE OptionSlots(d) = {}
    BY <1>4, <2>1, <2>2, <2>3 DEF FirstOf
  <2>4. CASE OptionSlots(d) # {}
    <3>1. OptionFor(k, d) \in OptionSlots(d)
      BY <1>1, <2>2, <2>4, LeastIn DEF FirstOf
    <3>2. QED
      BY <1>4, <3>1 DEF OptionSlots
  <2>5. QED
    BY <2>3, <2>4
<1>5. QED
  BY <1>2, <1>3, <1>4

Listed(s, c) ==
  \E p \in Spawns(s) :
    /\ p.loc = c.loc /\ p.worldX = c.worldX /\ p.worldY = c.worldY
    /\ p.shape = c.shape /\ p.rotation = c.rotation
    /\ c.plane = EffectivePlane(s, p.plane, c.worldX - s[1] * SIZE,
                                            c.worldY - s[2] * SIZE)

Reasoned(c) ==
  LET d == Def[c.loc] IN
    /\ c.kind = "CLIMBOVER" => IsShortcut(d.options[c.option])
    /\ c.kind = "PLANE_CHANGE" => /\ OptionDir(d.options[c.option]) \subseteq c.climb
                                  /\ IsVertical(d.options[c.option])
    /\ c.kind = "DOOR" => \/ c.option = NoOption /\ d.varbit
                          \/ d.options[c.option] # {}

LEMMA UsableParts ==
  CrossingsUsable <=> \A c \in crossings : Listed(square, c) /\ Reasoned(c)
BY DEF CrossingsUsable, Listed, Reasoned

LEMMA SpawnListed ==
  ASSUME NEW s \in Squares, Present(s), NEW n \in 1..Len(Placements(s))
  PROVE  LET q == Placements(s)[n] IN
         [loc |-> q.loc, worldX |-> s[1] * SIZE + q.x,
          worldY |-> s[2] * SIZE + q.y, plane |-> q.plane,
          shape |-> q.shape, rotation |-> q.rotation] \in Spawns(s)
BY DEF Spawns, Placements

(* A placement's crossing is one of the spawns. *)
LEMMA CrossingListed ==
  ASSUME NEW s \in Squares, s = square, Present(s), NEW n \in 1..Len(Placements(s)),
         NEW q \in Placement, q = Placements(s)[n], NEW k, NEW d
  PROVE  Listed(s, CrossingOf(k, d, q, EffectivePlane(s, q.plane, q.x, q.y)))
<1> DEFINE c == CrossingOf(k, d, q, EffectivePlane(s, q.plane, q.x, q.y))
           p == [loc |-> q.loc, worldX |-> s[1] * SIZE + q.x,
                 worldY |-> s[2] * SIZE + q.y, plane |-> q.plane,
                 shape |-> q.shape, rotation |-> q.rotation]
<1>1. p \in Spawns(s)
  BY SpawnListed
<1>2. /\ c.loc = q.loc /\ c.shape = q.shape /\ c.rotation = q.rotation
      /\ c.plane = EffectivePlane(s, q.plane, q.x, q.y)
      /\ c.worldX = Uint16(s[1] * SIZE + q.x) /\ c.worldY = Uint16(s[2] * SIZE + q.y)
  BY DEF CrossingOf
<1>3. /\ s[1] * SIZE \in Nat /\ s[2] * SIZE \in Nat
      /\ c.worldX = s[1] * SIZE + q.x /\ c.worldY = s[2] * SIZE + q.y
  BY <1>2, WorldCoordinate
<1>4. q.x \in Int /\ q.y \in Int
  BY Sizes DEF Placement
<1>5. c.worldX - s[1] * SIZE = q.x /\ c.worldY - s[2] * SIZE = q.y
  <2>1. \A a \in Nat, b \in Int : (a + b) - a = b
    OBVIOUS
  <2>2. QED
    BY <1>3, <1>4, <2>1
<1>6. /\ p.loc = c.loc /\ p.worldX = c.worldX /\ p.worldY = c.worldY
      /\ p.shape = c.shape /\ p.rotation = c.rotation /\ p.plane = q.plane
  BY <1>2, <1>3
<1>7. c.plane = EffectivePlane(s, p.plane, c.worldX - s[1] * SIZE, c.worldY - s[2] * SIZE)
  BY <1>2, <1>5, <1>6
<1> HIDE DEF c, p
<1>8. Listed(s, c)
  BY <1>1, <1>6, <1>7 DEF Listed
<1>9. QED
  BY <1>8 DEF c

LEMMA CrossingReasoned ==
  ASSUME NEW q \in Placement, NEW k \in MarkersOf(Def[q.loc], q), NEW p,
         Def[q.loc] \in LocationType
  PROVE  Reasoned(CrossingOf(k, Def[q.loc], q, p))
<1> DEFINE c == CrossingOf(k, Def[q.loc], q, p)
<1>1. /\ c.loc = q.loc /\ c.kind = k /\ c.option = OptionFor(k, Def[q.loc])
      /\ k = "PLANE_CHANGE" => c.climb = classifyClimbDir(Def[q.loc])
  BY DEF CrossingOf
<1> HIDE DEF c
<1>2. Reasoned(c)
  BY <1>1, OptionIsReason DEF Reasoned
<1>3. QED
  BY <1>2 DEF c

LEMMA UsableKept ==
  ASSUME Typed, RestIsLeft, CrossingsUsable, [Next]_vars
  PROVE  CrossingsUsable'
<1>1. SUFFICES ASSUME NEW c \in crossings'
      PROVE  Listed(square', c) /\ Reasoned(c)
  BY UsableParts DEF CrossingsUsable, Listed, Reasoned
<1>2. CASE square' = square /\ c \in crossings
  BY <1>2, UsableParts
<1>3. ASSUME NEW s \in Squares, NEW w \in BOOLEAN, Begin(s, w) \/ Absent(s, w)
      PROVE  FALSE
  BY <1>1, <1>3 DEF Begin, Absent
<1>4. CASE Apply
  <2>1. /\ Placing /\ Q.loc \in DOMAIN Def /\ square' = square
        /\ pc' = pc /\ todo' = Tail(todo)
    BY <1>4 DEF Apply
  <2>2. /\ Q \in Placement /\ Present(square) /\ square \in Squares
        /\ \E n \in 1..Len(Placements(square)) : Q = Placements(square)[n]
    BY <2>1, TakesOne DEF Typed
  <2>3. CASE c \in crossings
    BY <1>2, <2>1, <2>3
  <2>4. CASE c \notin crossings
    <3>1. PICK k \in MarkersOf(Def[Q.loc], Q) :
             c = CrossingOf(k, Def[Q.loc], Q, PlaneOfQ)
      BY <1>1, <1>4, <2>4 DEF Apply
    <3>2. Listed(square, c)
      BY <2>2, <3>1, CrossingListed DEF PlaneOfQ
    <3>3. Reasoned(c)
      BY <2>1, <2>2, <3>1, CrossingReasoned, DefType
    <3>4. QED
      BY <2>1, <3>2, <3>3
  <2>5. QED
    BY <2>3, <2>4
<1>5. \/ DropBelow \/ Unread \/ LocationsDone \/ Finish \/ Raise \/ UNCHANGED vars
      \/ \E o \in Overlays : LookUp(o)
      => square' = square /\ crossings' = crossings
  BY DEF DropBelow, Unread, LocationsDone, Finish, Raise, LookUp, vars, output
<1>6. QED
  BY <1>1, <1>2, <1>3, <1>4, <1>5 DEF Next

LEMMA RestInitially == Init => RestIsLeft
BY DEF Init, RestIsLeft, Building

(* Every crossing is one of the spawns that buildMapSquareLocs lists for   *)
(* the same square, on that spawn's plane or, under a bridge, the one      *)
(* below; and the menu option it says to click is the one that made it a   *)
(* crossing.                                                               *)
THEOREM CrossingsCanBeUsed == Spec => []CrossingsUsable
<1>1. Init => CrossingsUsable
  BY DEF Init, CrossingsUsable
<1>2. Typed /\ RestIsLeft /\ CrossingsUsable /\ [Next]_vars => CrossingsUsable'
  BY UsableKept
<1>3. QED
  BY <1>1, <1>2, Initially, TypedKept, RestInitially, RestKept, PTL DEF Spec
-----------------------------------------------------------------------------
(* What the terrain and what one placement show on a tile, as Scenery has  *)
(* them: the first by the column it falls in, the second by the edges it   *)
(* turns and the tiles it covers.                                          *)
Place(s, q) == <<EffectivePlane(s, q.plane, q.x, q.y), q.x, q.y>>

Ground(s, t, f) ==
  /\ f \in {"FLOOR", "BLOCKED"}
  /\ <<IF <<t[2], t[3]>> \in Data(s).bridge THEN t[1] + 1 ELSE t[1], t[2], t[3]>>
       \in Data(s).blocked

Edged(s, q, t, f) ==
  \E v \in Directions :
    /\ f = Side(v)
    /\ \/ Place(s, q) = t /\ v \in Edges(q)
       \/ Place(s, q) = Neighbour(t, v) /\ Across(v) \in Edges(q)

Covers(s, q, t) ==
  LET size == Footprint(Def[q.loc], q)
  IN  /\ Place(s, q)[1] = t[1]
      /\ q.x <= t[2] /\ t[2] < q.x + size[1]
      /\ q.y <= t[3] /\ t[3] < q.y + size[2]

Shows(s, q, t, f) ==
  \/ Def[q.loc].solidType # 0 /\ Edged(s, q, t, f)
  \/ /\ Def[q.loc].solidType # 0 /\ q.shape \in 9..21 /\ Covers(s, q, t)
     /\ f = "OBJECT"
  \/ /\ Def[q.loc].solidType = 1 /\ q.shape = 22 /\ Place(s, q) = t
     /\ f = "FLOOR_DECORATION"
  \/ Place(s, q) = t /\ f \in MarkersOf(Def[q.loc], q)

LEMMA SceneryIs ==
  ASSUME NEW s, NEW t, NEW f
  PROVE  f \in Scenery(s, t) <=>
           Ground(s, t, f) \/ \E q \in Standing(s) : Shows(s, q, t, f)
<1> DEFINE solid == {q \in Standing(s) : Def[q.loc].solidType # 0}
           place(q) == <<EffectivePlane(s, q.plane, q.x, q.y), q.x, q.y>>
           above == <<IF <<t[2], t[3]>> \in Data(s).bridge THEN t[1] + 1 ELSE t[1],
                      t[2], t[3]>>
           covers(q) ==
             LET size == Footprint(Def[q.loc], q)
             IN  /\ place(q)[1] = t[1]
                 /\ q.x <= t[2] /\ t[2] < q.x + size[1]
                 /\ q.y <= t[3] /\ t[3] < q.y + size[2]
           A == IF above \in Data(s).blocked THEN {"FLOOR", "BLOCKED"} ELSE {}
           B == {Side(v) : v \in {v \in Directions : \E q \in solid :
                   \/ place(q) = t /\ v \in Edges(q)
                   \/ place(q) = Neighbour(t, v) /\ Across(v) \in Edges(q)}}
           C == IF \E q \in solid : q.shape \in 9..21 /\ covers(q)
                THEN {"OBJECT"} ELSE {}
           D == IF \E q \in solid : /\ q.shape = 22 /\ Def[q.loc].solidType = 1
                                    /\ place(q) = t
                THEN {"FLOOR_DECORATION"} ELSE {}
           E == UNION {MarkersOf(Def[q.loc], q) :
                         q \in {q \in Standing(s) : place(q) = t}}
<1>1. Scenery(s, t) = A \cup B \cup C \cup D \cup E
  BY DEF Scenery
<1>2. \A q : place(q) = Place(s, q)
  BY DEF Place
<1>3. f \in A <=> Ground(s, t, f)
  BY DEF Ground
<1>4. f \in B <=> \E q \in Standing(s) : Def[q.loc].solidType # 0 /\ Edged(s, q, t, f)
  BY DEF Edged, Place
<1>5. f \in C <=> \E q \in Standing(s) :
        /\ Def[q.loc].solidType # 0 /\ q.shape \in 9..21 /\ Covers(s, q, t)
        /\ f = "OBJECT"
  BY DEF Covers, Place
<1>6. f \in D <=> \E q \in Standing(s) :
        /\ Def[q.loc].solidType = 1 /\ q.shape = 22 /\ Place(s, q) = t
        /\ f = "FLOOR_DECORATION"
  BY DEF Place
<1>7. f \in E <=> \E q \in Standing(s) : Place(s, q) = t /\ f \in MarkersOf(Def[q.loc], q)
  BY DEF Place
<1> HIDE DEF A, B, C, D, E
<1>8. QED
  BY <1>1, <1>3, <1>4, <1>5, <1>6, <1>7 DEF Shows

(* buildMapSquareClip lowers a blocked tile under a bridge; looking up from *)
(* the lower tile finds the same one.                                      *)
LEMMA TerrainIs ==
  ASSUME NEW s \in Squares, Present(s), NEW t \in Tile, NEW f
  PROVE  f \in Terrain(s)[t] <=> Ground(s, t, f)
<1> DEFINE above == <<IF <<t[2], t[3]>> \in Data(s).bridge THEN t[1] + 1 ELSE t[1],
                      t[2], t[3]>>
<1>1. Data(s).blocked \subseteq Tile
  BY DataType DEF Square
<1>2. (\E u \in Data(s).blocked : /\ u[2] = t[2] /\ u[3] = t[3]
                                  /\ EffectivePlane(s, u[1], u[2], u[3]) = t[1])
        <=> above \in Data(s).blocked
  <2>1. ASSUME NEW u \in Data(s).blocked, u[2] = t[2], u[3] = t[3],
               EffectivePlane(s, u[1], u[2], u[3]) = t[1]
        PROVE  above \in Data(s).blocked
    <3>1. u = <<u[1], t[2], t[3]>> /\ u[1] \in Int
      BY <1>1, <2>1, TileParts, Sizes
    <3>2. t[1] = IF <<t[2], t[3]>> \in Data(s).bridge THEN u[1] - 1 ELSE u[1]
      BY <2>1 DEF EffectivePlane
    <3>3. above[1] = u[1]
      BY <3>1, <3>2
    <3>4. above = u
      BY <3>1, <3>3
    <3>5. QED
      BY <3>4
  <2>2. ASSUME above \in Data(s).blocked
        PROVE  EffectivePlane(s, above[1], above[2], above[3]) = t[1]
    <3>1. t[1] \in Int
      BY TileParts, Sizes
    <3>2. QED
      BY <3>1 DEF EffectivePlane
  <2>3. QED
    BY <2>1, <2>2
<1>3. QED
  BY <1>2 DEF Terrain, Ground

(* An edge e of a tile, as it shows on the tile itself and on the tile     *)
(* across, at the offset <<a, b>>.                                         *)
Marks(e, a, b, f) ==
  \/ a = 0 /\ b = 0 /\ f = Side(e)
  \/ a = e[1] /\ b = e[2] /\ f = Side(Across(e))

LEMMA EdgesType ==
  ASSUME NEW q \in Placement
  PROVE  Edges(q) \subseteq Directions
<1>1. q.rotation \in {0, 1, 2, 3}
  BY DEF Placement
<1>2. \A v \in Directions : Turned(v, q.rotation) \in Directions
  BY <1>1 DEF Turned, Directions
<1>3. {<<-1, 0>>, <<-1, 1>>, <<0, 1>>} \subseteq Directions
  BY DEF Directions
<1>4. QED
  BY <1>2, <1>3 DEF Edges

LEMMA EdgedIs ==
  ASSUME NEW s, NEW q \in Placement, NEW t \in Tile, NEW f,
         t[1] = Place(s, q)[1]
  PROVE  Edged(s, q, t, f) <=> \E e \in Edges(q) : Marks(e, t[2] - q.x, t[3] - q.y, f)
<1>1. q.x \in Int /\ q.y \in Int
  BY Sizes DEF Placement
<1>2. t = <<t[1], t[2], t[3]>> /\ t[2] \in Int /\ t[3] \in Int
  BY TileParts, Sizes
<1>3. Place(s, q) = t <=> t[2] - q.x = 0 /\ t[3] - q.y = 0
  <2>1. Place(s, q) = <<t[1], q.x, q.y>>
    BY DEF Place
  <2>2. Place(s, q) = t <=> q.x = t[2] /\ q.y = t[3]
    BY <1>2, <2>1
  <2>3. QED
    BY <1>1, <1>2, <2>2
<1>4. ASSUME NEW v \in Directions
      PROVE  /\ Across(v) \in Directions /\ Across(Across(v)) = v
             /\ Place(s, q) = Neighbour(t, v) <=>
                  t[2] - q.x = Across(v)[1] /\ t[3] - q.y = Across(v)[2]
  <2>1. v[1] \in {-1, 0, 1} /\ v[2] \in {-1, 0, 1} /\ v = <<v[1], v[2]>>
    BY DEF Directions
  <2>2. Across(v) = <<-v[1], -v[2]>> /\ -(-v[1]) = v[1] /\ -(-v[2]) = v[2]
    BY <2>1 DEF Across
  <2>3. Across(v) \in Directions
    BY <2>1, <2>2 DEF Directions
  <2>4. Across(Across(v)) = v
    BY <2>1, <2>2 DEF Across
  <2>5. Place(s, q) = Neighbour(t, v) <=> q.x = t[2] + v[1] /\ q.y = t[3] + v[2]
    BY DEF Place, Neighbour
  <2>6. /\ q.x = t[2] + v[1] <=> t[2] - q.x = -v[1]
        /\ q.y = t[3] + v[2] <=> t[3] - q.y = -v[2]
    BY <1>1, <1>2, <2>1
  <2>7. QED
    BY <2>2, <2>3, <2>4, <2>5, <2>6
<1>5. ASSUME NEW v \in Directions, f = Side(v),
             \/ Place(s, q) = t /\ v \in Edges(q)
             \/ Place(s, q) = Neighbour(t, v) /\ Across(v) \in Edges(q)
      PROVE  \E e \in Edges(q) : Marks(e, t[2] - q.x, t[3] - q.y, f)
  <2>1. CASE Place(s, q) = t /\ v \in Edges(q)
    BY <1>3, <1>5, <2>1 DEF Marks
  <2>2. CASE Place(s, q) = Neighbour(t, v) /\ Across(v) \in Edges(q)
    BY <1>4, <1>5, <2>2 DEF Marks
  <2>3. QED
    BY <1>5, <2>1, <2>2
<1>6. ASSUME NEW e \in Edges(q), Marks(e, t[2] - q.x, t[3] - q.y, f)
      PROVE  Edged(s, q, t, f)
  <2>1. e \in Directions
    BY EdgesType
  <2>2. CASE t[2] - q.x = 0 /\ t[3] - q.y = 0 /\ f = Side(e)
    BY <1>3, <2>1, <2>2 DEF Edged
  <2>3. CASE t[2] - q.x = e[1] /\ t[3] - q.y = e[2] /\ f = Side(Across(e))
    <3>1. Across(e) \in Directions /\ Across(Across(e)) = e
      BY <1>4, <2>1
    <3>2. Place(s, q) = Neighbour(t, Across(e))
      BY <1>4, <2>3, <3>1
    <3>3. QED
      BY <2>3, <3>1, <3>2 DEF Edged
  <2>4. QED
    BY <1>6, <2>2, <2>3 DEF Marks
<1>7. QED
  BY <1>5, <1>6 DEF Edged

(* The table of walls by rotation is that of rotation 0, turned.           *)
LEMMA WallIsTurned ==
  ASSUME NEW q \in Placement, NEW a \in Int, NEW b \in Int, NEW f
  PROVE  <<a, b, f>> \in Wall(q) <=> \E e \in Edges(q) : Marks(e, a, b, f)
<1>1. q.rotation \in {0, 1, 2, 3}
  BY DEF Placement
<1> DEFINE r == q.rotation
<1>2. CASE q.shape = 0
  <2>1. Wall(q) = StraightWall(r) /\ Edges(q) = {Turned(<<-1, 0>>, r)}
    BY <1>2 DEF Wall, Edges
  <2>2. Turned(<<-1, 0>>, r) = CASE r = 0 -> <<-1, 0>> [] r = 1 -> <<0, 1>>
                                 [] r = 2 -> <<1, 0>> [] r = 3 -> <<0, -1>>
    BY <1>1 DEF Turned
  <2>3. QED
    BY <1>1, <2>1, <2>2 DEF StraightWall, Marks, Side, Across
<1>3. CASE q.shape \in {1, 3}
  <2>1. Wall(q) = DiagonalWall(r) /\ Edges(q) = {Turned(<<-1, 1>>, r)}
    BY <1>3 DEF Wall, Edges
  <2>2. Turned(<<-1, 1>>, r) = CASE r = 0 -> <<-1, 1>> [] r = 1 -> <<1, 1>>
                                 [] r = 2 -> <<1, -1>> [] r = 3 -> <<-1, -1>>
    BY <1>1 DEF Turned
  <2>3. QED
    BY <1>1, <2>1, <2>2 DEF DiagonalWall, Marks, Side, Across
<1>4. CASE q.shape = 2
  <2>1. Wall(q) = CornerWall(r) /\ Edges(q) = {Turned(<<-1, 0>>, r), Turned(<<0, 1>>, r)}
    BY <1>4 DEF Wall, Edges
  <2>2. Turned(<<-1, 0>>, r) = CASE r = 0 -> <<-1, 0>> [] r = 1 -> <<0, 1>>
                                 [] r = 2 -> <<1, 0>> [] r = 3 -> <<0, -1>>
    BY <1>1 DEF Turned
  <2>3. Turned(<<0, 1>>, r) = CASE r = 0 -> <<0, 1>> [] r = 1 -> <<1, 0>>
                                [] r = 2 -> <<0, -1>> [] r = 3 -> <<-1, 0>>
    BY <1>1 DEF Turned
  <2>4. QED
    BY <1>1, <2>1, <2>2, <2>3 DEF CornerWall, Marks, Side, Across
<1>5. CASE q.shape \notin 0..3
  BY <1>5 DEF Wall, Edges
<1>6. QED
  BY <1>2, <1>3, <1>4, <1>5

LEMMA CollisionIs ==
  ASSUME NEW d \in LocationType, NEW q \in Placement, NEW a \in Int, NEW b \in Int, NEW f
  PROVE  <<a, b, f>> \in Collision(d, q) <=>
           \/ d.solidType # 0 /\ <<a, b, f>> \in Wall(q)
           \/ /\ d.solidType # 0 /\ q.shape \in 9..21
              /\ <<a, b, f>> \in ObjectStamp(d, q)
           \/ /\ d.solidType = 1 /\ q.shape = 22
              /\ a = 0 /\ b = 0 /\ f = "FLOOR_DECORATION"
<1>1. d.solidType \in 0..2 /\ q.shape \in 0..31
  BY DEF LocationType, Placement
<1>2. q.shape \notin 0..3 => Wall(q) = {}
  BY DEF Wall
<1>3. CASE d.solidType = 0
  BY <1>3 DEF Collision
<1>4. CASE d.solidType # 0 /\ q.shape \in 0..3
  BY <1>4 DEF Collision
<1>5. CASE d.solidType # 0 /\ q.shape \in 9..21
  BY <1>2, <1>5 DEF Collision
<1>6. CASE d.solidType = 1 /\ q.shape = 22
  BY <1>2, <1>6 DEF Collision
<1>7. CASE /\ d.solidType # 0 /\ q.shape \notin 0..3 /\ q.shape \notin 9..21
           /\ ~(d.solidType = 1 /\ q.shape = 22)
  BY <1>2, <1>7 DEF Collision
<1>8. QED
  BY <1>3, <1>4, <1>5, <1>6, <1>7

(* What setClip stamps of a placement is what the placement shows.         *)
LEMMA StampShows ==
  ASSUME NEW s, NEW q \in Placement, NEW t \in Tile, NEW f,
         Def[q.loc] \in LocationType
  PROVE  Shows(s, q, t, f) <=>
           /\ t[1] = EffectivePlane(s, q.plane, q.x, q.y)
           /\ <<t[2] - q.x, t[3] - q.y, f>> \in Stamp(Def[q.loc], q)
<1> DEFINE d == Def[q.loc]
           a == t[2] - q.x
           b == t[3] - q.y
<1>1. q.x \in Int /\ q.y \in Int
  BY Sizes DEF Placement
<1>2. t = <<t[1], t[2], t[3]>> /\ t[2] \in Int /\ t[3] \in Int
  BY TileParts, Sizes
<1>3. Place(s, q)[1] = EffectivePlane(s, q.plane, q.x, q.y)
  BY DEF Place
<1>4. CASE t[1] # Place(s, q)[1]
  <2>1. Place(s, q) # t
    BY <1>4
  <2>2. \A v : Place(s, q) # Neighbour(t, v)
    BY <1>4 DEF Neighbour
  <2>3. ~Covers(s, q, t)
    BY <1>4 DEF Covers
  <2>4. ~Edged(s, q, t, f)
    BY <2>1, <2>2 DEF Edged
  <2>5. QED
    BY <1>3, <1>4, <2>1, <2>3, <2>4 DEF Shows
<1>5. CASE t[1] = Place(s, q)[1]
  <2>1. Place(s, q) = t <=> a = 0 /\ b = 0
    <3>1. Place(s, q) = <<t[1], q.x, q.y>>
      BY <1>5 DEF Place
    <3>2. Place(s, q) = t <=> q.x = t[2] /\ q.y = t[3]
      BY <1>2, <3>1
    <3>3. QED
      BY <1>1, <1>2, <3>2
  <2>2. a \in Int /\ b \in Int
    BY <1>1, <1>2
  <2>3. Edged(s, q, t, f) <=> <<a, b, f>> \in Wall(q)
    BY <1>5, <2>2, EdgedIs, WallIsTurned
  <2>4. Covers(s, q, t) /\ f = "OBJECT" <=> <<a, b, f>> \in ObjectStamp(d, q)
    <3>1. PICK z1 \in Int, z2 \in Int : z1 = Footprint(d, q)[1] /\ z2 = Footprint(d, q)[2]
      BY FootprintType
    <3>2. /\ q.x <= t[2] /\ t[2] < q.x + z1 <=> a \in 0..z1-1
          /\ q.y <= t[3] /\ t[3] < q.y + z2 <=> b \in 0..z2-1
      BY <1>1, <1>2, <3>1
    <3>3. Covers(s, q, t) <=> a \in 0..z1-1 /\ b \in 0..z2-1
      BY <1>5, <3>1, <3>2 DEF Covers
    <3> HIDE DEF a, b
    <3>4. <<a, b, f>> \in ObjectStamp(d, q) <=>
            a \in 0..z1-1 /\ b \in 0..z2-1 /\ f = "OBJECT"
      BY <3>1 DEF ObjectStamp
    <3>5. QED
      BY <3>3, <3>4
  <2> HIDE DEF a, b
  <2>5. <<a, b, f>> \in Stamp(d, q) <=>
          \/ <<a, b, f>> \in Collision(d, q)
          \/ a = 0 /\ b = 0 /\ f \in MarkersOf(d, q)
    BY DEF Stamp
  <2>6. <<a, b, f>> \in Stamp(d, q) <=> Shows(s, q, t, f)
    BY <2>1, <2>2, <2>3, <2>4, <2>5, CollisionIs DEF Shows
  <2>7. QED
    BY <1>3, <1>5, <2>6 DEF a, b
<1>6. QED
  BY <1>4, <1>5

LEMMA StampFlags ==
  ASSUME NEW d \in LocationType, NEW q \in Placement, NEW a, NEW b, NEW f,
         <<a, b, f>> \in Stamp(d, q)
  PROVE  f \in ClipFlag
<1>1. MarkersOf(d, q) \subseteq ClipFlag
  BY MarkersType DEF ClipFlag
<1>2. <<a, b, f>> \in Wall(q) => f \in ClipFlag
  BY DEF Wall, StraightWall, DiagonalWall, CornerWall, ClipFlag, WallFlags
<1>3. <<a, b, f>> \in ObjectStamp(d, q) => f \in ClipFlag
  BY DEF ObjectStamp, ClipFlag
<1>4. <<a, b, f>> \in Collision(d, q) => f \in ClipFlag
  BY <1>2, <1>3 DEF Collision, ClipFlag
<1>5. QED
  BY <1>1, <1>4 DEF Stamp
-----------------------------------------------------------------------------
(* The grid so far: never more than the terrain and the placements applied *)
(* show, and no less unless a definition could not be read.                *)
ShownBy(s, A, t, f) ==
  Ground(s, t, f) \/ \E q \in A : q \in Standing(s) /\ Shows(s, q, t, f)

GridSoFar ==
  Building =>
    \A t \in Tile : \A f :
      /\ f \in clip[t] => ShownBy(square, Applied, t, f)
      /\ ~lost /\ ShownBy(square, Applied, t, f) => f \in clip[t]

PlacedBeforeWater == pc = "water" => todo = <<>>

(* The DefCache never takes an overlay for water that is not, and forgets  *)
(* one that is only after a failed read.                                   *)
WaterKnown ==
  \A o \in Overlays :
    /\ waterOverlays[o] = "water" => o \in WaterOverlays
    /\ waterOverlays[o] = "dry" /\ failures = 0 => o \notin WaterOverlays

LEMMA WaterLearnt ==
  ASSUME Typed, WaterKnown, [Next]_vars
  PROVE  WaterKnown'
<1>1. ASSUME NEW s \in Squares, NEW w \in BOOLEAN, Begin(s, w) \/ Absent(s, w)
      PROVE  WaterKnown'
  <2>1. waterOverlays' = waterOverlays /\ (failures' = 0 => failures = 0)
    BY <1>1, MapAssumption DEF Begin, Absent, defs, Typed
  <2>2. QED
    BY <2>1 DEF WaterKnown
<1>2. CASE DropBelow \/ Apply \/ LocationsDone \/ Finish \/ UNCHANGED vars
  <2>1. waterOverlays' = waterOverlays /\ failures' = failures
    BY <1>2 DEF DropBelow, Apply, LocationsDone, Finish, defs, vars
  <2>2. QED
    BY <2>1 DEF WaterKnown
<1>3. CASE Unread \/ Raise
  <2>1. waterOverlays' = waterOverlays /\ (failures' = 0 => failures = 0)
    BY <1>3, MapAssumption DEF Unread, Raise, defs, Typed
  <2>2. QED
    BY <2>1 DEF WaterKnown
<1>4. ASSUME NEW o \in Overlays, LookUp(o) PROVE WaterKnown'
  <2>1. waterOverlays \in [Overlays -> {"unknown", "water", "dry"}] /\ failures \in Nat
    BY MapAssumption DEF Typed
  <2>2. CASE /\ waterOverlays' = [waterOverlays EXCEPT ![o] =
                                    IF o \in WaterOverlays THEN "water" ELSE "dry"]
             /\ UNCHANGED failures
    BY <2>1, <2>2 DEF WaterKnown
  <2>3. CASE /\ failures' = failures + 1
             /\ waterOverlays' = [waterOverlays EXCEPT ![o] = "dry"]
    BY <2>1, <2>3 DEF WaterKnown
  <2>4. QED
    BY <1>4, <2>2, <2>3 DEF LookUp
<1>5. QED
  BY <1>1, <1>2, <1>3, <1>4 DEF Next

LEMMA WaterIsLast ==
  ASSUME PlacedBeforeWater, [Next]_vars
  PROVE  PlacedBeforeWater'
<1>1. ASSUME NEW s \in Squares, NEW w \in BOOLEAN, Begin(s, w) \/ Absent(s, w)
      PROVE  PlacedBeforeWater'
  BY <1>1 DEF Begin, Absent, PlacedBeforeWater
<1>2. CASE DropBelow \/ Apply \/ Unread
  BY <1>2 DEF DropBelow, Apply, Unread, Placing, PlacedBeforeWater
<1>3. CASE LocationsDone \/ Finish \/ Raise \/ UNCHANGED vars
  BY <1>3 DEF LocationsDone, Finish, Raise, vars, PlacedBeforeWater
<1>4. ASSUME NEW o \in Overlays, LookUp(o) PROVE PlacedBeforeWater'
  BY <1>4 DEF LookUp, PlacedBeforeWater
<1>5. QED
  BY <1>1, <1>2, <1>3, <1>4 DEF Next

(* A step that takes the placement at hand keeps the grid true when what   *)
(* it adds is what that placement shows, or nothing.                       *)
LEMMA GridGrows ==
  ASSUME Typed, RestIsLeft, GridSoFar, Placing, pc' = pc, square' = square,
         todo' = Tail(todo), lost \in BOOLEAN, lost => lost',
         \A t \in Tile : \A f :
           /\ f \in clip'[t] => \/ f \in clip[t]
                                \/ Q \in Standing(square) /\ Shows(square, Q, t, f)
           /\ f \in clip[t] => f \in clip'[t]
           /\ ~lost' /\ Q \in Standing(square) /\ Shows(square, Q, t, f) => f \in clip'[t]
  PROVE  GridSoFar'
<1>1. Applied' = Applied \cup {Q}
  BY TakesOne
<1>2. \A t, f : ShownBy(square', Applied', t, f) <=>
        \/ ShownBy(square, Applied, t, f)
        \/ Q \in Standing(square) /\ Shows(square, Q, t, f)
  BY <1>1 DEF ShownBy
<1>3. \A t \in Tile : \A f :
        /\ f \in clip[t] => ShownBy(square, Applied, t, f)
        /\ ~lost /\ ShownBy(square, Applied, t, f) => f \in clip[t]
  BY DEF GridSoFar, Building, Placing
<1>4. \A t \in Tile : \A f :
        /\ f \in clip'[t] => ShownBy(square', Applied', t, f)
        /\ ~lost' /\ ShownBy(square', Applied', t, f) => f \in clip'[t]
  BY <1>2, <1>3
<1>5. QED
  BY <1>4 DEF GridSoFar

LEMMA StandingIs ==
  ASSUME NEW s, NEW q, \E n \in 1..Len(Placements(s)) : q = Placements(s)[n]
  PROVE  q \in Standing(s) <=>
           q.loc \in DOMAIN Def /\ EffectivePlane(s, q.plane, q.x, q.y) >= 0
BY DEF Standing, Placements

LEMMA NextIsListed ==
  ASSUME Typed, RestIsLeft, Placing
  PROVE  \E n \in 1..Len(Placements(square)) : Q = Placements(square)[n]
<1>1. /\ Present(square) /\ square \in Squares /\ Placed0 >= 0
      /\ \A n \in 1..Len(todo) : todo[n] = Placements(square)[Placed0 + n]
  BY DEF Typed, RestIsLeft, Placing, Building
<1>2. todo \in Seq(Placement) /\ todo # <<>> /\ Len(todo) \in Nat \ {0}
  BY DEF Placing, Typed
<1>3. Q = Placements(square)[Placed0 + 1]
  BY <1>1, <1>2 DEF Q
<1>4. Len(Placements(square)) \in Nat
  BY <1>1, PlacementsType
<1>5. Placed0 + 1 \in 1..Len(Placements(square))
  BY <1>1, <1>2, <1>4 DEF Placed0
<1>6. QED
  BY <1>3, <1>5

LEMMA GridKept ==
  ASSUME Flags, Typed, RestIsLeft, GridSoFar, [Next]_vars
  PROVE  GridSoFar'
<1>1. ASSUME NEW s \in Squares, NEW w \in BOOLEAN, Begin(s, w)
      PROVE  GridSoFar'
  <2>1. /\ square' = s /\ Present(s) /\ clip' = Terrain(s)
        /\ todo' = Placements(s)
    BY <1>1 DEF Begin, Placements
  <2>2. Applied' = {}
    <3>1. Placements(square)' = Placements(s)
      BY <2>1 DEF Placements, Data, ArchiveOf
    <3>2. Placed0' = 0
      BY <2>1, <3>1, PlacementsType DEF Placed0
    <3>3. QED
      BY <3>2 DEF Applied
  <2>3. \A t, f : ShownBy(square', Applied', t, f) <=> Ground(s, t, f)
    BY <2>1, <2>2 DEF ShownBy
  <2>4. \A t \in Tile : \A f : f \in clip'[t] <=> Ground(s, t, f)
    BY <2>1, TerrainIs
  <2>5. \A t \in Tile : \A f :
          /\ f \in clip'[t] => ShownBy(square', Applied', t, f)
          /\ ~lost' /\ ShownBy(square', Applied', t, f) => f \in clip'[t]
    BY <2>3, <2>4
  <2>6. QED
    BY <2>5 DEF GridSoFar
<1>2. ASSUME NEW s \in Squares, NEW w \in BOOLEAN, Absent(s, w)
      PROVE  GridSoFar'
  BY <1>2 DEF Absent, GridSoFar, Building
<1>3. ASSUME Placing
      PROVE  /\ Q \in Placement
             /\ Q \in Standing(square) <=> Q.loc \in DOMAIN Def /\ PlaneOfQ >= 0
  <2>1. Building
    BY <1>3 DEF Placing, Building
  <2>2. Q \in Placement
    BY <1>3, Placed
  <2>3. \E n \in 1..Len(Placements(square)) : Q = Placements(square)[n]
    BY <1>3, NextIsListed
  <2>4. QED
    BY <2>2, <2>3, StandingIs DEF PlaneOfQ
<1>4. CASE DropBelow
  <2>1. Q \notin Standing(square)
    <3>1. Placing /\ PlaneOfQ < 0
      BY <1>4 DEF DropBelow
    <3>2. PlaneOfQ \in Int
      BY <1>3, <3>1, Sizes DEF PlaneOfQ, EffectivePlane, Placement
    <3>3. QED
      BY <1>3, <3>1, <3>2
  <2>2. /\ Placing /\ pc' = pc /\ square' = square /\ todo' = Tail(todo)
        /\ clip' = clip /\ lost' = lost
    BY <1>4 DEF DropBelow, output
  <2>3. QED
    BY <2>1, <2>2, GridGrows DEF Flags
<1>5. CASE Unread
  <2>1. /\ Placing /\ pc' = pc /\ square' = square /\ todo' = Tail(todo)
        /\ clip' = clip /\ lost' = (lost \/ Q.loc \in DOMAIN Def)
    BY <1>5 DEF Unread, output
  <2>2. ~lost' => Q \notin Standing(square)
    BY <1>3, <2>1
  <2>3. QED
    BY <2>1, <2>2, GridGrows DEF Flags
<1>6. CASE Apply
  <2>1. /\ Placing /\ pc' = pc /\ square' = square /\ todo' = Tail(todo)
        /\ clip' = Stamped(PlaneOfQ, Q, Stamp(Def[Q.loc], Q)) /\ lost' = lost
        /\ PlaneOfQ >= 0 /\ Q.loc \in DOMAIN Def
    BY <1>6 DEF Apply
  <2>2. Q \in Placement /\ Def[Q.loc] \in LocationType /\ Q \in Standing(square)
    BY <1>3, <2>1, DefType
  <2>3. ASSUME NEW t \in Tile, NEW f
        PROVE  f \in clip'[t] <=> f \in clip[t] \/ Shows(square, Q, t, f)
    <3> DEFINE S == Stamp(Def[Q.loc], Q)
    <3>1. Shows(square, Q, t, f) <=>
            t[1] = PlaneOfQ /\ <<t[2] - Q.x, t[3] - Q.y, f>> \in S
      BY <2>2, StampShows DEF PlaneOfQ
    <3>2. <<t[2] - Q.x, t[3] - Q.y, f>> \in S => f \in ClipFlag
      BY <2>2, StampFlags
    <3> HIDE DEF S
    <3>3. clip' = Stamped(PlaneOfQ, Q, S)
      BY <2>1 DEF S
    <3>4. QED
      BY <3>1, <3>2, <3>3 DEF Stamped
  <2>4. QED
    BY <2>1, <2>2, <2>3, GridGrows DEF Flags
<1>7. CASE LocationsDone \/ UNCHANGED vars \/ \E o \in Overlays : LookUp(o)
  <2>1. /\ square' = square /\ clip' = clip /\ todo' = todo /\ lost' = lost
        /\ Building' => Building
    BY <1>7 DEF LocationsDone, LookUp, vars, output, Building
  <2>2. Applied' = Applied
    BY <2>1 DEF Applied, Placed0, Placements, Data, ArchiveOf
  <2>3. QED
    BY <2>1, <2>2 DEF GridSoFar
<1>8. CASE Finish \/ Raise
  BY <1>8 DEF Finish, Raise, GridSoFar, Building
<1>9. QED
  BY <1>1, <1>2, <1>4, <1>5, <1>6, <1>7, <1>8 DEF Next

LEMMA AllApplied ==
  ASSUME Typed, RestIsLeft, pc = "water", PlacedBeforeWater, NEW t, NEW f
  PROVE  ShownBy(square, Applied, t, f) <=> f \in Scenery(square, t)
<1>1. Present(square) /\ square \in Squares /\ todo = <<>> /\ Building
  BY DEF Typed, RestIsLeft, PlacedBeforeWater, Building
<1>2. Placed0 = Len(Placements(square))
  BY <1>1, PlacementsType DEF Placed0
<1>3. Standing(square) \subseteq Applied
  BY <1>2 DEF Standing, Applied, Placements
<1>4. QED
  BY <1>3, SceneryIs DEF ShownBy

LEMMA MaskIsPlanes ==
  ASSUME NEW c
  PROVE  PlanesOf(c) = {t[1] : t \in {t \in Tile : c[t] # {}}}
BY TileParts DEF PlanesOf

LEMMA ExactKept ==
  ASSUME Flags, Typed, RestIsLeft, PlacedBeforeWater, WaterKnown, GridSoFar, Exact,
         [Next]_vars
  PROVE  Exact'
<1>1. ASSUME NEW s \in Squares, NEW w \in BOOLEAN, Begin(s, w) \/ Absent(s, w)
      PROVE  Exact'
  <2>1. SUFFICES ASSUME pc' = "done" PROVE Exact'
    BY DEF Exact
  <2>2. /\ clip' = [t \in Tile |-> {}] /\ planeMask' = {} /\ lost' = TRUE
        /\ failures' = failures + 1
    BY <1>1, <2>1 DEF Begin, Absent
  <2>3. failures' # 0
    BY <2>2, MapAssumption DEF Typed
  <2>4. \A t \in Tile : clip'[t] = {}
    BY <2>2
  <2>5. planeMask' = {t[1] : t \in {t \in Tile : clip'[t] # {}}}
    BY <2>2, <2>4
  <2>6. QED
    BY <2>2, <2>3, <2>4, <2>5 DEF Exact
<1>2. CASE Finish
  <2>1. /\ pc = "water" /\ square' = square /\ lost' = lost /\ failures' = failures
        /\ \A o \in InUse : waterOverlays[o] # "unknown"
        /\ clip' = [t \in Tile |-> clip[t] \cup IF WaterAt(t) THEN {"WATER"} ELSE {}]
        /\ planeMask' = PlanesOf(clip')
    BY <1>2 DEF Finish, defs
  <2>2. \A t \in Tile : \A f :
          /\ f \in clip[t] => f \in Scenery(square, t)
          /\ ~lost /\ f \in Scenery(square, t) => f \in clip[t]
    BY <2>1, AllApplied DEF GridSoFar, Building
  <2>3. ASSUME NEW t \in Tile, WaterAt(t)
        PROVE  "WATER" \in Water(square, t)
    BY <2>3 DEF WaterAt, WaterKnown, Water
  <2>4. ASSUME NEW t \in Tile, failures = 0, Data(square).overlay[t] \in WaterOverlays
        PROVE  WaterAt(t)
    <3>1. Data(square).overlay[t] \in Overlays
      BY <2>4, MapAssumption
    <3>2. Data(square).overlay[t] \in InUse
      BY <3>1 DEF InUse
    <3>3. waterOverlays[Data(square).overlay[t]] \in {"unknown", "water", "dry"}
      BY <3>1 DEF Typed
    <3>4. waterOverlays[Data(square).overlay[t]] = "water"
      BY <2>1, <2>4, <3>1, <3>2, <3>3 DEF WaterKnown
    <3>5. QED
      BY <3>1, <3>4 DEF WaterAt
  <2>5. \A t \in Tile : Scenery(square, t)' = Scenery(square, t)
                        /\ Water(square, t)' = Water(square, t)
    BY <2>1
  <2>6. ASSUME NEW t \in Tile
        PROVE  /\ clip'[t] \subseteq Scenery(square, t) \cup Water(square, t)
               /\ ~lost => Scenery(square, t) \subseteq clip'[t]
               /\ failures = 0 => Water(square, t) \subseteq clip'[t]
    <3>1. clip'[t] = clip[t] \cup IF WaterAt(t) THEN {"WATER"} ELSE {}
      BY <2>1
    <3>2. clip'[t] \subseteq Scenery(square, t) \cup Water(square, t)
      BY <2>2, <2>3, <3>1
    <3>3. ~lost => Scenery(square, t) \subseteq clip'[t]
      BY <2>2, <3>1
    <3>4. failures = 0 => Water(square, t) \subseteq clip'[t]
      BY <2>4, <3>1 DEF Water
    <3>5. QED
      BY <3>2, <3>3, <3>4
  <2>7. planeMask' = {t[1] : t \in {t \in Tile : clip'[t] # {}}}
    BY <2>1, MaskIsPlanes
  <2>8. QED
    BY <2>1, <2>5, <2>6, <2>7 DEF Exact
<1>3. CASE DropBelow \/ Apply \/ Unread \/ LocationsDone \/ Raise
  BY <1>3 DEF DropBelow, Apply, Unread, LocationsDone, Raise, Placing, Exact
<1>4. ASSUME NEW o \in Overlays, LookUp(o) PROVE Exact'
  BY <1>4 DEF LookUp, Exact
<1>5. CASE UNCHANGED vars
  BY <1>5 DEF vars, output, Exact
<1>6. QED
  BY <1>1, <1>2, <1>3, <1>4, <1>5 DEF Next

(* Whatever was built before with the same DefCache, and whichever reads   *)
(* failed or threw, a finished grid never shows more than the square's     *)
(* terrain, placements and water; it shows all of the terrain and the      *)
(* placements if no read of this call failed, all of the water if none     *)
(* ever did; and the plane mask is that of the grid.                       *)
THEOREM GridIsExact == Spec => []Exact
<1> DEFINE IInv == /\ Flags /\ Typed /\ RestIsLeft /\ PlacedBeforeWater
                   /\ WaterKnown /\ GridSoFar /\ Exact
<1>1. Init => IInv
  <2>1. Init => PlacedBeforeWater /\ GridSoFar /\ Exact
    BY DEF Init, PlacedBeforeWater, GridSoFar, Building, Exact
  <2>2. Init => WaterKnown
    BY DEF Init, WaterKnown
  <2>3. QED
    BY <2>1, <2>2, Initially, RestInitially
<1>2. IInv /\ [Next]_vars => IInv'
  BY FlagsKept, TypedKept, RestKept, WaterIsLast, WaterLearnt, GridKept, ExactKept
<1>3. IInv => Exact
  OBVIOUS
<1> HIDE DEF IInv
<1>4. QED
  BY <1>1, <1>2, <1>3, PTL DEF Spec
=============================================================================

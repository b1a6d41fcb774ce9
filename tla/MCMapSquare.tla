----------------------------- MODULE MCMapSquare -----------------------------
(***************************************************************************)
(* A 3x3 square of two planes for every wall or object shape and rotation: *)
(* one placement in the middle, one on the upper plane over it, which some *)
(* squares have a bridge under, and one in a corner, where reflections and *)
(* footprints leave the square.                                            *)
(***************************************************************************)
EXTENDS MapSquare

Type(options, cursors, varbit, interactive, solidType, sizeX, sizeY) ==
  [options |-> [i \in Slots |-> IF i \in DOMAIN options THEN options[i] ELSE {}],
   cursors |-> cursors, varbit |-> varbit, interactive |-> interactive,
   solidType |-> solidType, sizeX |-> sizeX, sizeY |-> sizeY]

(* The sixth, "ghost", has no definition. *)
mcLocs == {"door", "stairs", "fence", "log", "curtain", "ghost"}

mcDef ==
  [l \in mcLocs \ {"ghost"} |->
    CASE l = "door"    -> Type([i \in {1} |-> {"other"}], {}, FALSE, TRUE, 2, 2, 0)
      [] l = "stairs"  -> Type([i \in {1, 3} |-> IF i = 1 THEN {"climb", "over"}
                                                 ELSE {"climb", "down"}],
                               {}, FALSE, FALSE, 1, 1, 2)
      [] l = "fence"   -> Type([i \in {0, 2} |-> IF i = 0 THEN {"other"}
                                                 ELSE {"climb"}],
                               {2}, FALSE, TRUE, 0, 1, 1)
      [] l = "log"     -> Type([i \in {2, 4} |-> IF i = 2 THEN {"other"}
                                                 ELSE {"cross", "across"}],
                               {}, FALSE, FALSE, 2, 0, 3)
      [] l = "curtain" -> Type(<<>>, {}, TRUE, TRUE, 1, 0, 0)]

Shapes == <<0, 1, 2, 3, 9, 10, 22>>
Order == <<"door", "stairs", "curtain", "fence", "log", "ghost">>

Place(l, p, x, y, k, r) ==
  [loc |-> Order[(l % 6) + 1], plane |-> p, x |-> x, y |-> y,
   shape |-> Shapes[(k % 7) + 1], rotation |-> r % 4]

Corner(r) == IF r % 2 = 0 THEN SIZE - 1 ELSE 0

SquareOf(k, r) ==
  [blocked |-> {<<k % 2, 1, 1>>, <<1, 0, r % 3>>},
   bridge |-> IF (k + r) % 3 = 0 THEN {<<1, 1>>} ELSE {},
   overlay |-> [t \in Tile |-> IF t[2] = r % 3 /\ t[1] = k % 2 THEN "river"
                               ELSE IF t = <<1, 1, 1>> THEN "road" ELSE "none"],
   placements |-> << Place(k + r, 0, 1, 1, k, r),
                     Place(3 * k + 4, 1, 1, 1, k + 1, r + 1),
                     Place(3 * k + r + 3, k % 2, Corner(r), Corner(k), k, r + 2) >>]

mcPresent == {0, 2} \X (0..6)
mcSquares == mcPresent \cup {<<2, 7>>}

mcWorld ==
  [a \in {s[1] + 128 * s[2] : s \in mcPresent} |-> SquareOf(a \div 128, a % 128)]
=============================================================================

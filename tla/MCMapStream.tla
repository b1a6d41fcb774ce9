----------------------------- MODULE MCMapStream -----------------------------
(***************************************************************************)
(* Files of a map square, made by a writer and cut off at every byte, on a   *)
(* grid of two by two columns.                                               *)
(***************************************************************************)
EXTENDS MapFiles, FiniteSets, SequencesExt

\* A function on 1 .. n as the tuple it is, so that TLC evaluates its elements once.
Tuple(f) == <<>> \o f

RECURSIVE Concat(_)
Concat(seqs) == IF seqs = <<>> THEN <<>> ELSE Head(seqs) \o Concat(Tail(seqs))

Smart(n) == IF n < 128 THEN <<n>> ELSE <<128 + n \div 256, n % 256>>
LongSmart(n) == <<128 + n \div 256, n % 256>>

-----------------------------------------------------------------------------
(* Placements: objects, each the difference to the id before it and where it   *)
(* stands.                                                                     *)

At2(step, packed, custom) == [step |-> step, packed |-> packed, custom |-> custom]
Plain(step, packed) == At2(step, packed, <<>>)
Custom(step, packed, flags, length) == At2(step, packed, <<flags>> \o [i \in 1 .. length |-> 200 + i])

\* The steps go through every location of the grid and beyond its last plane.
Objects ==
  << <<Smart(6), 6, <<Plain(Smart(1), 0), Plain(LongSmart(4), 127), Plain(Smart(13), 41),
                      Plain(Smart(3), 2), Plain(LongSmart(300), 3)>> >>,
     <<LongSmart(Sentinel) \o LongSmart(Sentinel) \o Smart(300), 2 * Sentinel + 300,
        << Custom(Smart(2), 129, 1, 8), Custom(Smart(1), 130, 14, 6), Custom(Smart(6), 255, 240, 2),
           Custom(Smart(2), 128, 224, 6), Custom(Smart(3), 131, 0, 0) >> >>,
     <<LongSmart(Sentinel) \o Smart(0), Sentinel, <<>> >>,
     <<LongSmart(200), 200, <<Custom(LongSmart(16), 133, 255, 16), Plain(Smart(1), 4)>> >> >>

StepOf(p) == IF Len(p.step) = 1 THEN p.step[1] ELSE 256 * (p.step[1] - 128) + p.step[2]

\* What is written of some objects, and what is in it: the pieces, and each placement
\* with the place its last byte before the customization has in the file.
PieceAt(kind, at, base, id, l, kept) ==
  [kind |-> kind, at |-> at, base |-> base, id |-> id, location |-> l, kept |-> kept]

RECURSIVE WritePlacements(_, _, _, _, _), WriteObjects(_, _, _, _)
WritePlacements(id, ps, l, from, kept) ==
  IF ps = <<>>
  THEN [bytes |-> <<0>>, there |-> <<>>, pieces |-> <<PieceAt("close", from, id, id, l, kept)>>]
  ELSE LET p == Head(ps)
           at == l + StepOf(p) - 1
           own == p.step \o <<p.packed>> \o p.custom
           entry == [end |-> from + Len(p.step) + 1,
                     what |-> [objectId |-> id, plane |-> at \div 4, localX |-> (at \div 2) % 2,
                               localY |-> at % 2, shape |-> (p.packed % 128) \div 4,
                               rotation |-> p.packed % 4]]
           there == IF at < 16 THEN <<entry>> ELSE <<>>
           rest == WritePlacements(id, Tail(ps), at, from + Len(own), kept + Len(there))
       IN  [bytes |-> own \o rest.bytes, there |-> there \o rest.there,
            pieces |-> <<PieceAt("placement", from, id, id, l, kept)>> \o rest.pieces]

\* The parts of the difference to an id: sentinels, and what is left.
DifferencePieces(o, id, from, kept) ==
  LET sentinels == o[2] \div Sentinel
  IN  [i \in 1 .. sentinels + 1 |->
         PieceAt(IF i <= sentinels THEN "more" ELSE "object", from + 2 * (i - 1), id,
                 id + (i - 1) * Sentinel, 0, kept)]

WriteObjects(os, id, from, kept) ==
  IF os = <<>>
  THEN [bytes |-> <<0>>, there |-> <<>>, pieces |-> <<PieceAt("last", from, id, id, 0, kept)>>]
  ELSE LET o == Head(os)
           first == from + Len(o[1])
           ps == WritePlacements(id + o[2], o[3], 0, first, kept)
           rest == WriteObjects(Tail(os), id + o[2], first + Len(ps.bytes), kept + Len(ps.there))
       IN  [bytes |-> o[1] \o ps.bytes \o rest.bytes, there |-> ps.there \o rest.there,
            pieces |-> DifferencePieces(o, id, from, kept) \o ps.pieces \o rest.pieces]

PlacementSources ==
  LET Of(os) == LET w == WriteObjects(os, -1, 0, 0) IN
                [file |-> "locations", bytes |-> w.bytes, pieces |-> w.pieces, there |-> w.there]
  IN  <<Of(Objects), Of(Reverse(Objects)), Of(<<Objects[2], Objects[4]>>)>>

-----------------------------------------------------------------------------
(* Terrain: the flags of the tiles go through all sixteen.                     *)

TileOf(t, v) ==
  LET flags == (5 * t + v) % 16
      overlay == IF (t \div 2) % 2 = 0 THEN LongSmart((t + v) % 3) ELSE Smart(100 + t)
      Has(k) == FlagBit(flags, 2 ^ k) = 1
  IN  [bytes |-> <<flags + 16 * (v % 3)>> \o (IF Has(0) THEN <<9>> \o overlay ELSE <<>>)
                 \o (IF Has(1) THEN <<t % 4>> ELSE <<>>)
                 \o (IF Has(2) THEN (IF t % 3 = 0 THEN LongSmart(700) ELSE Smart(3)) ELSE <<>>)
                 \o (IF Has(3) THEN <<8, 8>> ELSE <<>>),
       overlay |-> IF ~Has(0) THEN 0 ELSE IF Len(overlay) = 1 THEN 100 + t ELSE (t + v) % 3,
       rule |-> IF Has(1) THEN t % 4 ELSE 0]

RECURSIVE Starts(_, _)
Starts(pieces, from) ==
  IF pieces = <<>> THEN <<>> ELSE <<from>> \o Starts(Tail(pieces), from + Len(Head(pieces).bytes))

TerrainSource(v) ==
  LET written == Tuple([t \in 1 .. 16 |-> TileOf(t - 1, v)])
      starts == Starts(written, HeaderSize)
  IN  [file |-> "terrain",
       bytes |-> [i \in 1 .. HeaderSize |-> i] \o Concat(Tuple([t \in 1 .. 16 |-> written[t].bytes])),
       tiles |-> [t \in 0 .. 15 |-> [at |-> starts[t + 1], overlay |-> written[t + 1].overlay,
                                     rule |-> written[t + 1].rule]]]

TerrainSources == <<TerrainSource(0), TerrainSource(1), TerrainSource(7), TerrainSource(14)>>

mcSources == PlacementSources \o TerrainSources

mcStreams ==
  LET sources == mcSources IN
  UNION {{[file |-> sources[n].file, id |-> n, bytes |-> SubSeq(sources[n].bytes, 1, cut)] :
            cut \in 0 .. Len(sources[n].bytes)} : n \in DOMAIN sources}

=============================================================================

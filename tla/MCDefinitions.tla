---------------------------- MODULE MCDefinitions ----------------------------
(***************************************************************************)
(* Definitions to decode, made by a writer that is the readers' opposite:    *)
(* every opcode of every type with three choices of operands and three of the  *)
(* components, cut off at every byte, and components of every type, whole and   *)
(* with counts that lie.                                                        *)
(***************************************************************************)
EXTENDS Definitions, Functions, SequencesExt

\* How many choices of operands each opcode is written with.
Writings == 3

\* A written value: its bytes, what a reader must make of them, whether a reader
\* keeps it, and how many bytes after it must be there for a reader to start.
Token(bytes, value) == [bytes |-> bytes, value |-> value, kept |-> TRUE, rest |-> 0]
Unkept(bytes) == [bytes |-> bytes, value |-> <<>>, kept |-> FALSE, rest |-> 0]

Choose3(v, a, b, c) == <<a, b, c>>[(v % 3) + 1]

Short(n) == <<n \div 256, n % 256>>
Number3(v, a, b, c) == Choose3(v, Token(Short(a), <<a>>), Token(Short(b), <<b>>), Token(Short(c), <<c>>))

\* The choices for the leaves: a small value, one of another width, an extreme one.
LeafToken(s, v) ==
  CASE s.kind = "u1" -> Choose3(v, Token(<<0>>, <<0>>), Token(<<7>>, <<7>>), Token(<<255>>, <<255>>))
    [] s.kind = "u1not" -> Choose3(v, Token(<<0>>, <<255>>), Token(<<7>>, <<248>>), Token(<<255>>, <<0>>))
    [] s.kind = "is1" -> Choose3(v, Token(<<0>>, <<0>>), Token(<<1>>, <<1>>), Token(<<2>>, <<0>>))
    [] s.kind = "i1" -> Choose3(v, Token(<<3>>, <<3 * s.n>>), Token(<<127>>, <<127 * s.n>>),
                                   Token(<<128>>, <<-128 * s.n>>))
    [] s.kind = "char" -> Choose3(v, Token(<<105>>, <<105>>), Token(<<128>>, <<8364>>),
                                     Token(<<129>>, <<129>>))
    [] s.kind = "u2" -> Number3(v, 1, 300, 65535)
    [] s.kind = "u2id" -> Choose3(v, Token(Short(1), <<1>>), Token(Short(300), <<300>>),
                                     Token(Short(65535), <<-1>>))
    [] s.kind = "i2" -> Choose3(v, Token(Short(1), <<1>>), Token(Short(32767), <<32767>>),
                                   Token(Short(32768), <<-32768>>))
    [] s.kind = "maxLength" -> Choose3(v, Token(Short(0), <<255>>), Token(Short(300), <<300>>),
                                          Token(Short(2500), <<2500>>))
    [] s.kind = "u3" -> Choose3(v, Token(<<0, 0, 1>>, <<1>>), Token(<<0, 1, 2>>, <<258>>),
                                   Token(<<255, 255, 255>>, <<16777215>>))
    [] s.kind = "i4" -> Choose3(v, Token(<<0, 0, 1, 2>>, <<258>>), Token(<<255, 255, 255, 255>>, <<-1>>),
                                   Token(<<127, 255, 255, 255>>, <<2147483647>>))
    [] s.kind = "i8" -> Choose3(v, Token(<<0, 0, 0, 0, 0, 0, 1, 2>>, <<0, 258>>),
                                   Token(<<255, 255, 255, 255, 255, 255, 255, 254>>, <<-1, -2>>),
                                   Token(<<0, 0, 0, 1, 0, 0, 0, 0>>, <<1, 0>>))
    [] s.kind = "smart" -> Choose3(v, Token(<<5>>, <<5>>), Token(<<128, 200>>, <<200>>),
                                      Token(<<255, 255>>, <<32767>>))
    [] s.kind = "smartByte" -> Choose3(v, Token(<<5>>, <<5>>), Token(<<128, 200>>, <<-56>>),
                                          Token(<<255, 255>>, <<-1>>))
    [] s.kind = "smartInt" -> Choose3(v, Token(<<0, 5>>, <<5>>), Token(<<128, 1, 0, 0>>, <<65536>>),
                                         Token(<<127, 255>>, <<32767>>))
    [] s.kind = "smartId" -> Choose3(v, Token(<<0, 5>>, <<5>>), Token(<<128, 0, 255, 255>>, <<-1>>),
                                        Token(<<127, 255>>, <<32767>>))
    [] s.kind = "bigSmart" -> Choose3(v, Token(<<0, 5>>, <<5>>), Token(<<128, 0, 127, 255>>, <<32767>>),
                                         Token(<<127, 255>>, <<-1>>))
    [] s.kind = "varInt" -> Choose3(v, Token(<<5>>, <<5>>), Token(<<128, 1>>, <<128>>),
                                       Token(<<255, 255, 255, 255, 15>>, <<-1>>))
    [] s.kind = "string" -> Choose3(v, Token(<<65, 0>>, <<65>>), Token(<<0>>, <<>>),
                                       Token(<<66, 128, 129, 160, 0>>, <<66, 8364, 65533, 160>>))
    [] s.kind = "coordFine" -> Token([i \in 1 .. 13 |-> i + v], <<0>>)
    [] OTHER -> Unkept([i \in 1 .. s.n |-> 9])

CountToken(s, v, n) ==
  Unkept(CASE s.count = "u1" -> <<n>>
           [] s.count = "u2" -> <<0, n>>
           [] OTHER -> IF v % 3 = 1 THEN <<n>> ELSE <<128, n>>)

RECURSIVE Written(_, _), Times(_, _, _)

\* A sequence of shapes, each with a choice of its own; a body, n times.
Written(shapes, v) ==
  IF shapes = <<>> THEN <<>>
  ELSE LET s == Head(shapes)
           n == v % 3
           rest == Written(Tail(shapes), v + 1)
       IN
       (CASE s.kind = "vector" ->
               <<CountToken(s, v, n)>> \o Times(s.body, n + s.n, v) \o Written(s.mid, v)
               \o Times(s.extra, n, v)
          [] s.kind = "param" ->
               <<Unkept(<<n>>)>> \o Written(<<U3, IF n = 1 THEN String ELSE I4>>, v)
          [] s.kind = "icons" ->
               <<Unkept(<<<<0, 5, 128>>[n + 1]>>)>> \o Times(<<SmartInt, Smart>>, <<0, 2, 1>>[n + 1], v)
          [] s.kind = "sounds" -> <<Unkept(<<n>>)>> \o (IF n > 0 THEN Written(<<Skip(2 * n + 1)>>, v) ELSE <<>>)
          [] s.kind \in {"clamped"} ->
               <<Unkept(<<0, n>>)>> \o Times(s.body, n, v) \o Written(s.mid, v + 1) \o Times(s.extra, n, v)
          [] s.kind = "labelsAndIds" ->
               <<Unkept(<<0, n>>)>> \o Times(<<String>>, n, v)
               \o (IF v % 2 = 0 THEN <<Unkept(<<0, n>>)>> \o Times(<<I4>>, n, v) ELSE <<Unkept(<<1, n>>)>>)
          [] s.kind = "labelMap" ->
               <<Unkept(<<0, n>>)>> \o Times(<<String>>, n, v) \o <<Unkept(<<0, n>>)>> \o Times(<<I4>>, n, v)
          [] s.kind = "countUpto" ->
               <<Unkept(IF s.count = "u1" THEN <<n>> ELSE <<0, n>>)>>
               \o [i \in 1 .. n * Len(s.body) |->       \* a row is read whole or not at all
                     [Times(s.body, n, v)[i] EXCEPT !.rest = 4 * (i % Len(s.body))]]
          [] s.kind = "modelFlags" ->
               LET flags == <<13, 10, 4>>[n + 1] IN
               <<Token(<<flags>>, <<flags>>)>>
               \o Times(<<U2>>, <<6, 7, 0>>[n + 1], v) \o Written(<<BigSmart>>, v)
               \o Times(<<U2>>, <<2, 1, 1>>[n + 1], v)
          [] s.kind = "widthMode" ->
               LET w == <<1, 4, 0>>[n + 1]
                   h == <<4, 4, 3>>[n + 1]
               IN  <<Token(<<w>>, <<w>>), Token(<<h>>, <<h>>)>>
                   \o Written(IF 4 \in {w, h} THEN <<U1, U1, U2, U2>> ELSE <<U1, U1>>, v)
          [] s.kind = "eventMask" ->
               LET mask == <<0, 2048, 131072>>[n + 1]
                   high == <<mask \div 65536, (mask \div 256) % 256, mask % 256>>
                   sign == IF s.count = "i4" THEN <<0>> ELSE <<>>
                   option(k) == <<Token(<<16 * k + 1>>, <<16 * k + 1>>)>> \o Written(<<U1, U1, U1>>, v)
               IN  <<Token(sign \o high, <<mask>>)>>
                   \o (IF n >= 1 THEN option(1) ELSE <<>>) \o (IF n = 2 THEN option(2) ELSE <<>>)
                   \o <<Token(<<0>>, <<0>>)>> \o Written(<<U1, U1, U1>>, v)
                   \o (IF mask # 0 THEN Written(<<Id, U2, U2>>, v) ELSE <<>>)
          [] s.kind = "ifAny" -> Written(s.body, v)
          [] OTHER -> <<LeafToken(s, v)>>) \o rest

Times(body, n, v) == IF n <= 0 THEN <<>> ELSE Written(body, v) \o Times(body, n - 1, v + 1)

RECURSIVE Bytes(_), Concat(_)

Bytes(tokens) == IF tokens = <<>> THEN <<>> ELSE Head(tokens).bytes \o Bytes(Tail(tokens))
Concat(seqs) == IF seqs = <<>> THEN <<>> ELSE Head(seqs) \o Concat(Tail(seqs))

\* A function on 1 .. n, as the tuple it is: TLC evaluates the elements of a tuple
\* once, those of a function at every application.
Tuple(f) == <<>> \o f

KeptOf(tokens) == SelectSeq(tokens, LAMBDA t : t.kept)
Values(tokens) == LET k == KeptOf(tokens) IN Tuple([i \in DOMAIN k |-> k[i].value])

\* Where each of a sequence of pieces of bytes ends.
RECURSIVE Ends(_, _)
Ends(pieces, from) ==
  IF pieces = <<>> THEN <<>>
  ELSE <<from + Len(Head(pieces))>> \o Ends(Tail(pieces), from + Len(Head(pieces)))

-----------------------------------------------------------------------------
(* Definitions: opcodes, tables, components.  A source is a whole definition and   *)
(* what must become of it; an input is a source, and what is there of it.          *)

NoSource == [type |-> "", known |-> TRUE, whole |-> <<>>, items |-> <<>>, rows |-> <<>>,
             ends |-> <<>>, values |-> <<>>]

ItemOf(entry, o, v) ==
  LET tokens == Written(entry.reads, v) IN
  [entry |-> [entry EXCEPT !.reads = <<>>], bytes |-> <<o>> \o Bytes(tokens), values |-> Values(tokens)]

\* (The opcodes of a type, Format[type], are `format` here and below.)
OpcodesOf(format) == SelectSeq(Tuple([i \in 1 .. 256 |-> i - 1]), LAMBDA o : o \in DOMAIN format)

\* An opcode that writes the same field, or the opcode again where there is none.
Partner(format, o) ==
  LET e == format[o]
      same == {p \in DOMAIN format \ {o} : format[p].field = e.field /\ e.field # ""}
  IN  IF same = {} THEN o ELSE CHOOSE p \in same : \A q \in same : p <= q

\* Two opcodes, and the bytes of none that the decoder knows between them.
OpcodeSource(type, format, o, partner, v, between) ==
  LET first  == ItemOf(format[o], o, v)
      second == ItemOf(format[partner], partner, v + 1)
  IN  [NoSource EXCEPT !.type = type, !.known = between = <<>>,
                       !.whole = first.bytes \o between \o second.bytes \o <<0>>,
                       !.items = <<first, second>>,
                       !.ends = Ends(<<first.bytes, second.bytes>>, 0)]

OpcodeSources(type, format, ops) ==
  Tuple([n \in 1 .. Writings * Len(ops) |->
           LET o == ops[((n - 1) \div Writings) + 1]
           IN  OpcodeSource(type, format, o, Partner(format, o), n % Writings, <<>>)])

\* The rows of a table: a row is its number, the types of its columns, its cells.
\* A column is its type and how its cells are written.
IntColumn == <<0, I4>>
OtherColumn == <<17, I4>>
StringColumn == <<36, String>>
LongColumn == <<35, I8>>
FineColumn == <<50, Leaf("coordFine")>>

RowTokens(number, columns, length, v) ==
  LET TypeToken(t) == IF t % 2 = 0 THEN Token(<<128, t>>, <<t>>) ELSE Token(<<t>>, <<t>>)
  IN  <<Unkept(<<number>>), Token(<<Len(columns)>>, <<Len(columns)>>)>>
      \o Tuple([c \in DOMAIN columns |-> TypeToken(columns[c][1])])
      \o <<Unkept(IF v % 2 = 0 THEN <<length>> ELSE <<128, length>>)>>
      \o Times(Tuple([c \in DOMAIN columns |-> columns[c][2]]), length, v)

RowOf(number, columns, length, v) ==
  LET tokens == RowTokens(number, columns, length, v)
  IN  [number |-> number, bytes |-> Bytes(tokens), values |-> Values(tokens)]

TableSource(v) ==
  LET rows == << RowOf(0, <<IntColumn, StringColumn>>, 2, v),
                 RowOf(5, <<LongColumn, IntColumn, FineColumn, IntColumn>>, 1, v + 1),
                 RowOf(0, <<OtherColumn, IntColumn, OtherColumn>>, v, v) >>
      head == <<4, 129, 2, 3, 1>>
      bytes == Tuple([i \in 1 .. 3 |-> rows[i].bytes])
  IN  [NoSource EXCEPT !.type = "DbRow", !.whole = head \o Concat(bytes) \o <<255, 0>>,
                       !.rows = rows, !.ends = Ends(bytes, Len(head))]

\* Numbers above 255 are subtypes of component type 3.
ComponentKinds == Tuple([i \in 1 .. 30 |-> i - 1]) \o <<255, 1337, 1338, 1400, 1401, 1403, 1405>>

ComponentTokens(o, v) ==
  LET ct      == IF o <= 255 THEN o ELSE 3
      subtype == IF o <= 255 THEN 0 ELSE o
  IN  <<Token(<<ct>>, <<ct>>)>>
      \o (IF v % 2 = 0 THEN <<Token(<<129>>, <<129>>), Token(<<67, 0>>, <<67>>)>> ELSE <<Token(<<1>>, <<1>>)>>)
      \o <<Token(Short(subtype), <<subtype>>)>> \o Written(AfterSubtype(ct, subtype), v)

\* Of a component that is made of `tokens`, the first `sound` are to be found again.
ComponentOf(tokens, sound) ==
  LET ends == Ends(Tuple([i \in 1 .. sound |-> tokens[i].bytes]), 0)
      kept == SelectSeq(Tuple([i \in 1 .. sound |-> <<ends[i] + tokens[i].rest, tokens[i].kept>>]), LAMBDA e : e[2])
  IN  [NoSource EXCEPT !.type = "Component", !.whole = Bytes(tokens),
                       !.values = Values(SubSeq(tokens, 1, sound)),
                       !.ends = Tuple([i \in DOMAIN kept |-> kept[i][1]])]

ComponentSource(o, v) ==
  LET tokens == Tuple(ComponentTokens(o, v)) IN ComponentOf(tokens, Len(tokens))

\* One for each count of two bytes, which says 4095.
BogusSources(o, v) ==
  LET tokens == Tuple(ComponentTokens(o, v))
      IsCount(t) == ~t.kept /\ Len(t.bytes) = 2
      counts == SelectSeq(Tuple([i \in DOMAIN tokens |-> i]), LAMBDA i : IsCount(tokens[i]))
  IN  Tuple([k \in DOMAIN counts |->
               ComponentOf([tokens EXCEPT ![counts[k]].bytes = <<15, 255>>], counts[k] - 1)])

ComponentSources ==
  Tuple([n \in 1 .. Writings * Len(ComponentKinds) |->
           ComponentSource(ComponentKinds[((n - 1) \div Writings) + 1], n % Writings)])
  \o Concat(Tuple([i \in DOMAIN ComponentKinds |-> BogusSources(ComponentKinds[i], 1)]))

TypeNames == <<"Varbit", "Param", "Inventory", "Enum", "Struct", "Sequence", "Quest", "Underlay",
               "Overlay", "WorldMapElement", "Npc", "Location", "Item">>

\* Opcodes that no decoder knows in the middle.
UnknownAmid == << <<"Npc", 106, 0>>, <<"Item", 40, 1>>, <<"Enum", 5, 0>>, <<"Quest", 18, 1>> >>

\* The first ones are cut at every byte, the components are too long for that.
CutSources(formats) ==
  Concat(Tuple([t \in DOMAIN TypeNames |->
                  OpcodeSources(TypeNames[t], formats[TypeNames[t]], OpcodesOf(formats[TypeNames[t]]))]))
  \o Tuple([v \in 1 .. 3 |-> TableSource(v - 1)])
  \o Tuple([i \in DOMAIN UnknownAmid |->
              LET u == UnknownAmid[i]
              IN  OpcodeSource(u[1], formats[u[1]], u[2], Partner(formats[u[1]], u[2]), u[3], <<230, 118>>)])
  \o Tuple([i \in 1 .. 3 |-> ComponentSource(<<6, 20, 26>>[i], <<1, 2, 1>>[i])])

SourcesCut == CutSources(Format)
Sources == SourcesCut \o ComponentSources

InputsOf(sources, cutOnes) ==
  LET Cuts(n) == IF n <= cutOnes THEN 0 .. Len(sources[n].whole) ELSE {Len(sources[n].whole)}
  IN  UNION {{[type |-> sources[n].type, written |-> sources[n], bytes |-> SubSeq(sources[n].whole, 1, cut)] :
                cut \in Cuts(n)} : n \in DOMAIN sources}

mcInputs == InputsOf(Sources, Len(SourcesCut))

-----------------------------------------------------------------------------
(* What a decoded definition must be.                                         *)

\* Of a definition: what was written of it, and what is there of that.
source == input.written
WholeItem(of, i) == of.ends[i] <= Len(buf)
Begun(of, i) == i = 1 \/ of.ends[i - 1] < Len(buf)

Pairs(s) == {<<s[2 * i - 1][1], i>> : i \in 1 .. Len(s) \div 2}

\* The fields an item gives a value, and which.  (What it appends is Appended's.)
Effects(item) ==
  LET e == item.entry
      s == item.values
  IN  CASE e.mode = "set" -> {[key |-> <<e.field, e.slot>>, value |-> s]}
        [] e.mode = "becomes" -> {[key |-> <<e.field, 0>>, value |-> <<<<e.slot>>>>]}
        [] e.mode = "each" ->
             {[key |-> <<e.fields[i], 0>>, value |-> <<s[i]>>] : i \in DOMAIN e.fields}
        [] e.mode = "merge" ->
             {[key |-> <<e.field, p[1]>>, value |-> <<s[2 * p[2]]>>] :
                p \in {p \in Pairs(s) : \A q \in Pairs(s) : q[1] = p[1] => q[2] <= p[2]}}
        [] e.mode = "replace" -> {[key |-> <<e.field, i - 1>>, value |-> <<s[i]>>] : i \in DOMAIN s}
        [] OTHER -> {}

Fields(item) == {f.key[1] : f \in Effects(item)} \cup ({item.entry.field} \ {""})

Has(f) == f.key \in DOMAIN store /\ store[f.key] = f.value

\* The values that whole items append to a field are there, in their order.
Appended(of) ==
  LET e == of.items[1].entry
      a == of.items[1].values \o (IF WholeItem(of, 2) THEN of.items[2].values ELSE <<>>)
      k == <<e.field, 0>>
  IN  e.mode = "append" /\ WholeItem(of, 1) => k \in DOMAIN store /\ IsPrefix(a, store[k])

\* A list that the last item replaces has nothing left of the one before.
Replaced(of) ==
  LET last == of.items[2] IN
  last.entry.mode = "replace" /\ WholeItem(of, 2) =>
    {k \in DOMAIN store : k[1] = last.entry.field} = {f.key : f \in Effects(last)}

\* A value stands if no item after it that is begun writes its field.
Stands(of, i, f) == \A j \in i + 1 .. Len(of.items) : Begun(of, j) => f.key[1] \notin Fields(of.items[j])

\* The values of one row of an array of a component of a type, at most.
RowWidth(ct) == IF ct = 28 THEN 15 ELSE 2

\* What a component has beside its arrays.
FixedValues == 128

\* "Clamping bounds that damage" (InterfaceTypes.cpp:43-48): whatever is written where
\* a component should have a count, a far too large one too, and however many arrays follow each
\* other, their rows, decoded and still to be decoded, are never more than the file has
\* bytes.  CutKeepsEarlier has the other half, that no array is cut short by it.
DamageIsBounded ==
  input.type = "Component" /\ buf # <<>> =>
    Len(got) + Len(todo) <= FixedValues + RowWidth(buf[1]) * Len(buf)

\* The queries over a table row that was cut off (getIntValuesForColumnType,
\* hasColumnType): rows before the cut are whole, and of the row with the cut no int
\* is answered and no column found that the row does not have, save the 0 that a cut
\* cell or column reads as.
RowsAnswerTheirOwn(of) ==
  status = "done" =>
    \A i \in DOMAIN of.rows :
      LET row  == of.rows[i].values
          key  == <<"rows", of.rows[i].number>>
          last == \A j \in i + 1 .. Len(of.rows) :
                    of.rows[j].number = key[2] => of.ends[j - 1] >= Len(buf)
      IN  Begun(of, i) /\ last =>
            /\ Len(buf) > 5 => key \in DOMAIN store
            /\ WholeItem(of, i) => store[key] = row
            /\ key \in DOMAIN store =>
                 /\ \A t \in {0, 17} :
                      Range(IntValues(store[key], t)) \subseteq Range(IntValues(row, t)) \cup {0}
                 /\ \A t \in {17, 35, 36, 50} :
                      hasColumnType(store[key], t) => hasColumnType(row, t)

KeepsEarlier(of) ==
  status = "done" /\ of.known =>
    /\ \A i \in DOMAIN of.items :
         WholeItem(of, i) => \A f \in Effects(of.items[i]) : Stands(of, i, f) => Has(f)
    /\ of.items # <<>> =>
         /\ Appended(of)
         /\ Replaced(of)
         /\ \A k \in DOMAIN store : \E i \in DOMAIN of.items :
              Begun(of, i) /\ k[1] \in Fields(of.items[i])
    /\ input.type = "Component" =>
         \A i \in DOMAIN of.ends :
           WholeItem(of, i) => i \in DOMAIN got /\ got[i] = of.values[i]

\* A definition that is cut off keeps what stood before the cut: every opcode whose
\* bytes are all there has given its fields their values, no field is touched that no
\* opcode read so far names, and of a component every value that was complete is
\* there; a cut table answers no int that is not its own.  Callers hand out such
\* definitions as if they were whole.
CutKeepsEarlier == KeepsEarlier(source) /\ RowsAnswerTheirOwn(source)

=============================================================================

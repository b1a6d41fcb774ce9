---------------------------- MODULE Definitions -----------------------------
(***************************************************************************)
(* The decoders of config_types: Types.cpp's fourteen opcode loops and the   *)
(* interface component, over one buffer.  A step is one read: `todo` holds    *)
(* the shapes that the opcode (or the component) still has to read, `got` the  *)
(* values it has read.  When nothing is left to do, Assign stores the values   *)
(* in the definition's fields.                                                 *)
(*                                                                             *)
(* A stream may end anywhere: a decoder then reads zeroes, and never fails,     *)
(* except that it sizes a vector by a number that is -32768 when its second     *)
(* byte is missing.                                                             *)
(***************************************************************************)
EXTENDS RSBuffer, InterfaceFormats

CONSTANT Inputs      \* the definitions to decode: [type, bytes]

Types == DOMAIN Format \cup {"Component"}

ASSUME InputsAssumption == \A i \in Inputs : i.type \in Types /\ i.bytes \in Seq(Byte)

VARIABLES
  input,             \* the definition, one of Inputs
  pos,               \* RSBuffer::readPosition
  status,            \* "running", "done", or "threw" (std::length_error)
  opcode,            \* the opcode being read, 0 between two
  todo,              \* what it still has to read
  got,               \* what it has read: a sequence of values
  store              \* the fields: from <<name, slot>> to values

vars == <<input, pos, status, opcode, todo, got, store>>

buf == input.bytes
left == remaining(buf, pos)

-----------------------------------------------------------------------------
(* Leaves.                                                                   *)

\* The types of ScriptVarType.cpp whose base type is not an int.
LongTypes == {35, 49, 56, 71, 110, 115, 116, 118}
StringTypes == {36}
CoordFineTypes == {50}

\* readBaseVarValue of a column: a COORDFINE is skipped and answered as 0.
BaseVar(typeId) ==
  IF typeId \in LongTypes THEN I8 ELSE IF typeId \in StringTypes THEN String
  ELSE IF typeId \in CoordFineTypes THEN Leaf("coordFine") ELSE I4

\* ScriptVarType::cp1252ToUnicode: a byte without a code point is its own.
cp1252ToUnicode(byte) ==
  IF byte \in 128 .. 159 /\ cp1252_80_9f[byte - 127] # 0 THEN cp1252_80_9f[byte - 127] ELSE byte

\* What a reader gave, converted.
With(answer, Op(_)) == Answer(<<Op(answer.value[1])>>, answer.pos)
NoneIf(none, n) == IF n = none THEN -1 ELSE n
Wrapped(n, bits) == LET w == n % 2 ^ bits IN IF w < 2 ^ (bits - 1) THEN w ELSE w - 2 ^ bits

LeafKinds ==
  {"u1", "u1not", "is1", "i1", "u2", "u2id", "i2", "u3", "i4", "i8", "smart", "smartByte",
   "smartInt", "smartId", "bigSmart", "varInt", "string", "char", "maxLength", "coordFine", "skip"}

ReadLeaf(shape, p) ==
  CASE shape.kind = "u1" -> readUnsignedByte(buf, p)
    [] shape.kind = "u1not" -> With(readUnsignedByte(buf, p), LAMBDA n : 255 - n)
    [] shape.kind = "is1" -> With(readUnsignedByte(buf, p), LAMBDA n : IF n = 1 THEN 1 ELSE 0)
    [] shape.kind = "i1" -> With(readByte(buf, p), LAMBDA n : n * shape.n)
    [] shape.kind = "char" ->
         With(readUnsignedByte(buf, p), LAMBDA n : cp1252ToUnicode(n))
    [] shape.kind = "u2" -> readUnsignedShort(buf, p)
    [] shape.kind = "u2id" -> With(readUnsignedShort(buf, p), LAMBDA n : NoneIf(65535, n))
    [] shape.kind = "i2" -> With(readUnsignedShort(buf, p), LAMBDA n : Wrapped(n, 16))
    [] shape.kind = "maxLength" ->
         With(readUnsignedShort(buf, p),
              LAMBDA n : IF n = 0 THEN 255 ELSE IF n >= 2500 THEN 2500 ELSE n)
    [] shape.kind = "u3" -> readMediumInt(buf, p)
    [] shape.kind = "i4" -> readInt(buf, p)
    [] shape.kind = "i8" -> readLong(buf, p)
    [] shape.kind = "smart" -> readSmart(buf, p)
    [] shape.kind = "smartByte" -> With(readSmart(buf, p), LAMBDA n : Wrapped(n, 8))
    [] shape.kind = "smartInt" -> readSmartInt(buf, p)
    [] shape.kind = "smartId" -> With(readSmartInt(buf, p), LAMBDA n : NoneIf(65535, n))
    [] shape.kind = "bigSmart" -> readBigSmart(buf, p)
    [] shape.kind = "varInt" -> readVarInt(buf, p)
    [] shape.kind = "string" -> readString(buf, p)
    [] shape.kind = "coordFine" -> Answer(<<0>>, skip(buf, p, 13))
    [] OTHER -> Answer(<<>>, skip(buf, p, shape.n))

-----------------------------------------------------------------------------
(* Shapes that read a number and become others.                              *)

ReadCount(shape) ==
  CASE shape.count = "u1" -> readUnsignedByte(buf, pos)
    [] shape.count = "u2" -> readUnsignedShort(buf, pos)
    [] OTHER -> readSmart(buf, pos)

ReadMask(shape) == IF shape.count = "i4" THEN readInt(buf, pos) ELSE readMediumInt(buf, pos)

\* `shapes`, n times; not at all if n is negative.
Copies(shapes, n) ==
  [i \in 1 .. Len(shapes) * (IF n > 0 THEN n ELSE 0) |-> shapes[((i - 1) % Len(shapes)) + 1]]

Bit(n, k) == (n \div 2 ^ k) % 2

\* Mutant: a count is believed.
Unclamped(m, n) == m

Smaller(m, n) == IF m < n THEN m ELSE n

\* What a shape becomes, given the number it read and the bytes left after it.
Expansion(shape, n, after) ==
  LET clamped == Smaller(n, after) IN
  CASE shape.kind = "param" -> <<U3, IF n = 1 THEN String ELSE I4>>
    [] shape.kind = "icons" ->
         Copies(<<SmartInt, Smart>>, Bit(n, 0) + Bit(n, 1) + Bit(n, 2) + Bit(n, 3) + Bit(n, 4)
                                       + Bit(n, 5) + Bit(n, 6) + Bit(n, 7))
    [] shape.kind = "sounds" -> IF n > 0 THEN <<Skip(3)>> \o Copies(<<Skip(2)>>, n - 1) ELSE <<>>
    [] shape.kind = "componentType" -> <<[Leaf("nameFlag") EXCEPT !.n = n]>>
    [] shape.kind = "nameFlag" ->
         (IF n >= 128 THEN <<String>> ELSE <<>>) \o <<[Leaf("subtype") EXCEPT !.n = shape.n]>>
    [] shape.kind = "subtype" -> AfterSubtype(shape.n, n)
    [] shape.kind = "widthMode" -> <<[Leaf("heightMode") EXCEPT !.n = n]>>
    [] shape.kind = "heightMode" ->
         <<U1, U1>> \o (IF n = 4 \/ shape.n = 4 THEN <<U2, U2>> ELSE <<>>)
    [] shape.kind = "eventMask" ->
         <<Leaf("option"), U1, U1, U1>>
         \o (IF \E k \in 11 .. 17 : Bit(n, k) = 1 THEN <<Id, U2, U2>> ELSE <<>>)
    [] shape.kind = "option" -> IF n # 0 /\ after >= 3 THEN <<U1, U1, U1, Leaf("option")>> ELSE <<>>
    [] shape.kind = "modelFlags" ->
         (IF Bit(n, 0) = 1 THEN Copies(<<U2>>, 6)
          ELSE IF Bit(n, 1) = 1 THEN Copies(<<U2>>, 7) ELSE <<>>)
         \o <<BigSmart>> \o Copies(<<U2>>, Bit(n, 2) + Bit(n, 3))
    [] shape.kind = "clamped" ->
         Copies(shape.body, clamped) \o shape.mid \o Copies(shape.extra, clamped)
    [] shape.kind = "labelsAndIds" ->
         Append(Copies(<<String>>, clamped), [Leaf("ids") EXCEPT !.n = clamped])
    [] shape.kind = "ids" -> IF n = shape.n THEN Copies(<<I4>>, n) ELSE <<>>
    [] shape.kind = "labelMap" ->
         Append(Copies(<<String>>, clamped), [Leaf("pairs") EXCEPT !.n = clamped])
    [] shape.kind = "pairs" -> <<Upto(Smaller(n, shape.n), 4, <<I4>>)>>
    [] shape.kind = "countUpto" -> <<Upto(n, shape.need, shape.body)>>
    [] shape.kind = "upto" ->
         IF shape.n > 0 /\ after >= shape.need
         THEN shape.body \o <<[shape EXCEPT !.n = @ - 1]>> ELSE <<>>
    [] OTHER -> IF after > 0 THEN shape.body ELSE <<>>        \* "ifAny"

\* How each of them reads its number.
Number(shape) ==
  CASE shape.kind \in {"upto", "ifAny"} -> Answer(<<0>>, pos)
    [] shape.kind \in {"subtype", "clamped", "labelsAndIds", "labelMap", "ids", "pairs"} ->
         readUnsignedShort(buf, pos)
    [] shape.kind = "eventMask" -> ReadMask(shape)
    [] shape.kind = "countUpto" -> ReadCount(shape)
    [] OTHER -> readUnsignedByte(buf, pos)

\* Those whose number is itself a field.
Kept == {"componentType", "nameFlag", "subtype", "widthMode", "heightMode", "eventMask", "option",
         "modelFlags"}

Expanding == Kept \cup
  {"param", "icons", "sounds", "clamped", "labelsAndIds", "ids", "labelMap", "pairs", "countUpto",
   "upto", "ifAny"}

-----------------------------------------------------------------------------
(* Fields.                                                                   *)

\* Mutant: an opcode that appends starts afresh.
NothingBefore(e) == <<>>

\* What a field that an opcode appends to already holds.
Before(e) == IF <<e.field, 0>> \in DOMAIN store THEN store[<<e.field, 0>>] ELSE <<>>

\* What the operands of an opcode do to the fields: the last one written counts.
Stored(e) ==
  CASE e.mode = "set" -> (<<e.field, e.slot>> :> got) @@ store
    [] e.mode = "becomes" -> (<<e.field, 0>> :> <<<<e.slot>>>>) @@ store
    [] e.mode = "append" -> (<<e.field, 0>> :> Before(e) \o got) @@ store
    [] e.mode = "each" ->
         [k \in {<<e.fields[i], 0>> : i \in DOMAIN e.fields} |->
            <<got[CHOOSE i \in DOMAIN e.fields : e.fields[i] = k[1]]>>] @@ store
    [] e.mode = "merge" ->
         [k \in {<<e.field, got[2 * i - 1][1]>> : i \in 1 .. Len(got) \div 2} |->
            LET last == CHOOSE i \in 1 .. Len(got) \div 2 :
                          /\ got[2 * i - 1][1] = k[2]
                          /\ \A j \in i + 1 .. Len(got) \div 2 : got[2 * j - 1][1] # k[2]
            IN  <<got[2 * last]>>] @@ store
    [] e.mode = "replace" ->
         [k \in {<<e.field, i - 1>> : i \in DOMAIN got} |-> <<got[k[2] + 1]>>]
         @@ [k \in {k \in DOMAIN store : k[1] # e.field} |-> store[k]]
    [] OTHER -> store

-----------------------------------------------------------------------------
(* Steps.                                                                    *)

Init ==
  /\ input \in Inputs
  /\ pos = 0 /\ status = "running" /\ opcode = 0 /\ got = <<>>
  /\ todo = IF input.type = "Component" THEN Component ELSE <<>>
  /\ store = [k \in {} |-> <<>>]

Running == status = "running"
BetweenOpcodes == Running /\ opcode = 0 /\ todo = <<>> /\ input.type # "Component"
HeadIs(kinds) == Running /\ todo # <<>> /\ Head(todo).kind \in kinds

\* The next opcode, if the decoder's chain has it.
NextOpcode ==
  /\ BetweenOpcodes /\ left > 0
  /\ LET o == readUnsignedByte(buf, pos) IN
       /\ o.value[1] \in DOMAIN Format[input.type]
       /\ opcode' = o.value[1]
       /\ pos' = o.pos
       /\ todo' = Format[input.type][o.value[1]].reads
  /\ got' = <<>>
  /\ UNCHANGED <<input, status, store>>

\* One that it does not have falls through: the next byte is taken for an opcode.
UnknownOpcode ==
  /\ BetweenOpcodes /\ left > 0
  /\ buf[pos + 1] \notin DOMAIN Format[input.type] \cup {0}
  /\ pos' = pos + 1
  /\ UNCHANGED <<input, status, opcode, todo, got, store>>

\* Opcode 0 or the end of the buffer ends a definition, an empty list a component.
End ==
  /\ \/ BetweenOpcodes /\ (left > 0 => buf[pos + 1] = 0)
     \/ Running /\ todo = <<>> /\ input.type = "Component"
  /\ status' = "done"
  /\ pos' = IF input.type # "Component" /\ left > 0 THEN pos + 1 ELSE pos
  /\ UNCHANGED <<input, opcode, todo, got, store>>

ReadOperand ==
  /\ HeadIs(LeafKinds)
  /\ LET r == ReadLeaf(Head(todo), pos) IN
       /\ pos' = r.pos
       /\ got' = IF Head(todo).kind = "skip" THEN got ELSE Append(got, r.value)
  /\ todo' = Tail(todo)
  /\ UNCHANGED <<input, status, opcode, store>>

\* A count, and the vector sized by it; resize() of a negative number throws.
ReadVector ==
  /\ HeadIs({"vector"})
  /\ LET v == Head(todo)
         count == ReadCount(v)
         n == count.value[1]
     IN  /\ pos' = count.pos
         /\ IF n < 0
            THEN status' = "threw" /\ todo' = <<>>
            ELSE /\ todo' = Copies(v.body, n + v.n) \o v.mid \o Copies(v.extra, n) \o Tail(todo)
                 /\ UNCHANGED status
  /\ UNCHANGED <<input, opcode, got, store>>

Expand ==
  /\ HeadIs(Expanding)
  /\ LET r == Number(Head(todo)) IN
       /\ pos' = r.pos
       /\ todo' = Expansion(Head(todo), r.value[1], remaining(buf, r.pos)) \o Tail(todo)
       /\ got' = IF Head(todo).kind \in Kept THEN Append(got, r.value) ELSE got
  /\ UNCHANGED <<input, status, opcode, store>>

Assign ==
  /\ Running /\ opcode # 0 /\ todo = <<>>
  /\ store' = Stored(Format[input.type][opcode])
  /\ opcode' = 0
  /\ UNCHANGED <<input, pos, status, todo, got>>

-----------------------------------------------------------------------------
(* The rows of a table row (DbRowType), opcode 3: for each row its number, its   *)
(* columns' types, its length and its cells.                                     *)

\* Mutant: only 255 ends the list.
RowsEndAt255 ==
  /\ HeadIs({"rows"})
  /\ left > 0 /\ buf[pos + 1] = 255
  /\ pos' = pos + 1
  /\ todo' = Tail(todo)
  /\ UNCHANGED <<input, status, opcode, got, store>>

\* 255 ends the list, and so does the end of the buffer.
RowsEnd ==
  /\ HeadIs({"rows"})
  /\ left > 0 => buf[pos + 1] = 255
  /\ pos' = readUnsignedByte(buf, pos).pos
  /\ todo' = Tail(todo)
  /\ UNCHANGED <<input, status, opcode, got, store>>

\* `got` holds the number of the row, and its columns behind it.
RowBegins ==
  /\ HeadIs({"rows"})
  /\ left > 0 /\ buf[pos + 1] # 255
  /\ LET row == readUnsignedByte(buf, pos)
         columns == readUnsignedByte(buf, row.pos)
         c == columns.value[1]
     IN  /\ pos' = columns.pos
         /\ got' = <<row.value, columns.value>>
         /\ todo' = Copies(<<Smart>>, c) \o <<[Leaf("length") EXCEPT !.n = c]>> \o todo
  /\ UNCHANGED <<input, status, opcode, store>>

ReadLength ==
  /\ HeadIs({"length"})
  /\ LET length == readSmart(buf, pos)
         c == Head(todo).n
         cells == [i \in 1 .. c |-> [Leaf("cell") EXCEPT !.n = got[2 + i][1]]]
     IN  /\ pos' = length.pos
         /\ todo' = Copies(cells, length.value[1]) \o <<Leaf("row")>> \o Tail(todo)
  /\ UNCHANGED <<input, status, opcode, got, store>>

\* A cell that is not even begun ends its row.
ReadCell ==
  /\ HeadIs({"cell"})
  /\ IF left = 0
     THEN todo' = SelectSeq(todo, LAMBDA s : s.kind # "cell") /\ UNCHANGED <<pos, got>>
     ELSE LET r == ReadLeaf(BaseVar(Head(todo).n), pos) IN
            pos' = r.pos /\ got' = Append(got, r.value) /\ todo' = Tail(todo)
  /\ UNCHANGED <<input, status, opcode, store>>

StoreRow ==
  /\ HeadIs({"row"})
  /\ store' = (<<"rows", got[1][1]>> :> Tail(got)) @@ store
  /\ todo' = Tail(todo)
  /\ UNCHANGED <<input, pos, status, opcode, got>>

RowStep == RowsEnd \/ RowBegins \/ ReadLength \/ ReadCell \/ StoreRow

Next ==
  NextOpcode \/ UnknownOpcode \/ End \/ ReadOperand \/ ReadVector \/ Expand \/ Assign \/ RowStep

Spec == Init /\ [][Next]_vars

\* A decoder is one loop of one thread.
FairSpec == Spec /\ WF_vars(Next)

-----------------------------------------------------------------------------
(* What a table row answers: DbRowType's queries, of the row kept at `key`.      *)

ColumnCount(row) == row[1][1]
columnTypeIds(row) == [c \in 1 .. ColumnCount(row) |-> row[1 + c][1]]
values(row) == SubSeq(row, 2 + ColumnCount(row), Len(row))

hasColumnType(row, typeId) == \E c \in 1 .. ColumnCount(row) : columnTypeIds(row)[c] = typeId

\* getIntValuesForColumnType: the ints of a column, for as many lines as are whole.
IntValues(row, typeId) ==
  LET cols   == ColumnCount(row)
      Length == Len(values(row)) \div cols
      Column(c) == IF columnTypeIds(row)[c] = typeId /\ BaseVar(typeId).kind \in {"i4", "coordFine"}
                   THEN [i \in 1 .. Length |-> values(row)[(i - 1) * cols + c][1]] ELSE <<>>
      Upwards[c \in 0 .. cols] == IF c = 0 THEN <<>> ELSE Upwards[c - 1] \o Column(c)
  IN  Upwards[cols]

-----------------------------------------------------------------------------
(* Properties.                                                               *)

\* The position is within the buffer, and a decoder that ended has nothing to do.
TypeOK ==
  /\ input.type \in Types /\ buf \in Seq(Byte)
  /\ pos \in 0 .. Len(buf)
  /\ status \in {"running", "done", "threw"}
  /\ status # "running" => todo = <<>>
  /\ opcode \in Nat

\* What a decoder throws is caught by the getters as "not found" and by the dumper
\* as one line of its log: so that it means damage, it must only happen to a
\* definition whose bytes ran out, and never for a count that was really there
\* (every resize() by readSmart() of Types.cpp).
ThrowsOnlyWhenCut == status = "threw" => pos = Len(buf)

\* Every decoder ends, on every stream: counts that were read from the wrong bytes
\* are worked off although nothing is left to read.
DecodeEnds == <>(status # "running")

=============================================================================

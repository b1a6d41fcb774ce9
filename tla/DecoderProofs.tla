--------------------------- MODULE DecoderProofs ----------------------------
(***************************************************************************)
(* For every definition, whatever its bytes: a decoder's position stays     *)
(* within the buffer, and it throws only when the buffer is used up.  No    *)
(* read is outside the bytes, because no reader moves out of them: that is  *)
(* a lemma for each reader of RSBuffer.                                     *)
(*                                                                         *)
(* For every file of a map square, whatever its bytes: the placements that  *)
(* come out are on the grid.  MapSquare indexes its arrays with them        *)
(* without a look.                                                          *)
(***************************************************************************)
EXTENDS Definitions, MapFiles, TLAPS, WellFoundedInduction

\* Where a position may be in a buffer.
Places(b) == 0 .. Len(b)

-----------------------------------------------------------------------------
(* Minima.                                                                   *)

\* A set of natural numbers that is not empty has a least element: the CHOOSE of
\* the two readers that look for the end of something is of one that exists.
LEMMA LeastExists ==
  ASSUME NEW S \in SUBSET Nat, S # {}
  PROVE  \E n \in S : \A m \in S : n <= m
<1> DEFINE R == OpToRel(<, Nat)
<1>1. IsWellFoundedOn(R, Nat)
  BY NatLessThanWellFounded
<1>2. PICK n \in S : \A m \in S : <<m, n>> \notin R
  BY <1>1, WFMin
<1>3. \A m \in S : ~(m < n)
  BY <1>2 DEF OpToRel
<1> HIDE DEF R
<1>4. \A m \in S : n <= m
  BY <1>2, <1>3
<1> QED
  BY <1>2, <1>4

-----------------------------------------------------------------------------
(* The readers of RSBuffer stay within the buffer.                           *)

LEMMA FixedWidths ==
  ASSUME NEW b \in Seq(Byte), NEW p \in Places(b)
  PROVE  /\ readUnsignedByte(b, p).pos \in Places(b)
         /\ readByte(b, p).pos \in Places(b)
         /\ readUnsignedShort(b, p).pos \in Places(b)
         /\ readMediumInt(b, p).pos \in Places(b)
         /\ readInt(b, p).pos \in Places(b)
         /\ readLong(b, p).pos \in Places(b)
BY DEF Places, readUnsignedByte, readByte, readUnsignedShort, readMediumInt, readInt, readLong,
       canRead, Exhausted, Answer

LEMMA Smarts ==
  ASSUME NEW b \in Seq(Byte), NEW p \in Places(b)
  PROVE  /\ readSmart(b, p).pos \in Places(b)
         /\ readSmartInt(b, p).pos \in Places(b)
         /\ readBigSmart(b, p).pos \in Places(b)
<1>1. readSmart(b, p).pos \in Places(b)
  BY FixedWidths DEF readSmart, Answer, Places
<1>2. readSmartInt(b, p).pos \in Places(b)
  BY FixedWidths DEF readSmartInt, Answer, Places
<1>3. readBigSmart(b, p).pos \in Places(b)
  BY <1>2 DEF readBigSmart, Answer
<1> QED
  BY <1>1, <1>2, <1>3

\* The bytes of a variable number are at most those that are left.
LEMMA VarInts ==
  ASSUME NEW b \in Seq(Byte), NEW p \in Places(b)
  PROVE  readVarInt(b, p).pos \in Places(b)
<1> DEFINE most == IF remaining(b, p) < 5 THEN remaining(b, p) ELSE 5
           ends == {n \in 1 .. most : b[p + n] < 128}
<1>1. most \in 0 .. Len(b) - p
  BY DEF remaining, Places
<1>2. VarIntLength(b, p) \in 0 .. Len(b) - p
  <2>1. CASE ends = {}
    BY <2>1, <1>1 DEF VarIntLength
  <2>2. CASE ends # {}
    <3>1. \E n \in ends : \A m \in ends : n <= m
      BY <2>2, LeastExists, ends \in SUBSET Nat
    <3>2. VarIntLength(b, p) \in ends
      BY <2>2, <3>1 DEF VarIntLength
    <3>3. VarIntLength(b, p) \in 1 .. most
      BY <3>2
    <3> HIDE DEF most, ends
    <3>4. Len(b) - p \in Int
      BY DEF Places
    <3> QED
      BY <3>3, <3>4, <1>1
  <2> QED
    BY <2>1, <2>2
<1> QED
  BY <1>2 DEF readVarInt, Answer, Places

\* A string ends at a NUL or with the buffer.
LEMMA Strings ==
  ASSUME NEW b \in Seq(Byte), NEW p \in Places(b)
  PROVE  readString(b, p).pos \in Places(b)
<1> DEFINE nuls == {n \in 0 .. remaining(b, p) - 1 : b[p + n + 1] = 0}
<1>1. remaining(b, p) = Len(b) - p
  BY DEF remaining, Places
<1>2. StringLength(b, p) \in 0 .. Len(b) - p
  <2>1. CASE nuls = {}
    BY <2>1, <1>1 DEF StringLength, Places
  <2>2. CASE nuls # {}
    <3>1. \E n \in nuls : \A m \in nuls : n <= m
      BY <2>2, LeastExists, nuls \in SUBSET Nat
    <3>2. StringLength(b, p) \in nuls
      BY <2>2, <3>1 DEF StringLength
    <3>3. StringLength(b, p) \in 0 .. remaining(b, p) - 1
      BY <3>2
    <3> HIDE DEF nuls
    <3> QED
      BY <3>3, <1>1 DEF Places
  <2> QED
    BY <2>1, <2>2
<1> QED
  BY <1>1, <1>2 DEF readString, Answer, Places

LEMMA Skips ==
  ASSUME NEW b \in Seq(Byte), NEW p \in Places(b), NEW n
  PROVE  skip(b, p, n) \in Places(b)
<1>1. remaining(b, p) = Len(b) - p
  BY DEF remaining, Places
<1>2. CASE n < 0
  BY <1>2 DEF skip
<1>3. CASE ~(n < 0) /\ n \in 0 .. remaining(b, p)
  BY <1>1, <1>3 DEF skip, Places
<1>4. CASE ~(n < 0) /\ n \notin 0 .. remaining(b, p)
  BY <1>4 DEF skip, Places
<1> QED
  BY <1>2, <1>3, <1>4

\* Two bytes, the first with its highest bit, are at least the bias.
LEMMA Bias ==
  ASSUME NEW x \in Byte, NEW y \in Byte, ~(x < 128)
  PROVE  256 * x + y \in Int /\ 256 * x + y >= 32768
BY DEF Byte

LEMMA NotNegative ==
  ASSUME NEW x \in Byte
  PROVE  x \in Nat /\ ~(x < 0)
BY DEF Byte

LEMMA ShortNotNegative ==
  ASSUME NEW x \in Byte, NEW y \in Byte
  PROVE  ~(256 * x + y < 0)
BY DEF Byte

\* A number that sizes a vector is negative only if the buffer is used up: what
\* readSmart takes its bias off is at least the bias, when both bytes are there.
LEMMA NegativeOnlyAtEnd ==
  ASSUME NEW b \in Seq(Byte), NEW p \in Places(b), readSmart(b, p).value[1] < 0
  PROVE  readSmart(b, p).pos = Len(b)
<1>1. CASE ~canRead(b, p, 1)
  BY <1>1 DEF readSmart, Answer
<1>2. CASE canRead(b, p, 1) /\ b[p + 1] < 128
  <2>1. p + 1 \in 1 .. Len(b)
    BY <1>2 DEF canRead, Places
  <2>2. ~(b[p + 1] < 0)
    BY <2>1, NotNegative
  <2>3. readSmart(b, p).value[1] = b[p + 1]
    BY <1>2 DEF readSmart, readUnsignedByte, Answer
  <2> QED
    BY <2>2, <2>3
<1>3. CASE canRead(b, p, 1) /\ ~(b[p + 1] < 128) /\ canRead(b, p, 2)
  <2>1. p + 1 \in 1 .. Len(b) /\ p + 2 \in 1 .. Len(b)
    BY <1>3 DEF canRead, Places
  <2> DEFINE n == 256 * b[p + 1] + b[p + 2]
  <2>2. n \in Int /\ n >= 32768
    <3>1. b[p + 1] \in Byte /\ b[p + 2] \in Byte
      BY <2>1
    <3> QED
      BY <1>3, <3>1, Bias
  <2>3. readUnsignedShort(b, p).value[1] = n
    BY <1>3 DEF readUnsignedShort, Answer
  <2>4. readSmart(b, p).value[1] = n - 32768
    BY <1>3, <2>3 DEF readSmart, Answer
  <2> HIDE DEF n
  <2> QED
    BY <2>2, <2>4
<1>4. CASE canRead(b, p, 1) /\ ~(b[p + 1] < 128) /\ ~canRead(b, p, 2)
  BY <1>4 DEF readSmart, readUnsignedShort, Exhausted, Answer
<1> QED
  BY <1>1, <1>2, <1>3, <1>4

-----------------------------------------------------------------------------
(* The readers of the decoders stay within it too.                           *)

LEMMA Leaves ==
  ASSUME NEW shape, NEW p \in Places(buf), buf \in Seq(Byte)
  PROVE  ReadLeaf(shape, p).pos \in Places(buf)
<1>1. /\ readUnsignedByte(buf, p).pos \in Places(buf)
      /\ readByte(buf, p).pos \in Places(buf)
      /\ readUnsignedShort(buf, p).pos \in Places(buf)
      /\ readMediumInt(buf, p).pos \in Places(buf)
      /\ readInt(buf, p).pos \in Places(buf)
      /\ readLong(buf, p).pos \in Places(buf)
  BY FixedWidths
<1>2. /\ readSmart(buf, p).pos \in Places(buf)
      /\ readSmartInt(buf, p).pos \in Places(buf)
      /\ readBigSmart(buf, p).pos \in Places(buf)
  BY Smarts
<1>3. readVarInt(buf, p).pos \in Places(buf) /\ readString(buf, p).pos \in Places(buf)
  BY VarInts, Strings
<1>4. skip(buf, p, 13) \in Places(buf) /\ skip(buf, p, shape.n) \in Places(buf)
  BY Skips
<1>5. CASE shape.kind \in {"u1", "u1not", "is1", "char"}
  <2>1. CASE shape.kind = "u1"
    BY <1>1, <2>1 DEF ReadLeaf, With, Answer
  <2>2. CASE shape.kind = "u1not"
    BY <1>1, <2>2 DEF ReadLeaf, With, Answer
  <2>3. CASE shape.kind = "is1"
    BY <1>1, <2>3 DEF ReadLeaf, With, Answer
  <2>4. CASE shape.kind = "char"
    BY <1>1, <2>4 DEF ReadLeaf, With, Answer
  <2> QED
    BY <1>5, <2>1, <2>2, <2>3, <2>4
<1>6. CASE shape.kind \in {"u2", "u2id", "i2", "maxLength"}
  <2>1. CASE shape.kind = "u2"
    BY <1>1, <2>1 DEF ReadLeaf, With, Answer
  <2>2. CASE shape.kind = "u2id"
    BY <1>1, <2>2 DEF ReadLeaf, With, Answer
  <2>3. CASE shape.kind = "i2"
    BY <1>1, <2>3 DEF ReadLeaf, With, Answer
  <2>4. CASE shape.kind = "maxLength"
    BY <1>1, <2>4 DEF ReadLeaf, With, Answer
  <2> QED
    BY <1>6, <2>1, <2>2, <2>3, <2>4
<1>7. CASE shape.kind = "i1"
  BY <1>1, <1>7 DEF ReadLeaf, With, Answer
<1>8. CASE shape.kind = "u3"
  BY <1>1, <1>8 DEF ReadLeaf, With, Answer
<1>9. CASE shape.kind = "i4"
  BY <1>1, <1>9 DEF ReadLeaf, With, Answer
<1>10. CASE shape.kind = "i8"
  BY <1>1, <1>10 DEF ReadLeaf, With, Answer
<1>11. CASE shape.kind \in {"smart", "smartByte"}
  <2>1. CASE shape.kind = "smart"
    BY <1>2, <2>1 DEF ReadLeaf, With, Answer
  <2>2. CASE shape.kind = "smartByte"
    BY <1>2, <2>2 DEF ReadLeaf, With, Answer
  <2> QED
    BY <1>11, <2>1, <2>2
<1>12. CASE shape.kind \in {"smartInt", "smartId"}
  <2>1. CASE shape.kind = "smartInt"
    BY <1>2, <2>1 DEF ReadLeaf, With, Answer
  <2>2. CASE shape.kind = "smartId"
    BY <1>2, <2>2 DEF ReadLeaf, With, Answer
  <2> QED
    BY <1>12, <2>1, <2>2
<1>13. CASE shape.kind = "bigSmart"
  BY <1>2, <1>13 DEF ReadLeaf, With, Answer
<1>14. CASE shape.kind = "varInt"
  <2>1. ReadLeaf(shape, p) = readVarInt(buf, p)
    BY <1>14, SMTT(60) DEF ReadLeaf, With
  <2> QED
    BY <1>3, <2>1
<1>15. CASE shape.kind = "string"
  <2>1. ReadLeaf(shape, p) = readString(buf, p)
    BY <1>15, SMTT(60) DEF ReadLeaf, With
  <2> QED
    BY <1>3, <2>1
<1>16. CASE shape.kind = "coordFine"
  <2>1. ReadLeaf(shape, p) = Answer(<<0>>, skip(buf, p, 13))
    BY <1>16, SMTT(60) DEF ReadLeaf, With
  <2> QED
    BY <1>4, <2>1 DEF Answer
<1>17. CASE shape.kind \notin {"u1", "u1not", "is1", "char", "u2", "u2id", "i2", "maxLength", "i1",
                              "u3", "i4", "i8", "smart", "smartByte", "smartInt", "smartId",
                              "bigSmart", "varInt", "string", "coordFine"}
  <2>1. ReadLeaf(shape, p) = Answer(<<>>, skip(buf, p, shape.n))
    BY <1>17, SMTT(60) DEF ReadLeaf, With
  <2> QED
    BY <1>4, <2>1 DEF Answer
<1> QED
  BY <1>5, <1>6, <1>7, <1>8, <1>9, <1>10, <1>11, <1>12, <1>13, <1>14, <1>15, <1>16, <1>17

LEMMA Counts ==
  ASSUME NEW shape, pos \in Places(buf), buf \in Seq(Byte)
  PROVE  /\ ReadCount(shape).pos \in Places(buf)
         /\ ReadCount(shape).value[1] < 0 => ReadCount(shape).pos = Len(buf)
<1>1. CASE shape.count = "u1"
  <2>1. ReadCount(shape) = readUnsignedByte(buf, pos)
    BY <1>1 DEF ReadCount
  <2>2. ~(readUnsignedByte(buf, pos).value[1] < 0)
    <3>1. CASE canRead(buf, pos, 1)
      <4>1. pos + 1 \in 1 .. Len(buf)
        BY <3>1 DEF canRead, Places
      <4>2. readUnsignedByte(buf, pos).value[1] = buf[pos + 1]
        BY <3>1 DEF readUnsignedByte, Answer
      <4> QED
        BY <4>1, <4>2, NotNegative
    <3>2. CASE ~canRead(buf, pos, 1)
      BY <3>2 DEF readUnsignedByte, Answer
    <3> QED
      BY <3>1, <3>2
  <2> QED
    BY <2>1, <2>2, FixedWidths
<1>2. CASE shape.count = "u2"
  <2>1. ReadCount(shape) = readUnsignedShort(buf, pos)
    BY <1>2 DEF ReadCount
  <2>2. ~(readUnsignedShort(buf, pos).value[1] < 0)
    <3>1. CASE canRead(buf, pos, 2)
      <4>1. pos + 1 \in 1 .. Len(buf) /\ pos + 2 \in 1 .. Len(buf)
        BY <3>1 DEF canRead, Places
      <4>2. readUnsignedShort(buf, pos).value[1] = 256 * buf[pos + 1] + buf[pos + 2]
        BY <3>1 DEF readUnsignedShort, Answer
      <4>3. buf[pos + 1] \in Byte /\ buf[pos + 2] \in Byte
        BY <4>1
      <4> QED
        BY <4>2, <4>3, ShortNotNegative
    <3>2. CASE ~canRead(buf, pos, 2)
      BY <3>2 DEF readUnsignedShort, Exhausted, Answer
    <3> QED
      BY <3>1, <3>2
  <2> QED
    BY <2>1, <2>2, FixedWidths
<1>3. CASE shape.count \notin {"u1", "u2"}
  <2>1. ReadCount(shape) = readSmart(buf, pos)
    BY <1>3 DEF ReadCount
  <2> QED
    BY <2>1, Smarts, NegativeOnlyAtEnd
<1> QED
  BY <1>1, <1>2, <1>3

LEMMA Numbers ==
  ASSUME NEW shape, pos \in Places(buf), buf \in Seq(Byte)
  PROVE  Number(shape).pos \in Places(buf)
<1>1. /\ readUnsignedByte(buf, pos).pos \in Places(buf)
      /\ readUnsignedShort(buf, pos).pos \in Places(buf)
      /\ readMediumInt(buf, pos).pos \in Places(buf)
      /\ readInt(buf, pos).pos \in Places(buf)
  BY FixedWidths
<1>2. ReadCount(shape).pos \in Places(buf)
  BY Counts
<1>3. ReadMask(shape).pos \in Places(buf)
  BY <1>1 DEF ReadMask
<1> QED
  BY <1>1, <1>2, <1>3 DEF Number, Answer

-----------------------------------------------------------------------------
(* The invariant.                                                            *)

IInv == TypeOK /\ input \in Inputs /\ ThrowsOnlyWhenCut

LEMMA Bytes ==
  ASSUME IInv
  PROVE  buf \in Seq(Byte) /\ pos \in Places(buf)
BY DEF IInv, TypeOK, Places

LEMMA InitIInv == Init => IInv
<1> SUFFICES ASSUME Init PROVE IInv
  OBVIOUS
<1>1. input \in Inputs /\ input.type \in Types /\ buf \in Seq(Byte)
  BY InputsAssumption DEF Init, buf
<1>2. pos \in 0 .. Len(buf)
  BY <1>1 DEF Init
<1> QED
  BY <1>1, <1>2 DEF Init, IInv, TypeOK, ThrowsOnlyWhenCut

\* A step that only moves the position, within the buffer, and leaves what a
\* decoder has to do to itself keeps the invariant while the decoder runs.
LEMMA Moves ==
  ASSUME IInv, input' = input, pos' \in Places(buf), status = "running", status' = "running",
         opcode' \in Nat
  PROVE  IInv'
BY DEF IInv, TypeOK, ThrowsOnlyWhenCut, buf, Places

LEMMA NextIInv == IInv /\ [Next]_vars => IInv'
<1> SUFFICES ASSUME IInv, [Next]_vars PROVE IInv'
  OBVIOUS
<1> USE Bytes
<1>1. CASE NextOpcode
  <2>1. pos + 1 \in 1 .. Len(buf) /\ readUnsignedByte(buf, pos).value[1] = buf[pos + 1]
    BY <1>1 DEF NextOpcode, left, remaining, readUnsignedByte, canRead, Answer, Places
  <2>2. opcode' \in Nat
    <3>1. buf[pos + 1] \in Byte
      BY <2>1
    <3>2. opcode' = buf[pos + 1]
      BY <1>1, <2>1 DEF NextOpcode
    <3> QED
      BY <3>1, <3>2, NotNegative
  <2> QED
    BY <1>1, <2>2, FixedWidths, Moves DEF NextOpcode, BetweenOpcodes, Running
<1>2. CASE UnknownOpcode
  <2>1. pos' \in Places(buf)
    BY <1>2 DEF UnknownOpcode, left, remaining, Places
  <2> QED
    BY <1>2, <2>1, Moves DEF UnknownOpcode, BetweenOpcodes, Running, IInv, TypeOK
<1>3. CASE End
  <2>1. pos' \in Places(buf)
    BY <1>3 DEF End, left, remaining, Places
  <2>2. status' = "done" /\ input' = input /\ opcode' = opcode /\ todo' = <<>>
    BY <1>3 DEF End, BetweenOpcodes
  <2> QED
    BY <2>1, <2>2 DEF IInv, TypeOK, ThrowsOnlyWhenCut, buf, Places
<1>4. CASE ReadOperand
  BY <1>4, Leaves, Moves DEF ReadOperand, HeadIs, Running, IInv, TypeOK
<1>5. CASE ReadVector
  <2>1. /\ pos' = ReadCount(Head(todo)).pos
        /\ input' = input /\ opcode' = opcode /\ status = "running"
    BY <1>5 DEF ReadVector, HeadIs, Running
  <2>2. pos' \in Places(buf)
    BY <2>1, Counts
  <2>3. CASE ReadCount(Head(todo)).value[1] < 0
    <3>1. status' = "threw" /\ todo' = <<>>
      BY <1>5, <2>3 DEF ReadVector
    <3>2. pos' = Len(buf)
      BY <2>1, <2>3, Counts
    <3> QED
      BY <2>1, <2>2, <3>1, <3>2 DEF IInv, TypeOK, ThrowsOnlyWhenCut, buf, Places
  <2>4. CASE ~(ReadCount(Head(todo)).value[1] < 0)
    <3>1. status' = "running"
      BY <1>5, <2>1, <2>4 DEF ReadVector
    <3> QED
      BY <2>1, <2>2, <3>1, Moves DEF IInv, TypeOK
  <2> QED
    BY <2>3, <2>4
<1>6. CASE Expand
  BY <1>6, Numbers, Moves DEF Expand, HeadIs, Running, IInv, TypeOK
<1>7. CASE Assign
  BY <1>7, Moves DEF Assign, Running
<1>8. CASE RowsEnd
  BY <1>8, FixedWidths, Moves DEF RowsEnd, HeadIs, Running, IInv, TypeOK
<1>9. CASE RowBegins
  <2>1. readUnsignedByte(buf, pos).pos \in Places(buf)
    BY FixedWidths
  <2>2. pos' \in Places(buf)
    BY <1>9, <2>1, FixedWidths DEF RowBegins
  <2> QED
    BY <1>9, <2>2, Moves DEF RowBegins, HeadIs, Running, IInv, TypeOK
<1>10. CASE ReadLength
  BY <1>10, Smarts, Moves DEF ReadLength, HeadIs, Running, IInv, TypeOK
<1>11. CASE ReadCell
  <2>1. pos' \in Places(buf)
    BY <1>11, Leaves DEF ReadCell
  <2> QED
    BY <1>11, <2>1, Moves DEF ReadCell, HeadIs, Running, IInv, TypeOK
<1>12. CASE StoreRow
  BY <1>12, Moves DEF StoreRow, HeadIs, Running, IInv, TypeOK
<1>13. CASE UNCHANGED vars
  BY <1>13 DEF vars, IInv, TypeOK, ThrowsOnlyWhenCut, buf
<1> QED
  BY <1>1, <1>2, <1>3, <1>4, <1>5, <1>6, <1>7, <1>8, <1>9, <1>10, <1>11, <1>12, <1>13
     DEF Next, RowStep

-----------------------------------------------------------------------------
(* Theorems.                                                                 *)

\* No decoder reads outside its bytes, whatever they are, and a decoder that ended
\* left nothing half read (RSBuffer.h's checks before every access).
THEOREM ReadsStayInside == Spec => []TypeOK
<1>1. IInv => TypeOK
  BY DEF IInv
<1> QED
  BY InitIInv, NextIInv, <1>1, PTL DEF Spec

\* Whatever the bytes, a decoder throws only when it has used them all up: the only
\* count that can be negative is one of which a byte is missing.
THEOREM ThrowsMeanCut == Spec => []ThrowsOnlyWhenCut
<1>1. IInv => ThrowsOnlyWhenCut
  BY DEF IInv
<1> QED
  BY InitIInv, NextIInv, <1>1, PTL DEF Spec

-----------------------------------------------------------------------------
(* The two files of a map square: arithmetic of their own readers.           *)

LEMMA Reads ==
  ASSUME data \in Seq(Byte), NEW p \in Nat, p < end
  PROVE  At(p) \in 0 .. 255
<1>1. p + 1 \in 1 .. Len(data)
  BY DEF end
<1>2. data[p + 1] \in Byte
  BY <1>1
<1> QED
  BY <1>2 DEF At, Byte

LEMMA OneByte ==
  ASSUME NEW a \in 0 .. 255, NEW q \in Nat
  PROVE  Read(a, q + 1).value \in 0 .. Sentinel /\ Read(a, q + 1).ptr \in Nat
BY DEF Read, Sentinel

\* A smart has fifteen bits, and reading one never goes back.
LEMMA MapSmarts ==
  ASSUME data \in Seq(Byte), NEW p \in Nat
  PROVE  readMapSmart(p).value \in 0 .. Sentinel /\ readMapSmart(p).ptr \in Nat
<1> DEFINE first == At(p)
           second == At(p + 1)
<1>1. end \in Nat /\ p + 1 \in Nat
  BY DEF end
<1>2. p < end => first \in 0 .. 255
  BY Reads
<1>3. p + 1 < end => second \in 0 .. 255
  BY <1>1, Reads
<1>4. \/ readMapSmart(p) = Read(0, p)
      \/ p < end /\ first < 128 /\ readMapSmart(p) = Read(first, p + 1)
      \/ p < end /\ ~(first < 128) /\ p + 1 < end
         /\ readMapSmart(p) = Read(256 * first + second - 32768, p + 2)
  BY <1>1 DEF readMapSmart
<1> HIDE DEF first, second
<1>5. CASE readMapSmart(p) = Read(0, p)
  BY <1>5 DEF Read, Sentinel
<1>6. CASE p < end /\ first < 128 /\ readMapSmart(p) = Read(first, p + 1)
  <2>1. first \in 0 .. 255
    BY <1>2, <1>6
  <2> QED
    BY <2>1, <1>6, OneByte
<1>7. CASE /\ p < end /\ ~(first < 128) /\ p + 1 < end
           /\ readMapSmart(p) = Read(256 * first + second - 32768, p + 2)
  <2>1. first \in 0 .. 255 /\ second \in 0 .. 255 /\ ~(first < 128)
    BY <1>2, <1>3, <1>7
  <2> HIDE DEF first, second
  <2>2. PICK a \in 0 .. 255, b \in 0 .. 255 : a = first /\ b = second
    BY <2>1
  <2> DEFINE both == 256 * a + b - 32768
  <2>3. both \in 0 .. Sentinel
    <3>1. ~(a < 128)
      BY <2>1, <2>2
    <3> QED
      BY <3>1 DEF Sentinel
  <2>4. readMapSmart(p) = Read(both, p + 2)
    BY <1>7, <2>2
  <2> HIDE DEF both
  <2> QED
    BY <2>3, <2>4 DEF Read
<1> QED
  BY <1>4, <1>5, <1>6, <1>7

\* A bit is 0 or 1.
LEMMA Bits ==
  ASSUME NEW n \in Nat, NEW w \in Nat \ {0}
  PROVE  FlagBit(n, w) \in {0, 1}
<1>1. n \div w \in Int
  OBVIOUS
<1> QED
  BY <1>1 DEF FlagBit

LEMMA Lengths ==
  \A flags \in 0 .. 255 : CustomizationLength(flags) \in Nat
<1> SUFFICES ASSUME NEW flags \in 0 .. 255 PROVE CustomizationLength(flags) \in Nat
  OBVIOUS
<1>1. flags \in Nat
  OBVIOUS
<1>2. \A w \in Nat \ {0} : FlagBit(flags, w) \in {0, 1}
  BY <1>1, Bits
<1> QED
  BY <1>2 DEF CustomizationLength

LEMMA Customization ==
  ASSUME data \in Seq(Byte), NEW p \in Nat
  PROVE  skipLocCustomization(p) \in Nat
<1> DEFINE length == CustomizationLength(At(p))
<1>1. end \in Nat
  BY DEF end
<1>2. p < end => length \in Nat
  BY Reads, Lengths
<1>3. skipLocCustomization(p) = IF p >= end THEN p ELSE p + 1 + length
  BY DEF skipLocCustomization
<1> HIDE DEF length
<1> QED
  BY <1>1, <1>2, <1>3

\* What a placement that is kept says lies on the grid.
LEMMA PlacementsOnGrid ==
  ASSUME NEW l \in Nat, NEW packed \in Byte, OnGrid(l), objectId \in Int
  PROVE  Placed(l, packed) \in Placement
<1>1. SIZE \in Nat \ {0} /\ PLANES \in Nat \ {0}
  BY StreamAssumption
<1> DEFINE area == SIZE * SIZE
<1>2. area \in Nat /\ area > 0
  BY <1>1
<1>3. PlaneOf(l) \in 0 .. PLANES - 1
  <2>1. l \div area \in Nat
    <3> HIDE DEF area
    <3> QED
      BY <1>2
  <2> QED
    BY <1>1, <2>1 DEF PlaneOf, OnGrid
<1>4. LocalX(l) \in 0 .. SIZE - 1
  <2>1. l \div SIZE \in Nat
    BY <1>1
  <2> QED
    BY <1>1, <2>1 DEF LocalX
<1>5. LocalY(l) \in 0 .. SIZE - 1
  BY <1>1 DEF LocalY
<1>6. (packed \div 4) % 32 \in 0 .. 31 /\ packed % 4 \in 0 .. 3
  BY DEF Byte
<1> QED
  BY <1>3, <1>4, <1>5, <1>6 DEF Placed, Placement

-----------------------------------------------------------------------------
(* The steps.                                                                *)

LEMMA InitTypes == StreamInit => StreamTypeOK
<1> SUFFICES ASSUME StreamInit PROVE StreamTypeOK
  OBVIOUS
<1>1. stream.file \in {"locations", "terrain"} /\ data \in Seq(Byte)
  BY StreamAssumption DEF StreamInit, data
<1>2. overlayIds \in [Tiles -> 0 .. Sentinel] /\ renderRules \in [Tiles -> Byte]
  BY DEF StreamInit, Sentinel, Byte
<1>3. result \in Seq(Placement)
  BY DEF StreamInit
<1>4. ptr \in Nat /\ phase \in {"object", "placement", "tile", "overlay", "rule", "underlay", "done"}
      /\ ~(phase \in {"overlay", "rule", "underlay"})
  BY DEF StreamInit, HeaderSize
<1> QED
  BY <1>1, <1>2, <1>3, <1>4 DEF StreamInit, StreamTypeOK, Byte

\* Decoding placements leaves the tiles alone.
LEMMA PlacementSteps ==
  StreamTypeOK /\ (MoreSentinels \/ NextObject \/ NextPlacement) => StreamTypeOK'
<1> SUFFICES ASSUME StreamTypeOK, MoreSentinels \/ NextObject \/ NextPlacement PROVE StreamTypeOK'
  OBVIOUS
<1>a. data \in Seq(Byte) /\ ptr \in Nat /\ phase \in {"object", "placement"}
  BY DEF StreamTypeOK, MoreSentinels, NextObject, NextPlacement
<1>b. /\ readMapSmart(ptr).value \in 0 .. Sentinel
      /\ readMapSmart(ptr).ptr \in Nat
  BY <1>a, MapSmarts
<1>c. stream' = stream /\ data' = data
  BY DEF MoreSentinels, NextObject, NextPlacement, Done, data
<1>d. UNCHANGED tiles
  BY DEF MoreSentinels, NextObject, NextPlacement, Done
<1>e. Tiles' = Tiles /\ Placement' = Placement
  BY DEF Tiles, Placement
<1>f. incr \in Nat /\ objectId \in Int /\ location \in Nat
  BY DEF StreamTypeOK
<1>1. CASE MoreSentinels
  <2>1. ptr' = readMapSmart(ptr).ptr /\ incr' = incr + 32767
    BY <1>1 DEF MoreSentinels, Sentinel
  <2>2. ptr' \in Nat /\ incr' \in Nat
    BY <2>1, <1>b, <1>f
  <2>3. UNCHANGED <<phase, objectId, location, result>>
    BY <1>1 DEF MoreSentinels
  <2> QED
    BY <2>2, <2>3, <1>c, <1>d, <1>e DEF StreamTypeOK, tiles
<1>2. CASE NextObject
  <2>1. ptr' \in Nat /\ phase' \in {"done", "placement"} /\ UNCHANGED result
    BY <1>2, <1>b DEF NextObject, Done, locs
  <2>2. objectId' \in Int /\ incr' \in Nat /\ location' \in Nat
    BY <1>2, <1>b, <1>f DEF NextObject, Done, locs
  <2> QED
    BY <2>1, <2>2, <1>c, <1>d, <1>e DEF StreamTypeOK, tiles
<1>3. CASE NextPlacement
  <2> DEFINE step == readMapSmart(ptr)
             l == location + step.value - 1
             packed == At(step.ptr)
  <2>1. CASE step.value = 0 \/ step.ptr >= end
    <3>1. ptr' = step.ptr /\ phase' = "object" /\ UNCHANGED locs
      BY <1>3, <2>1 DEF NextPlacement
    <3> QED
      BY <3>1, <1>b, <1>c, <1>d, <1>e DEF StreamTypeOK, tiles, locs
  <2>2. CASE step.value # 0 /\ step.ptr < end
    <3>1. l \in Nat
      BY <1>b, <2>2 DEF StreamTypeOK
    <3>2. packed \in Byte
      BY <1>a, <1>b, <2>2, Reads DEF Byte
    <3>3. /\ ptr' = IF packed >= 128 THEN skipLocCustomization(step.ptr + 1) ELSE step.ptr + 1
          /\ location' = l
          /\ result' = IF OnGrid(l) THEN Append(result, Placed(l, packed)) ELSE result
          /\ UNCHANGED <<stream, phase, incr, objectId, tiles>>
      BY <1>3, <1>a, <1>b, <2>2 DEF NextPlacement, end
    <3>4. ptr' \in Nat
      <4>1. step.ptr + 1 \in Nat
        BY <1>b
      <4>2. skipLocCustomization(step.ptr + 1) \in Nat
        BY <4>1, <1>a, Customization
      <4> QED
        BY <3>3, <4>1, <4>2
    <3>5. result' \in Seq(Placement)
      <4>1. OnGrid(l) => Placed(l, packed) \in Placement
        BY <3>1, <3>2, PlacementsOnGrid DEF StreamTypeOK
      <4> HIDE DEF l, packed
      <4> QED
        BY <3>3, <4>1 DEF StreamTypeOK
    <3> QED
      BY <3>1, <3>3, <3>4, <3>5, <1>c, <1>d, <1>e DEF StreamTypeOK, tiles
  <2> QED
    BY <2>1, <2>2, <1>a, <1>b DEF end
<1> QED
  BY <1>1, <1>2, <1>3

\* Decoding tiles leaves the placements alone.
LEMMA TerrainSteps ==
  StreamTypeOK /\ (Tile \/ TerrainDone \/ Overlay \/ Rule \/ Underlay) => StreamTypeOK'
<1> SUFFICES ASSUME StreamTypeOK, Tile \/ TerrainDone \/ Overlay \/ Rule \/ Underlay PROVE StreamTypeOK'
  OBVIOUS
<1>a. data \in Seq(Byte) /\ ptr \in Nat /\ end \in Nat /\ tile \in Nat
  BY DEF StreamTypeOK, end
<1>b. \A p \in Nat : p < end => At(p) \in Byte
  BY <1>a, Reads DEF Byte
<1>c. stream' = stream /\ data' = data
  BY DEF Tile, TerrainDone, Overlay, Rule, Underlay, Done, data
<1>d. UNCHANGED locs
  BY DEF Tile, TerrainDone, Overlay, Rule, Underlay, Done
<1>e. Tiles' = Tiles /\ Placement' = Placement
  BY DEF Tiles, Placement
<1>f. \A p \in Nat : readMapSmart(p).value \in 0 .. Sentinel /\ readMapSmart(p).ptr \in Nat
  BY <1>a, MapSmarts
<1>1. CASE Tile
  BY <1>1, <1>a, <1>b, <1>c, <1>d, <1>e DEF StreamTypeOK, Tile, locs
<1>2. CASE TerrainDone
  BY <1>2, <1>a, <1>c, <1>d, <1>e DEF StreamTypeOK, TerrainDone, Done, locs, tiles
<1>3. CASE Overlay
  <2>1. overlayIds' \in [Tiles -> 0 .. Sentinel]
    <3>1. readMapSmart(ptr + 1).value \in 0 .. Sentinel
      BY <1>a, <1>f
    <3>2. overlayIds' \in {overlayIds, [overlayIds EXCEPT ![tile] = readMapSmart(ptr + 1).value]}
      BY <1>3 DEF Overlay, Done, tiles
    <3> QED
      BY <3>1, <3>2 DEF StreamTypeOK
  <2>2. ptr' \in Nat /\ phase' \in {"rule", "done"} /\ UNCHANGED <<tile, streamFlags, renderRules>>
    BY <1>3, <1>a, <1>f DEF Overlay, Done, tiles
  <2>3. tile \in Tiles
    BY <1>3 DEF StreamTypeOK, Overlay
  <2> QED
    BY <2>1, <2>2, <2>3, <1>c, <1>d, <1>e DEF StreamTypeOK, locs
<1>4. CASE Rule
  <2>1. renderRules' \in [Tiles -> Byte]
    BY <1>4, <1>a, <1>b DEF StreamTypeOK, Rule, Done, tiles
  <2>2. ptr' \in Nat /\ phase' \in {"underlay", "done"} /\ UNCHANGED <<tile, streamFlags, overlayIds>>
    BY <1>4, <1>a DEF Rule, Done, tiles
  <2>3. tile \in Tiles
    BY <1>4 DEF StreamTypeOK, Rule
  <2> QED
    BY <2>1, <2>2, <2>3, <1>c, <1>d, <1>e DEF StreamTypeOK, locs
<1>5. CASE Underlay
  <2>1. ptr' \in Nat /\ phase' \in {"tile", "done"} /\ tile' \in Nat
    BY <1>5, <1>a, <1>f DEF Underlay, Done, tiles
  <2>2. UNCHANGED <<streamFlags, overlayIds, renderRules>>
    BY <1>5 DEF Underlay, Done, tiles
  <2> QED
    BY <2>1, <2>2, <1>c, <1>d, <1>e DEF StreamTypeOK, locs
<1> QED
  BY <1>1, <1>2, <1>3, <1>4, <1>5

LEMMA NextTypes == StreamTypeOK /\ [StreamNext]_streamVars => StreamTypeOK'
<1>1. StreamTypeOK /\ UNCHANGED streamVars => StreamTypeOK'
  BY DEF streamVars, locs, tiles, StreamTypeOK, data, Tiles, Placement
<1> QED
  BY <1>1, PlacementSteps, TerrainSteps DEF StreamNext

\* decodeLocationData hands out placements that lie on the grid, and
\* decodeMapTerrain fills each tile with values of its fields, whatever the file
\* holds and wherever it ends.
THEOREM DecodedFitsGrid == StreamSpec => []StreamTypeOK
<1> QED
  BY InitTypes, NextTypes, PTL DEF StreamSpec

-----------------------------------------------------------------------------
(* Cut files.  What a decoder knows while it is in the part that is there:     *)
(* which piece, or which part of which tile, comes next, and that what it has    *)
(* so far is the file's.  Behind the cut it reads nothing any more.               *)

\* Where no value can be read, a reader answers 0 and stays.
Stuck(p) == readMapSmart(p) = Read(0, p)

\* The first n placements of the file.
FirstKept(n) ==
  /\ Len(result) = n /\ n <= Len(source.there)
  /\ \A i \in 1 .. n : result[i] = source.there[i].what

AtPiece(k) ==
  LET q == source.pieces[k] IN
  /\ ptr = q.at /\ ptr <= end /\ FirstKept(q.kept)
  /\ \/ /\ q.kind \in {"more", "object", "last"} /\ phase = "object"
        /\ objectId = q.base /\ incr = q.id - q.base
     \/ /\ q.kind \in {"placement", "close"} /\ phase = "placement"
        /\ objectId = q.id /\ location = q.location /\ incr = 0

\* All placements that are there have been decoded.
AllKept ==
  /\ FirstKept(Len(result))
  /\ \A i \in 1 .. Len(source.there) : source.there[i].end <= end <=> i <= Len(result)

NoMorePieces ==
  /\ phase \in {"object", "placement", "done"} /\ AllKept
  /\ phase # "done" => Stuck(ptr)
  /\ phase = "placement" => incr = 0

PlacementsSoFar ==
  stream.file = "locations" => NoMorePieces \/ \E k \in 1 .. Len(source.pieces) : AtPiece(k)

-----------------------------------------------------------------------------
\* With the overlays o and the rules r, a tile has what the file has, or nothing.
Own(t, o, r) == o[t] = source.tiles[t].overlay /\ r[t] = source.tiles[t].rule
Blank(t, o, r) == o[t] = 0 /\ r[t] = 0

\* The tiles before one are the file's, and those behind it have not been reached.
UpTo(u, o, r) ==
  /\ \A t \in Tiles : t < u => Own(t, o, r)
  /\ \A t \in Tiles : t > u => Blank(t, o, r)

\* The parts of a tile, in front of which the decoder may be.
AtPart(t, o, r) ==
  LET b == source.bytes
      p == source.tiles[t].at
  IN  \/ phase = "tile" /\ ptr = p /\ Blank(t, o, r)
      \/ phase = "overlay" /\ ptr = p + 1 /\ Blank(t, o, r)
      \/ /\ phase = "rule" /\ ptr = RulePlace(b, p)
         /\ o[t] = source.tiles[t].overlay /\ r[t] = 0
      \/ phase = "underlay" /\ ptr = UnderlayPlace(b, p) /\ Own(t, o, r)

InTile ==
  /\ tile \in Tiles /\ UpTo(tile, overlayIds, renderRules) /\ ptr <= end
  /\ phase # "tile" => streamFlags = source.bytes[source.tiles[tile].at + 1]
  /\ AtPart(tile, overlayIds, renderRules)

\* Half an overlay's id is left, to be read as the rule.
InHalf ==
  LET b == source.bytes
      p == source.tiles[tile].at
  IN  /\ tile \in Tiles
      /\ UpTo(tile, overlayIds, renderRules) /\ Blank(tile, overlayIds, renderRules)
      /\ phase = "rule" /\ streamFlags = b[p + 1]
      /\ HasBit(b[p + 1], 1) /\ IsLong(b, p + 2)
      /\ ptr = p + 2 /\ end = p + 3

\* What TilesAreTheirOwn says of a tile.
Settled(t, o, r) ==
  LET b == source.bytes
      w == source.tiles[t]
  IN  /\ o[t] \in {0, w.overlay}
      /\ r[t] \in {0, w.rule} \cup HalfId(b, w.at)
      /\ end >= AfterTile(b, w.at) => o[t] = w.overlay /\ r[t] = w.rule
      /\ end <= w.at => o[t] = 0 /\ r[t] = 0

AllSettled(o, r) == \A t \in Tiles : Settled(t, o, r)

\* Nothing is left, or half an id that no part of a tile is read from.
HalfLeft(p) == p + 1 = end /\ At(p) >= 128

NoMoreTiles ==
  /\ AllSettled(overlayIds, renderRules)
  /\ \/ phase = "done"
     \/ phase \in {"tile", "overlay", "rule", "underlay"} /\ ptr >= end
     \/ phase = "tile" /\ tile \notin Tiles
     \/ phase \in {"tile", "underlay"} /\ HalfLeft(ptr)

TilesSoFar ==
  stream.file = "terrain" /\ end >= HeaderSize => InTile \/ InHalf \/ NoMoreTiles

CutInv == stream \in Streams /\ StreamTypeOK /\ PlacementsSoFar /\ TilesSoFar

\* The bytes of a stream are those its file begins with.
LEMMA CutOfSource ==
  ASSUME stream \in Streams
  PROVE  /\ source.bytes \in Seq(Byte) /\ data \in Seq(Byte)
         /\ end \in Nat /\ Len(source.bytes) \in Nat /\ end <= Len(source.bytes)
         /\ \A p \in Nat : p < end => At(p) = source.bytes[p + 1]
         /\ stream.file = "locations" => FileOfPlacements(source)
         /\ stream.file = "terrain" => FileOfTerrain(source)
<1>1. stream.id \in DOMAIN Sources /\ stream.file = source.file
  BY SourcesAssumption DEF source
<1>2. PICK cut \in 0 .. Len(source.bytes) : data = SubSeq(source.bytes, 1, cut)
  BY SourcesAssumption DEF source, data
<1>3. \/ source.file = "locations" /\ FileOfPlacements(source)
      \/ source.file = "terrain" /\ FileOfTerrain(source)
  BY <1>1, SourcesAssumption DEF source
<1>4. source.bytes \in Seq(Byte)
  BY <1>3 DEF FileOfPlacements, FileOfTerrain
<1>5. Len(source.bytes) \in Nat
  BY <1>4
<1>6. data \in Seq(Byte) /\ Len(data) = cut /\ \A i \in 1 .. cut : data[i] = source.bytes[i]
  BY <1>2, <1>4, <1>5
<1> QED
  BY <1>1, <1>3, <1>4, <1>5, <1>6 DEF end, At

LEMMA ByteAt ==
  ASSUME NEW b \in Seq(Byte), NEW p \in Nat, p < Len(b)
  PROVE  b[p + 1] \in 0 .. 255
<1>1. p + 1 \in 1 .. Len(b)
  OBVIOUS
<1>2. b[p + 1] \in Byte
  BY <1>1
<1> QED
  BY <1>2 DEF Byte

\* The value of two bytes, of which the first has its highest bit.
TwoBytesOf(x, y) == 256 * x + y - 32768

LEMMA TwoBytes ==
  ASSUME NEW x \in 0 .. 255, NEW y \in 0 .. 255, ~(x < 128)
  PROVE  256 * (x - 128) + y = TwoBytesOf(x, y) /\ TwoBytesOf(x, y) \in 0 .. Sentinel
<1>1. 256 * (x - 128) + y = TwoBytesOf(x, y)
  BY DEF TwoBytesOf
<1>2. PICK z \in Int : z = 256 * (x - 128) + y
  OBVIOUS
<1>3. Sentinel \in Int /\ 0 <= z /\ z <= Sentinel
  BY <1>2 DEF Sentinel
<1>4. z \in 0 .. Sentinel
  BY <1>3
<1>5. TwoBytesOf(x, y) = z
  BY Zenon, <1>1, <1>2
<1> QED
  BY Zenon, <1>1, <1>4, <1>5

\* A value of the file is read if all of it is there, and nothing otherwise.
LEMMA SmartIsRead ==
  ASSUME stream \in Streams, NEW p \in Nat, HasSmart(source.bytes, p)
  PROVE  /\ SmartOf(source.bytes, p) \in 0 .. Sentinel
         /\ AfterSmart(source.bytes, p) \in {p + 1, p + 2}
         /\ AfterSmart(source.bytes, p) <= end =>
              readMapSmart(p) = Read(SmartOf(source.bytes, p), AfterSmart(source.bytes, p))
         /\ ~(AfterSmart(source.bytes, p) <= end) => Stuck(p)
<1> DEFINE b == source.bytes
<1>1. /\ b \in Seq(Byte) /\ end \in Nat /\ Len(b) \in Nat /\ end <= Len(b)
      /\ \A i \in Nat : i < end => At(i) = b[i + 1]
  BY CutOfSource
<1> HIDE DEF b
<1>2. PICK x \in 0 .. 255 : x = b[p + 1]
  BY <1>1, ByteAt DEF HasSmart, b
<1>3. CASE x < 128
  <2>1. SmartOf(b, p) = x /\ AfterSmart(b, p) = p + 1
    BY <1>2, <1>3 DEF SmartOf, AfterSmart, IsLong
  <2>2. p < end => readMapSmart(p) = Read(x, p + 1)
    BY <1>1, <1>2, <1>3 DEF readMapSmart
  <2>3. ~(p < end) => Stuck(p)
    BY <1>1 DEF readMapSmart, Stuck
  <2> QED
    BY <1>1, <2>1, <2>2, <2>3 DEF Sentinel, b
<1>4. CASE ~(x < 128)
  <2>1. AfterSmart(b, p) = p + 2 /\ p + 1 < Len(b)
    BY <1>1, <1>2, <1>4 DEF AfterSmart, IsLong, HasSmart, b
  <2>2. PICK y \in 0 .. 255 : y = b[p + 2]
    <3>1. b[(p + 1) + 1] \in 0 .. 255
      BY <1>1, <2>1, ByteAt
    <3>2. (p + 1) + 1 = p + 2
      OBVIOUS
    <3> QED
      BY <3>1, <3>2
  <2>3. SmartOf(b, p) = 256 * (x - 128) + y
    BY <1>2, <1>4, <2>2 DEF SmartOf, IsLong
  <2>4. SmartOf(b, p) = TwoBytesOf(x, y) /\ TwoBytesOf(x, y) \in 0 .. Sentinel
    <3>1. x \in 0 .. 255 /\ y \in 0 .. 255 /\ ~(x < 128)
      BY <1>2, <1>4, <2>2
    <3> QED
      BY <2>3, <3>1, TwoBytes
  <2>5. p + 1 < end => readMapSmart(p) = Read(TwoBytesOf(x, y), p + 2)
    <3> SUFFICES ASSUME p + 1 < end PROVE readMapSmart(p) = Read(TwoBytesOf(x, y), p + 2)
      OBVIOUS
    <3>1. At(p) = x /\ At(p + 1) = y
      <4>1. p < end /\ (p + 1) + 1 = p + 2
        BY <1>1
      <4> QED
        BY <4>1, <1>1, <1>2, <2>2
    <3> QED
      BY <1>1, <1>4, <3>1 DEF readMapSmart, TwoBytesOf
  <2>6. ~(p + 1 < end) => Stuck(p)
    BY <1>1, <1>2, <1>4 DEF readMapSmart, Stuck
  <2> QED
    <3>1. AfterSmart(b, p) <= end <=> p + 1 < end
      BY <1>1, <2>1
    <3> QED
      BY <2>1, <2>4, <2>5, <2>6, <3>1 DEF b
<1> QED
  BY <1>3, <1>4

-----------------------------------------------------------------------------
(* What a location and the flags of a customization stand for.               *)

LEMMA Quotients ==
  ASSUME NEW m \in Nat \ {0}, NEW a \in Nat, NEW r \in 0 .. m - 1
  PROVE  (a * m + r) \div m = a /\ (a * m + r) % m = r
<1> DEFINE n == a * m + r
           q == n \div m
<1>1. n \in Nat
  OBVIOUS
<1>2. q \in Int /\ n % m \in 0 .. m - 1 /\ n = m * q + (n % m)
  <2> HIDE DEF n
  <2> QED
    BY <1>1
<1>3. q = a
  <2>1. q < a + 1
    <3> SUFFICES ASSUME q >= a + 1 PROVE FALSE
      BY <1>2
    <3>1. m * q >= m * (a + 1)
      <4> HIDE DEF q
      <4> QED
        BY <1>2
    <3> QED
      BY <3>1, <1>2
  <2>2. q > a - 1
    <3> SUFFICES ASSUME q <= a - 1 PROVE FALSE
      BY <1>2
    <3>1. m * q <= m * (a - 1)
      <4> HIDE DEF q
      <4> QED
        BY <1>2
    <3> QED
      BY <3>1, <1>2
  <2> QED
    BY <1>2, <2>1, <2>2
<1> QED
  BY <1>2, <1>3

LEMMA Below ==
  ASSUME NEW m \in Nat \ {0}, NEW a \in Nat, NEW l \in Nat
  PROVE  l \div m < a <=> l < a * m
<1> DEFINE q == l \div m
<1>1. q \in Nat /\ l % m \in 0 .. m - 1 /\ l = m * q + (l % m)
  OBVIOUS
<1> HIDE DEF q
<1>2. ASSUME q < a PROVE l < a * m
  <2>1. m * (q + 1) <= m * a
    BY <1>1, <1>2
  <2> QED
    BY <1>1, <2>1
<1>3. ASSUME ~(q < a) PROVE ~(l < a * m)
  <2>1. m * q >= m * a
    BY <1>1, <1>3
  <2> QED
    BY <1>1, <2>1
<1> QED
  BY <1>2, <1>3 DEF q

\* A location is on the grid if it is below the number of columns of all planes.
LEMMA Grid ==
  ASSUME NEW l \in Nat
  PROVE  OnGrid(l) <=> l < PLANES * SIZE * SIZE
<1>1. SIZE \in Nat \ {0} /\ PLANES \in Nat \ {0}
  BY StreamAssumption
<1> DEFINE area == SIZE * SIZE
<1>2. area \in Nat \ {0} /\ PLANES * SIZE * SIZE = PLANES * area
  BY <1>1
<1> HIDE DEF area
<1>3. l \div area < PLANES <=> l < PLANES * area
  BY <1>1, <1>2, Below
<1> QED
  BY <1>2, <1>3 DEF OnGrid, PlaneOf, area

\* The numbering of the grid is undone by a division for each coordinate.
LEMMA Coordinates ==
  ASSUME NEW what, NEW l, StandsAt(what, l)
  PROVE  /\ l \in Nat
         /\ PlaneOf(l) = what.plane /\ LocalX(l) = what.localX /\ LocalY(l) = what.localY
<1>1. SIZE \in Nat \ {0}
  BY StreamAssumption
<1>2. PICK p \in Nat, x \in 0 .. SIZE - 1, y \in 0 .. SIZE - 1 :
        what.plane = p /\ what.localX = x /\ what.localY = y
  BY DEF StandsAt
<1> DEFINE column == p * SIZE + x
           area == SIZE * SIZE
           inside == x * SIZE + y
<1>3. column \in Nat /\ column \div SIZE = p /\ column % SIZE = x
  <2>1. p \in Nat /\ x \in 0 .. SIZE - 1
    BY <1>2
  <2> QED
    BY <1>1, <2>1, Quotients
<1>4. l = column * SIZE + y
  BY <1>2 DEF StandsAt
<1>5. l \div SIZE = column /\ l % SIZE = y /\ l \in Nat
  <2>1. column \in Nat /\ y \in 0 .. SIZE - 1
    BY <1>2, <1>3
  <2> HIDE DEF column
  <2>2. (column * SIZE + y) \div SIZE = column /\ (column * SIZE + y) % SIZE = y
    BY <1>1, <2>1, Quotients
  <2>3. column * SIZE + y \in Nat
    BY <1>1, <2>1
  <2> QED
    BY <1>4, <2>2, <2>3
<1>6. l = p * area + inside
  <2>1. (p * SIZE + x) * SIZE + y = p * (SIZE * SIZE) + (x * SIZE + y)
    BY <1>1, <1>2
  <2> QED
    BY <2>1, <1>4
<1>7. area \in Nat \ {0} /\ inside \in 0 .. area - 1
  <2>1. x * SIZE <= (SIZE - 1) * SIZE
    BY <1>1, <1>2
  <2> QED
    BY <1>1, <1>2, <2>1
<1>8. l \div area = p
  <2> HIDE DEF area, inside
  <2> QED
    BY <1>2, <1>6, <1>7, Quotients
<1> QED
  BY <1>2, <1>3, <1>5, <1>8 DEF PlaneOf, LocalX, LocalY

\* The else of skipLocCustomization counts what the flags name.
LEMMA CustomBytesAreSkipped ==
  \A flags \in 0 .. 255 : CustomBytes(flags) \in Nat /\ CustomizationLength(flags) = CustomBytes(flags)
<1> SUFFICES ASSUME NEW flags \in 0 .. 255
             PROVE  CustomBytes(flags) \in Nat /\ CustomizationLength(flags) = CustomBytes(flags)
  OBVIOUS
<1>1. \A w \in {1, 2, 4, 8, 16, 32, 64, 128} :
         /\ FlagBit(flags, w) \in {0, 1}
         /\ HasBit(flags, w) <=> FlagBit(flags, w) = 1
  BY Bits, flags \in Nat DEF HasBit, FlagBit
<1> QED
  BY <1>1 DEF CustomBytes, CustomizationLength

-----------------------------------------------------------------------------
(* Files of placements: where the placements end, seen from a piece.         *)

There == [end : Nat, what : [objectId : Int, plane : Nat, localX : Nat, localY : Nat,
                             shape : Nat, rotation : Nat]]

LEMMA PiecesAndPlacements ==
  ASSUME NEW f, FileOfPlacements(f)
  PROVE  /\ f.bytes \in Seq(Byte) /\ Len(f.bytes) \in Nat
         /\ Len(f.pieces) \in Nat \ {0} /\ Len(f.there) \in Nat
         /\ \A k \in 1 .. Len(f.pieces) :
              f.pieces[k] \in Piece /\ HasSmart(f.bytes, f.pieces[k].at)
         /\ \A i \in 1 .. Len(f.there) : f.there[i] \in There
<1>1. f.bytes \in Seq(Byte) /\ f.pieces \in Seq(Piece) /\ f.there \in Seq(There)
  BY DEF FileOfPlacements, There
<1>2. Len(f.pieces) > 0 /\ \A k \in 1 .. Len(f.pieces) : HasSmart(f.bytes, f.pieces[k].at)
  BY DEF FileOfPlacements
<1>3. \A k \in 1 .. Len(f.pieces) : f.pieces[k] \in Piece
  BY <1>1
<1>4. \A i \in 1 .. Len(f.there) : f.there[i] \in There
  BY <1>1
<1> QED
  BY <1>1, <1>2, <1>3, <1>4

LEMMA SmartSize ==
  ASSUME NEW b, NEW p \in Nat
  PROVE  AfterSmart(b, p) \in Nat /\ AfterSmart(b, p) > p
BY DEF AfterSmart

\* The placement that a piece adds ends within the piece.
Adds(f, q, r) ==
  \/ r.kept = q.kept
  \/ /\ r.kept = q.kept + 1 /\ r.kept <= Len(f.there)
     /\ f.there[r.kept].end = AfterSmart(f.bytes, q.at) + 1
     /\ f.there[r.kept].end <= r.at

LEMMA PackedSize ==
  ASSUME NEW b \in Seq(Byte), NEW p \in Nat, p < Len(b), AfterPacked(b, p) <= Len(b)
  PROVE  AfterPacked(b, p) \in Nat /\ AfterPacked(b, p) > p
<1>1. CASE b[p + 1] >= 128
  <2>1. AfterPacked(b, p) = p + 2 + CustomBytes(b[p + 2])
    BY <1>1 DEF AfterPacked
  <2>2. CustomBytes(b[p + 2]) \in Nat
    BY DEF CustomBytes
  <2> QED
    BY <2>1, <2>2
<1>2. CASE ~(b[p + 1] >= 128)
  BY <1>2 DEF AfterPacked
<1> QED
  BY <1>1, <1>2

LEMMA PieceStep ==
  ASSUME NEW f, FileOfPlacements(f), NEW k \in 1 .. Len(f.pieces), k # Len(f.pieces)
  PROVE  /\ k + 1 \in 1 .. Len(f.pieces)
         /\ f.pieces[k + 1].at >= AfterSmart(f.bytes, f.pieces[k].at)
         /\ Adds(f, f.pieces[k], f.pieces[k + 1])
         /\ \/ MorePiece(f.bytes, f.pieces[k], f.pieces[k + 1])
            \/ ObjectPiece(f.bytes, f.pieces[k], f.pieces[k + 1])
            \/ PlacementPiece(f, f.pieces[k], f.pieces[k + 1])
            \/ ClosePiece(f.bytes, f.pieces[k], f.pieces[k + 1])
<1> DEFINE q == f.pieces[k]
           r == f.pieces[k + 1]
<1>1. k \in 1 .. Len(f.pieces) - 1 /\ k + 1 \in 1 .. Len(f.pieces)
  BY PiecesAndPlacements
<1>2. \/ MorePiece(f.bytes, q, r) \/ ObjectPiece(f.bytes, q, r)
      \/ PlacementPiece(f, q, r) \/ ClosePiece(f.bytes, q, r)
  BY <1>1 DEF FileOfPlacements
<1>3. q \in Piece /\ r \in Piece /\ f.bytes \in Seq(Byte)
  BY <1>1, PiecesAndPlacements
<1>4. q.at \in Nat /\ q.kept \in Nat
  BY <1>3 DEF Piece
<1> HIDE DEF q, r
<1>5. AfterSmart(f.bytes, q.at) \in Nat
  BY <1>4, SmartSize
<1>6. r.at >= AfterSmart(f.bytes, q.at) /\ Adds(f, q, r)
  <2>1. CASE MorePiece(f.bytes, q, r)
    BY <1>5, <2>1 DEF MorePiece, Adds
  <2>2. CASE ObjectPiece(f.bytes, q, r)
    BY <1>5, <2>2 DEF ObjectPiece, Adds
  <2>3. CASE ClosePiece(f.bytes, q, r)
    BY <1>5, <2>3 DEF ClosePiece, Adds
  <2>4. CASE PlacementPiece(f, q, r)
    <3> DEFINE packed == AfterSmart(f.bytes, q.at)
    <3>1. r.at = AfterPacked(f.bytes, packed) /\ packed < Len(f.bytes) /\ r.at <= Len(f.bytes)
      BY <2>4 DEF PlacementPiece
    <3>2. r.at \in Nat /\ r.at > packed
      BY <1>3, <1>5, <3>1, PackedSize
    <3>3. \/ r.kept = q.kept
          \/ /\ r.kept = q.kept + 1 /\ r.kept <= Len(f.there)
             /\ f.there[r.kept].end = packed + 1
      BY <2>4 DEF PlacementPiece
    <3> QED
      BY <1>5, <3>2, <3>3 DEF Adds
  <2> QED
    BY <1>2, <2>1, <2>2, <2>3, <2>4
<1> QED
  BY <1>1, <1>2, <1>6 DEF q, r

\* The placements counted at a piece end before it.
Behind(f, k) ==
  /\ f.pieces[k].kept <= Len(f.there)
  /\ \A i \in 1 .. Len(f.there) : i <= f.pieces[k].kept => f.there[i].end <= f.pieces[k].at

LEMMA AllBehind ==
  ASSUME NEW f, FileOfPlacements(f)
  PROVE  \A k \in 1 .. Len(f.pieces) : Behind(f, k)
<1> DEFINE S == {k \in 1 .. Len(f.pieces) : ~Behind(f, k)}
<1> SUFFICES ASSUME S # {} PROVE FALSE
  OBVIOUS
<1>0. /\ Len(f.pieces) \in Nat \ {0} /\ Len(f.there) \in Nat
      /\ \A k \in 1 .. Len(f.pieces) : f.pieces[k] \in Piece
      /\ \A i \in 1 .. Len(f.there) : f.there[i] \in There
  BY PiecesAndPlacements
<1>1. PICK k \in S : \A m \in S : k <= m
  <2>1. S \in SUBSET Nat
    BY <1>0
  <2> HIDE DEF S
  <2> QED
    BY <2>1, LeastExists
<1>2. k # 1
  <2> SUFFICES ASSUME k = 1 PROVE Behind(f, k)
    BY <1>1
  <2>1. f.pieces[k].kept = 0
    BY DEF FileOfPlacements
  <2> QED
    BY <1>0, <2>1 DEF Behind
<1>3. /\ k - 1 \in 1 .. Len(f.pieces) /\ k - 1 # Len(f.pieces) /\ (k - 1) + 1 = k
      /\ k \in 1 .. Len(f.pieces) /\ ~Behind(f, k)
  BY <1>0, <1>1, <1>2
<1>4. Behind(f, k - 1)
  BY <1>0, <1>1, <1>3
<1>5. /\ f.pieces[k].at >= AfterSmart(f.bytes, f.pieces[k - 1].at)
      /\ Adds(f, f.pieces[k - 1], f.pieces[k])
  <2> DEFINE j == k - 1
  <2>1. j + 1 = k /\ j \in 1 .. Len(f.pieces) /\ j # Len(f.pieces)
    BY <1>3
  <2> HIDE DEF j
  <2>2. /\ f.pieces[j + 1].at >= AfterSmart(f.bytes, f.pieces[j].at)
        /\ Adds(f, f.pieces[j], f.pieces[j + 1])
    BY <2>1, PieceStep
  <2>3. /\ f.pieces[k].at >= AfterSmart(f.bytes, f.pieces[j].at)
        /\ Adds(f, f.pieces[j], f.pieces[k])
    BY <2>1, <2>2
  <2> QED
    BY <2>3 DEF j
<1> DEFINE q == f.pieces[k - 1]
           r == f.pieces[k]
<1>6. q.at \in Nat /\ r.at \in Nat /\ q.kept \in Nat /\ r.kept \in Nat
  BY <1>0, <1>3 DEF Piece
<1>7. r.at > q.at
  BY <1>5, <1>6, SmartSize
<1>8. q.kept <= Len(f.there) /\ \A i \in 1 .. Len(f.there) : i <= q.kept => f.there[i].end <= q.at
  BY <1>4 DEF Behind
<1>9. \A i \in 1 .. Len(f.there) : f.there[i].end \in Nat
  BY <1>0 DEF There
<1>10. Adds(f, q, r) /\ ~Behind(f, k)
  BY <1>3, <1>5
<1>11. ~(r.kept <= Len(f.there) /\ \A i \in 1 .. Len(f.there) : i <= r.kept => f.there[i].end <= r.at)
  BY <1>10 DEF Behind
<1> HIDE DEF q, r
<1> QED
  <2>1. r.kept <= Len(f.there)
    BY <1>6, <1>8, <1>10 DEF Adds
  <2>2. PICK i \in 1 .. Len(f.there) : i <= r.kept /\ ~(f.there[i].end <= r.at)
    BY <1>11, <2>1
  <2>3. i \in Nat /\ f.there[i].end \in Nat
    BY <1>9, <2>2
  <2>4. ~(i <= q.kept)
    BY <1>6, <1>7, <1>8, <2>2, <2>3
  <2>5. r.kept = q.kept + 1 /\ f.there[r.kept].end <= r.at
    BY <1>6, <1>10, <2>2, <2>3, <2>4 DEF Adds
  <2>6. i = r.kept
    BY <1>6, <2>2, <2>3, <2>4, <2>5
  <2> QED
    BY <2>2, <2>5, <2>6

\* The others end behind the value that the piece begins with.
Ahead(f, k) ==
  \A i \in 1 .. Len(f.there) :
    i > f.pieces[k].kept => f.there[i].end > AfterSmart(f.bytes, f.pieces[k].at)

LEMMA AllAhead ==
  ASSUME NEW f, FileOfPlacements(f)
  PROVE  \A k \in 1 .. Len(f.pieces) : Ahead(f, k)
<1> DEFINE n == Len(f.pieces)
           S == {j \in 0 .. n - 1 : ~Ahead(f, n - j)}
<1>0. /\ n \in Nat \ {0} /\ Len(f.there) \in Nat
      /\ \A k \in 1 .. n : f.pieces[k] \in Piece
      /\ \A i \in 1 .. Len(f.there) : f.there[i] \in There
  BY PiecesAndPlacements
<1>a. ASSUME S = {} PROVE \A k \in 1 .. n : Ahead(f, k)
  <2> SUFFICES ASSUME NEW k \in 1 .. n PROVE Ahead(f, k)
    OBVIOUS
  <2>1. n - k \in 0 .. n - 1 /\ n - (n - k) = k
    BY <1>0
  <2>2. n - k \notin S
    BY <1>a
  <2> QED
    BY <2>1, <2>2
<1> SUFFICES ASSUME S # {} PROVE FALSE
  BY <1>a
<1>1. PICK j \in S : \A m \in S : j <= m
  <2>1. S \in SUBSET Nat
    BY <1>0
  <2> HIDE DEF S
  <2> QED
    BY <2>1, LeastExists
<1> DEFINE k == n - j
<1>2. j \in 0 .. n - 1 /\ ~Ahead(f, k)
  BY <1>1
<1>3. j # 0
  <2> SUFFICES ASSUME j = 0 PROVE FALSE
    OBVIOUS
  <2>1. k = Len(f.pieces)
    BY <1>0
  <2>2. f.pieces[k].kept = Len(f.there)
    BY <2>1 DEF FileOfPlacements
  <2> HIDE DEF k
  <2> QED
    BY <1>0, <1>2, <2>2 DEF Ahead
<1>4. /\ j - 1 \in 0 .. n - 1 /\ n - (j - 1) = k + 1
      /\ k \in 1 .. n /\ k # n
  BY <1>0, <1>2, <1>3
<1>5. Ahead(f, k + 1)
  <2>1. j - 1 \notin S
    <3> HIDE DEF S
    <3> QED
      BY <1>1, <1>2
  <2> HIDE DEF k
  <2> QED
    BY <1>4, <2>1
<1> HIDE DEF k
<1>6. /\ k + 1 \in 1 .. n
      /\ f.pieces[k + 1].at >= AfterSmart(f.bytes, f.pieces[k].at)
      /\ Adds(f, f.pieces[k], f.pieces[k + 1])
  BY <1>4, PieceStep
<1> DEFINE q == f.pieces[k]
           r == f.pieces[k + 1]
           a == AfterSmart(f.bytes, q.at)
           c == AfterSmart(f.bytes, r.at)
<1>7. q.at \in Nat /\ r.at \in Nat /\ q.kept \in Nat /\ r.kept \in Nat
  BY <1>0, <1>4, <1>6 DEF Piece
<1>8. a \in Nat /\ c \in Nat /\ c > r.at
  BY <1>7, SmartSize
<1>9. \A i \in 1 .. Len(f.there) : f.there[i].end \in Nat
  BY <1>0 DEF There
<1>10. \A i \in 1 .. Len(f.there) : i > r.kept => f.there[i].end > c
  BY <1>5 DEF Ahead
<1>11. r.at >= a
  BY <1>6
<1>12. r.kept = q.kept \/ (r.kept = q.kept + 1 /\ f.there[r.kept].end = a + 1)
  BY <1>6 DEF Adds
<1>13. ~\A i \in 1 .. Len(f.there) : i > q.kept => f.there[i].end > a
  BY <1>2 DEF Ahead
<1> HIDE DEF q, r, a, c
<1> QED
  <2>1. PICK i \in 1 .. Len(f.there) : i > q.kept /\ ~(f.there[i].end > a)
    BY <1>13
  <2>2. i \in Nat /\ f.there[i].end \in Nat
    BY <1>9, <2>1
  <2>3. ~(i > r.kept)
    <3>1. i > r.kept => f.there[i].end > c
      BY <1>10, <2>1
    <3>2. a < c
      BY <1>7, <1>8, <1>11
    <3>3. f.there[i].end <= a
      BY <1>8, <2>1, <2>2
    <3> QED
      BY <1>8, <2>2, <3>1, <3>2, <3>3
  <2>4. i = r.kept /\ f.there[r.kept].end = a + 1
    BY <1>7, <1>12, <2>1, <2>2, <2>3
  <2> QED
    BY <1>8, <2>1, <2>2, <2>4

-----------------------------------------------------------------------------
(* Placements: the steps of a cut file.                                      *)

LEMMA StuckAtEnd ==
  ASSUME NEW p, p >= end
  PROVE  Stuck(p)
BY DEF Stuck, readMapSmart

LEMMA StaysStuck ==
  ASSUME stream' = stream, NEW p, ptr' = p, Stuck(p)
  PROVE  Stuck(ptr)'
BY DEF Stuck, readMapSmart, Read, end, At, data

LEMMA StaysKept ==
  ASSUME stream' = stream, result' = result, NEW n, FirstKept(n)
  PROVE  FirstKept(n)'
BY DEF FirstKept, source

LEMMA StaysAllKept ==
  ASSUME stream' = stream, result' = result, AllKept
  PROVE  AllKept'
BY DEF AllKept, FirstKept, source, end, data

\* Behind the cut nothing is read: the decoder ends, at the latest after it has
\* looked for the placements of one more object.
LEMMA NothingIsAdded ==
  ASSUME StreamTypeOK, NoMorePieces, StreamNext
  PROVE  NoMorePieces'
<1>1. ptr \in Nat /\ (phase # "done" => Stuck(ptr))
  BY DEF StreamTypeOK, NoMorePieces
<1>2. phase # "done" => readMapSmart(ptr).value = 0 /\ readMapSmart(ptr).ptr = ptr
  BY <1>1 DEF Stuck, Read
<1>3. phase \in {"object", "placement", "done"} /\ AllKept
  BY DEF NoMorePieces
<1>4. CASE NextObject
  <2>1. ptr' = ptr /\ stream' = stream /\ result' = result
    BY <1>2, <1>3, <1>4 DEF NextObject, Done, locs
  <2>2. phase' = "done" \/ (phase' = "placement" /\ incr' = 0)
    BY <1>4 DEF NextObject, Done
  <2>3. phase # "done"
    BY <1>4 DEF NextObject
  <2> QED
    BY <1>1, <1>3, <2>1, <2>2, <2>3, StaysAllKept, StaysStuck DEF NoMorePieces
<1>5. CASE NextPlacement
  <2>1. phase = "placement" /\ readMapSmart(ptr).value = 0 /\ readMapSmart(ptr).ptr = ptr
    BY <1>2, <1>5 DEF NextPlacement
  <2>2. ptr' = ptr /\ phase' = "object" /\ stream' = stream /\ result' = result
    BY <1>5, <2>1 DEF NextPlacement, locs
  <2> QED
    BY <1>1, <1>3, <2>1, <2>2, StaysAllKept, StaysStuck DEF NoMorePieces
<1>6. ~MoreSentinels
  <2>1. 0 # Sentinel
    BY DEF Sentinel
  <2> QED
    BY <1>2, <2>1 DEF MoreSentinels
<1> QED
  BY <1>3, <1>4, <1>5, <1>6 DEF StreamNext, Tile, TerrainDone, Overlay, Rule, Underlay

\* Where the next value is not all there, or nothing is behind it, every placement
\* that is there has been decoded.
LEMMA AllKeptHere ==
  ASSUME stream \in Streams, stream.file = "locations", NEW k \in 1 .. Len(source.pieces),
         AtPiece(k), AfterSmart(source.bytes, source.pieces[k].at) >= end
  PROVE  AllKept
<1> DEFINE q == source.pieces[k]
           a == AfterSmart(source.bytes, q.at)
<1>1. FileOfPlacements(source) /\ end \in Nat
  BY CutOfSource
<1>2. /\ Len(source.there) \in Nat /\ q \in Piece
      /\ \A i \in 1 .. Len(source.there) : source.there[i] \in There
  BY <1>1, PiecesAndPlacements
<1>3. q.at \in Nat /\ q.kept \in Nat
  BY <1>2 DEF Piece
<1>4. a \in Nat
  BY <1>3, SmartSize
<1>5. \A i \in 1 .. Len(source.there) : source.there[i].end \in Nat
  BY <1>2 DEF There
<1>6. Behind(source, k) /\ Ahead(source, k)
  BY <1>1, AllBehind, AllAhead
<1>7. /\ \A i \in 1 .. Len(source.there) : i <= q.kept => source.there[i].end <= q.at
      /\ \A i \in 1 .. Len(source.there) : i > q.kept => source.there[i].end > a
  BY <1>6 DEF Behind, Ahead
<1>8. q.at <= end /\ FirstKept(q.kept)
  BY DEF AtPiece
<1>9. Len(result) = q.kept
  BY <1>8 DEF FirstKept
<1> HIDE DEF q, a
<1>10. ASSUME NEW i \in 1 .. Len(source.there)
       PROVE  source.there[i].end <= end <=> i <= Len(result)
  <2>1. i \in Nat /\ source.there[i].end \in Nat
    BY <1>2, <1>5
  <2>2. CASE i <= q.kept
    BY <1>1, <1>3, <1>7, <1>8, <1>9, <2>1, <2>2
  <2>3. CASE ~(i <= q.kept)
    <3>1. source.there[i].end > a
      BY <1>3, <1>7, <2>1, <2>3
    <3>2. a >= end
      BY DEF a, q
    <3> QED
      BY <1>1, <1>4, <1>9, <2>1, <2>3, <3>1, <3>2
  <2> QED
    BY <2>2, <2>3
<1> QED
  BY <1>8, <1>9, <1>10 DEF AllKept

LEMMA CutAtPiece ==
  ASSUME stream \in Streams, stream.file = "locations", NEW k \in 1 .. Len(source.pieces),
         AtPiece(k), ~(AfterSmart(source.bytes, source.pieces[k].at) <= end)
  PROVE  NoMorePieces
<1> DEFINE q == source.pieces[k]
           a == AfterSmart(source.bytes, q.at)
<1>1. FileOfPlacements(source) /\ end \in Nat
  BY CutOfSource
<1>2. q \in Piece /\ HasSmart(source.bytes, q.at)
  BY <1>1, PiecesAndPlacements
<1>3. q.at \in Nat /\ a \in Nat
  BY <1>2, SmartSize DEF Piece
<1>4. Stuck(q.at)
  BY <1>2, <1>3, SmartIsRead
<1>5. AllKept
  <2>1. a >= end
    <3>1. ~(a <= end)
      OBVIOUS
    <3> HIDE DEF a
    <3> QED
      BY <1>1, <1>3, <3>1
  <2> QED
    BY <2>1, AllKeptHere
<1> QED
  BY <1>4, <1>5 DEF NoMorePieces, AtPiece

\* The last piece, and only that one, is the zero behind the last object.
LEMMA LastPiece ==
  ASSUME NEW f, FileOfPlacements(f), NEW k \in 1 .. Len(f.pieces)
  PROVE  /\ f.pieces[k].kind = "last" <=> k = Len(f.pieces)
         /\ f.pieces[k].kind = "last" =>
              /\ f.pieces[k].id = f.pieces[k].base /\ f.pieces[k].kept = Len(f.there)
              /\ SmartOf(f.bytes, f.pieces[k].at) = 0
<1>0. Len(f.pieces) \in Nat \ {0} /\ f.pieces[Len(f.pieces)].kind = "last"
  BY PiecesAndPlacements DEF FileOfPlacements
<1>1. k # Len(f.pieces) => f.pieces[k].kind # "last"
  <2> SUFFICES ASSUME k # Len(f.pieces) PROVE f.pieces[k].kind # "last"
    OBVIOUS
  <2> QED
    BY PieceStep DEF MorePiece, ObjectPiece, PlacementPiece, ClosePiece
<1>2. ASSUME k = Len(f.pieces) PROVE f.pieces[k].id = f.pieces[k].base
  <2>1. CASE k = 1
    BY <2>1 DEF FileOfPlacements
  <2>2. CASE k # 1
    <3> DEFINE j == k - 1
    <3>1. j + 1 = k /\ j \in 1 .. Len(f.pieces) /\ j # Len(f.pieces)
      <4>1. k \in Nat /\ k > 1
        BY <1>0, <2>2
      <4> QED
        BY <1>0, <4>1, <1>2
    <3> HIDE DEF j
    <3>2. \/ MorePiece(f.bytes, f.pieces[j], f.pieces[k])
          \/ ObjectPiece(f.bytes, f.pieces[j], f.pieces[k])
          \/ PlacementPiece(f, f.pieces[j], f.pieces[k])
          \/ ClosePiece(f.bytes, f.pieces[j], f.pieces[k])
      <4>1. \/ MorePiece(f.bytes, f.pieces[j], f.pieces[j + 1])
            \/ ObjectPiece(f.bytes, f.pieces[j], f.pieces[j + 1])
            \/ PlacementPiece(f, f.pieces[j], f.pieces[j + 1])
            \/ ClosePiece(f.bytes, f.pieces[j], f.pieces[j + 1])
        BY <3>1, PieceStep
      <4> QED
        BY <3>1, <4>1
    <3>3. f.pieces[k].kind = "last"
      BY <1>0, <1>2
    <3> QED
      BY <3>2, <3>3 DEF MorePiece, ObjectPiece, PlacementPiece, ClosePiece
  <2> QED
    BY <2>1, <2>2
<1>3. ASSUME k = Len(f.pieces)
      PROVE  f.pieces[k].kept = Len(f.there) /\ SmartOf(f.bytes, f.pieces[k].at) = 0
  BY <1>3 DEF FileOfPlacements
<1> QED
  BY <1>0, <1>1, <1>2, <1>3

\* The decoder is at a piece whose value is all there.
WholeAt(k) ==
  /\ stream \in Streams /\ stream.file = "locations"
  /\ k \in 1 .. Len(source.pieces) /\ AtPiece(k)
  /\ AfterSmart(source.bytes, source.pieces[k].at) <= end

LEMMA ValueIsNumber ==
  ASSUME NEW v \in 0 .. Sentinel
  PROVE  v \in Nat
BY DEF Sentinel

LEMMA ValueAt ==
  ASSUME NEW k, WholeAt(k)
  PROVE  /\ FileOfPlacements(source) /\ end \in Nat
         /\ k \in 1 .. Len(source.pieces) /\ source.pieces[k] \in Piece
         /\ SmartOf(source.bytes, source.pieces[k].at) \in 0 .. Sentinel
         /\ AfterSmart(source.bytes, source.pieces[k].at) \in Nat
         /\ readMapSmart(ptr).value = SmartOf(source.bytes, source.pieces[k].at)
         /\ readMapSmart(ptr).ptr = AfterSmart(source.bytes, source.pieces[k].at)
<1> DEFINE q == source.pieces[k]
<1>1. FileOfPlacements(source) /\ end \in Nat /\ k \in 1 .. Len(source.pieces)
  BY CutOfSource DEF WholeAt
<1>2. q \in Piece /\ HasSmart(source.bytes, q.at)
  BY <1>1, PiecesAndPlacements
<1>3. q.at \in Nat /\ ptr = q.at
  BY <1>2 DEF Piece, WholeAt, AtPiece
<1>4. /\ SmartOf(source.bytes, q.at) \in 0 .. Sentinel
      /\ readMapSmart(q.at) = Read(SmartOf(source.bytes, q.at), AfterSmart(source.bytes, q.at))
  BY <1>2, <1>3, SmartIsRead DEF WholeAt
<1> QED
  BY <1>1, <1>2, <1>3, <1>4, SmartSize DEF Read

LEMMA MoreStep ==
  ASSUME NEW k, WholeAt(k), source.pieces[k].kind = "more", StreamNext
  PROVE  k + 1 \in 1 .. Len(source.pieces) /\ AtPiece(k + 1)'
<1> DEFINE q == source.pieces[k]
           r == source.pieces[k + 1]
<1>1. /\ FileOfPlacements(source) /\ k \in 1 .. Len(source.pieces)
      /\ k # Len(source.pieces) /\ q \in Piece
  BY ValueAt, LastPiece
<1>2. k + 1 \in 1 .. Len(source.pieces) /\ MorePiece(source.bytes, q, r)
  BY <1>1, PieceStep DEF ObjectPiece, PlacementPiece, ClosePiece
<1>3. readMapSmart(ptr).value = Sentinel /\ readMapSmart(ptr).ptr = r.at /\ r.at <= end
  BY <1>2, ValueAt DEF MorePiece, WholeAt
<1>4. phase = "object" /\ objectId = q.base /\ incr = q.id - q.base /\ FirstKept(q.kept)
  BY DEF WholeAt, AtPiece
<1>5. MoreSentinels
  BY <1>3, <1>4 DEF StreamNext, NextObject, NextPlacement, Tile, TerrainDone, Overlay, Rule, Underlay
<1>6. /\ stream' = stream /\ result' = result /\ phase' = "object"
      /\ ptr' = r.at /\ objectId' = q.base /\ incr' = q.id - q.base + Sentinel
  BY <1>3, <1>4, <1>5 DEF MoreSentinels
<1>7. FirstKept(r.kept)' /\ incr' = r.id - r.base /\ r.base = q.base /\ r.kind \in {"more", "object"}
  <2>1. r.id - r.base = q.id - q.base + Sentinel
    BY <1>1, <1>2 DEF MorePiece, Piece, Sentinel
  <2>2. FirstKept(r.kept)
    BY <1>2, <1>4 DEF MorePiece
  <2>3. FirstKept(r.kept)'
    BY <1>6, <2>2 DEF FirstKept, source
  <2> QED
    BY <1>2, <1>6, <2>1, <2>3 DEF MorePiece
<1> QED
  BY <1>2, <1>3, <1>6, <1>7 DEF AtPiece, source, end, data

LEMMA ObjectStep ==
  ASSUME NEW k, WholeAt(k), source.pieces[k].kind = "object", StreamNext
  PROVE  NoMorePieces' \/ (k + 1 \in 1 .. Len(source.pieces) /\ AtPiece(k + 1)')
<1> DEFINE q == source.pieces[k]
           r == source.pieces[k + 1]
<1>1. /\ FileOfPlacements(source) /\ k \in 1 .. Len(source.pieces) /\ end \in Nat
      /\ k # Len(source.pieces) /\ q \in Piece
  BY ValueAt, LastPiece
<1>2. k + 1 \in 1 .. Len(source.pieces) /\ ObjectPiece(source.bytes, q, r) /\ r \in Piece
  BY <1>1, PieceStep, PiecesAndPlacements DEF MorePiece, PlacementPiece, ClosePiece
<1> DEFINE value == SmartOf(source.bytes, q.at)
<1>3. /\ readMapSmart(ptr).value = value /\ readMapSmart(ptr).ptr = r.at /\ r.at <= end
      /\ value # Sentinel /\ value \in Int /\ r.at \in Nat
  BY <1>2, ValueAt DEF ObjectPiece, WholeAt
<1>4. phase = "object" /\ objectId = q.base /\ incr = q.id - q.base /\ FirstKept(q.kept)
  BY DEF WholeAt, AtPiece
<1> HIDE DEF value
<1>5. NextObject
  BY <1>3, <1>4 DEF StreamNext, MoreSentinels, NextPlacement, Tile, TerrainDone, Overlay, Rule, Underlay
<1>6. /\ incr + value = r.id - q.base /\ incr + value # 0
      /\ objectId + (incr + value) = r.id
  <2>1. q.id \in Int /\ q.base \in Int /\ r.id \in Int
    BY <1>1, <1>2 DEF Piece
  <2>2. r.id = q.id + value /\ r.id # q.base
    BY <1>2 DEF ObjectPiece, value
  <2> HIDE DEF q, r
  <2> QED
    BY <1>3, <1>4, <2>1, <2>2
<1>7. ptr' = r.at /\ stream' = stream /\ result' = result
  BY <1>3, <1>5 DEF NextObject, Done, locs
<1>8. CASE r.at >= end
  <2>1. AllKept
    BY <1>1, <1>2, <1>8, AllKeptHere DEF ObjectPiece, WholeAt
  <2>2. phase' = "done"
    BY <1>3, <1>5, <1>8 DEF NextObject, Done
  <2> QED
    BY <1>7, <2>1, <2>2, StaysAllKept DEF NoMorePieces
<1>9. CASE ~(r.at >= end)
  <2>1. /\ phase' = "placement" /\ incr' = 0 /\ location' = 0
        /\ objectId' = r.id
    BY <1>3, <1>5, <1>6, <1>9 DEF NextObject
  <2>2. FirstKept(r.kept)'
    BY <1>2, <1>4, <1>7 DEF ObjectPiece, FirstKept, source
  <2>3. r.kind \in {"placement", "close"} /\ r.location = 0
    BY <1>2 DEF ObjectPiece
  <2> QED
    BY <1>2, <1>3, <1>7, <2>1, <2>2, <2>3 DEF AtPiece, source, end, data
<1> QED
  BY <1>8, <1>9

LEMMA LastStep ==
  ASSUME NEW k, WholeAt(k), source.pieces[k].kind = "last", StreamNext
  PROVE  NoMorePieces'
<1> DEFINE q == source.pieces[k]
<1>1. /\ FileOfPlacements(source) /\ k \in 1 .. Len(source.pieces) /\ end \in Nat /\ q \in Piece
      /\ Len(source.there) \in Nat /\ \A i \in 1 .. Len(source.there) : source.there[i] \in There
  BY ValueAt, PiecesAndPlacements
<1>2. q.id = q.base /\ q.kept = Len(source.there) /\ SmartOf(source.bytes, q.at) = 0
  BY <1>1, LastPiece
<1>3. readMapSmart(ptr).value = 0
  BY <1>2, ValueAt
<1>4. phase = "object" /\ incr = 0 /\ FirstKept(q.kept) /\ q.at <= end
  <2>1. q.id \in Int
    BY <1>1 DEF Piece
  <2> QED
    BY <1>2, <2>1 DEF WholeAt, AtPiece
<1>5. NextObject
  <2>1. 0 # Sentinel
    BY DEF Sentinel
  <2> QED
    BY <1>3, <1>4, <2>1
    DEF StreamNext, MoreSentinels, NextPlacement, Tile, TerrainDone, Overlay, Rule, Underlay
<1>6. phase' = "done" /\ stream' = stream /\ result' = result
  BY <1>3, <1>4, <1>5 DEF NextObject, Done, locs
<1>7. AllKept
  <2>1. Behind(source, k) /\ q.at \in Nat
    BY <1>1, AllBehind DEF Piece
  <2>2. \A i \in 1 .. Len(source.there) : source.there[i].end <= q.at
    BY <1>1, <1>2, <2>1 DEF Behind
  <2>3. Len(result) = Len(source.there)
    BY <1>2, <1>4 DEF FirstKept
  <2>4. \A i \in 1 .. Len(source.there) : source.there[i].end <= end
    <3> TAKE i \in 1 .. Len(source.there)
    <3>1. source.there[i].end \in Nat /\ source.there[i].end <= q.at
      BY <1>1, <2>2 DEF There
    <3> QED
      BY <1>1, <1>4, <2>1, <3>1
  <2> QED
    BY <1>2, <1>4, <2>3, <2>4 DEF AllKept
<1> QED
  BY <1>6, <1>7, StaysAllKept DEF NoMorePieces

LEMMA CloseStep ==
  ASSUME NEW k, WholeAt(k), source.pieces[k].kind = "close", StreamNext
  PROVE  k + 1 \in 1 .. Len(source.pieces) /\ AtPiece(k + 1)'
<1> DEFINE q == source.pieces[k]
           r == source.pieces[k + 1]
<1>1. /\ FileOfPlacements(source) /\ k \in 1 .. Len(source.pieces)
      /\ k # Len(source.pieces) /\ q \in Piece
  BY ValueAt, LastPiece
<1>2. k + 1 \in 1 .. Len(source.pieces) /\ ClosePiece(source.bytes, q, r)
  BY <1>1, PieceStep DEF MorePiece, ObjectPiece, PlacementPiece
<1>3. readMapSmart(ptr).value = 0 /\ readMapSmart(ptr).ptr = r.at /\ r.at <= end
  BY <1>2, ValueAt DEF ClosePiece, WholeAt
<1>4. phase = "placement" /\ objectId = q.id /\ incr = 0 /\ FirstKept(q.kept)
  BY DEF WholeAt, AtPiece
<1>5. NextPlacement
  BY <1>4 DEF StreamNext, MoreSentinels, NextObject, Tile, TerrainDone, Overlay, Rule, Underlay
<1>6. /\ stream' = stream /\ result' = result /\ phase' = "object"
      /\ ptr' = r.at /\ objectId' = q.id /\ incr' = 0
  BY <1>3, <1>4, <1>5 DEF NextPlacement, locs
<1>7. FirstKept(r.kept)'
  BY <1>2, <1>4, <1>6 DEF ClosePiece, FirstKept, source
<1>8. r.kind \in {"more", "object", "last"} /\ r.base = q.id /\ r.id - r.base = 0
  <2>1. q.id \in Int
    BY <1>1 DEF Piece
  <2> QED
    BY <1>2, <2>1 DEF ClosePiece
<1> QED
  BY <1>2, <1>3, <1>6, <1>7, <1>8 DEF AtPiece, source, end, data

\* The placement of a piece is what the decoder makes of its bytes.
LEMMA PlacedIsThere ==
  ASSUME NEW e \in There, NEW l \in Nat, NEW packed, StandsAt(e.what, l),
         e.what = [e.what EXCEPT !.objectId = objectId, !.rotation = packed % 4,
                                 !.shape = (packed \div 4) % 32]
  PROVE  Placed(l, packed) = e.what
<1>1. /\ e.what.objectId = objectId /\ e.what.rotation = packed % 4
      /\ e.what.shape = (packed \div 4) % 32
  BY DEF There
<1>2. e.what.plane = PlaneOf(l) /\ e.what.localX = LocalX(l) /\ e.what.localY = LocalY(l)
  BY Coordinates
<1>3. e.what = [objectId |-> e.what.objectId, plane |-> e.what.plane, localX |-> e.what.localX,
                localY |-> e.what.localY, shape |-> e.what.shape, rotation |-> e.what.rotation]
  BY DEF There
<1> QED
  BY <1>1, <1>2, <1>3 DEF Placed

LEMMA Appended ==
  ASSUME NEW S, NEW s \in Seq(S), NEW x
  PROVE  /\ Len(Append(s, x)) = Len(s) + 1 /\ Append(s, x)[Len(s) + 1] = x
         /\ \A i \in 1 .. Len(s) : Append(s, x)[i] = s[i]
<1>1. s \in Seq(S \cup {x}) /\ x \in S \cup {x}
  OBVIOUS
<1> QED
  BY <1>1

\* A customization that is all there is skipped, and one that is not uses the file up.
LEMMA CustomizationIsSkipped ==
  ASSUME stream \in Streams, NEW p \in Nat, p < end, AfterPacked(source.bytes, p) <= Len(source.bytes),
         NEW next, next = IF source.bytes[p + 1] >= 128 THEN skipLocCustomization(p + 1) ELSE p + 1
  PROVE  /\ AfterPacked(source.bytes, p) \in Nat /\ next \in Nat
         /\ AfterPacked(source.bytes, p) <= end => next = AfterPacked(source.bytes, p)
         /\ ~(AfterPacked(source.bytes, p) <= end) => next >= end
<1> DEFINE b == source.bytes
<1>1. /\ b \in Seq(Byte) /\ end \in Nat /\ Len(b) \in Nat /\ end <= Len(b)
      /\ \A i \in Nat : i < end => At(i) = b[i + 1]
  BY CutOfSource
<1>2. CASE ~(b[p + 1] >= 128)
  <2>1. AfterPacked(b, p) = p + 1 /\ next = p + 1
    BY <1>2 DEF AfterPacked
  <2> QED
    BY <1>1, <2>1
<1>3. CASE b[p + 1] >= 128
  <2> DEFINE c == CustomBytes(b[p + 2])
  <2>1. AfterPacked(b, p) = p + 2 + c /\ next = skipLocCustomization(p + 1)
    BY <1>3 DEF AfterPacked
  <2>2. c \in Nat
    BY DEF CustomBytes
  <2>3. CASE p + 1 >= end
    <3>1. next = p + 1
      BY <2>1, <2>3 DEF skipLocCustomization
    <3> HIDE DEF b, c
    <3>2. AfterPacked(b, p) \in Nat /\ ~(AfterPacked(b, p) <= end)
      BY <1>1, <2>1, <2>2, <2>3
    <3> QED
      BY <3>1, <3>2, <2>3 DEF b
  <2>4. CASE ~(p + 1 >= end)
    <3>1. p + 1 < end /\ p + 1 < Len(b) /\ (p + 1) + 1 = p + 2
      BY <1>1, <2>4
    <3>2. At(p + 1) = b[p + 2] /\ b[p + 2] \in 0 .. 255
      <4>1. p + 1 \in Nat
        OBVIOUS
      <4> HIDE DEF b
      <4>2. At(p + 1) = b[(p + 1) + 1] /\ b[(p + 1) + 1] \in 0 .. 255
        BY <1>1, <3>1, <4>1, ByteAt
      <4> QED
        BY <3>1, <4>2
    <3>3. next = (p + 1) + 1 + CustomizationLength(At(p + 1))
      BY <2>1, <2>4 DEF skipLocCustomization
    <3>4. CustomizationLength(At(p + 1)) = c
      BY <3>2, CustomBytesAreSkipped
    <3>5. next = AfterPacked(b, p) /\ next \in Nat
      <4> HIDE DEF b, c
      <4> QED
        BY <2>1, <2>2, <3>3, <3>4
    <3> HIDE DEF b
    <3> QED
      BY <1>1, <3>5 DEF b
  <2> QED
    BY <2>3, <2>4
<1> QED
  BY <1>2, <1>3

LEMMA PlacementStep ==
  ASSUME NEW k, WholeAt(k), source.pieces[k].kind = "placement", StreamTypeOK, StreamNext
  PROVE  NoMorePieces' \/ (k + 1 \in 1 .. Len(source.pieces) /\ AtPiece(k + 1)')
<1> DEFINE q == source.pieces[k]
           r == source.pieces[k + 1]
           a == AfterSmart(source.bytes, q.at)
           value == SmartOf(source.bytes, q.at)
           packed == source.bytes[a + 1]
           l == q.location + value - 1
<1>1. /\ FileOfPlacements(source) /\ k \in 1 .. Len(source.pieces) /\ end \in Nat
      /\ k # Len(source.pieces) /\ q \in Piece /\ a \in Nat /\ value \in 0 .. Sentinel
      /\ readMapSmart(ptr).value = value /\ readMapSmart(ptr).ptr = a
  BY ValueAt, LastPiece
<1>2. k + 1 \in 1 .. Len(source.pieces) /\ PlacementPiece(source, q, r) /\ r \in Piece
  BY <1>1, PieceStep, PiecesAndPlacements DEF MorePiece, ObjectPiece, ClosePiece
<1>3. /\ phase = "placement" /\ objectId = q.id /\ location = q.location /\ incr = 0
      /\ FirstKept(q.kept) /\ q.at <= end
  BY DEF WholeAt, AtPiece
<1>4. NextPlacement
  BY <1>3 DEF StreamNext, MoreSentinels, NextObject, Tile, TerrainDone, Overlay, Rule, Underlay
<1>5. value # 0 /\ r.at = AfterPacked(source.bytes, a) /\ r.id = q.id /\ r.location = l
  BY <1>2 DEF PlacementPiece
<1>6. stream' = stream /\ incr' = incr /\ objectId' = objectId
  BY <1>4 DEF NextPlacement, locs
<1>7. CASE a >= end
  <2>1. phase' = "object" /\ ptr' = a /\ result' = result
    BY <1>1, <1>4, <1>7 DEF NextPlacement, locs
  <2>2. AllKept
    BY <1>7, AllKeptHere DEF WholeAt
  <2>3. AllKept' /\ Stuck(ptr)'
    BY <1>6, <1>7, <2>1, <2>2, StaysAllKept, StuckAtEnd, StaysStuck
  <2> QED
    BY <2>1, <2>3 DEF NoMorePieces
<1>8. CASE ~(a >= end)
  <2>0. At(a) = packed /\ packed \in 0 .. 255
    <3>1. /\ \A p \in Nat : p < end => At(p) = source.bytes[p + 1]
          /\ source.bytes \in Seq(Byte) /\ end <= Len(source.bytes) /\ Len(source.bytes) \in Nat
      BY CutOfSource DEF WholeAt
    <3> HIDE DEF a
    <3>2. a < end /\ a < Len(source.bytes)
      BY <1>1, <1>8, <3>1
    <3> QED
      BY <1>1, <3>1, <3>2, ByteAt
  <2>1. /\ ptr' = IF packed >= 128 THEN skipLocCustomization(a + 1) ELSE a + 1
        /\ location' = l /\ phase' = "placement"
        /\ result' = IF OnGrid(l) THEN Append(result, Placed(l, packed)) ELSE result
    <3>1. /\ ptr' = IF At(a) >= 128 THEN skipLocCustomization(a + 1) ELSE a + 1
          /\ location' = location + value - 1 /\ phase' = phase
          /\ result' = IF OnGrid(location + value - 1)
                       THEN Append(result, Placed(location + value - 1, At(a))) ELSE result
      BY <1>1, <1>4, <1>5, <1>8 DEF NextPlacement
    <3> HIDE DEF packed, value, a
    <3> QED
      BY <1>3, <2>0, <3>1
  <2>2. l \in Nat
    <3>1. q.location \in Nat
      BY <1>1 DEF Piece
    <3>2. value \in Nat /\ value # 0
      BY <1>1, <1>5, ValueIsNumber
    <3> HIDE DEF value, q
    <3> QED
      BY <3>1, <3>2
  <2>3. FirstKept(r.kept)'
    <3>1. /\ Len(result) = q.kept /\ q.kept <= Len(source.there)
          /\ \A i \in 1 .. q.kept : result[i] = source.there[i].what
      BY <1>3 DEF FirstKept
    <3>2. CASE l < PLANES * SIZE * SIZE
      <4> DEFINE e == source.there[r.kept]
      <4>1. /\ r.kept = q.kept + 1 /\ r.kept <= Len(source.there) /\ StandsAt(e.what, l)
            /\ e.what = [e.what EXCEPT !.objectId = q.id, !.rotation = packed % 4,
                                       !.shape = (packed \div 4) % 32]
        BY <1>2, <3>2 DEF PlacementPiece
      <4>2. q.kept \in Nat /\ Len(source.there) \in Nat
        BY <1>1, PiecesAndPlacements DEF Piece
      <4>3. r.kept \in 1 .. Len(source.there)
        BY <4>1, <4>2
      <4>4. e \in There
        BY <1>1, <4>3, PiecesAndPlacements
      <4>5. Placed(l, packed) = e.what
        <5>1. e.what = [e.what EXCEPT !.objectId = objectId, !.rotation = packed % 4,
                                      !.shape = (packed \div 4) % 32]
          BY <1>3, <4>1
        <5>2. StandsAt(e.what, l)
          BY <4>1
        <5> HIDE DEF e, l, packed
        <5> QED
          BY <2>2, <4>4, <5>1, <5>2, PlacedIsThere
      <4>6. result' = Append(result, e.what)
        BY <2>1, <2>2, <3>2, <4>5, Grid
      <4>7. result \in Seq(Placement)
        BY DEF StreamTypeOK
      <4>8. Len(result') = r.kept /\ result'[r.kept] = e.what
        <5> HIDE DEF e
        <5>1. Len(result') = Len(result) + 1 /\ result'[Len(result) + 1] = e.what
          BY <4>6, <4>7, Appended
        <5>2. Len(result) + 1 = r.kept
          BY <3>1, <4>1
        <5> QED
          BY <5>1, <5>2
      <4>9. \A i \in 1 .. r.kept : result'[i] = source.there[i].what
        <5> TAKE i \in 1 .. r.kept
        <5>1. CASE i = r.kept
          BY <4>8, <5>1
        <5>2. CASE i # r.kept
          <6>1. i \in 1 .. q.kept
            BY <4>1, <4>2, <5>2
          <6>2. result'[i] = result[i]
            BY <3>1, <4>6, <4>7, <6>1, Appended
          <6> QED
            BY <3>1, <6>1, <6>2
        <5> QED
          BY <5>1, <5>2
      <4> QED
        BY <1>6, <4>1, <4>8, <4>9 DEF FirstKept, source
    <3>3. CASE ~(l < PLANES * SIZE * SIZE)
      <4>1. r.kept = q.kept
        BY <1>2, <3>3 DEF PlacementPiece
      <4>2. result' = result
        BY <2>1, <2>2, <3>3, Grid
      <4> QED
        BY <1>6, <3>1, <4>1, <4>2 DEF FirstKept, source
    <3> QED
      BY <3>2, <3>3
  <2>4. /\ r.at \in Nat /\ ptr' \in Nat
        /\ r.at <= end => ptr' = r.at
        /\ ~(r.at <= end) => ptr' >= end
    <3>1. a < end
      BY <1>1, <1>8
    <3>2. AfterPacked(source.bytes, a) <= Len(source.bytes)
      BY <1>2 DEF PlacementPiece
    <3>3. ptr' = IF source.bytes[a + 1] >= 128 THEN skipLocCustomization(a + 1) ELSE a + 1
      BY <2>1
    <3> HIDE DEF a, q, r
    <3> QED
      BY <1>1, <1>5, <3>1, <3>2, <3>3, CustomizationIsSkipped DEF WholeAt
  <2>5. CASE r.at <= end
    <3>1. r.kind \in {"placement", "close"}
      BY <1>2 DEF PlacementPiece
    <3> HIDE DEF packed, value, a, l
    <3> QED
      BY <1>2, <1>3, <1>5, <1>6, <2>1, <2>3, <2>4, <2>5, <3>1 DEF AtPiece, source, end, data
  <2>6. CASE ~(r.at <= end)
    <3>1. Stuck(ptr)'
      BY <1>6, <2>4, <2>6, StuckAtEnd, StaysStuck
    <3>2. AllKept'
      <4>1. \A i \in 1 .. Len(source.there) : source.there[i].end <= end <=> i <= r.kept
        <5> SUFFICES ASSUME NEW i \in 1 .. Len(source.there)
                     PROVE  source.there[i].end <= end <=> i <= r.kept
          OBVIOUS
        <5>1. /\ i \in Nat /\ source.there[i].end \in Nat
              /\ q.kept \in Nat /\ r.kept \in Nat /\ q.at \in Nat
          <6>1. Len(source.there) \in Nat /\ source.there[i] \in There
            BY <1>1, PiecesAndPlacements
          <6>2. i \in Nat /\ source.there[i].end \in Nat
            BY <6>1 DEF There
          <6>3. q \in Piece /\ r \in Piece
            BY <1>1, <1>2
          <6> QED
            BY <6>2, <6>3 DEF Piece
        <5>2. Behind(source, k) /\ Behind(source, k + 1) /\ Ahead(source, k + 1)
          BY <1>1, <1>2, AllBehind, AllAhead
        <5>3. i <= q.kept => source.there[i].end <= q.at
          BY <5>2 DEF Behind
        <5>4. i > r.kept => source.there[i].end > AfterSmart(source.bytes, r.at)
          BY <5>2 DEF Ahead
        <5>5. AfterSmart(source.bytes, r.at) \in Nat /\ AfterSmart(source.bytes, r.at) > r.at
          BY <2>4, SmartSize
        <5>6. r.kept = q.kept \/ (r.kept = q.kept + 1 /\ source.there[r.kept].end = a + 1)
          BY <1>2 DEF PlacementPiece
        <5>7. a + 1 <= end
          BY <1>1, <1>8
        <5> DEFINE z == AfterSmart(source.bytes, r.at)
                   w == source.there[i].end
        <5>8. CASE i > r.kept
          <6>1. w > z /\ z > r.at /\ z \in Nat /\ w \in Nat
            BY <5>1, <5>4, <5>5, <5>8
          <6> HIDE DEF w, z, q, r, a
          <6> QED
            BY <1>1, <2>4, <2>6, <5>1, <5>8, <6>1 DEF w
        <5>9. CASE i <= q.kept
          <6> HIDE DEF q, r, a
          <6> QED
            BY <1>1, <1>3, <5>1, <5>3, <5>6, <5>9
        <5>10. CASE i = r.kept /\ r.kept = q.kept + 1
          <6>1. r.kept # q.kept
            <7> HIDE DEF q, r
            <7> QED
              BY <5>1, <5>10
          <6>2. w = a + 1
            BY <5>6, <5>10, <6>1
          <6> HIDE DEF w, q, r, a
          <6> QED
            BY <5>1, <5>7, <5>10, <6>2 DEF w
        <5>11. i > r.kept \/ i <= q.kept \/ (i = r.kept /\ r.kept = q.kept + 1)
          <6>1. r.kept = q.kept \/ r.kept = q.kept + 1
            BY <5>6
          <6> HIDE DEF q, r
          <6> QED
            BY <5>1, <6>1
        <5> HIDE DEF q, r, a
        <5> QED
          BY <5>8, <5>9, <5>10, <5>11
      <4>2. Len(result') = r.kept
        <5>1. Len(result)' = r.kept'
          BY <2>3 DEF FirstKept
        <5>2. r' = r
          BY <1>6 DEF source
        <5> HIDE DEF r
        <5> QED
          BY <5>1, <5>2
      <4> QED
        BY <1>6, <2>3, <4>1, <4>2 DEF AllKept, FirstKept, source, end, data
    <3> QED
      BY <1>3, <1>6, <2>1, <3>1, <3>2 DEF NoMorePieces
  <2> QED
    BY <2>5, <2>6
<1> QED
  BY <1>7, <1>8

LEMMA SameStream == StreamNext => stream' = stream
BY DEF StreamNext, MoreSentinels, NextObject, NextPlacement, Tile, TerrainDone, Overlay, Rule, Underlay,
       Done, locs

\* At first there are no placements, and none is all there in a file without bytes.
LEMMA InitPlacements == StreamInit => PlacementsSoFar
<1> SUFFICES ASSUME StreamInit, stream.file = "locations"
             PROVE  NoMorePieces \/ \E k \in 1 .. Len(source.pieces) : AtPiece(k)
  BY DEF PlacementsSoFar
<1> DEFINE q == source.pieces[1]
<1>1. FileOfPlacements(source) /\ end \in Nat
  BY CutOfSource DEF StreamInit
<1>2. /\ Len(source.there) \in Nat /\ 1 \in 1 .. Len(source.pieces)
      /\ \A i \in 1 .. Len(source.there) : source.there[i] \in There
  BY <1>1, PiecesAndPlacements
<1>3. q.at = 0 /\ q.kept = 0 /\ q.kind \in {"more", "object", "last"} /\ q.base = -1 /\ q.id = -1
  BY <1>1 DEF FileOfPlacements
<1>4. FirstKept(0) /\ Len(result) = 0 /\ ptr = 0 /\ incr = 0 /\ objectId = -1
  BY <1>2 DEF StreamInit, FirstKept
<1>5. CASE end = 0
  <2>1. phase = "done"
    BY <1>5 DEF StreamInit
  <2>2. \A i \in 1 .. Len(source.there) : source.there[i].end > AfterSmart(source.bytes, 0)
    <3>1. Ahead(source, 1)
      BY <1>1, <1>2, AllAhead
    <3> QED
      BY <1>2, <1>3, <3>1 DEF Ahead
  <2>3. \A i \in 1 .. Len(source.there) : ~(source.there[i].end <= end) /\ ~(i <= 0)
    <3> TAKE i \in 1 .. Len(source.there)
    <3>1. source.there[i].end \in Nat
      BY <1>2 DEF There
    <3>2. AfterSmart(source.bytes, 0) \in Nat
      BY SmartSize
    <3> QED
      BY <1>5, <2>2, <3>1, <3>2
  <2> QED
    BY <1>4, <2>1, <2>3 DEF NoMorePieces, AllKept
<1>6. CASE end # 0
  <2>1. phase = "object"
    BY <1>6 DEF StreamInit
  <2> QED
    BY <1>1, <1>2, <1>3, <1>4, <2>1 DEF AtPiece
<1> QED
  BY <1>5, <1>6

\* A step takes a decoder from piece to piece, or behind the cut.
LEMMA NextPlacements ==
  ASSUME stream \in Streams, StreamTypeOK, PlacementsSoFar, StreamNext
  PROVE  PlacementsSoFar'
<1> SUFFICES ASSUME stream.file = "locations"
             PROVE  NoMorePieces' \/ \E k \in 1 .. Len(source.pieces) : AtPiece(k)'
  BY SameStream DEF PlacementsSoFar, source
<1>1. CASE NoMorePieces
  BY <1>1, NothingIsAdded
<1>2. ASSUME NEW k \in 1 .. Len(source.pieces), AtPiece(k)
      PROVE  NoMorePieces' \/ \E j \in 1 .. Len(source.pieces) : AtPiece(j)'
  <2>1. CASE ~(AfterSmart(source.bytes, source.pieces[k].at) <= end)
    BY <1>2, <2>1, CutAtPiece, NothingIsAdded
  <2>2. CASE AfterSmart(source.bytes, source.pieces[k].at) <= end
    <3>1. WholeAt(k)
      BY <1>2, <2>2 DEF WholeAt
    <3>2. source.pieces[k].kind \in {"more", "object", "placement", "close", "last"}
      BY <3>1, ValueAt DEF Piece
    <3>3. NoMorePieces' \/ (k + 1 \in 1 .. Len(source.pieces) /\ AtPiece(k + 1)')
      BY <3>1, <3>2, MoreStep, ObjectStep, PlacementStep, CloseStep, LastStep
    <3> QED
      BY <3>3
  <2> QED
    BY <2>1, <2>2
<1> QED
  BY <1>1, <1>2 DEF PlacementsSoFar

LEMMA PlacementsAtEnd ==
  ASSUME stream \in Streams, StreamTypeOK, PlacementsSoFar
  PROVE  PlacementsArePrefix
<1> SUFFICES ASSUME phase = "done", stream.file = "locations"
             PROVE  /\ Len(result) <= Len(source.there)
                    /\ \A i \in DOMAIN result : result[i] = source.there[i].what
                    /\ \A i \in DOMAIN source.there : source.there[i].end <= end <=> i <= Len(result)
  BY DEF PlacementsArePrefix
<1>1. AllKept
  BY DEF PlacementsSoFar, NoMorePieces, AtPiece
<1>2. DOMAIN result = 1 .. Len(result)
  BY DEF StreamTypeOK
<1>3. DOMAIN source.there = 1 .. Len(source.there)
  BY CutOfSource DEF FileOfPlacements
<1> QED
  BY <1>1, <1>2, <1>3 DEF AllKept, FirstKept

-----------------------------------------------------------------------------
(* Files of terrain: where the parts of a tile are.                          *)

LEMMA TilesAreNumbers ==
  /\ Tiles \in SUBSET Nat /\ 0 \in Tiles
  /\ \A u \in Tiles : u # 0 => u - 1 \in Tiles
  /\ \A t \in Tiles, u \in Nat : u <= t => u \in Tiles
<1> DEFINE n == PLANES * SIZE * SIZE
<1>1. n \in Nat \ {0}
  BY StreamAssumption
<1>2. Tiles = 0 .. n - 1
  BY DEF Tiles
<1> HIDE DEF n
<1> QED
  BY <1>1, <1>2

LEMMA Parts ==
  ASSUME NEW b, NEW p \in Nat
  PROVE  /\ RulePlace(b, p) \in Nat /\ RulePlace(b, p) > p
         /\ HasBit(b[p + 1], 1) => RulePlace(b, p) = AfterSmart(b, p + 2) /\ RulePlace(b, p) >= p + 3
         /\ UnderlayPlace(b, p) \in Nat /\ UnderlayPlace(b, p) >= RulePlace(b, p)
         /\ HasBit(b[p + 1], 2) => UnderlayPlace(b, p) = RulePlace(b, p) + 1
         /\ ~HasBit(b[p + 1], 2) => UnderlayPlace(b, p) = RulePlace(b, p)
         /\ AfterUnderlay(b, p) \in Nat /\ AfterUnderlay(b, p) >= UnderlayPlace(b, p)
         /\ AfterTile(b, p) \in Nat /\ AfterTile(b, p) >= AfterUnderlay(b, p)
         /\ HasBit(b[p + 1], 8) => AfterTile(b, p) = AfterUnderlay(b, p) + 2
         /\ ~HasBit(b[p + 1], 8) => AfterTile(b, p) = AfterUnderlay(b, p)
<1>1. /\ RulePlace(b, p) \in Nat /\ RulePlace(b, p) > p
      /\ HasBit(b[p + 1], 1) => RulePlace(b, p) = AfterSmart(b, p + 2) /\ RulePlace(b, p) >= p + 3
  <2>1. AfterSmart(b, p + 2) \in Nat /\ AfterSmart(b, p + 2) > p + 2
    BY SmartSize
  <2> QED
    BY <2>1 DEF RulePlace
<1> DEFINE rule == RulePlace(b, p)
           underlay == UnderlayPlace(b, p)
<1>2. /\ HasBit(b[p + 1], 2) => underlay = rule + 1
      /\ ~HasBit(b[p + 1], 2) => underlay = rule
      /\ underlay \in Nat /\ underlay >= rule
  BY <1>1 DEF UnderlayPlace
<1>3. AfterUnderlay(b, p) \in Nat /\ AfterUnderlay(b, p) >= underlay
  <2>1. AfterSmart(b, underlay) \in Nat /\ AfterSmart(b, underlay) > underlay
    BY <1>2, SmartSize
  <2> QED
    BY <1>2, <2>1 DEF AfterUnderlay
<1>4. /\ AfterTile(b, p) \in Nat /\ AfterTile(b, p) >= AfterUnderlay(b, p)
      /\ HasBit(b[p + 1], 8) => AfterTile(b, p) = AfterUnderlay(b, p) + 2
      /\ ~HasBit(b[p + 1], 8) => AfterTile(b, p) = AfterUnderlay(b, p)
  BY <1>3 DEF AfterTile
<1> QED
  BY <1>1, <1>2, <1>3, <1>4

\* What a file says of a tile.
LEMMA TileOfFile ==
  ASSUME NEW f, FileOfTerrain(f), NEW t \in Tiles
  PROVE  LET b == f.bytes
             p == f.tiles[t].at
         IN  /\ p \in Nat /\ p < Len(b) /\ AfterTile(b, p) <= Len(b) /\ p < AfterTile(b, p)
             /\ f.tiles[t].overlay \in Nat /\ f.tiles[t].rule \in Byte
             /\ t + 1 \in Tiles => f.tiles[t + 1].at = AfterTile(b, p)
             /\ f.tiles[t].overlay = IF HasBit(b[p + 1], 1) THEN SmartOf(b, p + 2) ELSE 0
             /\ f.tiles[t].rule = IF HasBit(b[p + 1], 2) THEN b[RulePlace(b, p) + 1] ELSE 0
<1>1. f.tiles[t] \in [at : Nat, overlay : Nat, rule : Byte]
  BY DEF FileOfTerrain
<1>2. f.tiles[t].at \in Nat /\ f.tiles[t].overlay \in Nat /\ f.tiles[t].rule \in Byte
  BY <1>1
<1>3. f.tiles[t].at < AfterTile(f.bytes, f.tiles[t].at)
  <2> DEFINE p == f.tiles[t].at
             b == f.bytes
  <2>1. p \in Nat
    BY <1>2
  <2> HIDE DEF p, b
  <2> QED
    BY <2>1, Parts DEF p, b
<1> QED
  BY <1>2, <1>3 DEF FileOfTerrain

\* The tiles follow each other.
After(f, t) == AfterTile(f.bytes, f.tiles[t].at)

LEMMA TilesInOrder ==
  ASSUME NEW f, FileOfTerrain(f)
  PROVE  \A u \in Tiles : \A t \in Tiles : t < u => After(f, t) <= f.tiles[u].at
<1> DEFINE Fine(u) == \A t \in Tiles : t < u => After(f, t) <= f.tiles[u].at
           S == {u \in Tiles : ~Fine(u)}
<1> SUFFICES ASSUME S # {} PROVE FALSE
  OBVIOUS
<1>1. PICK u \in S : \A m \in S : u <= m
  <2>1. S \in SUBSET Nat
    BY TilesAreNumbers
  <2> HIDE DEF S
  <2> QED
    BY <2>1, LeastExists
<1>2. u \in Tiles /\ u \in Nat /\ ~Fine(u)
  BY <1>1, TilesAreNumbers
<1>3. u # 0
  <2> SUFFICES ASSUME u = 0 PROVE Fine(u)
    BY <1>2
  <2> QED
    BY TilesAreNumbers
<1> DEFINE v == u - 1
<1>4. v \in Tiles /\ v + 1 = u /\ v \in Nat /\ v < u
  BY <1>2, <1>3, TilesAreNumbers
<1> HIDE DEF v
<1>5. Fine(v)
  BY <1>1, <1>2, <1>4
<1>6. f.tiles[u].at = After(f, v)
  <2>1. f.tiles[v + 1].at = After(f, v)
    BY <1>2, <1>4, TileOfFile DEF After
  <2> QED
    BY <1>4, <2>1
<1>7. f.tiles[v].at < After(f, v)
  BY <1>4, TileOfFile DEF After
<1>8. \A t \in Tiles : After(f, t) \in Nat /\ f.tiles[t].at \in Nat
  <2> TAKE t \in Tiles
  <2>1. f.tiles[t].at \in Nat
    BY TileOfFile
  <2> QED
    BY <2>1, Parts DEF After
<1>9. Fine(u)
  <2> SUFFICES ASSUME NEW t \in Tiles, t < u PROVE After(f, t) <= f.tiles[u].at
    OBVIOUS
  <2>1. CASE t = v
    BY <1>6, <1>8, <2>1
  <2>2. CASE t # v
    <3>1. t < v
      BY <1>2, <1>4, <2>2, TilesAreNumbers
    <3>2. After(f, t) <= f.tiles[v].at
      BY <1>5, <3>1
    <3> QED
      BY <1>4, <1>6, <1>7, <1>8, <3>2
  <2> QED
    BY <2>1, <2>2
<1> QED
  BY <1>2, <1>9

-----------------------------------------------------------------------------
(* Terrain: what is settled where the file is cut off.                       *)

LEMMA OwnIsSettled ==
  ASSUME NEW t, NEW o, NEW r, Own(t, o, r), ~(end <= source.tiles[t].at)
  PROVE  Settled(t, o, r)
BY DEF Own, Settled

LEMMA BlankIsSettled ==
  ASSUME NEW t, NEW o, NEW r, Blank(t, o, r), ~(end >= After(source, t))
  PROVE  Settled(t, o, r)
BY DEF Blank, Settled, After

\* A cut within a tile, or in front of it, settles every tile.
LEMMA CutInTile ==
  ASSUME stream \in Streams, stream.file = "terrain", NEW u \in Tiles, NEW o, NEW r,
         UpTo(u, o, r), source.tiles[u].at <= end, ~(After(source, u) <= end),
         o[u] \in {0, source.tiles[u].overlay},
         r[u] \in {0, source.tiles[u].rule} \cup HalfId(source.bytes, source.tiles[u].at),
         end <= source.tiles[u].at => Blank(u, o, r)
  PROVE  AllSettled(o, r)
<1>1. FileOfTerrain(source) /\ end \in Nat /\ Tiles \in SUBSET Nat
  BY CutOfSource, TilesAreNumbers
<1>2. \A t \in Tiles : /\ source.tiles[t].at \in Nat /\ After(source, t) \in Nat
                       /\ source.tiles[t].at < After(source, t)
  <2> TAKE t \in Tiles
  <2>1. source.tiles[t].at \in Nat /\ source.tiles[t].at < After(source, t)
    BY <1>1, TileOfFile DEF After
  <2> QED
    BY <2>1, Parts DEF After
<1>3. \A v \in Tiles : \A t \in Tiles : t < v => After(source, t) <= source.tiles[v].at
  BY <1>1, TilesInOrder
<1> SUFFICES ASSUME NEW t \in Tiles PROVE Settled(t, o, r)
  BY DEF AllSettled
<1>4. CASE t < u
  <2>1. After(source, t) <= source.tiles[u].at
    BY <1>3, <1>4
  <2>2. ~(end <= source.tiles[t].at)
    BY <1>1, <1>2, <2>1
  <2> QED
    BY <1>4, <2>2, OwnIsSettled DEF UpTo
<1>5. CASE t > u
  <2>1. After(source, u) <= source.tiles[t].at
    <3>1. u < t
      BY <1>1, <1>5
    <3> QED
      BY <1>3, <3>1
  <2>2. ~(end >= After(source, t))
    BY <1>1, <1>2, <2>1
  <2> QED
    BY <1>5, <2>2, BlankIsSettled DEF UpTo
<1>6. CASE t = u
  <2>1. ~(end >= After(source, u))
    BY <1>1, <1>2
  <2> QED
    BY <1>6, <2>1 DEF Settled, After, Blank
<1> QED
  BY <1>1, <1>4, <1>5, <1>6

LEMMA NoCut ==
  ASSUME stream \in Streams, stream.file = "terrain", NEW u \in Tiles, u + 1 \notin Tiles,
         NEW o, NEW r, UpTo(u, o, r), Own(u, o, r), After(source, u) <= end
  PROVE  AllSettled(o, r)
<1>1. FileOfTerrain(source) /\ end \in Nat /\ Tiles \in SUBSET Nat
  BY CutOfSource, TilesAreNumbers
<1>2. \A t \in Tiles : /\ source.tiles[t].at \in Nat /\ After(source, t) \in Nat
                       /\ source.tiles[t].at < After(source, t)
  <2> TAKE t \in Tiles
  <2>1. source.tiles[t].at \in Nat /\ source.tiles[t].at < After(source, t)
    BY <1>1, TileOfFile DEF After
  <2> QED
    BY <2>1, Parts DEF After
<1>3. \A t \in Tiles : t < u => After(source, t) <= source.tiles[u].at
  BY <1>1, TilesInOrder
<1> SUFFICES ASSUME NEW t \in Tiles PROVE Settled(t, o, r)
  BY DEF AllSettled
<1>4. t <= u
  <2> SUFFICES ASSUME ~(t <= u) PROVE u + 1 \in Tiles
    OBVIOUS
  <2>1. u + 1 <= t /\ u + 1 \in Nat
    BY <1>1
  <2> QED
    BY <2>1, TilesAreNumbers
<1>5. Own(t, o, r)
  BY <1>1, <1>4 DEF UpTo
<1>6. ~(end <= source.tiles[t].at)
  <2>1. CASE t = u
    BY <1>1, <1>2, <2>1
  <2>2. CASE t # u
    <3>1. After(source, t) <= source.tiles[u].at
      BY <1>1, <1>3, <1>4, <2>2
    <3> QED
      BY <1>1, <1>2, <3>1
  <2> QED
    BY <2>1, <2>2
<1> QED
  BY <1>5, <1>6, OwnIsSettled

-----------------------------------------------------------------------------
(* Terrain: the steps of a cut file.                                         *)

LEMMA ToNoMoreTiles ==
  ASSUME stream' = stream, AllSettled(overlayIds', renderRules'),
         \/ phase' = "done"
         \/ phase' \in {"tile", "overlay", "rule", "underlay"} /\ ptr' >= end
         \/ phase' = "tile" /\ tile' \notin Tiles
         \/ phase' \in {"tile", "underlay"} /\ HalfLeft(ptr')
  PROVE  NoMoreTiles'
BY DEF NoMoreTiles, AllSettled, Settled, HalfId, HalfLeft, At, source, end, data, Tiles

\* Where no part of a tile can be read, a value cannot be read either.
LEMMA NoValueLeft ==
  ASSUME data \in Seq(Byte), NEW p \in Nat, p >= end \/ HalfLeft(p)
  PROVE  readMapSmart(p) = Read(0, p) /\ p + 1 >= end
<1>1. end \in Nat
  BY DEF end
<1>2. CASE p >= end
  BY <1>1, <1>2 DEF readMapSmart
<1>3. CASE HalfLeft(p)
  <2>1. p < end /\ p + 1 = end
    BY <1>3 DEF HalfLeft
  <2>2. ~(At(p) < 128)
    <3>1. PICK x \in 0 .. 255 : x = At(p)
      BY <2>1, Reads
    <3>2. x >= 128
      BY <1>3, <3>1 DEF HalfLeft
    <3>3. ~(x < 128)
      BY <3>1, <3>2
    <3> QED
      BY <3>1, <3>3
  <2> QED
    BY <1>1, <2>1, <2>2 DEF readMapSmart
<1> QED
  BY <1>2, <1>3

LEMMA NothingIsDecoded ==
  ASSUME StreamTypeOK, NoMoreTiles, StreamNext
  PROVE  NoMoreTiles'
<1>1. stream' = stream
  BY SameStream
<1>2. AllSettled(overlayIds, renderRules) /\ ptr \in Nat /\ data \in Seq(Byte) /\ end \in Nat
  BY DEF NoMoreTiles, StreamTypeOK, end
<1>3. \/ phase = "done"
      \/ phase \in {"tile", "overlay", "rule", "underlay"} /\ ptr >= end
      \/ phase = "tile" /\ tile \notin Tiles
      \/ phase \in {"tile", "underlay"} /\ HalfLeft(ptr)
  BY DEF NoMoreTiles
<1>4. CASE Tile
  <2>1. phase = "tile" /\ HalfLeft(ptr)
    BY <1>2, <1>3, <1>4 DEF Tile
  <2>2. ptr' = ptr + 1 /\ phase' = "overlay" /\ overlayIds' = overlayIds /\ renderRules' = renderRules
    BY <1>4 DEF Tile
  <2>3. ptr' >= end
    BY <1>2, <2>1, <2>2 DEF HalfLeft
  <2> QED
    BY <1>1, <1>2, <2>2, <2>3, ToNoMoreTiles
<1>5. CASE TerrainDone
  <2>1. phase' = "done" /\ overlayIds' = overlayIds /\ renderRules' = renderRules
    BY <1>5 DEF TerrainDone, Done, tiles
  <2> QED
    BY <1>1, <1>2, <2>1, ToNoMoreTiles
<1>6. CASE Overlay
  <2>1. phase = "overlay" /\ ptr >= end
    BY <1>3, <1>6 DEF Overlay
  <2>2. /\ overlayIds' = overlayIds /\ renderRules' = renderRules /\ ptr' = ptr
        /\ phase' \in {"rule", "done"}
    BY <1>6, <2>1 DEF Overlay, Done, tiles
  <2> QED
    BY <1>1, <1>2, <2>1, <2>2, ToNoMoreTiles
<1>7. CASE Rule
  <2>1. phase = "rule" /\ ptr >= end
    BY <1>3, <1>7 DEF Rule
  <2>2. /\ overlayIds' = overlayIds /\ renderRules' = renderRules /\ ptr' = ptr
        /\ phase' \in {"underlay", "done"}
    BY <1>7, <2>1 DEF Rule, Done, tiles
  <2> QED
    BY <1>1, <1>2, <2>1, <2>2, ToNoMoreTiles
<1>8. CASE Underlay
  <2>1. phase = "underlay" /\ (ptr >= end \/ HalfLeft(ptr))
    BY <1>3, <1>8 DEF Underlay
  <2>2. readMapSmart(ptr).ptr = ptr /\ ptr + 1 >= end
    BY <1>2, <2>1, NoValueLeft DEF Read
  <2>3. /\ overlayIds' = overlayIds /\ renderRules' = renderRules /\ ptr' = ptr
        /\ phase' \in {"tile", "done"}
    BY <1>8, <2>2 DEF Underlay, Done, tiles
  <2> QED
    BY <1>1, <1>2, <2>1, <2>3, ToNoMoreTiles
<1> QED
  BY <1>3, <1>4, <1>5, <1>6, <1>7, <1>8 DEF StreamNext, MoreSentinels, NextObject, NextPlacement

\* The decoder is in a tile, all of which up to its position is there.
LEMMA InTileFacts ==
  ASSUME stream \in Streams, stream.file = "terrain", StreamTypeOK, InTile
  PROVE  /\ FileOfTerrain(source) /\ end \in Nat /\ tile \in Tiles /\ ptr \in Nat /\ ptr <= end
         /\ source.tiles[tile].at \in Nat /\ source.tiles[tile].at <= ptr
         /\ \A i \in Nat : i < end => At(i) = source.bytes[i + 1]
         /\ After(source, tile) \in Nat
         /\ \A o, r : /\ UpTo(tile, o, r) /\ ~(After(source, tile) <= end)
                      /\ o[tile] \in {0, source.tiles[tile].overlay}
                      /\ r[tile] \in {0, source.tiles[tile].rule}
                      /\ end <= source.tiles[tile].at => Blank(tile, o, r)
                      => AllSettled(o, r)
<1> DEFINE p == source.tiles[tile].at
<1>1. FileOfTerrain(source) /\ end \in Nat /\ \A i \in Nat : i < end => At(i) = source.bytes[i + 1]
  BY CutOfSource
<1>2. tile \in Tiles /\ ptr <= end /\ ptr \in Nat
  BY DEF InTile, StreamTypeOK
<1>3. p \in Nat
  BY <1>1, <1>2, TileOfFile
<1>4. p <= ptr
  <2>1. RulePlace(source.bytes, p) > p /\ RulePlace(source.bytes, p) \in Nat
    BY <1>3, Parts
  <2>2. UnderlayPlace(source.bytes, p) >= RulePlace(source.bytes, p) /\ UnderlayPlace(source.bytes, p) \in Nat
    BY <1>3, Parts
  <2>3. ptr \in {p, p + 1, RulePlace(source.bytes, p), UnderlayPlace(source.bytes, p)}
    BY DEF InTile, AtPart
  <2> HIDE DEF p
  <2> QED
    BY <1>3, <2>1, <2>2, <2>3
<1>5. After(source, tile) \in Nat
  BY <1>3, Parts DEF After
<1>6. p <= end
  BY <1>1, <1>2, <1>3, <1>4
<1> QED
  BY <1>1, <1>2, <1>3, <1>4, <1>5, <1>6, CutInTile

LEMMA ToInTile ==
  ASSUME stream' = stream, tile' \in Tiles, UpTo(tile', overlayIds', renderRules'), ptr' <= end,
         phase' # "tile" => streamFlags' = source.bytes[source.tiles[tile'].at + 1],
         LET b == source.bytes
             p == source.tiles[tile'].at
         IN  \/ phase' = "tile" /\ ptr' = p /\ Blank(tile', overlayIds', renderRules')
             \/ phase' = "overlay" /\ ptr' = p + 1 /\ Blank(tile', overlayIds', renderRules')
             \/ /\ phase' = "rule" /\ ptr' = RulePlace(b, p)
                /\ overlayIds'[tile'] = source.tiles[tile'].overlay /\ renderRules'[tile'] = 0
             \/ /\ phase' = "underlay" /\ ptr' = UnderlayPlace(b, p)
                /\ Own(tile', overlayIds', renderRules')
  PROVE  InTile'
BY DEF InTile, AtPart, UpTo, Own, Blank, source, end, data, Tiles

\* The flags of a tile.
LEMMA TileStep ==
  ASSUME stream \in Streams, stream.file = "terrain", StreamTypeOK, InTile, StreamNext, phase = "tile"
  PROVE  InTile' \/ NoMoreTiles'
<1> DEFINE p == source.tiles[tile].at
<1>1. /\ end \in Nat /\ tile \in Tiles /\ ptr \in Nat /\ p \in Nat /\ ptr <= end
      /\ \A i \in Nat : i < end => At(i) = source.bytes[i + 1]
  BY InTileFacts
<1>2. /\ UpTo(tile, overlayIds, renderRules) /\ ptr = p /\ Blank(tile, overlayIds, renderRules)
  BY DEF InTile, AtPart
<1>3. CASE ptr < end
  <2>1. Tile
    BY <1>1, <1>3 DEF StreamNext, MoreSentinels, NextObject, NextPlacement, TerrainDone, Overlay, Rule, Underlay
  <2>2. /\ streamFlags' = source.bytes[p + 1] /\ ptr' = p + 1 /\ phase' = "overlay" /\ tile' = tile
        /\ stream' = stream /\ overlayIds' = overlayIds /\ renderRules' = renderRules
    BY <1>1, <1>2, <1>3, <2>1 DEF Tile
  <2>3. ptr' <= end
    BY <1>1, <1>2, <1>3, <2>2
  <2> QED
    BY <1>1, <1>2, <2>2, <2>3, ToInTile
<1>4. CASE ~(ptr < end)
  <2>1. TerrainDone
    BY <1>1, <1>4 DEF StreamNext, MoreSentinels, NextObject, NextPlacement, Tile, Overlay, Rule, Underlay
  <2>2. stream' = stream /\ phase' = "done" /\ overlayIds' = overlayIds /\ renderRules' = renderRules
    BY <2>1 DEF TerrainDone, Done, tiles
  <2>3. ~(After(source, tile) <= end)
    <3>1. p < After(source, tile) /\ After(source, tile) \in Nat
      BY InTileFacts, TileOfFile DEF After
    <3> QED
      BY <1>1, <1>2, <1>4, <3>1
  <2>4. AllSettled(overlayIds, renderRules)
    BY <1>2, <2>3, InTileFacts DEF Blank
  <2> QED
    BY <2>2, <2>4, ToNoMoreTiles
<1> QED
  BY <1>3, <1>4

\* What is still in front of a decoder in a tile is a part of the file.
LEMMA FlagIsBit ==
  ASSUME NEW n, NEW w
  PROVE  (FlagBit(n, w) = 1) <=> HasBit(n, w)
BY DEF FlagBit, HasBit

LEMMA FlagOfTile ==
  ASSUME StreamTypeOK, stream \in Streams, stream.file = "terrain", InTile, phase # "tile",
         NEW w \in {1, 2, 4, 8}
  PROVE  LET n == source.bytes[source.tiles[tile].at + 1] IN
         /\ streamFlags = n
         /\ HasBit(n, w) => FlagBit(streamFlags, w) = 1
         /\ ~HasBit(n, w) => FlagBit(streamFlags, w) = 0
<1>1. streamFlags = source.bytes[source.tiles[tile].at + 1]
  BY DEF InTile
<1>2. FlagBit(streamFlags, w) \in {0, 1}
  BY Bits DEF StreamTypeOK, Byte
<1> QED
  BY <1>1, <1>2, FlagIsBit

\* A byte that is not kept and the overlay's id.
LEMMA OverlayStep ==
  ASSUME stream \in Streams, stream.file = "terrain", StreamTypeOK, InTile, StreamNext, phase = "overlay"
  PROVE  InTile' \/ InHalf' \/ NoMoreTiles'
<1> DEFINE b == source.bytes
           p == source.tiles[tile].at
           w == source.tiles[tile]
<1>1. /\ end \in Nat /\ tile \in Tiles /\ ptr \in Nat /\ p \in Nat /\ ptr <= end
      /\ FileOfTerrain(source) /\ After(source, tile) \in Nat
  BY InTileFacts
<1>2. UpTo(tile, overlayIds, renderRules) /\ ptr = p + 1 /\ Blank(tile, overlayIds, renderRules)
  BY DEF InTile, AtPart
<1>3. Overlay
  BY DEF StreamNext, MoreSentinels, NextObject, NextPlacement, Tile, TerrainDone, Rule, Underlay
<1>4. /\ streamFlags = b[p + 1]
      /\ HasBit(b[p + 1], 1) => FlagBit(streamFlags, 1) = 1
      /\ ~HasBit(b[p + 1], 1) => FlagBit(streamFlags, 1) = 0
  BY FlagOfTile
<1>5. /\ w.overlay = IF HasBit(b[p + 1], 1) THEN SmartOf(b, p + 2) ELSE 0
      /\ After(source, tile) <= Len(b) /\ Len(b) \in Nat
  BY <1>1, TileOfFile DEF After, FileOfTerrain
<1>6. /\ RulePlace(b, p) \in Nat /\ RulePlace(b, p) <= After(source, tile)
      /\ HasBit(b[p + 1], 1) => RulePlace(b, p) = AfterSmart(b, p + 2) /\ RulePlace(b, p) >= p + 3
  <2> HIDE DEF p, b
  <2> QED
    BY <1>1, Parts DEF After, p, b
<1>7. CASE ~HasBit(b[p + 1], 1)
  <2>1. FlagBit(streamFlags, 1) = 0
    BY <1>4, <1>7
  <2>2. /\ stream' = stream /\ ptr' = ptr /\ phase' = "rule" /\ tile' = tile /\ streamFlags' = streamFlags
        /\ overlayIds' = overlayIds /\ renderRules' = renderRules
    BY <1>3, <2>1 DEF Overlay, tiles
  <2>3. RulePlace(b, p) = p + 1 /\ w.overlay = 0
    BY <1>5, <1>7 DEF RulePlace
  <2> QED
    BY <1>1, <1>2, <1>4, <2>2, <2>3, ToInTile DEF Blank
<1>8. CASE HasBit(b[p + 1], 1)
  <2>1. FlagBit(streamFlags, 1) # 0 /\ 1 # 0
    BY <1>4, <1>8
  <2>2. ~(After(source, tile) <= end) => AllSettled(overlayIds, renderRules)
    BY <1>1, <1>2, InTileFacts DEF Blank
  <2>3. CASE ptr >= end
    <3>1. stream' = stream /\ phase' = "done" /\ overlayIds' = overlayIds /\ renderRules' = renderRules
      BY <1>3, <2>1, <2>3 DEF Overlay, Done, tiles
    <3>2. ~(After(source, tile) <= end)
      BY <1>1, <1>2, <1>6, <1>8, <2>3
    <3> QED
      BY <2>2, <3>1, <3>2, ToNoMoreTiles
  <2>4. CASE ~(ptr >= end)
    <3> DEFINE id == readMapSmart(p + 2)
    <3>1. /\ stream' = stream /\ ptr' = id.ptr /\ phase' = "rule" /\ tile' = tile
          /\ streamFlags' = streamFlags /\ renderRules' = renderRules
          /\ overlayIds' = [overlayIds EXCEPT ![tile] = id.value]
      <4>1. ptr + 1 = p + 2
        BY <1>1, <1>2
      <4> QED
        BY <1>3, <2>1, <2>4, <4>1 DEF Overlay
    <3>2. /\ overlayIds'[tile] = id.value
          /\ \A t \in Tiles : t # tile => overlayIds'[t] = overlayIds[t]
      BY <1>1, <3>1 DEF StreamTypeOK
    <3>3. UpTo(tile, overlayIds', renderRules')
      BY <1>1, <1>2, <3>1, <3>2, TilesAreNumbers DEF UpTo, Own, Blank
    <3>4. HasSmart(b, p + 2) /\ p + 2 \in Nat
      <4>1. RulePlace(b, p) <= Len(b)
        BY <1>1, <1>5, <1>6
      <4> HIDE DEF b
      <4> QED
        BY <1>1, <1>5, <1>6, <1>8, <4>1 DEF HasSmart
    <3> HIDE DEF id
    <3>5. CASE AfterSmart(b, p + 2) <= end
      <4>1. id.value = w.overlay /\ id.ptr = RulePlace(b, p)
        BY <1>5, <1>6, <1>8, <3>4, <3>5, SmartIsRead DEF id, Read
      <4> QED
        BY <1>1, <1>2, <1>4, <1>6, <1>8, <3>1, <3>2, <3>3, <3>5, <4>1, ToInTile DEF Blank
    <3>6. CASE ~(AfterSmart(b, p + 2) <= end)
      <4>1. id.value = 0 /\ id.ptr = p + 2
        BY <3>4, <3>6, SmartIsRead DEF id, Stuck, Read
      <4>2. Blank(tile, overlayIds', renderRules')
        BY <1>2, <3>1, <3>2, <4>1 DEF Blank
      <4>3. CASE p + 2 >= end
        <5>1. ~(After(source, tile) <= end)
          BY <1>1, <1>6, <1>8, <4>3
        <5>2. AllSettled(overlayIds', renderRules')
          BY <3>3, <4>2, <5>1, InTileFacts DEF Blank
        <5> QED
          BY <3>1, <4>1, <4>3, <5>2, ToNoMoreTiles
      <4>4. CASE ~(p + 2 >= end)
        <5>1. IsLong(b, p + 2) /\ end = p + 3
          <6>1. AfterSmart(b, p + 2) = p + 2 + (IF IsLong(b, p + 2) THEN 2 ELSE 1)
            BY DEF AfterSmart
          <6> HIDE DEF b, p
          <6> QED
            BY <1>1, <3>6, <4>4, <6>1
        <5> QED
          BY <1>1, <1>4, <1>8, <3>1, <3>3, <4>1, <4>2, <5>1
          DEF InHalf, UpTo, Own, Blank, source, end, data, Tiles
      <4> QED
        BY <4>3, <4>4
    <3> QED
      BY <3>5, <3>6
  <2> QED
    BY <2>3, <2>4
<1> QED
  BY <1>7, <1>8

LEMMA RuleStep ==
  ASSUME stream \in Streams, stream.file = "terrain", StreamTypeOK, InTile, StreamNext, phase = "rule"
  PROVE  InTile' \/ NoMoreTiles'
<1> DEFINE b == source.bytes
           p == source.tiles[tile].at
           w == source.tiles[tile]
<1>1. /\ end \in Nat /\ tile \in Tiles /\ ptr \in Nat /\ p \in Nat /\ ptr <= end /\ p <= ptr
      /\ FileOfTerrain(source) /\ After(source, tile) \in Nat
      /\ \A i \in Nat : i < end => At(i) = b[i + 1]
  BY InTileFacts
<1>2. /\ UpTo(tile, overlayIds, renderRules) /\ ptr = RulePlace(b, p)
      /\ overlayIds[tile] = w.overlay /\ renderRules[tile] = 0
  BY DEF InTile, AtPart
<1>3. Rule
  BY DEF StreamNext, MoreSentinels, NextObject, NextPlacement, Tile, TerrainDone, Overlay, Underlay
<1>4. /\ streamFlags = b[p + 1]
      /\ HasBit(b[p + 1], 2) => FlagBit(streamFlags, 2) = 1
      /\ ~HasBit(b[p + 1], 2) => FlagBit(streamFlags, 2) = 0
  BY FlagOfTile
<1>5. w.rule = IF HasBit(b[p + 1], 2) THEN b[RulePlace(b, p) + 1] ELSE 0
  BY <1>1, TileOfFile
<1>6. /\ UnderlayPlace(b, p) \in Nat /\ UnderlayPlace(b, p) <= After(source, tile)
      /\ HasBit(b[p + 1], 2) => UnderlayPlace(b, p) = RulePlace(b, p) + 1
      /\ ~HasBit(b[p + 1], 2) => UnderlayPlace(b, p) = RulePlace(b, p)
      /\ RulePlace(b, p) > p
  <2> HIDE DEF p, b
  <2> QED
    BY <1>1, Parts DEF After, p, b
<1>7. CASE ~HasBit(b[p + 1], 2)
  <2>1. FlagBit(streamFlags, 2) = 0
    BY <1>4, <1>7
  <2>2. /\ stream' = stream /\ ptr' = ptr /\ phase' = "underlay" /\ tile' = tile
        /\ streamFlags' = streamFlags /\ overlayIds' = overlayIds /\ renderRules' = renderRules
    BY <1>3, <2>1 DEF Rule, tiles
  <2> QED
    BY <1>1, <1>2, <1>4, <1>5, <1>6, <1>7, <2>2, ToInTile DEF Own
<1>8. CASE HasBit(b[p + 1], 2)
  <2>1. FlagBit(streamFlags, 2) # 0
    BY <1>4, <1>8
  <2>2. CASE ptr >= end
    <3>1. stream' = stream /\ phase' = "done" /\ overlayIds' = overlayIds /\ renderRules' = renderRules
      BY <1>3, <2>1, <2>2 DEF Rule, Done, tiles
    <3>2. ~(After(source, tile) <= end) /\ ~(end <= p)
      BY <1>1, <1>2, <1>6, <1>8, <2>2
    <3>3. AllSettled(overlayIds, renderRules)
      BY <1>2, <3>2, InTileFacts
    <3> QED
      BY <3>1, <3>3, ToNoMoreTiles
  <2>3. CASE ~(ptr >= end)
    <3>1. /\ stream' = stream /\ ptr' = ptr + 1 /\ phase' = "underlay" /\ tile' = tile
          /\ streamFlags' = streamFlags /\ overlayIds' = overlayIds
          /\ renderRules' = [renderRules EXCEPT ![tile] = At(ptr)]
      BY <1>3, <2>1, <2>3 DEF Rule
    <3>2. At(ptr) = w.rule
      BY <1>1, <1>2, <1>5, <1>8, <2>3
    <3>3. /\ renderRules'[tile] = w.rule
          /\ \A t \in Tiles : t # tile => renderRules'[t] = renderRules[t]
      BY <1>1, <3>1, <3>2 DEF StreamTypeOK
    <3>4. UpTo(tile, overlayIds', renderRules')
      BY <1>1, <1>2, <3>1, <3>3, TilesAreNumbers DEF UpTo, Own, Blank
    <3>5. ptr' = UnderlayPlace(b, p) /\ ptr' <= end
      BY <1>1, <1>2, <1>6, <1>8, <2>3, <3>1
    <3> QED
      BY <1>1, <1>2, <1>4, <3>1, <3>3, <3>4, <3>5, ToInTile DEF Own
  <2> QED
    BY <2>2, <2>3
<1> QED
  BY <1>7, <1>8

\* Half an overlay's id is kept as the rule of its tile, or not at all.
LEMMA HalfStep ==
  ASSUME stream \in Streams, stream.file = "terrain", StreamTypeOK, InHalf, StreamNext
  PROVE  NoMoreTiles'
<1> DEFINE b == source.bytes
           p == source.tiles[tile].at
           w == source.tiles[tile]
<1>1. /\ FileOfTerrain(source) /\ end \in Nat /\ end <= Len(b) /\ Len(b) \in Nat /\ b \in Seq(Byte)
      /\ \A i \in Nat : i < end => At(i) = b[i + 1]
  BY CutOfSource
<1>2. /\ tile \in Tiles /\ phase = "rule" /\ streamFlags = b[p + 1]
      /\ UpTo(tile, overlayIds, renderRules) /\ Blank(tile, overlayIds, renderRules)
      /\ HasBit(b[p + 1], 1) /\ IsLong(b, p + 2) /\ ptr = p + 2 /\ end = p + 3
  BY DEF InHalf
<1>3. p \in Nat
  BY <1>1, <1>2, TileOfFile
<1>4. ~(After(source, tile) <= end) /\ p <= end /\ ~(end <= p)
  <2>1. RulePlace(b, p) = p + 4
    BY <1>2, <1>3 DEF RulePlace, AfterSmart
  <2>2. After(source, tile) \in Nat /\ After(source, tile) >= RulePlace(b, p)
    <3> HIDE DEF p, b
    <3>1. /\ UnderlayPlace(b, p) >= RulePlace(b, p) /\ UnderlayPlace(b, p) \in Nat
          /\ AfterUnderlay(b, p) >= UnderlayPlace(b, p) /\ AfterUnderlay(b, p) \in Nat
          /\ AfterTile(b, p) >= AfterUnderlay(b, p) /\ AfterTile(b, p) \in Nat
          /\ RulePlace(b, p) \in Nat
      BY <1>3, Parts
    <3> QED
      BY <3>1 DEF After, p, b
  <2> HIDE DEF p
  <2> QED
    BY <1>1, <1>2, <1>3, <2>1, <2>2
<1>5. At(ptr) = b[p + 3] /\ At(ptr) >= 128
  <2>1. p + 2 \in Nat /\ p + 2 < end /\ (p + 2) + 1 = p + 3
    BY <1>2, <1>3
  <2>2. At(p + 2) = b[(p + 2) + 1]
    BY <1>1, <2>1
  <2>3. b[(p + 2) + 1] >= 128
    BY <1>2 DEF IsLong
  <2> QED
    BY <1>2, <2>1, <2>2, <2>3
<1>6. Rule
  BY <1>2 DEF StreamNext, MoreSentinels, NextObject, NextPlacement, Tile, TerrainDone, Overlay, Underlay
<1>7. /\ FlagBit(streamFlags, 2) \in {0, 1}
      /\ (FlagBit(streamFlags, 2) = 1) <=> HasBit(b[p + 1], 2)
  <2>1. FlagBit(streamFlags, 2) \in {0, 1}
    BY Bits DEF StreamTypeOK, Byte
  <2> QED
    BY <1>2, <2>1, FlagIsBit
<1>8. CASE FlagBit(streamFlags, 2) = 0
  <2>1. /\ stream' = stream /\ ptr' = ptr /\ phase' = "underlay"
        /\ overlayIds' = overlayIds /\ renderRules' = renderRules
    BY <1>6, <1>8 DEF Rule, tiles
  <2>2. HalfLeft(ptr)
    BY <1>2, <1>3, <1>5 DEF HalfLeft
  <2>3. AllSettled(overlayIds, renderRules)
    BY <1>2, <1>4, CutInTile DEF Blank
  <2> QED
    BY <2>1, <2>2, <2>3, ToNoMoreTiles
<1>9. CASE FlagBit(streamFlags, 2) # 0
  <2>1. /\ stream' = stream /\ ptr' = ptr + 1 /\ phase' = "underlay" /\ overlayIds' = overlayIds
        /\ renderRules' = [renderRules EXCEPT ![tile] = At(ptr)]
    <3>1. ~(ptr >= end)
      BY <1>2, <1>3
    <3> QED
      BY <1>6, <1>9, <3>1 DEF Rule
  <2>2. /\ renderRules'[tile] = b[p + 3]
        /\ \A t \in Tiles : t # tile => renderRules'[t] = renderRules[t]
    BY <1>2, <1>5, <2>1 DEF StreamTypeOK
  <2>3. UpTo(tile, overlayIds', renderRules')
    BY <1>2, <2>1, <2>2, TilesAreNumbers DEF UpTo, Own, Blank
  <2>4. b[p + 3] \in HalfId(b, p)
    BY <1>2, <1>7, <1>9 DEF HalfId
  <2>5. AllSettled(overlayIds', renderRules')
    BY <1>2, <1>4, <2>1, <2>2, <2>3, <2>4, CutInTile DEF Blank
  <2>6. ptr' >= end
    BY <1>2, <1>3, <2>1
  <2> QED
    BY <2>1, <2>5, <2>6, ToNoMoreTiles
<1> QED
  BY <1>8, <1>9

\* Two ids of underlays, and the next tile.
LEMMA UnderlayStep ==
  ASSUME stream \in Streams, stream.file = "terrain", StreamTypeOK, InTile, StreamNext, phase = "underlay"
  PROVE  InTile' \/ NoMoreTiles'
<1> DEFINE b == source.bytes
           p == source.tiles[tile].at
           next == IF FlagBit(streamFlags, 4) = 1 THEN readMapSmart(ptr).ptr ELSE ptr
<1>1. /\ end \in Nat /\ tile \in Tiles /\ ptr \in Nat /\ p \in Nat /\ ptr <= end /\ p <= ptr
      /\ FileOfTerrain(source) /\ After(source, tile) \in Nat
      /\ \A i \in Nat : i < end => At(i) = b[i + 1]
  BY InTileFacts
<1>2. /\ UpTo(tile, overlayIds, renderRules) /\ ptr = UnderlayPlace(b, p)
      /\ Own(tile, overlayIds, renderRules)
  BY DEF InTile, AtPart
<1>3. Underlay
  BY DEF StreamNext, MoreSentinels, NextObject, NextPlacement, Tile, TerrainDone, Overlay, Rule
<1>4. /\ streamFlags = b[p + 1]
      /\ HasBit(b[p + 1], 4) => FlagBit(streamFlags, 4) = 1
      /\ ~HasBit(b[p + 1], 4) => FlagBit(streamFlags, 4) = 0
      /\ HasBit(b[p + 1], 8) => FlagBit(streamFlags, 8) = 1
      /\ ~HasBit(b[p + 1], 8) => FlagBit(streamFlags, 8) = 0
  BY FlagOfTile
<1>5. /\ UnderlayPlace(b, p) > p
      /\ AfterUnderlay(b, p) \in Nat /\ AfterUnderlay(b, p) >= ptr
      /\ After(source, tile) >= AfterUnderlay(b, p)
      /\ HasBit(b[p + 1], 8) => After(source, tile) = AfterUnderlay(b, p) + 2
      /\ ~HasBit(b[p + 1], 8) => After(source, tile) = AfterUnderlay(b, p)
  <2> HIDE DEF p, b
  <2>1. /\ RulePlace(b, p) \in Nat /\ RulePlace(b, p) > p
        /\ UnderlayPlace(b, p) \in Nat /\ UnderlayPlace(b, p) >= RulePlace(b, p)
        /\ AfterUnderlay(b, p) \in Nat /\ AfterUnderlay(b, p) >= UnderlayPlace(b, p)
        /\ AfterTile(b, p) >= AfterUnderlay(b, p)
        /\ HasBit(b[p + 1], 8) => AfterTile(b, p) = AfterUnderlay(b, p) + 2
        /\ ~HasBit(b[p + 1], 8) => AfterTile(b, p) = AfterUnderlay(b, p)
    BY <1>1, Parts
  <2> QED
    BY <1>1, <1>2, <2>1 DEF After, p, b
<1>6. /\ stream' = stream /\ overlayIds' = overlayIds /\ renderRules' = renderRules
      /\ \/ FlagBit(streamFlags, 8) = 1 /\ next + 1 >= end /\ phase' = "done"
         \/ /\ FlagBit(streamFlags, 8) = 1 /\ ~(next + 1 >= end)
            /\ ptr' = next + 2 /\ tile' = tile + 1 /\ phase' = "tile"
         \/ /\ FlagBit(streamFlags, 8) # 1
            /\ ptr' = next /\ tile' = tile + 1 /\ phase' = "tile"
  BY <1>3 DEF Underlay, Done, tiles
<1>7. ~(end <= p)
  BY <1>1, <1>2, <1>5
<1>8. ~(After(source, tile) <= end) => AllSettled(overlayIds, renderRules)
  BY <1>2, <1>7, InTileFacts DEF Own
<1> HIDE DEF next
<1>9. ASSUME next = AfterUnderlay(b, p), next <= end
      PROVE  InTile' \/ NoMoreTiles'
  <2>1. CASE FlagBit(streamFlags, 8) = 1 /\ next + 1 >= end
    <3>1. HasBit(b[p + 1], 8)
      BY <1>4, <2>1
    <3>2. ~(After(source, tile) <= end)
      <4> HIDE DEF b, p
      <4> QED
        BY <1>1, <1>5, <1>9, <2>1, <3>1
    <3>3. phase' = "done"
      BY <1>6, <2>1
    <3> QED
      BY <1>6, <1>8, <3>2, <3>3, ToNoMoreTiles
  <2>2. CASE ~(FlagBit(streamFlags, 8) = 1 /\ next + 1 >= end)
    <3>1. /\ ptr' = After(source, tile) /\ ptr' <= end /\ tile' = tile + 1 /\ phase' = "tile"
      <4>1. CASE HasBit(b[p + 1], 8)
        <5>1. ptr' = next + 2 /\ tile' = tile + 1 /\ phase' = "tile" /\ ~(next + 1 >= end)
          BY <1>4, <1>6, <2>2, <4>1
        <5> HIDE DEF b, p
        <5> QED
          BY <1>1, <1>5, <1>9, <4>1, <5>1
      <4>2. CASE ~HasBit(b[p + 1], 8)
        <5>1. ptr' = next /\ tile' = tile + 1 /\ phase' = "tile"
          BY <1>4, <1>6, <2>2, <4>2
        <5> HIDE DEF b, p
        <5> QED
          BY <1>5, <1>9, <4>2, <5>1
      <4> QED
        BY <4>1, <4>2
    <3>2. CASE tile + 1 \in Tiles
      <4>1. ptr' = source.tiles[tile + 1].at
        BY <1>1, <3>1, <3>2, TileOfFile DEF After
      <4>2. UpTo(tile + 1, overlayIds, renderRules) /\ Blank(tile + 1, overlayIds, renderRules)
        <5>1. tile \in Nat /\ \A t \in Tiles : t \in Nat
          BY <1>1, TilesAreNumbers
        <5>2. \A t \in Tiles : t < tile + 1 => t < tile \/ t = tile
          BY <5>1
        <5>3. \A t \in Tiles : t > tile + 1 => t > tile
          BY <5>1
        <5>4. tile + 1 > tile
          BY <5>1
        <5> QED
          BY <1>2, <3>2, <5>2, <5>3, <5>4 DEF UpTo
      <4> QED
        BY <1>6, <3>1, <3>2, <4>1, <4>2, ToInTile
    <3>3. CASE tile + 1 \notin Tiles
      <4>1. After(source, tile) <= end
        BY <3>1
      <4>2. AllSettled(overlayIds, renderRules)
        BY <1>1, <1>2, <3>3, <4>1, NoCut
      <4> QED
        BY <1>6, <3>1, <3>3, <4>2, ToNoMoreTiles
    <3> QED
      BY <3>2, <3>3
  <2> QED
    BY <2>1, <2>2
<1>10. CASE ~HasBit(b[p + 1], 4)
  <2>1. next = ptr
    BY <1>4, <1>10 DEF next
  <2>2. AfterUnderlay(b, p) = ptr
    BY <1>2, <1>10 DEF AfterUnderlay
  <2> QED
    BY <1>1, <1>9, <2>1, <2>2
<1>11. CASE HasBit(b[p + 1], 4)
  <2>1. next = readMapSmart(ptr).ptr
    BY <1>4, <1>11 DEF next
  <2>2. AfterUnderlay(b, p) = AfterSmart(b, ptr)
    BY <1>2, <1>11 DEF AfterUnderlay
  <2>3. HasSmart(b, ptr)
    <3>1. After(source, tile) <= Len(b) /\ Len(b) \in Nat
      BY <1>1, TileOfFile DEF After, FileOfTerrain
    <3>2. AfterSmart(b, ptr) > ptr
      BY <1>1, SmartSize
    <3> HIDE DEF b, p
    <3> QED
      BY <1>1, <1>5, <2>2, <3>1, <3>2 DEF HasSmart
  <2>4. CASE AfterSmart(b, ptr) <= end
    <3>1. next = AfterSmart(b, ptr)
      BY <1>1, <2>1, <2>3, <2>4, SmartIsRead DEF Read
    <3> QED
      BY <1>9, <2>2, <2>4, <3>1
  <2>5. CASE ~(AfterSmart(b, ptr) <= end)
    <3>1. next = ptr
      BY <1>1, <2>1, <2>3, <2>5, SmartIsRead DEF Stuck, Read
    <3>2. ~(After(source, tile) <= end)
      <4> HIDE DEF b, p
      <4> QED
        BY <1>1, <1>5, <2>2, <2>5
    <3>3. ptr >= end \/ HalfLeft(ptr)
      <4> SUFFICES ASSUME ~(ptr >= end) PROVE HalfLeft(ptr)
        OBVIOUS
      <4>1. AfterSmart(b, ptr) = ptr + (IF IsLong(b, ptr) THEN 2 ELSE 1)
        BY DEF AfterSmart
      <4>2. IsLong(b, ptr) /\ ptr + 1 = end
        <5> HIDE DEF b
        <5> QED
          BY <1>1, <2>5, <4>1
      <4> QED
        BY <1>1, <4>2 DEF HalfLeft, IsLong
    <3>4. ptr + 1 >= end
      BY <1>1, <3>3 DEF HalfLeft
    <3>5. phase' = "done" \/ (ptr' = ptr /\ phase' = "tile")
      BY <1>6, <3>1, <3>4
    <3> QED
      BY <1>6, <1>8, <3>2, <3>3, <3>5, ToNoMoreTiles
  <2> QED
    BY <2>4, <2>5
<1> QED
  BY <1>10, <1>11

-----------------------------------------------------------------------------
(* Cut files keep their own.                                                 *)

\* The first tile is behind the header.
LEMMA InitTiles == StreamInit => TilesSoFar
<1> SUFFICES ASSUME StreamInit, stream.file = "terrain", end >= HeaderSize PROVE InTile
  BY DEF TilesSoFar
<1>1. FileOfTerrain(source) /\ end \in Nat
  BY CutOfSource DEF StreamInit
<1>2. 0 \in Tiles /\ tile = 0 /\ Tiles \in SUBSET Nat
  BY TilesAreNumbers DEF StreamInit
<1>3. ptr = HeaderSize /\ source.tiles[0].at = HeaderSize
  BY <1>1, <1>2 DEF StreamInit, FileOfTerrain
<1>4. phase = "tile"
  BY <1>1 DEF StreamInit, HeaderSize
<1>5. \A t \in Tiles : overlayIds[t] = 0 /\ renderRules[t] = 0
  BY DEF StreamInit
<1>6. \A t \in Tiles : ~(t < 0)
  BY <1>2
<1>7. ptr <= end
  BY <1>1, <1>3 DEF HeaderSize
<1> QED
  BY <1>2, <1>3, <1>4, <1>5, <1>6, <1>7 DEF InTile, AtPart, UpTo, Blank

LEMMA NextTiles ==
  ASSUME stream \in Streams, StreamTypeOK, TilesSoFar, StreamNext
  PROVE  TilesSoFar'
<1> SUFFICES ASSUME stream.file = "terrain", end >= HeaderSize PROVE InTile' \/ InHalf' \/ NoMoreTiles'
  BY SameStream DEF TilesSoFar, end, data
<1>1. CASE NoMoreTiles
  BY <1>1, NothingIsDecoded
<1>2. CASE InHalf
  BY <1>2, HalfStep
<1>3. CASE InTile
  <2>1. phase \in {"tile", "overlay", "rule", "underlay"}
    BY <1>3 DEF InTile, AtPart
  <2> QED
    BY <1>3, <2>1, TileStep, OverlayStep, RuleStep, UnderlayStep
<1> QED
  BY <1>1, <1>2, <1>3 DEF TilesSoFar

LEMMA TilesAtEnd == TilesSoFar => TilesAreTheirOwn
<1> SUFFICES ASSUME TilesSoFar, phase = "done", stream.file = "terrain", end >= HeaderSize
             PROVE  AllSettled(overlayIds, renderRules)
  BY DEF TilesAreTheirOwn, AllSettled, Settled
<1> QED
  BY DEF TilesSoFar, InTile, AtPart, InHalf, NoMoreTiles

LEMMA InitCutInv == StreamInit => CutInv
BY InitTypes, InitPlacements, InitTiles DEF CutInv, StreamInit

LEMMA NextCutInv == CutInv /\ [StreamNext]_streamVars => CutInv'
<1>1. ASSUME CutInv, StreamNext PROVE CutInv'
  <2>1. stream' \in Streams
    BY <1>1, SameStream DEF CutInv
  <2>2. StreamTypeOK'
    BY <1>1, NextTypes DEF CutInv
  <2> QED
    BY <1>1, <2>1, <2>2, NextPlacements, NextTiles DEF CutInv
<1>2. ASSUME CutInv, UNCHANGED streamVars PROVE CutInv'
  <2>1. StreamTypeOK'
    BY <1>2, NextTypes DEF CutInv
  <2>2. stream' \in Streams /\ PlacementsSoFar /\ TilesSoFar
    BY <1>2 DEF CutInv, streamVars
  <2>3. /\ stream' = stream /\ ptr' = ptr /\ phase' = phase /\ incr' = incr /\ objectId' = objectId
        /\ location' = location /\ result' = result /\ tile' = tile /\ streamFlags' = streamFlags
        /\ overlayIds' = overlayIds /\ renderRules' = renderRules
    BY <1>2 DEF streamVars, locs, tiles
  <2>4. source' = source /\ end' = end
    BY <2>3 DEF source, end, data
  <2>5. NoMorePieces => NoMorePieces'
    BY <2>3, StaysAllKept, StaysStuck DEF NoMorePieces
  <2>6. ASSUME NEW k \in 1 .. Len(source.pieces), AtPiece(k) PROVE AtPiece(k)'
    BY <2>3, <2>4, <2>6 DEF AtPiece, FirstKept
  <2>7. PlacementsSoFar'
    BY <2>2, <2>3, <2>4, <2>5, <2>6 DEF PlacementsSoFar
  <2>8. InTile => InTile'
    BY <2>3, ToInTile DEF InTile, AtPart
  <2>9. InHalf => InHalf'
    BY <2>3, <2>4 DEF InHalf, UpTo, Own, Blank, Tiles
  <2>10. NoMoreTiles => NoMoreTiles'
    BY <2>3, ToNoMoreTiles DEF NoMoreTiles
  <2>11. TilesSoFar'
    BY <2>2, <2>3, <2>4, <2>8, <2>9, <2>10 DEF TilesSoFar
  <2> QED
    BY <2>1, <2>2, <2>7, <2>11 DEF CutInv
<1> QED
  BY <1>1, <1>2

\* Wherever a file of a map square is cut off, the placements and the tiles in front of
\* the cut come out as they are in the whole file, and nothing else comes out but for the
\* half of an id, whatever the file (decodeLocationData, decodeMapTerrain).
THEOREM CutFilesKeepTheirOwn == StreamSpec => []CutKeepsItsOwn
<1>1. CutInv => CutKeepsItsOwn
  BY PlacementsAtEnd, TilesAtEnd DEF CutInv, CutKeepsItsOwn
<1> QED
  BY InitCutInv, NextCutInv, <1>1, PTL DEF StreamSpec
=============================================================================

------------------------------ MODULE RSBuffer ------------------------------
(***************************************************************************)
(* The reading half of core/RSBuffer.h.  A buffer is the sequence of the    *)
(* bytes up to writePosition and a position, the number of bytes already    *)
(* read.  A reader returns what it read and the position it leaves:         *)
(* the buffer itself is never changed by one.                               *)
(*                                                                          *)
(* Every value is a sequence of integers: <<n>> for a number, <<high, low>> *)
(* for 64 bits, the code points for a string.  The widths are those of the  *)
(* code: an int is 32 bits and signed.                                      *)
(***************************************************************************)
EXTENDS Integers, Sequences

Byte == 0 .. 255

\* What a reader returns.
Answer(value, pos) == [value |-> value, pos |-> pos]

remaining(buf, pos) == IF pos >= Len(buf) THEN 0 ELSE Len(buf) - pos

canRead(buf, pos, n) == pos <= Len(buf) /\ Len(buf) - pos >= n

\* A read of several bytes that are not all there consumes what is left.
Exhausted(buf) == Answer(<<0>>, Len(buf))

-----------------------------------------------------------------------------
(* Numbers of a fixed width, most significant byte first.                    *)

Signed(byte) == IF byte < 128 THEN byte ELSE byte - 256

readUnsignedByte(buf, pos) ==
  IF canRead(buf, pos, 1) THEN Answer(<<buf[pos + 1]>>, pos + 1) ELSE Answer(<<0>>, pos)

readByte(buf, pos) ==
  IF canRead(buf, pos, 1) THEN Answer(<<Signed(buf[pos + 1])>>, pos + 1) ELSE Answer(<<0>>, pos)

readUnsignedShort(buf, pos) ==
  IF canRead(buf, pos, 2)
  THEN Answer(<<256 * buf[pos + 1] + buf[pos + 2]>>, pos + 2)
  ELSE Exhausted(buf)

readMediumInt(buf, pos) ==
  IF canRead(buf, pos, 3)
  THEN Answer(<<65536 * buf[pos + 1] + 256 * buf[pos + 2] + buf[pos + 3]>>, pos + 3)
  ELSE Exhausted(buf)

IntAt(buf, pos) ==
  16777216 * Signed(buf[pos + 1]) + 65536 * buf[pos + 2] + 256 * buf[pos + 3] + buf[pos + 4]

readInt(buf, pos) ==
  IF canRead(buf, pos, 4) THEN Answer(<<IntAt(buf, pos)>>, pos + 4) ELSE Exhausted(buf)

readLong(buf, pos) ==
  IF canRead(buf, pos, 8)
  THEN Answer(<<IntAt(buf, pos), IntAt(buf, pos + 4)>>, pos + 8)
  ELSE Answer(<<0, 0>>, Len(buf))

-----------------------------------------------------------------------------
(* Numbers of a variable width: the first byte tells which.                  *)

\* Mutant: a cut two-byte value is left for the next reader.
readSmartUnconsumed(buf, pos) ==
  IF ~canRead(buf, pos, 1) THEN Answer(<<0>>, pos)
  ELSE IF buf[pos + 1] < 128 THEN readUnsignedByte(buf, pos)
  ELSE IF ~canRead(buf, pos, 2) THEN Answer(<<-32768>>, pos)
  ELSE Answer(<<readUnsignedShort(buf, pos).value[1] - 32768>>, pos + 2)

\* One byte below 128, two above.  The bias is taken off whatever the two bytes
\* were, so that a value of which only the first byte is there is -32768.
readSmart(buf, pos) ==
  IF ~canRead(buf, pos, 1) THEN Answer(<<0>>, pos)
  ELSE IF buf[pos + 1] < 128 THEN readUnsignedByte(buf, pos)
  ELSE LET two == readUnsignedShort(buf, pos) IN Answer(<<two.value[1] - 32768>>, two.pos)

\* Clearing bit 31 of a negative int: what & 0x7FFFFFFF does to it.
WithoutSign(n) == IF n < 0 THEN n + 2147483647 + 1 ELSE n

\* Two bytes when the first is not negative, otherwise four without the sign.
readSmartInt(buf, pos) ==
  IF ~canRead(buf, pos, 1) THEN Answer(<<0>>, pos)
  ELSE IF Signed(buf[pos + 1]) >= 0 THEN readUnsignedShort(buf, pos)
  ELSE LET four == readInt(buf, pos) IN Answer(<<WithoutSign(four.value[1])>>, four.pos)

\* The same, with 32767 in two bytes for "none".
readBigSmart(buf, pos) ==
  LET n == readSmartInt(buf, pos)
  IN  IF canRead(buf, pos, 1) /\ Signed(buf[pos + 1]) >= 0 /\ n.value = <<32767>>
      THEN Answer(<<-1>>, n.pos)
      ELSE n

\* Seven bits a byte, the least significant first, five bytes at most; of the
\* fifth only four bits fit an int, the highest of them its sign.
VarIntLength(buf, pos) ==
  LET most == IF remaining(buf, pos) < 5 THEN remaining(buf, pos) ELSE 5
      ends == {n \in 1 .. most : buf[pos + n] < 128}
  IN  IF ends = {} THEN most ELSE CHOOSE n \in ends : \A m \in ends : n <= m

readVarInt(buf, pos) ==
  LET length == VarIntLength(buf, pos)
      Bits(n) == IF n <= length THEN buf[pos + n] % 128 ELSE 0
      Fifth   == (Bits(5) % 16) - (IF Bits(5) % 16 < 8 THEN 0 ELSE 16)
  IN  Answer(<<Bits(1) + 128 * Bits(2) + 16384 * Bits(3) + 2097152 * Bits(4)
               + 268435456 * Fifth>>, pos + length)

-----------------------------------------------------------------------------
(* Strings, and what is skipped.                                             *)

\* cp1252_80_9f: the code points of 0x80 to 0x9F, 0 where there is none.
cp1252_80_9f ==
  << 8364, 0, 8218, 402, 8222, 8230, 8224, 8225, 710, 8240, 352, 8249, 338, 0, 381, 0,
     0, 8216, 8217, 8220, 8221, 8226, 8211, 8212, 732, 8482, 353, 8250, 339, 0, 382, 376 >>

CodePoint(byte) ==
  IF byte < 128 \/ byte >= 160 THEN byte
  ELSE IF cp1252_80_9f[byte - 127] = 0 THEN 65533
  ELSE cp1252_80_9f[byte - 127]

\* The number of bytes before the next NUL, or before the end.
StringLength(buf, pos) ==
  LET nuls == {n \in 0 .. remaining(buf, pos) - 1 : buf[pos + n + 1] = 0}
  IN  IF nuls = {} THEN remaining(buf, pos) ELSE CHOOSE n \in nuls : \A m \in nuls : n <= m

readString(buf, pos) ==
  LET length == StringLength(buf, pos)
      after  == IF length < remaining(buf, pos) THEN 1 ELSE 0
  IN  Answer([n \in 1 .. length |-> CodePoint(buf[pos + n])], pos + length + after)

\* Mutant: it is not stopped at the end.
skipPastEnd(buf, pos, length) == pos + length

\* A skip past the end stops there, one by a negative length does nothing.
skip(buf, pos, length) ==
  IF length < 0 THEN pos
  ELSE IF length \in 0 .. remaining(buf, pos) THEN pos + length
  ELSE Len(buf)

=============================================================================

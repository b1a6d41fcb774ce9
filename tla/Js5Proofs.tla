------------------------------ MODULE Js5Proofs ------------------------------
(***************************************************************************)
(* A group of the servers, or of a row: what is in it is read back.        *)
(*                                                                         *)
(* First the bytes (Groups): a container gives its payload or is refused,  *)
(* and the decoders of both layouts give the files that were packed.  The  *)
(* inductive invariant says that an archive has the ids its table declares *)
(* and, once it took a blob, every file of the group at its place.         *)
(*                                                                         *)
(* Then the reference tables (Tables): every part of a table is read where *)
(* it is written, and past a cut nothing but zeros.  The inductive         *)
(* invariant says that the index has what decoding its table makes.        *)
(*                                                                         *)
(* Then the connection (Js5Socket): getFile's counting is right for every  *)
(* block size and every container, after failed calls as well.  The        *)
(* inductive invariant relates what the client counts to where the         *)
(* server's framing really is: where a name is found the block begins, and *)
(* from there bytesread and current are inBlock and offset; a failed call  *)
(* leaves a place inside what is still to be read; and without a container *)
(* nobody asked for, nothing precedes the answer.                          *)
(***************************************************************************)
EXTENDS Js5Socket, Groups, Tables, TLAPS, WellFoundedInduction, FiniteSetTheorems

(* Recursion and sequences.                                                    *)

\* A set of numbers that is not empty has a least one.
LEMMA LeastExists ==
  ASSUME NEW S \in SUBSET Nat, S # {}
  PROVE  \E n \in S : \A m \in S : n <= m
<1> DEFINE R == OpToRel(<, Nat)
<1>1. IsWellFoundedOn(R, Nat)
  BY NatLessThanWellFounded
<1>2. PICK n \in S : \A m \in S : <<m, n>> \notin R
  BY <1>1, WFMin
<1>3. \A m \in S : ~(m < n)
  BY <1>2 DEF OpToRel
<1> HIDE DEF R
<1>4. \A m \in S : n <= m
  BY <1>2, <1>3
<1> QED
  BY <1>2, <1>4

\* What holds at 0 and of each number with the one before it holds of all.
LEMMA Climb ==
  ASSUME NEW n \in Nat, NEW S \in SUBSET (0 .. n), 0 \in S,
         \A i \in 1 .. n : i - 1 \in S => i \in S
  PROVE  S = 0 .. n
<1> DEFINE U == {i \in 0 .. n : i \notin S}
<1> SUFFICES ASSUME U # {} PROVE FALSE
  OBVIOUS
<1>0. U \in SUBSET Nat
  OBVIOUS
<1>1. PICK i \in U : \A j \in U : i <= j
  BY <1>0, LeastExists
<1>2. i \in 1 .. n /\ i - 1 \in 0 .. n /\ i \notin S
  BY <1>1
<1>3. i - 1 \notin U
  <2> HIDE DEF U
  <2> QED
    BY <1>1, <1>2
<1> QED
  BY <1>2, <1>3

\* A beginning of a sequence grows by the next value.
LEMMA Grows ==
  ASSUME NEW T, NEW s \in Seq(T), NEW i \in 1 .. Len(s)
  PROVE  Append(SubSeq(s, 1, i - 1), s[i]) = SubSeq(s, 1, i)
  OBVIOUS

\* Two parts of a sequence that follow each other.
LEMMA Joins ==
  ASSUME NEW T, NEW s \in Seq(T), NEW a \in 0 .. Len(s), NEW b \in a .. Len(s)
  PROVE  SubSeq(s, 1, a) \o SubSeq(s, a + 1, b) = SubSeq(s, 1, b)
  OBVIOUS

\* What a recursion makes of n, where each step of it takes one value to the next.
LEMMA Unrolled ==
  ASSUME NEW n \in Nat, NEW f, NEW g, f[0] = g[0], \A i \in 1 .. n : f[i - 1] = g[i - 1] => f[i] = g[i]
  PROVE  f[n] = g[n]
<1> DEFINE S == {i \in 0 .. n : f[i] = g[i]}
<1>1. S \in SUBSET (0 .. n) /\ 0 \in S /\ \A i \in 1 .. n : i - 1 \in S => i \in S
  OBVIOUS
<1>2. S = 0 .. n
  <2> HIDE DEF S
  <2> QED
    BY <1>1, Climb
<1> QED
  BY <1>2

\* The same for a recursion that begins at 1.
LEMMA UnrolledFrom1 ==
  ASSUME NEW n \in Nat, n # 0, NEW f, NEW g, f[1] = g[1],
         \A i \in 2 .. n : f[i - 1] = g[i - 1] => f[i] = g[i]
  PROVE  f[n] = g[n]
<1> DEFINE S == {i \in 0 .. n : i = 0 \/ f[i] = g[i]}
<1>1. S \in SUBSET (0 .. n) /\ 0 \in S /\ \A i \in 1 .. n : i - 1 \in S => i \in S
  <2> SUFFICES ASSUME NEW i \in 1 .. n, i - 1 \in S PROVE i \in S
    OBVIOUS
  <2>1. i \in 0 .. n /\ (i = 1 \/ i \in 2 .. n)
    OBVIOUS
  <2>2. i # 1 => f[i - 1] = g[i - 1]
    BY <2>1
  <2> QED
    BY <2>1, <2>2
<1>2. S = 0 .. n
  <2> HIDE DEF S
  <2> QED
    BY <1>1, Climb
<1> QED
  BY <1>2

\* A sequence of numbers is the sums of its differences.
SumStep(seq, s, i) == Append(s, seq[i] + (IF i = 1 THEN 0 ELSE Last(s)))

\* Sums of the differences of a sequence is the sequence.
LEMMA SumsAre ==
  ASSUME NEW n \in Nat, NEW seq \in Seq(Int), NEW t \in Seq(Int), Len(seq) = n, Len(t) = n,
         \A i \in 1 .. n : t[i] = seq[i] + (IF i = 1 THEN 0 ELSE t[i - 1])
  PROVE  Sums(seq) = t
<1> DEFINE g == [i \in 0 .. n |-> SubSeq(t, 1, i)]
           f == CHOOSE f : f = [i \in 0 .. n |-> IF i = 0 THEN <<>> ELSE SumStep(seq, f[i - 1], i)]
<1>1. \A i \in 1 .. n : SumStep(seq, SubSeq(t, 1, i - 1), i) = SubSeq(t, 1, i)
  <2> SUFFICES ASSUME NEW i \in 1 .. n PROVE SumStep(seq, SubSeq(t, 1, i - 1), i) = SubSeq(t, 1, i)
    OBVIOUS
  <2>1. i # 1 => Last(SubSeq(t, 1, i - 1)) = t[i - 1]
    BY DEF Last
  <2>2. seq[i] + (IF i = 1 THEN 0 ELSE Last(SubSeq(t, 1, i - 1))) = t[i]
    BY <2>1
  <2>3. Append(SubSeq(t, 1, i - 1), t[i]) = SubSeq(t, 1, i)
    BY Grows
  <2> QED
    BY <2>2, <2>3 DEF SumStep
<1>2. Sums(seq) = f[n]
  BY DEF Sums, SumStep
<1>3. SubSeq(t, 1, 0) = <<>> /\ SubSeq(t, 1, n) = t
  OBVIOUS
<1>4. g[0] = <<>> /\ \A i \in 1 .. n : g[i] = SumStep(seq, g[i - 1], i)
  <2>1. \A i \in 0 .. n : g[i] = SubSeq(t, 1, i)
    OBVIOUS
  <2> HIDE DEF g
  <2>2. g[0] = <<>>
    BY <1>3, <2>1
  <2>3. ASSUME NEW i \in 1 .. n PROVE g[i] = SumStep(seq, g[i - 1], i)
    <3>1. g[i - 1] = SubSeq(t, 1, i - 1) /\ g[i] = SubSeq(t, 1, i)
      BY <2>1
    <3> QED
      BY <1>1, <3>1
  <2> QED
    BY <2>2, <2>3
<1>5. g = [i \in 0 .. n |-> IF i = 0 THEN <<>> ELSE SumStep(seq, g[i - 1], i)]
  <2>1. \A i \in 0 .. n : g[i] = IF i = 0 THEN <<>> ELSE SumStep(seq, g[i - 1], i)
    <3> HIDE DEF g
    <3> QED
      BY <1>4
  <2> QED
    BY <2>1
<1>6. f = [i \in 0 .. n |-> IF i = 0 THEN <<>> ELSE SumStep(seq, f[i - 1], i)]
  <2> HIDE DEF g
  <2> QED
    BY <1>5
<1>7. g[n] = t
  BY <1>3
<1> HIDE DEF f, g
<1>8. f[0] = <<>> /\ \A i \in 1 .. n : f[i] = SumStep(seq, f[i - 1], i)
  BY <1>6
<1>9. f[n] = g[n]
  BY <1>4, <1>8, Unrolled
<1> QED
  BY <1>2, <1>7, <1>9

-----------------------------------------------------------------------------
\* Values that follow each other are read one by one, wherever each read ends.
ReadStep(reads, before) ==
  LET next == reads[before.pos] IN Answer(before.value \o next.value, next.pos)

ReadSoFar(v, q, i) == Answer(SubSeq(v, 1, i), q[i])

\* Each of n reads gives the next of the values, and ends where the next begins.
AreReads(reads, q, v, n) ==
  \A i \in 1 .. n : reads[q[i - 1]] = Answer(<<v[i]>>, q[i])

\* All of them are read.
LEMMA AllAreRead ==
  ASSUME NEW T, NEW n \in Nat, NEW v \in Seq(T), Len(v) = n, NEW q, NEW reads, AreReads(reads, q, v, n)
  PROVE  Repeated(reads, q[0], n) = Answer(v, q[n])
<1> DEFINE p == q[0]
           g == [i \in 0 .. n |-> ReadSoFar(v, q, i)]
           f == CHOOSE f : f = [i \in 0 .. n |-> IF i = 0 THEN Answer(<<>>, p) ELSE ReadStep(reads, f[i - 1])]
<1>1. ASSUME NEW i \in 1 .. n PROVE ReadStep(reads, ReadSoFar(v, q, i - 1)) = ReadSoFar(v, q, i)
  <2> DEFINE s == SubSeq(v, 1, i - 1)
  <2>1. reads[q[i - 1]] = Answer(<<v[i]>>, q[i])
    BY DEF AreReads
  <2>2. s \o <<v[i]>> = SubSeq(v, 1, i)
    OBVIOUS
  <2>3. Answer(s, q[i - 1]).value = s /\ Answer(s, q[i - 1]).pos = q[i - 1]
    BY DEF Answer
  <2>4. Answer(<<v[i]>>, q[i]).value = <<v[i]>> /\ Answer(<<v[i]>>, q[i]).pos = q[i]
    BY DEF Answer
  <2> HIDE DEF s
  <2>5. ReadStep(reads, Answer(s, q[i - 1])) = Answer(s \o <<v[i]>>, q[i])
    BY <2>1, <2>3, <2>4 DEF ReadStep
  <2> QED
    BY <2>2, <2>5 DEF ReadSoFar, s
<1>2. Repeated(reads, p, n) = f[n]
  BY DEF Repeated, ReadStep
<1>3. ReadSoFar(v, q, 0) = Answer(<<>>, p) /\ ReadSoFar(v, q, n) = Answer(v, q[n])
  <2>1. SubSeq(v, 1, 0) = <<>> /\ SubSeq(v, 1, n) = v
    OBVIOUS
  <2> QED
    BY <2>1 DEF ReadSoFar
<1>4. \A i \in 0 .. n : g[i] = ReadSoFar(v, q, i)
  OBVIOUS
<1>5. g[0] = Answer(<<>>, p) /\ \A i \in 1 .. n : g[i] = ReadStep(reads, g[i - 1])
  <2> HIDE DEF g, p
  <2>1. g[0] = Answer(<<>>, p)
    BY <1>3, <1>4
  <2>2. ASSUME NEW i \in 1 .. n PROVE g[i] = ReadStep(reads, g[i - 1])
    <3>1. g[i - 1] = ReadSoFar(v, q, i - 1) /\ g[i] = ReadSoFar(v, q, i)
      BY <1>4
    <3> QED
      BY <1>1, <3>1
  <2> QED
    BY <2>1, <2>2
<1>6. g = [i \in 0 .. n |-> IF i = 0 THEN Answer(<<>>, p) ELSE ReadStep(reads, g[i - 1])]
  <2>1. \A i \in 0 .. n : g[i] = IF i = 0 THEN Answer(<<>>, p) ELSE ReadStep(reads, g[i - 1])
    <3> HIDE DEF g, p
    <3> QED
      BY <1>5
  <2> QED
    BY <2>1
<1>7. f = [i \in 0 .. n |-> IF i = 0 THEN Answer(<<>>, p) ELSE ReadStep(reads, f[i - 1])]
  <2> HIDE DEF g, p
  <2> QED
    BY <1>6
<1>8. g[n] = Answer(v, q[n])
  <2> HIDE DEF g
  <2> QED
    BY <1>3, <1>4
<1> HIDE DEF f, g, p
<1>9. f[0] = Answer(<<>>, p) /\ \A i \in 1 .. n : f[i] = ReadStep(reads, f[i - 1])
  BY <1>7
<1>10. \A i \in 1 .. n : f[i - 1] = g[i - 1] => f[i] = g[i]
  BY <1>5, <1>9
<1>11. f[n] = g[n]
  BY <1>5, <1>9, <1>10, Unrolled
<1> QED
  BY <1>2, <1>8, <1>11 DEF p

\* Numbers of four bytes that follow each other.
LEMMA IntsRead ==
  ASSUME NEW b \in Seq(Byte), NEW p \in Nat, NEW n \in Nat, p + 4 * n <= Len(b),
         NEW t \in Seq(Int), Len(t) = n, \A i \in 1 .. n : IntAt(b, p + 4 * (i - 1)) = t[i]
  PROVE  Repeated(Ints(b), p, n).value = t
<1> DEFINE q == [i \in 0 .. n |-> p + 4 * i]
           reads == Ints(b)
<1>1. ASSUME NEW i \in 1 .. n PROVE reads[q[i - 1]] = Answer(<<t[i]>>, q[i])
  <2>1. q[i - 1] = p + 4 * (i - 1) /\ q[i] = p + 4 * i
    OBVIOUS
  <2> DEFINE at == p + 4 * (i - 1)
  <2>2. at \in Nat /\ at + 4 = p + 4 * i /\ at + 4 <= Len(b)
    OBVIOUS
  <2>3. IntAt(b, at) = t[i]
    OBVIOUS
  <2> HIDE DEF at
  <2>4. readInt(b, at) = Answer(<<t[i]>>, at + 4)
    BY <2>2, <2>3 DEF readInt, canRead
  <2>5. reads[at] = readInt(b, at)
    BY <2>2 DEF Ints
  <2> QED
    BY <2>1, <2>2, <2>4, <2>5 DEF at
<1>2. q[0] = p
  OBVIOUS
<1> HIDE DEF q, reads
<1>3. AreReads(reads, q, t, n)
  BY <1>1 DEF AreReads
<1>4. Repeated(reads, q[0], n) = Answer(t, q[n])
  BY <1>3, AllAreRead
<1> QED
  BY <1>2, <1>4 DEF reads, Answer

\* A sequence is the join of the n parts that it is cut into.
AreParts(seqs, x, e, n) ==
  /\ Len(seqs) = n /\ e \in [0 .. n -> Nat] /\ e[0] = 0 /\ e[n] = Len(x)
  /\ \A i \in 1 .. n : e[i] = e[i - 1] + Len(seqs[i]) /\ e[i] <= Len(x)
                       /\ SubSeq(x, e[i - 1] + 1, e[i]) = seqs[i]

\* FlattenSeq of the parts is the sequence.
LEMMA FlatIs ==
  ASSUME NEW T, NEW n \in Nat, NEW seqs \in Seq(Seq(T)), NEW x \in Seq(T), NEW e, AreParts(seqs, x, e, n)
  PROVE  FlattenSeq(seqs) = x
<1> SUFFICES ASSUME Len(seqs) = n, e \in [0 .. n -> Nat], e[0] = 0, e[n] = Len(x),
                    \A i \in 1 .. n : e[i] = e[i - 1] + Len(seqs[i]) /\ e[i] <= Len(x)
                                      /\ SubSeq(x, e[i - 1] + 1, e[i]) = seqs[i]
             PROVE  FlattenSeq(seqs) = x
  BY DEF AreParts
<1>1. ASSUME n = 0 PROVE FlattenSeq(seqs) = x
  <2>1. x = <<>> /\ seqs = <<>>
    BY <1>1
  <2> QED
    BY <2>1 DEF FlattenSeq
<1>2. ASSUME n # 0 PROVE FlattenSeq(seqs) = x
  <2> DEFINE g == [i \in 1 .. n |-> SubSeq(x, 1, e[i])]
             f == CHOOSE f : f = [i \in 1 .. n |-> IF i = 1 THEN seqs[i] ELSE f[i - 1] \o seqs[i]]
  <2>0. n \in Nat /\ 1 \in 1 .. n /\ n \in 1 .. n /\ n - 1 \in Nat
    BY <1>2
  <2>1. \A i \in 1 .. n : SubSeq(x, 1, e[i - 1]) \o seqs[i] = SubSeq(x, 1, e[i])
    <3> SUFFICES ASSUME NEW i \in 1 .. n PROVE SubSeq(x, 1, e[i - 1]) \o seqs[i] = SubSeq(x, 1, e[i])
      OBVIOUS
    <3>1. i - 1 \in 0 .. n /\ i \in 0 .. n /\ i \in DOMAIN seqs
      OBVIOUS
    <3>2. e[i - 1] \in Nat /\ e[i] \in Nat /\ seqs[i] \in Seq(T)
      BY <3>1
    <3>3. e[i] = e[i - 1] + Len(seqs[i]) /\ e[i] <= Len(x) /\ SubSeq(x, e[i - 1] + 1, e[i]) = seqs[i]
      OBVIOUS
    <3> DEFINE a == e[i - 1]
               c == e[i]
               part == seqs[i]
    <3>4. a \in Nat /\ c \in Nat /\ part \in Seq(T) /\ c = a + Len(part) /\ c <= Len(x)
          /\ SubSeq(x, a + 1, c) = part
      BY <3>2, <3>3
    <3> HIDE DEF a, c, part
    <3>5. a \in 0 .. Len(x) /\ c \in a .. Len(x)
      BY <3>4, SMTT(20)
    <3>6. SubSeq(x, 1, a) \o SubSeq(x, a + 1, c) = SubSeq(x, 1, c)
      BY <3>5, Joins
    <3> QED
      BY <3>4, <3>6 DEF a, c, part
  <2>2. FlattenSeq(seqs) = f[n]
    BY <1>2 DEF FlattenSeq
  <2>3. SubSeq(x, 1, e[1]) = seqs[1] /\ SubSeq(x, 1, e[n]) = x
    <3>1. SubSeq(x, 1, e[1 - 1]) \o seqs[1] = SubSeq(x, 1, e[1])
      BY <2>0, <2>1
    <3>2. SubSeq(x, 1, e[1 - 1]) = <<>>
      BY <2>0
    <3>3. seqs[1] \in Seq(T)
      BY <2>0
    <3>4. <<>> \o seqs[1] = seqs[1]
      BY <3>3
    <3>5. SubSeq(x, 1, Len(x)) = x
      OBVIOUS
    <3> QED
      BY <3>1, <3>2, <3>4, <3>5
  <2>4. \A i \in 1 .. n : g[i] = SubSeq(x, 1, e[i])
    OBVIOUS
  <2>5. g[1] = seqs[1] /\ \A i \in 2 .. n : g[i] = g[i - 1] \o seqs[i]
    <3> HIDE DEF g
    <3>1. g[1] = seqs[1]
      BY <2>0, <2>3, <2>4
    <3>2. ASSUME NEW i \in 2 .. n PROVE g[i] = g[i - 1] \o seqs[i]
      <4>0. i \in 1 .. n /\ i - 1 \in 1 .. n
        OBVIOUS
      <4>1. g[i - 1] = SubSeq(x, 1, e[i - 1]) /\ g[i] = SubSeq(x, 1, e[i])
        BY <2>4, <4>0
      <4>2. SubSeq(x, 1, e[i - 1]) \o seqs[i] = SubSeq(x, 1, e[i])
        BY <2>1, <4>0
      <4> QED
        BY <4>1, <4>2
    <3> QED
      BY <3>1, <3>2
  <2>6. g = [i \in 1 .. n |-> IF i = 1 THEN seqs[i] ELSE g[i - 1] \o seqs[i]]
    <3>1. \A i \in 1 .. n : g[i] = IF i = 1 THEN seqs[i] ELSE g[i - 1] \o seqs[i]
      <4> HIDE DEF g
      <4> SUFFICES ASSUME NEW i \in 1 .. n, i # 1 PROVE g[i] = g[i - 1] \o seqs[i]
        BY <2>5
      <4>1. i \in 2 .. n
        OBVIOUS
      <4> QED
        BY <2>5, <4>1
    <3> QED
      BY <3>1
  <2>7. f = [i \in 1 .. n |-> IF i = 1 THEN seqs[i] ELSE f[i - 1] \o seqs[i]]
    <3> HIDE DEF g
    <3> QED
      BY <2>6
  <2>8. g[n] = x
    <3> HIDE DEF g
    <3> QED
      BY <2>0, <2>3, <2>4
  <2> HIDE DEF f, g
  <2>9. f[1] = seqs[1] /\ \A i \in 2 .. n : f[i] = f[i - 1] \o seqs[i]
    <3>1. \A i \in 1 .. n : f[i] = IF i = 1 THEN seqs[i] ELSE f[i - 1] \o seqs[i]
      BY <2>7
    <3>2. ASSUME NEW i \in 2 .. n PROVE f[i] = f[i - 1] \o seqs[i]
      <4>1. i \in 1 .. n /\ i # 1
        OBVIOUS
      <4> QED
        BY <3>1, <4>1
    <3> QED
      BY <2>0, <3>1, <3>2
  <2>10. f[1] = g[1] /\ \A i \in 2 .. n : f[i - 1] = g[i - 1] => f[i] = g[i]
    BY <2>5, <2>9
  <2>11. f[n] = g[n]
    BY <2>0, <2>10, UnrolledFrom1
  <2> QED
    BY <2>2, <2>8, <2>11
<1> QED
  BY <1>1, <1>2

-----------------------------------------------------------------------------
(* Containers.                                                                *)

\* A result and a refusal are told apart.
LEMMA Kinds ==
  /\ \A x : Result(x).how = "result" /\ Result(x).of = x
  /\ Refused.how = "refused"
  BY DEF Result, Refused

\* A payload is taken where the header has its size, and refused where it has another.
LEMMA Exact ==
  ASSUME NEW p \in Seq(Byte), NEW size \in Int
  PROVE  /\ size = Len(p) => Exactly(size, Result(p)) = Result(p) /\ AtLeast(size, Result(p)) = Result(p)
         /\ size # Len(p) => Exactly(size, Result(p)) = Refused
         /\ size > Len(p) => AtLeast(size, Result(p)) = Refused
         /\ Exactly(size, Refused) = Refused
<1>1. SubSeq(p, 1, Len(p)) = p /\ Len(p) \in 0 .. Len(p)
  OBVIOUS
<1>2. size > Len(p) => size \notin 0 .. Len(p)
  OBVIOUS
<1>3. Refused.how # "result"
  BY DEF Refused
<1> QED
  BY <1>1, <1>2, <1>3, Kinds DEF Exactly, AtLeast

\* A number that is all there is read.
LEMMA IntIsThere ==
  ASSUME NEW b \in Seq(Byte), NEW p \in Nat, p + 4 <= Len(b)
  PROVE  IntOf(b, p) = IntAt(b, p)
<1>1. canRead(b, p, 4)
  BY DEF canRead
<1> QED
  BY <1>1 DEF IntOf, readInt, Answer

\* A beginning of bytes has the same numbers.
LEMMA SameInt ==
  ASSUME NEW a \in Seq(Byte), NEW b \in Seq(Byte), NEW p \in Nat, NEW n \in Nat, p + 4 <= n,
         n <= Len(a), n <= Len(b), SubSeq(a, 1, n) = SubSeq(b, 1, n)
  PROVE  IntAt(a, p) = IntAt(b, p)
<1>1. \A k \in 1 .. n : a[k] = b[k]
  <2> TAKE k \in 1 .. n
  <2>1. SubSeq(a, 1, n)[k] = a[k] /\ SubSeq(b, 1, n)[k] = b[k]
    OBVIOUS
  <2> QED
    BY <2>1
<1>2. p + 1 \in 1 .. n /\ p + 2 \in 1 .. n /\ p + 3 \in 1 .. n /\ p + 4 \in 1 .. n
  OBVIOUS
<1> QED
  BY <1>1, <1>2 DEF IntAt

\* The header is as long as the type says, and the body is behind it.
LEMMA ContainerType ==
  ASSUME NEW c, IsContainer(c)
  PROVE  /\ c.type \in {0, 1, 2, 3, 90} /\ c.bytes \in Seq(Byte) /\ c.body \in Seq(Byte)
         /\ c.payload \in Seq(Byte) /\ c.size \in Int
         /\ Len(c.bytes) = HeaderSize(c.type) + Len(c.body)
         /\ SubSeq(c.bytes, HeaderSize(c.type) + 1, Len(c.bytes)) = c.body
         /\ HeaderSize(c.type) \in {5, 8, 9}
         /\ (c.type = 0 => HeaderSize(c.type) = 5) /\ (c.type = 90 => HeaderSize(c.type) = 8)
         /\ (c.type \in {1, 2, 3} => HeaderSize(c.type) = 9)
<1>1. HeaderSize(c.type) \in {5, 8, 9} /\ (c.type = 0 => HeaderSize(c.type) = 5)
      /\ (c.type = 90 => HeaderSize(c.type) = 8) /\ (c.type \in {1, 2, 3} => HeaderSize(c.type) = 9)
  BY DEF HeaderSize
<1> QED
  BY <1>1 DEF IsContainer

\* What begins with another byte is no ZLB.
LEMMA NotZLB ==
  ASSUME NEW b \in Seq(Byte), Len(b) >= 4, b[1] # 90
  PROVE  SubSeq(b, 1, 4) # ZLB
<1>1. SubSeq(b, 1, 4)[1] = b[1]
  OBVIOUS
<1>2. ZLB[1] = 90
  BY DEF ZLB
<1> QED
  BY <1>1, <1>2

\* What the first bytes of a container say.
LEMMA HeaderIsThere ==
  ASSUME NEW c, IsContainer(c), NEW bytes \in Seq(Byte), NEW n \in Nat,
         n <= Len(c.bytes), n <= Len(bytes), SubSeq(bytes, 1, n) = SubSeq(c.bytes, 1, n)
  PROVE  /\ c.type # 90 /\ n >= 1 => bytes[1] = c.type
         /\ c.type # 90 /\ n >= 5 => IntOf(bytes, 1) = Len(c.body)
         /\ c.type \in {1, 2, 3} /\ n >= 9 => IntOf(bytes, 5) = c.size
         /\ c.type = 90 /\ n >= 8 => IntOf(bytes, 4) = c.size
         /\ n >= 4 => (SubSeq(bytes, 1, 4) = ZLB <=> c.type = 90)
<1> DEFINE b == c.bytes
<1>0. b \in Seq(Byte) /\ n <= Len(b) /\ SubSeq(bytes, 1, n) = SubSeq(b, 1, n) /\ c.type \in {0, 1, 2, 3, 90}
  BY ContainerType
<1>1. c.type # 90 => b[1] = c.type /\ IntAt(b, 1) = Len(c.body)
  BY DEF IsContainer
<1>2. c.type \in {1, 2, 3} => IntAt(b, 5) = c.size
  BY DEF IsContainer
<1>3. c.type = 90 => SubSeq(b, 1, 4) = ZLB /\ IntAt(b, 4) = c.size
  BY DEF IsContainer
<1> HIDE DEF b
<1>4. n >= 1 => bytes[1] = b[1]
  <2> SUFFICES ASSUME n >= 1 PROVE bytes[1] = b[1]
    OBVIOUS
  <2>1. SubSeq(bytes, 1, n)[1] = bytes[1] /\ SubSeq(b, 1, n)[1] = b[1]
    BY <1>0
  <2> QED
    BY <1>0, <2>1
<1>5. ASSUME NEW p \in {1, 4, 5}, p + 4 <= n PROVE IntOf(bytes, p) = IntAt(b, p)
  <2>1. p \in Nat /\ p + 4 <= Len(bytes)
    BY <1>5
  <2>2. IntAt(bytes, p) = IntAt(b, p)
    BY <1>0, <1>5, <2>1, SameInt
  <2> QED
    BY <2>1, <2>2, IntIsThere
<1>6. n >= 4 => SubSeq(bytes, 1, 4) = SubSeq(b, 1, 4)
  <2> SUFFICES ASSUME n >= 4 PROVE SubSeq(bytes, 1, 4) = SubSeq(b, 1, 4)
    OBVIOUS
  <2>1. SubSeq(SubSeq(bytes, 1, n), 1, 4) = SubSeq(bytes, 1, 4)
    OBVIOUS
  <2>2. SubSeq(SubSeq(b, 1, n), 1, 4) = SubSeq(b, 1, 4)
    BY <1>0
  <2> QED
    BY <1>0, <2>1, <2>2
<1>7. n >= 4 => (SubSeq(bytes, 1, 4) = ZLB <=> c.type = 90)
  <2>1. CASE c.type = 90
    BY <1>3, <1>6, <2>1
  <2>2. CASE c.type # 90
    <3>1. n >= 4 => Len(bytes) >= 4 /\ bytes[1] # 90
      BY <1>1, <1>4, <2>2
    <3> QED
      BY <3>1, <2>2, NotZLB
  <2> QED
    BY <2>1, <2>2
<1>8. n >= 5 => IntOf(bytes, 1) = IntAt(b, 1)
  BY <1>5
<1>9. n >= 9 => IntOf(bytes, 5) = IntAt(b, 5)
  BY <1>5
<1>10. n >= 8 => IntOf(bytes, 4) = IntAt(b, 4)
  BY <1>5
<1> QED
  BY <1>1, <1>2, <1>3, <1>4, <1>7, <1>8, <1>9, <1>10

\* A container that is all there, with or without something behind it.
LEMMA BodyIsThere ==
  ASSUME NEW c, IsContainer(c), NEW bytes \in Seq(Byte), BeginsWith(bytes, c)
  PROVE  /\ Len(c.bytes) \in Nat /\ Len(c.bytes) <= Len(bytes)
         /\ SubSeq(bytes, 1, Len(c.bytes)) = SubSeq(c.bytes, 1, Len(c.bytes))
         /\ Len(c.body) \in Nat
         /\ SubSeq(bytes, HeaderSize(c.type) + 1, HeaderSize(c.type) + Len(c.body)) = c.body
<1> DEFINE b == c.bytes
           body == c.body
           h == HeaderSize(c.type)
           n == Len(body)
<1>1. body \in Seq(Byte) /\ b \in Seq(Byte) /\ h \in {5, 8, 9}
      /\ Len(b) = h + n /\ SubSeq(b, h + 1, Len(b)) = body
  BY ContainerType
<1>2. Len(b) <= Len(bytes) /\ SubSeq(bytes, 1, Len(b)) = b
  BY DEF BeginsWith
<1> HIDE DEF b, body, h
<1>3. n \in Nat /\ h \in Nat /\ Len(b) \in Nat
  BY <1>1
<1>4. SubSeq(b, 1, Len(b)) = b
  BY <1>1
<1>5. SubSeq(SubSeq(bytes, 1, Len(b)), h + 1, h + n) = SubSeq(bytes, h + 1, h + n)
  BY <1>1, <1>2, <1>3
<1>6. SubSeq(bytes, h + 1, h + n) = body
  BY <1>1, <1>2, <1>5
<1>7. SubSeq(bytes, 1, Len(b)) = SubSeq(b, 1, Len(b))
  BY <1>2, <1>4
<1>8. Len(c.bytes) \in Nat /\ Len(c.bytes) <= Len(bytes) /\ Len(c.body) \in Nat
  BY <1>2, <1>3 DEF b, body
<1>9. SubSeq(bytes, 1, Len(c.bytes)) = SubSeq(c.bytes, 1, Len(c.bytes))
  BY <1>7 DEF b
<1>10. SubSeq(bytes, HeaderSize(c.type) + 1, HeaderSize(c.type) + Len(c.body)) = c.body
  BY <1>6 DEF h, body
<1> QED
  BY <1>8, <1>9, <1>10

\* A numbered container gives its payload if it says the size, else nothing.
LEMMA ContainerOpens ==
  ASSUME NEW c, IsContainer(c), NEW bytes \in Seq(Byte), BeginsWith(bytes, c), c.type # 90
  PROVE  /\ SaysItsSize(c) => decompress(bytes) = Result(c.payload)
         /\ ~SaysItsSize(c) /\ (c.type = 3 => c.size > Len(c.payload)) => decompress(bytes) = Refused
<1> DEFINE h == IF c.type = 0 THEN 5 ELSE 9
           n == Len(c.body)
<1>0. c.type \in {0, 1, 2, 3}
  BY ContainerType
<1>a. h \in {5, 9} /\ h \in Nat /\ HeaderSize(c.type) = h /\ (c.type = 0 => h = 5) /\ (c.type # 0 => h = 9)
  BY <1>0 DEF HeaderSize
<1>b. c.payload \in Seq(Byte) /\ c.size \in Int /\ c.body \in Seq(Byte)
      /\ Len(c.bytes) = HeaderSize(c.type) + n
  BY ContainerType
<1> HIDE DEF h
<1>1. Len(c.bytes) = h + n
  BY <1>a, <1>b
<1>2. Len(c.bytes) \in Nat /\ Len(c.bytes) <= Len(bytes)
      /\ SubSeq(bytes, 1, Len(c.bytes)) = SubSeq(c.bytes, 1, Len(c.bytes))
      /\ n \in Nat /\ SubSeq(bytes, h + 1, h + n) = c.body
  BY <1>a, BodyIsThere
<1> DEFINE m == Len(c.bytes)
<1> HIDE DEF n, m
<1>3. m \in Nat /\ n \in Nat /\ Len(bytes) \in Nat /\ m = h + n /\ m <= Len(bytes)
      /\ SubSeq(bytes, 1, m) = SubSeq(c.bytes, 1, m) /\ m <= Len(c.bytes)
  BY <1>1, <1>2 DEF m
<1>c. m >= 5 /\ (c.type # 0 => m >= 9) /\ h + n <= Len(bytes)
  BY <1>a, <1>3
<1>d. /\ c.type # 90 /\ m >= 1 => bytes[1] = c.type
      /\ c.type # 90 /\ m >= 5 => IntOf(bytes, 1) = Len(c.body)
      /\ c.type \in {1, 2, 3} /\ m >= 9 => IntOf(bytes, 5) = c.size
  BY <1>3, HeaderIsThere
<1>4. bytes[1] = c.type /\ IntOf(bytes, 1) = n /\ (c.type # 0 => IntOf(bytes, 5) = c.size)
  BY <1>0, <1>3, <1>c, <1>d DEF n
<1>5. /\ c.type = 0 => c.payload = c.body
      /\ c.type \in {1, 2, 3} => Inflate(c.type, c.body) = Result(c.payload)
      /\ c.type = 3 => n >= 5
  BY DEF IsContainer, n
<1>6. h = IF bytes[1] = 0 THEN 5 ELSE 9
  BY <1>4, <1>a
<1>7. ~(Len(bytes) < 5 \/ Len(bytes) < h \/ n \notin 0 .. Len(bytes) - h)
  BY <1>a, <1>3, <1>c
<1>8. decompress(bytes) =
        CASE bytes[1] = 0 -> Result(c.body)
          [] bytes[1] \in {1, 2} -> Exactly(IntOf(bytes, 5), Inflate(bytes[1], c.body))
          [] bytes[1] = 3 /\ n >= 5 -> AtLeast(IntOf(bytes, 5), Inflate(3, c.body))
          [] OTHER -> Refused
  BY <1>2, <1>4, <1>6, <1>7 DEF decompress
<1>9. CASE c.type = 0
  BY <1>4, <1>5, <1>8, <1>9 DEF SaysItsSize
<1>10. CASE c.type \in {1, 2}
  <2>1. decompress(bytes) = Exactly(c.size, Result(c.payload))
    BY <1>4, <1>5, <1>8, <1>10
  <2> QED
    BY <1>b, <1>10, <2>1, Exact DEF SaysItsSize
<1>11. CASE c.type = 3
  <2>1. decompress(bytes) = AtLeast(c.size, Result(c.payload))
    BY <1>4, <1>5, <1>8, <1>11
  <2> QED
    BY <1>b, <1>11, <2>1, Exact DEF SaysItsSize
<1> QED
  BY <1>0, <1>9, <1>10, <1>11

\* So does any container in a row.
LEMMA RowOpens ==
  ASSUME NEW c, IsContainer(c), NEW bytes \in Seq(Byte), BeginsWith(bytes, c)
  PROVE  /\ SaysItsSize(c) => decompressRow(bytes) = Result(c.payload)
         /\ ~SaysItsSize(c) /\ (c.type = 3 => c.size > Len(c.payload)) => decompressRow(bytes) = Refused
<1> DEFINE m == Len(c.bytes)
           n == Len(c.body)
           h == HeaderSize(c.type)
<1>1. c.type \in {0, 1, 2, 3, 90} /\ c.payload \in Seq(Byte) /\ c.size \in Int /\ m = h + n
      /\ h \in {5, 8, 9} /\ (c.type = 90 => h = 8)
  BY ContainerType
<1>2. m \in Nat /\ n \in Nat /\ m <= Len(bytes) /\ m <= Len(c.bytes)
      /\ SubSeq(bytes, 1, m) = SubSeq(c.bytes, 1, m) /\ SubSeq(bytes, h + 1, h + n) = c.body
  BY BodyIsThere
<1> HIDE DEF m, n, h
<1>3. m >= 5 /\ (c.type = 90 => m >= 8) /\ Len(bytes) \in Nat
  BY <1>1, <1>2
<1>4. /\ c.type = 90 /\ m >= 8 => IntOf(bytes, 4) = c.size
      /\ m >= 4 => (SubSeq(bytes, 1, 4) = ZLB <=> c.type = 90)
  BY <1>2, HeaderIsThere
<1>5. ~(Len(bytes) < 4) /\ (SubSeq(bytes, 1, 4) = ZLB <=> c.type = 90)
  BY <1>2, <1>3, <1>4
<1>6. CASE c.type # 90
  <2>1. decompressRow(bytes) = decompress(bytes)
    BY <1>5, <1>6 DEF decompressRow
  <2> QED
    BY <1>6, <2>1, ContainerOpens
<1>7. CASE c.type = 90
  <2>1. Len(bytes) = m /\ h = 8 /\ IntOf(bytes, 4) = c.size
    BY <1>1, <1>3, <1>4, <1>7 DEF BeginsWith, m
  <2>2. SubSeq(bytes, 9, Len(bytes)) = c.body
    <3>1. h + 1 = 9 /\ h + n = Len(bytes)
      BY <1>1, <2>1
    <3> QED
      BY <1>2, <3>1
  <2>3. Inflate(2, c.body) = Result(c.payload)
    BY <1>7 DEF IsContainer
  <2>4. decompressRow(bytes) = Exactly(c.size, Result(c.payload))
    BY <1>5, <1>7, <2>1, <2>2, <2>3 DEF decompressRow
  <2> QED
    BY <1>1, <1>7, <2>4, Exact DEF SaysItsSize
<1> QED
  BY <1>6, <1>7

\* Of a container that is cut off nothing comes out.
LEMMA CutIsRefused ==
  ASSUME NEW c, IsContainer(c), NEW cut \in 0 .. Len(c.bytes) - 1,
         NEW bytes \in Seq(Byte), bytes = SubSeq(c.bytes, 1, cut)
  PROVE  /\ c.type # 90 => decompress(bytes) = Refused
         /\ decompressRow(bytes) = Refused
<1> DEFINE m == Len(c.bytes)
           n == Len(c.body)
           h == HeaderSize(c.type)
<1>1. c.type \in {0, 1, 2, 3, 90} /\ c.payload \in Seq(Byte) /\ c.size \in Int /\ m = h + n
      /\ h \in {5, 8, 9} /\ (c.type = 0 => h = 5) /\ (c.type = 90 => h = 8)
      /\ (c.type \in {1, 2, 3} => h = 9) /\ c.bytes \in Seq(Byte) /\ c.body \in Seq(Byte)
      /\ SubSeq(c.bytes, h + 1, m) = c.body
  BY ContainerType
<1>2. m \in Nat /\ n \in Nat
  BY <1>1
<1>3. cut \in Nat /\ cut < m /\ Len(bytes) = cut /\ cut <= Len(c.bytes) /\ cut <= Len(bytes)
      /\ SubSeq(bytes, 1, cut) = SubSeq(c.bytes, 1, cut)
  BY <1>1, <1>2
<1> HIDE DEF m, n, h
<1>4. /\ c.type # 90 /\ cut >= 1 => bytes[1] = c.type
      /\ c.type # 90 /\ cut >= 5 => IntOf(bytes, 1) = Len(c.body)
      /\ cut >= 4 => (SubSeq(bytes, 1, 4) = ZLB <=> c.type = 90)
  BY <1>3, HeaderIsThere
<1>5. ASSUME c.type # 90 PROVE decompress(bytes) = Refused
  <2>1. CASE cut < 5
    BY <1>3, <2>1 DEF decompress
  <2>2. CASE cut >= 5
    <3>1. bytes[1] = c.type /\ IntOf(bytes, 1) = n
      BY <1>3, <1>4, <1>5, <2>2 DEF n
    <3>2. h = IF bytes[1] = 0 THEN 5 ELSE 9
      BY <1>1, <1>5, <3>1
    <3>3. n \notin 0 .. cut - h
      BY <1>1, <1>2, <1>3
    <3> QED
      BY <1>3, <3>1, <3>2, <3>3 DEF decompress
  <2> QED
    BY <1>3, <2>1, <2>2
<1>6. decompressRow(bytes) = Refused
  <2>1. CASE cut < 4
    BY <1>3, <2>1 DEF decompressRow
  <2>2. CASE cut >= 4 /\ c.type # 90
    BY <1>3, <1>4, <1>5, <2>2 DEF decompressRow
  <2>3. CASE cut >= 4 /\ c.type = 90
    <3>1. IsWhole(c.body)
      BY <2>3 DEF IsContainer
    <3> DEFINE k == IF cut <= 8 THEN 0 ELSE cut - 8
    <3>2. k \in 0 .. n - 1
      <4>1. n > 0
        BY <1>1, <3>1 DEF IsWhole, n
      <4> QED
        BY <1>1, <1>2, <1>3, <2>3, <4>1
    <3>3. SubSeq(bytes, 9, cut) = SubSeq(c.body, 1, k)
      <4>1. CASE cut <= 8
        BY <1>1, <1>3, <4>1
      <4>2. CASE cut > 8
        <5>1. SubSeq(SubSeq(c.bytes, 1, cut), 9, cut) = SubSeq(c.bytes, 9, cut)
          BY <1>1, <1>3, <4>2
        <5>2. SubSeq(SubSeq(c.bytes, 9, m), 1, cut - 8) = SubSeq(c.bytes, 9, cut)
          BY <1>1, <1>3, <4>2 DEF m
        <5>3. SubSeq(c.bytes, 9, m) = c.body
          BY <1>1, <2>3
        <5>4. SubSeq(bytes, 9, cut) = SubSeq(c.bytes, 9, cut)
          BY <5>1
        <5>5. k = cut - 8
          BY <1>3, <4>2
        <5> HIDE DEF k
        <5> QED
          BY <5>2, <5>3, <5>4, <5>5
      <4> QED
        BY <1>3, <4>1, <4>2
    <3> HIDE DEF k
    <3>4. Inflate(2, SubSeq(c.body, 1, k)) = Refused
      BY <3>1, <3>2 DEF IsWhole, n
    <3>5. Exactly(IntOf(bytes, 4), Refused) = Refused
      BY DEF Exactly, Refused
    <3> QED
      BY <1>3, <1>4, <2>3, <3>3, <3>4, <3>5 DEF decompressRow
  <2> QED
    BY <1>1, <1>3, <2>1, <2>2, <2>3
<1> QED
  BY <1>5, <1>6

\* A type that is none of these is refused.
LEMMA UnknownIsRefused ==
  ASSUME NEW bytes \in Seq(Byte), bytes[1] \notin {0, 1, 2, 3, 90}
  PROVE  decompress(bytes) = Refused /\ decompressRow(bytes) = Refused
<1>1. decompress(bytes) = Refused
  BY DEF decompress
<1>2. Len(bytes) \in Nat /\ (Len(bytes) >= 4 => SubSeq(bytes, 1, 4) # ZLB)
  BY NotZLB
<1> QED
  BY <1>1, <1>2 DEF decompressRow

-----------------------------------------------------------------------------
(* Layouts.                                                                   *)

\* What never falls is nowhere above its last value.
LEMMA Rises ==
  ASSUME NEW n \in Nat, NEW e \in [0 .. n -> Nat], \A i \in 1 .. n : e[i - 1] <= e[i]
  PROVE  \A i \in 0 .. n : e[i] <= e[n]
<1> DEFINE S == {j \in 0 .. n : e[n - j] <= e[n]}
<1>1. S \in SUBSET (0 .. n)
  OBVIOUS
<1>2. 0 \in S
  <2>1. e[n - 0] <= e[n]
    OBVIOUS
  <2> QED
    BY <2>1
<1>3. ASSUME NEW j \in 1 .. n, j - 1 \in S PROVE j \in S
  <2>1. n - j + 1 \in 1 .. n /\ n - j \in 0 .. n /\ n - (j - 1) = n - j + 1 /\ j \in 0 .. n
    OBVIOUS
  <2>2. e[n - j] <= e[n - j + 1]
    BY <2>1
  <2>3. e[n - j + 1] <= e[n]
    BY <1>3, <2>1
  <2>4. e[n - j] \in Nat /\ e[n - j + 1] \in Nat /\ e[n] \in Nat
    BY <2>1
  <2>5. e[n - j] <= e[n]
    BY <2>2, <2>3, <2>4
  <2> QED
    BY <2>1, <2>5
<1>4. S = 0 .. n
  <2> HIDE DEF S
  <2> QED
    BY <1>1, <1>2, <1>3, Climb
<1> SUFFICES ASSUME NEW i \in 0 .. n PROVE e[i] <= e[n]
  OBVIOUS
<1> DEFINE j == n - i
<1>5. j \in 0 .. n /\ n - j = i
  OBVIOUS
<1> HIDE DEF j
<1>6. e[n - j] <= e[n]
  BY <1>4, <1>5
<1> QED
  BY <1>5, <1>6

\* The files are at these places of the data, each up to the next one's.
AreAt(data, at, files) ==
  /\ data \in Seq(Byte) /\ DOMAIN at = 1 .. Len(files)
  /\ \A f \in 1 .. Len(files) :
       /\ at[f] \in Nat /\ at[f] + Len(files[f]) <= Len(data)
       /\ SubSeq(data, at[f] + 1, at[f] + Len(files[f])) = files[f]
       /\ at[f] + Len(files[f]) = IF f = Len(files) THEN Len(data) ELSE at[f + 1]

\* A single file is all of the data.
LEMMA OneIsAt ==
  ASSUME NEW p \in Seq(Byte), NEW files \in Seq(Seq(Byte)), Len(files) = 1, p = files[1],
         NEW at, DOMAIN at = 1 .. 1, at[1] = 0
  PROVE  AreAt(p, at, files)
<1>1. SubSeq(p, 1, Len(p)) = p /\ Len(p) \in Nat
  OBVIOUS
<1> SUFFICES ASSUME NEW f \in 1 .. 1
             PROVE  /\ at[f] \in Nat /\ at[f] + Len(files[f]) <= Len(p)
                    /\ SubSeq(p, at[f] + 1, at[f] + Len(files[f])) = files[f]
                    /\ at[f] + Len(files[f]) = IF f = Len(files) THEN Len(p) ELSE at[f + 1]
  BY DEF AreAt
<1>2. f = 1
  OBVIOUS
<1> QED
  BY <1>1, <1>2

\* Joined files, behind h other bytes.
LEMMA JoinedAreAt ==
  ASSUME NEW n \in Nat, NEW files \in Seq(Seq(Byte)), Len(files) = n, n > 0,
         NEW s \in [0 .. n -> Nat], s[0] = 0, \A f \in 1 .. n : s[f] = s[f - 1] + Len(files[f]),
         NEW h \in Nat, NEW data \in Seq(Byte), Len(data) = h + s[n],
         \A f \in 1 .. n : SubSeq(data, h + s[f - 1] + 1, h + s[f]) = files[f]
  PROVE  AreAt(data, [f \in 1 .. n |-> h + s[f - 1]], files)
<1> DEFINE at == [f \in 1 .. n |-> h + s[f - 1]]
<1>1. \A f \in 1 .. n : files[f] \in Seq(Byte) /\ Len(files[f]) \in Nat
  <2> TAKE f \in 1 .. n
  <2>1. f \in DOMAIN files
    OBVIOUS
  <2>2. files[f] \in Seq(Byte)
    BY <2>1
  <2> QED
    BY <2>2
<1>2. \A f \in 1 .. n : s[f - 1] <= s[f]
  <2> TAKE f \in 1 .. n
  <2>1. f - 1 \in 0 .. n
    OBVIOUS
  <2>2. s[f - 1] \in Nat
    BY <2>1
  <2>3. s[f] = s[f - 1] + Len(files[f]) /\ Len(files[f]) \in Nat
    BY <1>1
  <2> QED
    BY <2>2, <2>3
<1>3. \A f \in 0 .. n : s[f] <= s[n]
  BY <1>2, Rises
<1>4. ASSUME NEW f \in 1 .. n
      PROVE  /\ at[f] \in Nat /\ at[f] + Len(files[f]) <= Len(data)
             /\ SubSeq(data, at[f] + 1, at[f] + Len(files[f])) = files[f]
             /\ at[f] + Len(files[f]) = IF f = n THEN Len(data) ELSE at[f + 1]
  <2>1. f - 1 \in 0 .. n /\ f \in 0 .. n
    OBVIOUS
  <2>a. n \in 0 .. n
    OBVIOUS
  <2>b. s[f - 1] \in Nat /\ s[f] \in Nat /\ s[n] \in Nat
    BY <2>1, <2>a
  <2>2. s[f - 1] \in Nat /\ s[f] \in Nat /\ s[n] \in Nat /\ s[f] = s[f - 1] + Len(files[f]) /\ s[f] <= s[n]
    BY <1>3, <2>1, <2>b
  <2>3. at[f] = h + s[f - 1]
    OBVIOUS
  <2>4. f # n => at[f + 1] = h + s[f]
    <3> SUFFICES ASSUME f # n PROVE at[f + 1] = h + s[f]
      OBVIOUS
    <3>1. f + 1 \in 1 .. n /\ (f + 1) - 1 = f
      OBVIOUS
    <3> QED
      BY <3>1
  <2> HIDE DEF at
  <2>5. at[f] + Len(files[f]) = h + s[f]
    BY <1>1, <2>2, <2>3
  <2>c. Len(data) = h + s[n]
    OBVIOUS
  <2>6. at[f] \in Nat /\ h + s[f] <= Len(data) /\ (f = n => h + s[f] = Len(data))
    <3>1. f = n => s[f] = s[n]
      OBVIOUS
    <3> DEFINE a == s[f - 1]
               b == s[f]
               z == s[n]
               end == Len(data)
    <3>2. a \in Nat /\ b \in Nat /\ z \in Nat /\ b <= z /\ (f = n => b = z) /\ end = h + z
          /\ at[f] = h + a
      BY <2>2, <2>3, <2>c, <3>1
    <3> HIDE DEF a, b, z, end
    <3>3. at[f] \in Nat /\ h + b <= end /\ (f = n => h + b = end)
      BY <3>2
    <3> QED
      BY <3>3 DEF b, end
  <2>7. SubSeq(data, at[f] + 1, h + s[f]) = files[f]
    BY <2>3
  <2> QED
    BY <2>4, <2>5, <2>6, <2>7
<1>5. DOMAIN at = 1 .. n
  OBVIOUS
<1> HIDE DEF at
<1>6. AreAt(data, at, files)
  BY <1>4, <1>5 DEF AreAt
<1> QED
  BY <1>6 DEF at

\* The first byte of a payload, where there is one.
LEMMA FirstByte ==
  ASSUME NEW p \in Seq(Byte)
  PROVE  /\ p = <<>> => readUnsignedByte(p, 0).value = <<0>>
         /\ p # <<>> => readUnsignedByte(p, 0).value = <<p[1]>> /\ readUnsignedByte(p, 0).pos = 1
<1>1. p = <<>> => ~canRead(p, 0, 1)
  BY DEF canRead
<1>2. p # <<>> => canRead(p, 0, 1)
  <2>1. p # <<>> => Len(p) >= 1
    OBVIOUS
  <2> QED
    BY <2>1 DEF canRead
<1>3. 0 + 1 = 1
  OBVIOUS
<1> QED
  BY <1>1, <1>2, <1>3 DEF readUnsignedByte, Answer

\* Several files are not a payload that begins with something else than a 1.
LEMMA NoRowIsRefused ==
  ASSUME NEW p \in Seq(Byte), p = <<>> \/ p[1] # 1, NEW ids \in Seq(Int), Len(ids) # 1
  PROVE  decodeArchiveBlob(p, ids) = Refused
<1>1. readUnsignedByte(p, 0).value # <<1>>
  BY FirstByte
<1> QED
  BY <1>1 DEF decodeArchiveBlob

\* The one file of a row is all of it.
LEMMA SingleInRow ==
  ASSUME NEW p \in Seq(Byte), NEW files \in Seq(Seq(Byte)), IsSingle(p, files),
         NEW ids \in Seq(Int), Len(ids) = Len(files)
  PROVE  decodeArchiveBlob(p, ids) = FilesAt(p, <<0>>) /\ AreAt(p, <<0>>, files)
<1>1. decodeArchiveBlob(p, ids) = FilesAt(p, <<0>>)
  BY DEF decodeArchiveBlob, IsSingle
<1>2. Len(files) = 1 /\ p = files[1]
  BY DEF IsSingle
<1>3. DOMAIN <<0>> = 1 .. 1 /\ <<0>>[1] = 0
  OBVIOUS
<1> QED
  BY <1>1, <1>2, <1>3, OneIsAt

\* The places in a row are those of its files.
LEMMA FilesInRow ==
  ASSUME NEW p \in Seq(Byte), NEW files, NEW starts, NEW joined, AreJoined(files, starts, joined),
         IsRow(p, files, starts), NEW ids \in Seq(Int), Len(ids) = Len(files)
  PROVE  \E at : decodeArchiveBlob(p, ids) = FilesAt(p, at) /\ AreAt(p, at, files)
<1> DEFINE n == Len(files)
           h == 1 + 4 * n
           at == [f \in 1 .. n |-> h + starts[f - 1]]
<1>1. files \in Seq(Seq(Byte)) /\ starts \in [0 .. n -> Nat] /\ starts[0] = 0
      /\ \A f \in 1 .. n : starts[f] = starts[f - 1] + Len(files[f])
  BY DEF AreJoined
<1>2. /\ n > 1 /\ Len(p) = h + starts[n] /\ p[1] = 1
      /\ \A f \in 1 .. n : IntAt(p, 1 + 4 * (f - 1)) = h + starts[f - 1]
      /\ \A f \in 1 .. n : SubSeq(p, h + starts[f - 1] + 1, h + starts[f]) = files[f]
  BY DEF IsRow
<1>3. n \in Nat /\ Len(ids) = n
  BY <1>1
<1>4. \A f \in 1 .. n : at[f] = h + starts[f - 1]
  OBVIOUS
<1>5. \A f \in 1 .. n : at[f] \in Int
  <2> TAKE f \in 1 .. n
  <2>1. f - 1 \in 0 .. n
    BY <1>3
  <2>2. starts[f - 1] \in Nat
    BY <1>1, <2>1
  <2> HIDE DEF n
  <2> QED
    BY <1>3, <2>2
<1>6. at \in Seq(Int) /\ Len(at) = n
  <2>1. at = [f \in 1 .. n |-> at[f]] /\ DOMAIN at = 1 .. n
    OBVIOUS
  <2> HIDE DEF at, n
  <2>2. at \in [1 .. n -> Int]
    BY <1>5, <2>1
  <2> QED
    BY <1>3, <2>1, <2>2
<1>7. 1 + 4 * n <= Len(p) /\ p # <<>>
  <2>1. n \in 0 .. n
    BY <1>3
  <2>2. starts[n] \in Nat
    BY <1>1, <2>1
  <2> HIDE DEF n
  <2>3. 1 + 4 * n <= Len(p)
    BY <1>2, <1>3, <2>2
  <2> QED
    BY <1>3, <2>3
<1>8. AreAt(p, at, files)
  <2>1. h \in Nat /\ n > 0
    BY <1>2, <1>3
  <2> HIDE DEF h, n
  <2> QED
    BY <1>1, <1>2, <1>3, <2>1, JoinedAreAt DEF n
<1> HIDE DEF at, n
<1>9. \A i \in 1 .. n : IntAt(p, 1 + 4 * (i - 1)) = at[i]
  BY <1>2, <1>4
<1>10. Repeated(Ints(p), 1, n).value = at
  BY <1>3, <1>6, <1>7, <1>9, IntsRead
<1>11. readUnsignedByte(p, 0).value = <<1>> /\ readUnsignedByte(p, 0).pos = 1
  BY <1>2, <1>7, FirstByte
<1>12. decodeArchiveBlob(p, ids) = FilesAt(p, at)
  BY <1>2, <1>3, <1>10, <1>11 DEF decodeArchiveBlob
<1> QED
  BY <1>8, <1>12

-----------------------------------------------------------------------------
(* The answers of the servers.                                                 *)

\* Of rows of n, the first c are not longer than the first m.
LEMMA RowsOf ==
  ASSUME NEW n \in Nat, NEW m \in Nat, NEW c \in 1 .. m
  PROVE  /\ c * n \in Nat /\ (c - 1) * n \in Nat /\ m * n \in Nat
         /\ c * n = (c - 1) * n + n /\ c * n <= m * n /\ n * c = c * n /\ n * m = m * n
         /\ 4 * n * m = 4 * (m * n) /\ 4 * n * (c - 1) = 4 * ((c - 1) * n)
<1>1. PICK d \in Nat : m = c + d
  <2>1. m - c \in Nat /\ m = c + (m - c)
    OBVIOUS
  <2> QED
    BY <2>1
<1>2. m * n = c * n + d * n /\ d * n \in Nat /\ c * n \in Nat
  BY <1>1
<1>3. c * n = (c - 1) * n + n /\ (c - 1) * n \in Nat
  <2>1. c - 1 \in Nat
    OBVIOUS
  <2> QED
    BY <2>1
<1>4. n * c = c * n /\ n * m = m * n /\ 4 * n * m = 4 * (m * n) /\ 4 * n * (c - 1) = 4 * ((c - 1) * n)
  OBVIOUS
<1> QED
  BY <1>2, <1>3, <1>4

\* A place in the rows is in one of them.
LEMMA InRows ==
  ASSUME NEW n \in Nat, NEW m \in Nat, NEW c \in 1 .. m, NEW f \in 1 .. n
  PROVE  /\ (c - 1) * n + f \in 1 .. m * n /\ (c - 1) * n + f - 1 \in 0 .. m * n
         /\ (c - 1) * n \in Nat
<1> DEFINE z == (c - 1) * n
           y == m * n
           x == c * n
<1>1. z \in Nat /\ y \in Nat /\ x \in Nat /\ x = z + n /\ x <= y
  BY RowsOf
<1> HIDE DEF x, y, z
<1>2. z + f \in 1 .. y /\ z + f - 1 \in 0 .. y
  BY <1>1
<1> QED
  BY <1>1, <1>2 DEF y, z

\* A function on 1 .. n is a sequence.
LEMMA IsSeq ==
  ASSUME NEW T, NEW n \in Nat, NEW s, s = [i \in 1 .. n |-> s[i]], \A i \in 1 .. n : s[i] \in T
  PROVE  s \in Seq(T) /\ Len(s) = n /\ DOMAIN s = 1 .. n
<1>1. s \in [1 .. n -> T]
  OBVIOUS
<1> QED
  BY <1>1

\* A sequence that is given element by element.
LEMMA SameSeq ==
  ASSUME NEW T, NEW s \in Seq(T), NEW t \in Seq(T), Len(s) = Len(t), \A i \in 1 .. Len(s) : s[i] = t[i]
  PROVE  s = t
  OBVIOUS

\* The sizes of the parts in a chunk are read from its place in the footer.
LEMMA SizesOfChunk ==
  ASSUME NEW b \in Seq(Byte), NEW p \in Nat, NEW n \in Nat, p + 4 * n <= Len(b),
         NEW s \in Seq(Int), Len(s) = n,
         \A f \in 1 .. n : IntAt(b, p + 4 * (f - 1)) = s[f] - (IF f = 1 THEN 0 ELSE s[f - 1])
  PROVE  Sums(Repeated(Ints(b), p, n).value) = s
<1> DEFINE t == [f \in 1 .. n |-> s[f] - (IF f = 1 THEN 0 ELSE s[f - 1])]
<1>1. \A f \in 1 .. n : t[f] = s[f] - (IF f = 1 THEN 0 ELSE s[f - 1])
  OBVIOUS
<1>2. \A f \in 1 .. n : s[f] \in Int /\ (f # 1 => s[f - 1] \in Int)
  OBVIOUS
<1>3. t = [f \in 1 .. n |-> t[f]]
  OBVIOUS
<1> HIDE DEF t
<1>4. \A f \in 1 .. n : t[f] \in Int
  BY <1>1, <1>2, SMTT(20)
<1>5. t \in Seq(Int) /\ Len(t) = n
  BY <1>3, <1>4, IsSeq
<1>6. \A f \in 1 .. n : IntAt(b, p + 4 * (f - 1)) = t[f]
  BY <1>1
<1>7. Repeated(Ints(b), p, n).value = t
  BY <1>5, <1>6, IntsRead
<1>8. \A f \in 1 .. n : s[f] = t[f] + (IF f = 1 THEN 0 ELSE s[f - 1])
  BY <1>1, <1>2
<1>9. Sums(t) = s
  BY <1>5, <1>8, SumsAre
<1> QED
  BY <1>7, <1>9

\* How much of a file is in a chunk, and how much of all of them.
SizeOf(cuts, c, f) == cuts[f][c] - cuts[f][c - 1]
SizesIn(cuts, n, c) == [f \in 1 .. n |-> SizeOf(cuts, c, f)]
AllSizes(cuts, n, m) == [c \in 1 .. m |-> SizesIn(cuts, n, c)]

\* IsChunked, of n files in m chunks.
Chunked(p, cuts, ends, files, n, m) ==
  /\ n \in Nat /\ m \in Nat /\ n > 1 /\ m > 0 /\ Len(p) > 0 /\ p[Len(p)] = m /\ Len(files) = n
  /\ \A f \in 1 .. n : cuts[f] \in [0 .. m -> Nat] /\ cuts[f][0] = 0 /\ cuts[f][m] = Len(files[f])
  /\ ends \in [0 .. m * n -> Nat] /\ ends[0] = 0
  /\ Len(p) = ends[m * n] + 4 * n * m + 1
  /\ \A c \in 1 .. m, f \in 1 .. n :
       LET k == (c - 1) * n + f IN
       /\ SizeOf(cuts, c, f) \in Nat /\ ends[k] = ends[k - 1] + SizeOf(cuts, c, f)
       /\ SubSeq(p, ends[k - 1] + 1, ends[k]) = SubSeq(files[f], cuts[f][c - 1] + 1, cuts[f][c])
       /\ IntAt(p, ends[m * n] + 4 * (k - 1)) =
            SizeOf(cuts, c, f) - (IF f = 1 THEN 0 ELSE SizeOf(cuts, c, f - 1))

\* IsChunked says all of that.
LEMMA ChunksOf ==
  ASSUME NEW p \in Seq(Byte), NEW files \in Seq(Seq(Byte)), NEW cuts, NEW ends,
         IsChunked(p, cuts, ends, files)
  PROVE  Chunked(p, cuts, ends, files, Len(files), p[Len(p)])
<1> DEFINE n == Len(files)
           m == p[Len(p)]
<1>1. Len(p) > 0 /\ m > 0 /\ n > 1 /\ cuts \in [1 .. n -> [0 .. m -> Nat]]
      /\ (\A f \in 1 .. n : cuts[f][0] = 0 /\ cuts[f][m] = Len(files[f]))
      /\ ends \in [0 .. m * n -> Nat] /\ ends[0] = 0 /\ Len(p) = ends[m * n] + 4 * n * m + 1
  BY DEF IsChunked
<1>2. \A c \in 1 .. m, f \in 1 .. n :
       LET k == (c - 1) * n + f IN
       /\ SizeOf(cuts, c, f) \in Nat /\ ends[k] = ends[k - 1] + SizeOf(cuts, c, f)
       /\ SubSeq(p, ends[k - 1] + 1, ends[k]) = SubSeq(files[f], cuts[f][c - 1] + 1, cuts[f][c])
       /\ IntAt(p, ends[m * n] + 4 * (k - 1)) =
            SizeOf(cuts, c, f) - (IF f = 1 THEN 0 ELSE SizeOf(cuts, c, f - 1))
  BY DEF IsChunked, SizeOf
<1>3. n \in Nat /\ m \in Nat
  <2>1. Len(p) \in DOMAIN p
    BY <1>1
  <2>2. p[Len(p)] \in Byte
    BY <2>1
  <2>3. \A x \in Byte : x \in Nat
    BY DEF Byte
  <2>5. m \in Nat
    BY <2>2, <2>3
  <2>4. n \in Nat
    OBVIOUS
  <2> QED
    BY <2>4, <2>5
<1>4. \A f \in 1 .. n : cuts[f] \in [0 .. m -> Nat]
  BY <1>1
<1> HIDE DEF n, m
<1>5. Chunked(p, cuts, ends, files, n, m)
  <2>1. p[Len(p)] = m /\ Len(files) = n
    BY DEF n, m
  <2> QED
    BY <1>1, <1>2, <1>3, <1>4, <2>1 DEF Chunked
<1> QED
  BY <1>5 DEF n, m

\* Of a chunk all that is said of a part of it.
LEMMA PartOf ==
  ASSUME NEW p, NEW cuts, NEW ends, NEW files, NEW n, NEW m, Chunked(p, cuts, ends, files, n, m),
         NEW c \in 1 .. m, NEW f \in 1 .. n, NEW k, k = (c - 1) * n + f
  PROVE  /\ SizeOf(cuts, c, f) \in Nat
         /\ k \in 1 .. m * n /\ ends[k] \in Nat /\ ends[k - 1] \in Nat
         /\ ends[k] = ends[k - 1] + SizeOf(cuts, c, f)
         /\ SubSeq(p, ends[k - 1] + 1, ends[k]) = SubSeq(files[f], cuts[f][c - 1] + 1, cuts[f][c])
         /\ IntAt(p, ends[m * n] + 4 * (k - 1)) =
              SizeOf(cuts, c, f) - (IF f = 1 THEN 0 ELSE SizeOf(cuts, c, f - 1))
<1>1. n \in Nat /\ m \in Nat /\ ends \in [0 .. m * n -> Nat]
  BY DEF Chunked
<1>2. k \in 1 .. m * n /\ k - 1 \in 0 .. m * n
  BY <1>1, InRows
<1>3. k \in 0 .. m * n
  <2> DEFINE y == m * n
  <2>1. k \in 1 .. y
    BY <1>2
  <2> HIDE DEF y
  <2>2. k \in 0 .. y
    BY <2>1
  <2> QED
    BY <2>2 DEF y
<1>4. ends[k] \in Nat /\ ends[k - 1] \in Nat
  BY <1>1, <1>2, <1>3
<1> QED
  BY <1>2, <1>4, ZenonT(40) DEF Chunked

\* The sizes by chunk and file are sequences of sequences.
LEMMA SizesOfAll ==
  ASSUME NEW cuts, NEW n \in Nat, NEW m \in Nat,
         \A c \in 1 .. m, f \in 1 .. n : SizeOf(cuts, c, f) \in Nat
  PROVE  /\ \A c \in 1 .. m : SizesIn(cuts, n, c) \in Seq(Int) /\ Len(SizesIn(cuts, n, c)) = n
         /\ AllSizes(cuts, n, m) \in Seq(Seq(Int)) /\ Len(AllSizes(cuts, n, m)) = m
         /\ DOMAIN AllSizes(cuts, n, m) = 1 .. m
         /\ \A c \in 1 .. m : AllSizes(cuts, n, m)[c] = SizesIn(cuts, n, c)
         /\ \A c \in 1 .. m, f \in 1 .. n : SizesIn(cuts, n, c)[f] = SizeOf(cuts, c, f)
<1>1. \A c \in 1 .. m, f \in 1 .. n : SizesIn(cuts, n, c)[f] = SizeOf(cuts, c, f)
  BY DEF SizesIn
<1>2. ASSUME NEW c \in 1 .. m PROVE SizesIn(cuts, n, c) \in Seq(Int) /\ Len(SizesIn(cuts, n, c)) = n
  <2>1. \A f \in 1 .. n : SizesIn(cuts, n, c)[f] \in Int
    BY <1>1
  <2>2. SizesIn(cuts, n, c) = [f \in 1 .. n |-> SizesIn(cuts, n, c)[f]]
    BY DEF SizesIn
  <2> QED
    BY <2>1, <2>2, IsSeq
<1>3. \A c \in 1 .. m : AllSizes(cuts, n, m)[c] = SizesIn(cuts, n, c)
  BY DEF AllSizes
<1>4. \A c \in 1 .. m : AllSizes(cuts, n, m)[c] \in Seq(Int)
  BY <1>2, <1>3
<1>5. AllSizes(cuts, n, m) = [c \in 1 .. m |-> AllSizes(cuts, n, m)[c]]
  BY DEF AllSizes
<1>6. AllSizes(cuts, n, m) \in Seq(Seq(Int)) /\ Len(AllSizes(cuts, n, m)) = m
      /\ DOMAIN AllSizes(cuts, n, m) = 1 .. m
  BY <1>4, <1>5, IsSeq
<1> QED
  BY <1>1, <1>2, <1>3, <1>6

\* The footer of an answer has the sizes.
LEMMA SizesAreRead ==
  ASSUME NEW p \in Seq(Byte), NEW cuts, NEW ends, NEW files, NEW n, NEW m,
         Chunked(p, cuts, ends, files, n, m)
  PROVE  chunkSizes(p, ends[m * n], m, n) = AllSizes(cuts, n, m)
<1> DEFINE foot == ends[m * n]
<1>1. n \in Nat /\ m \in Nat /\ n > 1 /\ m > 0 /\ ends \in [0 .. m * n -> Nat]
      /\ Len(p) = foot + 4 * n * m + 1
  BY DEF Chunked
<1>2. foot \in Nat
  <2>1. m * n \in Nat
    BY <1>1
  <2>2. m * n \in 0 .. m * n
    <3> DEFINE y == m * n
    <3>1. y \in Nat
      BY <2>1
    <3> HIDE DEF y
    <3>2. y \in 0 .. y
      BY <3>1
    <3> QED
      BY <3>2 DEF y
  <2> QED
    BY <1>1, <2>2
<1>a. \A c \in 1 .. m, f \in 1 .. n : SizeOf(cuts, c, f) \in Nat
  BY DEF Chunked
<1>b. /\ \A c \in 1 .. m : SizesIn(cuts, n, c) \in Seq(Int) /\ Len(SizesIn(cuts, n, c)) = n
      /\ \A c \in 1 .. m, f \in 1 .. n : SizesIn(cuts, n, c)[f] = SizeOf(cuts, c, f)
  <2>1. n \in Nat /\ m \in Nat
    BY <1>1
  <2> HIDE DEF foot
  <2>2. /\ \A c \in 1 .. m : SizesIn(cuts, n, c) \in Seq(Int) /\ Len(SizesIn(cuts, n, c)) = n
        /\ AllSizes(cuts, n, m) \in Seq(Seq(Int)) /\ Len(AllSizes(cuts, n, m)) = m
        /\ DOMAIN AllSizes(cuts, n, m) = 1 .. m
        /\ \A c \in 1 .. m : AllSizes(cuts, n, m)[c] = SizesIn(cuts, n, c)
        /\ \A c \in 1 .. m, f \in 1 .. n : SizesIn(cuts, n, c)[f] = SizeOf(cuts, c, f)
    BY <1>a, <2>1, SizesOfAll, Zenon
  <2> QED
    BY <2>2
<1>3. ASSUME NEW c \in 1 .. m
      PROVE  Sums(Repeated(Ints(p), foot + 4 * n * (c - 1), n).value) = SizesIn(cuts, n, c)
  <2> DEFINE q == foot + 4 * n * (c - 1)
             s == SizesIn(cuts, n, c)
             z == (c - 1) * n
             y == m * n
             x == c * n
  <2>1. z \in Nat /\ y \in Nat /\ x \in Nat /\ x = z + n /\ x <= y
        /\ 4 * n * m = 4 * y /\ 4 * n * (c - 1) = 4 * z
    BY <1>1, RowsOf
  <2>2. q = foot + 4 * z
    BY <2>1
  <2>3. s \in Seq(Int) /\ Len(s) = n /\ \A f \in 1 .. n : s[f] = SizeOf(cuts, c, f)
    BY <1>b
  <2>4. \A f \in 1 .. n : IntAt(p, foot + 4 * (z + f - 1)) =
                            SizeOf(cuts, c, f) - (IF f = 1 THEN 0 ELSE SizeOf(cuts, c, f - 1))
    <3> TAKE f \in 1 .. n
    <3> DEFINE k == z + f
    <3>a. k = (c - 1) * n + f
      OBVIOUS
    <3> HIDE DEF z
    <3>b. k - 1 = z + f - 1
      BY <2>1
    <3>0. k = (c - 1) * n + f /\ k - 1 = z + f - 1
      BY <3>a, <3>b
    <3> HIDE DEF k
    <3>1. IntAt(p, ends[m * n] + 4 * (k - 1)) =
            SizeOf(cuts, c, f) - (IF f = 1 THEN 0 ELSE SizeOf(cuts, c, f - 1))
      BY <3>0, PartOf
    <3> HIDE DEF z
    <3> QED
      BY <3>0, <3>1 DEF foot
  <2>5. \A f \in 1 .. n : f # 1 => f - 1 \in 1 .. n
    BY <1>1
  <2> HIDE DEF q, s, z, y, x, foot
  <2>6. \A f \in 1 .. n : q + 4 * (f - 1) = foot + 4 * (z + f - 1)
    BY <1>1, <1>2, <2>1, <2>2
  <2>7. \A f \in 1 .. n : IntAt(p, q + 4 * (f - 1)) = s[f] - (IF f = 1 THEN 0 ELSE s[f - 1])
    BY <2>3, <2>4, <2>5, <2>6
  <2>8. q \in Nat /\ q + 4 * n <= Len(p)
    BY <1>1, <1>2, <2>1, <2>2
  <2>9. Sums(Repeated(Ints(p), q, n).value) = s
    BY <1>1, <2>3, <2>7, <2>8, SizesOfChunk
  <2> QED
    BY <2>9 DEF q, s
<1>4. chunkSizes(p, foot, m, n) = [c \in 1 .. m |-> SizesIn(cuts, n, c)]
  BY <1>3 DEF chunkSizes
<1> QED
  BY <1>4 DEF AllSizes

\* The lengths of what lies between the ends, and the ends but the first.
PartLengths(ends, y) == [k \in 1 .. y |-> ends[k] - ends[k - 1]]
PartEnds(ends, y) == [k \in 1 .. y |-> ends[k]]

\* The ends are the sums of the lengths.
LEMMA EndsOf ==
  ASSUME NEW y \in Nat, NEW ends \in [0 .. y -> Nat], ends[0] = 0
  PROVE  /\ PartLengths(ends, y) \in Seq(Int) /\ Len(PartLengths(ends, y)) = y
         /\ \A k \in 1 .. y : PartLengths(ends, y)[k] = ends[k] - ends[k - 1]
         /\ PartEnds(ends, y) \in Seq(Int) /\ Len(PartEnds(ends, y)) = y
         /\ \A k \in 1 .. y : PartEnds(ends, y)[k] = ends[k]
         /\ Sums(PartLengths(ends, y)) = PartEnds(ends, y)
<1> DEFINE d == PartLengths(ends, y)
           t == PartEnds(ends, y)
<1>1. \A k \in 1 .. y : d[k] = ends[k] - ends[k - 1] /\ t[k] = ends[k]
  BY DEF PartLengths, PartEnds
<1>2. d = [k \in 1 .. y |-> d[k]] /\ t = [k \in 1 .. y |-> t[k]]
  BY DEF PartLengths, PartEnds
<1> HIDE DEF d, t
<1>3. ASSUME NEW k \in 1 .. y
      PROVE  ends[k] \in Nat /\ ends[k - 1] \in Nat /\ d[k] \in Int /\ t[k] \in Int
             /\ t[k] = d[k] + (IF k = 1 THEN 0 ELSE t[k - 1])
  <2>1. k - 1 \in 0 .. y /\ k \in 0 .. y
    OBVIOUS
  <2>2. ends[k] \in Nat /\ ends[k - 1] \in Nat
    BY <2>1
  <2>3. d[k] = ends[k] - ends[k - 1] /\ t[k] = ends[k]
    BY <1>1
  <2>4. k # 1 => t[k - 1] = ends[k - 1]
    <3> SUFFICES ASSUME k # 1 PROVE t[k - 1] = ends[k - 1]
      OBVIOUS
    <3>1. k - 1 \in 1 .. y
      OBVIOUS
    <3> QED
      BY <1>1, <3>1
  <2>5. k = 1 => ends[k - 1] = 0
    OBVIOUS
  <2> QED
    BY <2>2, <2>3, <2>4, <2>5
<1>4. d \in Seq(Int) /\ Len(d) = y /\ t \in Seq(Int) /\ Len(t) = y
  BY <1>2, <1>3, IsSeq
<1>5. Sums(d) = t
  BY <1>3, <1>4, SumsAre
<1> QED
  BY <1>1, <1>4, <1>5 DEF d, t

\* Chunk by chunk the sizes are the lengths of the parts in their order.
LEMMA SizesJoin ==
  ASSUME NEW p, NEW cuts, NEW ends, NEW files, NEW n, NEW m, Chunked(p, cuts, ends, files, n, m)
  PROVE  FlattenSeq(AllSizes(cuts, n, m)) = PartLengths(ends, m * n)
<1> DEFINE y == m * n
           x == PartLengths(ends, y)
           seqs == AllSizes(cuts, n, m)
           e == [c \in 0 .. m |-> c * n]
<1>1. n \in Nat /\ m \in Nat /\ ends \in [0 .. y -> Nat] /\ ends[0] = 0
      /\ \A c \in 1 .. m, f \in 1 .. n : SizeOf(cuts, c, f) \in Nat
  BY DEF Chunked
<1>2. y \in Nat
  BY <1>1
<1>3. x \in Seq(Int) /\ Len(x) = y /\ \A k \in 1 .. y : x[k] = ends[k] - ends[k - 1]
  <2> HIDE DEF y
  <2> QED
    BY <1>1, <1>2, EndsOf
<1>4. /\ \A c \in 1 .. m : SizesIn(cuts, n, c) \in Seq(Int) /\ Len(SizesIn(cuts, n, c)) = n
      /\ AllSizes(cuts, n, m) \in Seq(Seq(Int)) /\ Len(AllSizes(cuts, n, m)) = m
      /\ DOMAIN AllSizes(cuts, n, m) = 1 .. m
      /\ \A c \in 1 .. m : AllSizes(cuts, n, m)[c] = SizesIn(cuts, n, c)
      /\ \A c \in 1 .. m, f \in 1 .. n : SizesIn(cuts, n, c)[f] = SizeOf(cuts, c, f)
  BY <1>1, SizesOfAll, Zenon
<1>5. e \in [0 .. m -> Nat] /\ e[0] = 0 /\ e[m] = y
  <2>1. \A c \in 0 .. m : c * n \in Nat
    BY <1>1
  <2>2. e \in [0 .. m -> Nat]
    BY <2>1
  <2>3. e[0] = 0 * n /\ e[m] = m * n
    BY <1>1
  <2>4. 0 * n = 0
    BY <1>1
  <2> QED
    BY <2>2, <2>3, <2>4
<1>6. ASSUME NEW c \in 1 .. m
      PROVE  e[c] = e[c - 1] + Len(seqs[c]) /\ e[c] <= Len(x) /\ SubSeq(x, e[c - 1] + 1, e[c]) = seqs[c]
  <2> DEFINE z == (c - 1) * n
             u == c * n
  <2>1. z \in Nat /\ u \in Nat /\ u = z + n /\ u <= y
    BY <1>1, RowsOf
  <2>2. e[c] = u /\ e[c - 1] = z
    <3>1. c \in 0 .. m /\ c - 1 \in 0 .. m
      BY <1>1
    <3> QED
      BY <3>1
  <2>3. seqs[c] \in Seq(Int) /\ Len(seqs[c]) = n /\ \A f \in 1 .. n : seqs[c][f] = SizeOf(cuts, c, f)
    BY <1>4
  <2>4. \A f \in 1 .. n : z + f \in 1 .. y /\ ends[z + f] \in Nat /\ ends[z + f - 1] \in Nat
                          /\ ends[z + f] = ends[z + f - 1] + SizeOf(cuts, c, f)
    <3> TAKE f \in 1 .. n
    <3> DEFINE k == z + f
    <3>1. k = (c - 1) * n + f
      OBVIOUS
    <3> HIDE DEF k
    <3>2. k \in 1 .. m * n /\ ends[k] \in Nat /\ ends[k - 1] \in Nat
          /\ ends[k] = ends[k - 1] + SizeOf(cuts, c, f)
      BY <3>1, PartOf, SMTT(20)
    <3> HIDE DEF z
    <3>3. k \in 1 .. y /\ k = z + f
      BY <3>2 DEF k
    <3>4. k - 1 = z + f - 1
      BY <2>1, <3>3
    <3> HIDE DEF y
    <3> QED
      BY <3>2, <3>3, <3>4
  <2> HIDE DEF z, u, y, x, e, seqs
  <2>5. \A f \in 1 .. n : x[z + f] = SizeOf(cuts, c, f)
    <3> TAKE f \in 1 .. n
    <3>1. z + f \in 1 .. y /\ ends[z + f] \in Nat /\ ends[z + f - 1] \in Nat
          /\ ends[z + f] = ends[z + f - 1] + SizeOf(cuts, c, f)
      BY <2>4
    <3>2. x[z + f] = ends[z + f] - ends[z + f - 1]
      <4> DEFINE k == z + f
      <4>1. k - 1 = z + f - 1 /\ k \in 1 .. y
        BY <2>1, <3>1
      <4> HIDE DEF k
      <4>2. x[k] = ends[k] - ends[k - 1]
        BY <1>3, <4>1
      <4> QED
        BY <4>1, <4>2 DEF k
    <3>3. SizeOf(cuts, c, f) \in Nat
      BY <1>1
    <3> QED
      BY <3>1, <3>2, <3>3
  <2>6. SubSeq(x, z + 1, u) \in Seq(Int) /\ Len(SubSeq(x, z + 1, u)) = n
        /\ \A f \in 1 .. n : SubSeq(x, z + 1, u)[f] = x[z + f]
    BY <1>1, <1>2, <1>3, <2>1, SMTT(20)
  <2>7. SubSeq(x, z + 1, u) = seqs[c]
    <3>1. \A f \in 1 .. n : SubSeq(x, z + 1, u)[f] = seqs[c][f]
      BY <2>3, <2>5, <2>6
    <3> QED
      BY <2>3, <2>6, <3>1, SameSeq
  <2> QED
    BY <1>1, <1>3, <2>1, <2>2, <2>3, <2>7
<1> HIDE DEF x, e, seqs, y
<1>7. seqs \in Seq(Seq(Int)) /\ Len(seqs) = m
  BY <1>4 DEF seqs
<1>8. FlattenSeq(seqs) = x
  <2>1. m \in Nat /\ x \in Seq(Int) /\ e \in [0 .. m -> Nat] /\ e[0] = 0 /\ e[m] = Len(x)
    BY <1>1, <1>3, <1>5
  <2>2. \A c \in 1 .. m : e[c] = e[c - 1] + Len(seqs[c]) /\ e[c] <= Len(x)
                           /\ SubSeq(x, e[c - 1] + 1, e[c]) = seqs[c]
    BY <1>6
  <2>3. AreParts(seqs, x, e, m)
    BY <1>7, <2>1, <2>2 DEF AreParts
  <2> QED
    BY <1>7, <2>1, <2>3, FlatIs
<1> QED
  BY <1>8 DEF seqs, x, y

\* The parts of a file in the chunks are the file.
PartsIn(file, e, m) == [c \in 1 .. m |-> SubSeq(file, e[c - 1] + 1, e[c])]

\* Joined, they are the file.
LEMMA FileJoins ==
  ASSUME NEW p, NEW cuts, NEW ends, NEW files \in Seq(Seq(Byte)), NEW n, NEW m,
         Chunked(p, cuts, ends, files, n, m), NEW f \in 1 .. n
  PROVE  FlattenSeq(PartsIn(files[f], cuts[f], m)) = files[f]
<1> DEFINE e == cuts[f]
           x == files[f]
           seqs == PartsIn(x, e, m)
<1>1. n \in Nat /\ m \in Nat /\ Len(files) = n /\ e \in [0 .. m -> Nat] /\ e[0] = 0 /\ e[m] = Len(x)
  BY DEF Chunked
<1>2. x \in Seq(Byte)
  <2>1. f \in DOMAIN files
    BY <1>1
  <2> QED
    BY <2>1
<1>3. \A c \in 1 .. m : e[c] - e[c - 1] \in Nat
  BY DEF Chunked, SizeOf
<1>4. \A c \in 1 .. m : seqs[c] = SubSeq(x, e[c - 1] + 1, e[c])
  BY DEF PartsIn
<1>5. seqs = [c \in 1 .. m |-> seqs[c]]
  BY DEF PartsIn
<1> HIDE DEF e, x, seqs
<1>6. \A c \in 1 .. m : e[c - 1] \in Nat /\ e[c] \in Nat /\ e[c - 1] <= e[c]
  <2> TAKE c \in 1 .. m
  <2>1. c - 1 \in 0 .. m /\ c \in 0 .. m
    BY <1>1
  <2>2. e[c - 1] \in Nat /\ e[c] \in Nat
    BY <1>1, <2>1
  <2> QED
    BY <1>3, <2>2
<1>7. \A c \in 0 .. m : e[c] <= Len(x)
  BY <1>1, <1>6, Rises
<1>8. ASSUME NEW c \in 1 .. m
      PROVE  seqs[c] \in Seq(Byte) /\ e[c] = e[c - 1] + Len(seqs[c]) /\ e[c] <= Len(x)
             /\ SubSeq(x, e[c - 1] + 1, e[c]) = seqs[c]
  <2> DEFINE a == e[c - 1]
             b == e[c]
  <2>1. a \in Nat /\ b \in Nat /\ a <= b
    BY <1>6
  <2>2. b <= Len(x)
    <3>1. c \in 0 .. m
      BY <1>1
    <3> QED
      BY <1>7, <3>1
  <2>3. seqs[c] = SubSeq(x, a + 1, b)
    BY <1>4
  <2> HIDE DEF a, b
  <2>4. SubSeq(x, a + 1, b) \in Seq(Byte) /\ Len(SubSeq(x, a + 1, b)) = b - a
    BY <1>2, <2>1, <2>2
  <2>5. seqs[c] \in Seq(Byte) /\ b = a + Len(seqs[c]) /\ b <= Len(x) /\ SubSeq(x, a + 1, b) = seqs[c]
    BY <2>1, <2>2, <2>3, <2>4
  <2> QED
    BY <2>5 DEF a, b
<1>9. seqs \in Seq(Seq(Byte)) /\ Len(seqs) = m
  <2>1. \A c \in 1 .. m : seqs[c] \in Seq(Byte)
    BY <1>8
  <2> QED
    BY <1>1, <1>5, <2>1, IsSeq
<1>10. AreParts(seqs, x, e, m)
  BY <1>1, <1>8, <1>9 DEF AreParts
<1>11. FlattenSeq(seqs) = x
  BY <1>1, <1>2, <1>9, <1>10, FlatIs
<1> QED
  BY <1>11 DEF seqs, x, e

\* The decoder assembles the files.
LEMMA FilesAssembled ==
  ASSUME NEW p \in Seq(Byte), NEW cuts, NEW ends, NEW files \in Seq(Seq(Byte)), NEW n, NEW m,
         Chunked(p, cuts, ends, files, n, m)
  PROVE  Assembled(p, AllSizes(cuts, n, m), n) = files
<1> DEFINE y == m * n
           t == PartEnds(ends, y)
           sizes == AllSizes(cuts, n, m)
<1>1. n \in Nat /\ m \in Nat /\ Len(files) = n /\ ends \in [0 .. y -> Nat] /\ ends[0] = 0
      /\ \A c \in 1 .. m, f \in 1 .. n : SizeOf(cuts, c, f) \in Nat
  BY DEF Chunked
<1>2. y \in Nat
  BY <1>1
<1>3. FlattenSeq(sizes) = PartLengths(ends, y)
  BY SizesJoin
<1>4. Sums(PartLengths(ends, y)) = t /\ \A k \in 1 .. y : t[k] = ends[k]
  <2> HIDE DEF y
  <2> QED
    BY <1>1, <1>2, EndsOf
<1>5. DOMAIN sizes = 1 .. m /\ \A c \in 1 .. m, f \in 1 .. n : sizes[c][f] = SizeOf(cuts, c, f)
  <2>1. /\ \A c \in 1 .. m : SizesIn(cuts, n, c) \in Seq(Int) /\ Len(SizesIn(cuts, n, c)) = n
        /\ AllSizes(cuts, n, m) \in Seq(Seq(Int)) /\ Len(AllSizes(cuts, n, m)) = m
        /\ DOMAIN AllSizes(cuts, n, m) = 1 .. m
        /\ \A c \in 1 .. m : AllSizes(cuts, n, m)[c] = SizesIn(cuts, n, c)
        /\ \A c \in 1 .. m, f \in 1 .. n : SizesIn(cuts, n, c)[f] = SizeOf(cuts, c, f)
    BY <1>1, SizesOfAll, Zenon
  <2> QED
    BY <2>1
<1>6. ASSUME NEW c \in 1 .. m, NEW f \in 1 .. n
      PROVE  SubSeq(p, t[(c - 1) * n + f] - sizes[c][f] + 1, t[(c - 1) * n + f])
               = SubSeq(files[f], cuts[f][c - 1] + 1, cuts[f][c])
  <2> DEFINE k == (c - 1) * n + f
             s == SizeOf(cuts, c, f)
  <2>1. s \in Nat /\ k \in 1 .. y /\ ends[k] \in Nat /\ ends[k - 1] \in Nat /\ ends[k] = ends[k - 1] + s
        /\ SubSeq(p, ends[k - 1] + 1, ends[k]) = SubSeq(files[f], cuts[f][c - 1] + 1, cuts[f][c])
    <3>1. k = (c - 1) * n + f
      OBVIOUS
    <3> HIDE DEF k, t, sizes
    <3>2. SizeOf(cuts, c, f) \in Nat /\ k \in 1 .. m * n /\ ends[k] \in Nat /\ ends[k - 1] \in Nat
          /\ ends[k] = ends[k - 1] + SizeOf(cuts, c, f)
      BY <3>1, PartOf, SMTT(20)
    <3>3. SubSeq(p, ends[k - 1] + 1, ends[k]) = SubSeq(files[f], cuts[f][c - 1] + 1, cuts[f][c])
      BY <3>1 DEF Chunked
    <3> QED
      BY <3>2, <3>3
  <2>2. sizes[c][f] = s
    BY <1>5
  <2> HIDE DEF k, s, y, sizes, t
  <2>3. t[k] = ends[k]
    BY <1>4, <2>1
  <2>4. t[k] - sizes[c][f] + 1 = ends[k - 1] + 1
    BY <2>1, <2>2, <2>3
  <2>5. SubSeq(p, t[k] - sizes[c][f] + 1, t[k]) = SubSeq(files[f], cuts[f][c - 1] + 1, cuts[f][c])
    BY <2>1, <2>3, <2>4
  <2> QED
    BY <2>5 DEF k
<1> HIDE DEF y, t, sizes
<1>7. Assembled(p, sizes, n) =
        [f \in 1 .. n |-> FlattenSeq([c \in 1 .. m |->
           SubSeq(p, t[(c - 1) * n + f] - sizes[c][f] + 1, t[(c - 1) * n + f])])]
  BY <1>3, <1>4, <1>5 DEF Assembled
<1>8. ASSUME NEW f \in 1 .. n
      PROVE  FlattenSeq([c \in 1 .. m |->
               SubSeq(p, t[(c - 1) * n + f] - sizes[c][f] + 1, t[(c - 1) * n + f])]) = files[f]
  <2>1. [c \in 1 .. m |-> SubSeq(p, t[(c - 1) * n + f] - sizes[c][f] + 1, t[(c - 1) * n + f])]
          = PartsIn(files[f], cuts[f], m)
    BY <1>6 DEF PartsIn
  <2>2. FlattenSeq(PartsIn(files[f], cuts[f], m)) = files[f]
    BY FileJoins
  <2> QED
    BY <2>1, <2>2
<1>9. Assembled(p, sizes, n) = [f \in 1 .. n |-> files[f]]
  BY <1>7, <1>8
<1>10. files = [f \in 1 .. n |-> files[f]]
  BY <1>1
<1> QED
  BY <1>9, <1>10 DEF sizes

\* Files that are joined: what is up to one of them are those before it.
LEMMA JoinedUpTo ==
  ASSUME NEW files, NEW starts, NEW joined, AreJoined(files, starts, joined), NEW j \in 0 .. Len(files)
  PROVE  /\ starts[j] \in Nat /\ starts[j] <= Len(joined)
         /\ FlattenSeq(SubSeq(files, 1, j)) = SubSeq(joined, 1, starts[j])
<1> DEFINE n == Len(files)
           seqs == SubSeq(files, 1, j)
           end == starts[j]
           x == SubSeq(joined, 1, end)
           e == [i \in 0 .. j |-> starts[i]]
<1>1. files \in Seq(Seq(Byte)) /\ joined \in Seq(Byte) /\ starts \in [0 .. n -> Nat] /\ starts[0] = 0
      /\ starts[n] = Len(joined)
      /\ \A f \in 1 .. n : starts[f] = starts[f - 1] + Len(files[f])
                           /\ SubSeq(joined, starts[f - 1] + 1, starts[f]) = files[f]
  BY DEF AreJoined
<1>2. n \in Nat /\ j \in Nat /\ j <= n
  BY <1>1
<1> HIDE DEF n
<1>3. \A i \in 0 .. n : starts[i] \in Nat
  BY <1>1
<1>4. \A f \in 1 .. n : files[f] \in Seq(Byte) /\ f \in 0 .. n /\ f - 1 \in 0 .. n
  <2> TAKE f \in 1 .. n
  <2>1. f \in DOMAIN files
    BY <1>1 DEF n
  <2>2. files[f] \in Seq(Byte)
    BY <1>1, <2>1
  <2>3. f \in 0 .. n /\ f - 1 \in 0 .. n
    BY <1>2
  <2> QED
    BY <2>2, <2>3
<1>5. \A f \in 1 .. n : starts[f - 1] <= starts[f]
  <2> TAKE f \in 1 .. n
  <2>1. starts[f - 1] \in Nat /\ Len(files[f]) \in Nat /\ starts[f] = starts[f - 1] + Len(files[f])
    BY <1>1, <1>3, <1>4
  <2> QED
    BY <2>1
<1>6. \A i \in 0 .. n : starts[i] <= starts[n]
  BY <1>1, <1>2, <1>5, Rises
<1>7. end \in Nat /\ end <= Len(joined)
  <2>1. j \in 0 .. n
    BY <1>2
  <2> QED
    BY <1>1, <1>3, <1>6, <2>1
<1>8. \A i \in 0 .. j : e[i] = starts[i] /\ e[i] \in Nat /\ e[i] <= end
  <2>1. \A i \in 0 .. j : e[i] = starts[i] /\ e[i] \in Nat
    <3> TAKE i \in 0 .. j
    <3>1. i \in 0 .. n
      BY <1>2
    <3> QED
      BY <1>3, <3>1
  <2>2. e \in [0 .. j -> Nat]
    BY <2>1
  <2>3. \A i \in 1 .. j : e[i - 1] <= e[i]
    <3> TAKE i \in 1 .. j
    <3>1. i \in 1 .. n /\ i \in 0 .. j /\ i - 1 \in 0 .. j
      BY <1>2
    <3> HIDE DEF e
    <3> QED
      BY <1>5, <2>1, <3>1
  <2>4. e[j] = end
    <3>1. j \in 0 .. j
      BY <1>2
    <3> QED
      BY <3>1
  <2> HIDE DEF e, end
  <2>5. \A i \in 0 .. j : e[i] <= e[j]
    BY <1>2, <2>2, <2>3, Rises
  <2> QED
    BY <2>1, <2>4, <2>5
<1>9. seqs \in Seq(Seq(Byte)) /\ Len(seqs) = j /\ \A i \in 1 .. j : seqs[i] = files[i]
  BY <1>1, <1>2 DEF n
<1>10. x \in Seq(Byte) /\ Len(x) = end
  <2> HIDE DEF end
  <2> QED
    BY <1>1, <1>7
<1>11. e \in [0 .. j -> Nat] /\ e[0] = 0 /\ e[j] = Len(x)
  <2>1. 0 \in 0 .. j /\ j \in 0 .. j
    BY <1>2
  <2>2. e[0] = 0 /\ e[j] = Len(x)
    BY <1>1, <1>10, <2>1
  <2>3. e \in [0 .. j -> Nat]
    BY <1>8
  <2> QED
    BY <2>2, <2>3
<1>12. ASSUME NEW i \in 1 .. j
       PROVE  e[i] = e[i - 1] + Len(seqs[i]) /\ e[i] <= Len(x) /\ SubSeq(x, e[i - 1] + 1, e[i]) = seqs[i]
  <2>1. i \in 1 .. n /\ i \in 0 .. j /\ i - 1 \in 0 .. j
    BY <1>2
  <2> DEFINE a == starts[i - 1]
             b == starts[i]
  <2>2. e[i - 1] = a /\ e[i] = b /\ a \in Nat /\ b \in Nat /\ b <= end /\ a <= b
    BY <1>5, <1>8, <2>1
  <2>3. seqs[i] = files[i] /\ b = a + Len(files[i]) /\ SubSeq(joined, a + 1, b) = files[i]
    BY <1>1, <1>9, <2>1
  <2> HIDE DEF a, b, end, e, seqs
  <2>4. SubSeq(x, a + 1, b) = SubSeq(joined, a + 1, b)
    BY <1>1, <1>7, <2>2
  <2> HIDE DEF x
  <2> QED
    BY <1>10, <2>2, <2>3, <2>4
<1> HIDE DEF seqs, end, x, e
<1>13. AreParts(seqs, x, e, j)
  BY <1>9, <1>11, <1>12 DEF AreParts
<1>14. FlattenSeq(seqs) = x
  BY <1>2, <1>9, <1>10, <1>13, FlatIs
<1> QED
  BY <1>7, <1>14 DEF seqs, x, end

\* All files, joined, have each file at its start.
LEMMA AllJoined ==
  ASSUME NEW files, NEW starts, NEW joined, AreJoined(files, starts, joined)
  PROVE  /\ FlattenSeq(files) = joined
         /\ \A f \in 1 .. Len(files) : Len(FlattenSeq(SubSeq(files, 1, f - 1))) = starts[f - 1]
         /\ Len(files) > 0 => AreAt(joined, [f \in 1 .. Len(files) |-> starts[f - 1]], files)
<1> DEFINE n == Len(files)
<1>1. files \in Seq(Seq(Byte)) /\ joined \in Seq(Byte) /\ starts \in [0 .. n -> Nat] /\ starts[0] = 0
      /\ starts[n] = Len(joined)
      /\ \A f \in 1 .. n : starts[f] = starts[f - 1] + Len(files[f])
                           /\ SubSeq(joined, starts[f - 1] + 1, starts[f]) = files[f]
  BY DEF AreJoined
<1>2. n \in Nat /\ SubSeq(files, 1, n) = files /\ SubSeq(joined, 1, Len(joined)) = joined
  BY <1>1
<1>3. FlattenSeq(files) = joined
  <2>1. n \in 0 .. Len(files)
    BY <1>2
  <2>2. FlattenSeq(SubSeq(files, 1, n)) = SubSeq(joined, 1, starts[n])
    BY <2>1, JoinedUpTo
  <2> QED
    BY <1>1, <1>2, <2>2
<1>4. ASSUME NEW f \in 1 .. n PROVE Len(FlattenSeq(SubSeq(files, 1, f - 1))) = starts[f - 1]
  <2>1. f - 1 \in 0 .. Len(files)
    BY <1>2
  <2> DEFINE j == f - 1
             end == starts[j]
  <2>2. end \in Nat /\ end <= Len(joined) /\ FlattenSeq(SubSeq(files, 1, j)) = SubSeq(joined, 1, end)
    BY <2>1, JoinedUpTo
  <2> HIDE DEF j, end
  <2>3. Len(SubSeq(joined, 1, end)) = end
    BY <1>1, <2>2
  <2> QED
    BY <2>2, <2>3 DEF j, end
<1>5. ASSUME n > 0 PROVE AreAt(joined, [f \in 1 .. n |-> starts[f - 1]], files)
  <2>1. \A i \in 0 .. n : starts[i] \in Nat /\ 0 + starts[i] = starts[i]
    BY <1>1
  <2>2. \A f \in 1 .. n : f \in 0 .. n /\ f - 1 \in 0 .. n
    BY <1>2
  <2>3. \A f \in 1 .. n : SubSeq(joined, 0 + starts[f - 1] + 1, 0 + starts[f]) = files[f]
    BY <1>1, <2>1, <2>2
  <2>4. Len(joined) = 0 + starts[n]
    <3>1. n \in 0 .. n
      BY <1>2
    <3> QED
      BY <1>1, <2>1, <3>1
  <2> HIDE DEF n
  <2>5. AreAt(joined, [f \in 1 .. n |-> 0 + starts[f - 1]], files)
    BY <1>1, <1>2, <1>5, <2>3, <2>4, JoinedAreAt DEF n
  <2>6. [f \in 1 .. n |-> 0 + starts[f - 1]] = [f \in 1 .. n |-> starts[f - 1]]
    BY <2>1, <2>2
  <2> QED
    BY <2>5, <2>6
<1> QED
  BY <1>3, <1>4, <1>5

\* The one file of an answer is all of it.
LEMMA SingleInAnswer ==
  ASSUME NEW p \in Seq(Byte), NEW files \in Seq(Seq(Byte)), IsSingle(p, files),
         NEW ids \in Seq(Int), Len(ids) = Len(files)
  PROVE  \E at : unpackNetworkArchive(p, ids) = FilesAt(p, at) /\ AreAt(p, at, files)
<1> DEFINE at == [f \in 1 .. Len(ids) |-> 0]
<1>1. Len(files) = 1 /\ p = files[1] /\ Len(ids) = 1
  BY DEF IsSingle
<1>2. unpackNetworkArchive(p, ids) = FilesAt(p, at)
  BY <1>1 DEF unpackNetworkArchive
<1>3. DOMAIN at = 1 .. 1 /\ at[1] = 0
  BY <1>1
<1> HIDE DEF at
<1>4. AreAt(p, at, files)
  BY <1>1, <1>3, OneIsAt
<1> QED
  BY <1>2, <1>4

\* The answer in chunks gives the files, joined.
LEMMA FilesInAnswer ==
  ASSUME NEW p \in Seq(Byte), NEW files, NEW starts, NEW joined, AreJoined(files, starts, joined),
         NEW cuts, NEW ends, IsChunked(p, cuts, ends, files), NEW ids \in Seq(Int), Len(ids) = Len(files)
  PROVE  \E at : unpackNetworkArchive(p, ids) = FilesAt(joined, at) /\ AreAt(joined, at, files)
<1> DEFINE n == Len(files)
           m == p[Len(p)]
           y == m * n
           foot == ends[y]
           sizes == AllSizes(cuts, n, m)
           at == [f \in 1 .. n |-> starts[f - 1]]
<1>0. files \in Seq(Seq(Byte))
  BY DEF AreJoined
<1>1. Chunked(p, cuts, ends, files, n, m)
  BY <1>0, ChunksOf
<1>a. FlattenSeq(files) = joined
      /\ (\A f \in 1 .. n : Len(FlattenSeq(SubSeq(files, 1, f - 1))) = starts[f - 1])
  BY AllJoined
<1>b. n > 0 => AreAt(joined, at, files)
  BY AllJoined
<1> HIDE DEF n, m
<1>2. n \in Nat /\ m \in Nat /\ n > 1 /\ m > 0 /\ Len(p) > 0 /\ p[Len(p)] = m /\ Len(files) = n
      /\ ends \in [0 .. y -> Nat] /\ ends[0] = 0 /\ Len(p) = foot + 4 * n * m + 1
      /\ \A c \in 1 .. m, f \in 1 .. n : SizeOf(cuts, c, f) \in Nat
  BY <1>1 DEF Chunked
<1>3. y \in Nat /\ y > 0 /\ 4 * n * m \in Nat
  <2>1. 1 \in 1 .. m /\ 1 \in 1 .. n
    BY <1>2
  <2>2. (1 - 1) * n + 1 \in 1 .. m * n
    BY <1>2, <2>1, InRows
  <2>3. 4 * n * m \in Nat /\ m * n \in Nat
    BY <1>2
  <2> QED
    BY <2>2, <2>3
<1>4. foot \in Nat
  <2> HIDE DEF y
  <2>1. y \in 0 .. y
    BY <1>3
  <2> QED
    BY <1>2, <2>1
<1>5. Last(p) = m /\ p # <<>> /\ Len(ids) = n
  BY <1>2 DEF Last
<1>6. Len(p) - 1 - 4 * n * m = foot /\ foot <= Len(p)
  <2> DEFINE w == 4 * n * m
  <2>1. Len(p) = foot + w + 1 /\ w \in Nat
    BY <1>2, <1>3
  <2> HIDE DEF w, foot
  <2>2. Len(p) - 1 - w = foot /\ foot <= Len(p)
    BY <1>4, <2>1
  <2> QED
    BY <2>2 DEF w
<1>7. chunkSizes(p, foot, m, n) = sizes
  BY <1>1, SizesAreRead
<1>8. \A c \in 1 .. m, f \in 1 .. n : ~(sizes[c][f] < 0)
  <2>1. /\ \A c \in 1 .. m : SizesIn(cuts, n, c) \in Seq(Int) /\ Len(SizesIn(cuts, n, c)) = n
        /\ AllSizes(cuts, n, m) \in Seq(Seq(Int)) /\ Len(AllSizes(cuts, n, m)) = m
        /\ DOMAIN AllSizes(cuts, n, m) = 1 .. m
        /\ \A c \in 1 .. m : AllSizes(cuts, n, m)[c] = SizesIn(cuts, n, c)
        /\ \A c \in 1 .. m, f \in 1 .. n : SizesIn(cuts, n, c)[f] = SizeOf(cuts, c, f)
    BY <1>2, SizesOfAll, Zenon
  <2>2. \A c \in 1 .. m, f \in 1 .. n : sizes[c][f] = SizeOf(cuts, c, f)
    BY <2>1
  <2> HIDE DEF sizes
  <2> TAKE c \in 1 .. m, f \in 1 .. n
  <2>3. SizeOf(cuts, c, f) \in Nat
    BY <1>2
  <2>4. sizes[c][f] = SizeOf(cuts, c, f)
    BY <2>2
  <2> QED
    BY <2>3, <2>4
<1>9. Last(Sums(FlattenSeq(sizes))) = foot
  <2>1. FlattenSeq(sizes) = PartLengths(ends, y)
    BY <1>1, SizesJoin
  <2> HIDE DEF y, sizes
  <2>2. Sums(PartLengths(ends, y)) = PartEnds(ends, y) /\ Len(PartEnds(ends, y)) = y
        /\ \A k \in 1 .. y : PartEnds(ends, y)[k] = ends[k]
    BY <1>2, <1>3, EndsOf
  <2>3. y \in 1 .. y
    BY <1>3
  <2> QED
    BY <2>1, <2>2, <2>3 DEF Last
<1>10. Assembled(p, sizes, n) = files
  BY <1>0, <1>1, FilesAssembled
<1>11. FlattenSeq(files) = joined
       /\ (\A f \in 1 .. n : Len(FlattenSeq(SubSeq(files, 1, f - 1))) = starts[f - 1])
       /\ AreAt(joined, at, files)
  BY <1>2, <1>a, <1>b
<1> HIDE DEF foot, sizes, y
<1>12. unpackNetworkArchive(p, ids) =
         FilesAt(FlattenSeq(files), [f \in 1 .. n |-> Len(FlattenSeq(SubSeq(files, 1, f - 1)))])
  <2>1. ~(n <= 1) /\ ~(m = 0 \/ foot < 0) /\ ~(foot > Len(p))
    BY <1>2, <1>4, <1>6
  <2> QED
    BY <1>5, <1>6, <1>7, <1>8, <1>9, <1>10, <2>1 DEF unpackNetworkArchive
<1>13. unpackNetworkArchive(p, ids) = FilesAt(joined, at)
  BY <1>11, <1>12
<1> QED
  BY <1>11, <1>13

-----------------------------------------------------------------------------
(* The files of an archive.                                                    *)

Increasing(ids) == \A f, g \in 1 .. Len(ids) : f < g => ids[f] < ids[g]

\* Where each of the ids starts.
Places(a, ids) == [f \in 1 .. Len(ids) |-> a.files[ids[f]].fileOffset]

\* No id is twice among those that increase.
LEMMA IdsDiffer ==
  ASSUME NEW ids \in Seq(Int), Increasing(ids), NEW f \in 1 .. Len(ids), NEW g \in 1 .. Len(ids), ids[f] = ids[g]
  PROVE  f = g
<1>1. ids[f] \in Int /\ ids[g] \in Int
  OBVIOUS
<1>2. ~(f < g)
  BY <1>1 DEF Increasing
<1>3. ~(g < f)
  BY <1>1 DEF Increasing
<1> QED
  BY <1>2, <1>3

\* The ids are the range.
LEMMA InRange ==
  ASSUME NEW ids \in Seq(Int)
  PROVE  /\ \A f \in 1 .. Len(ids) : ids[f] \in Range(ids)
         /\ \A id \in Range(ids) : \E f \in 1 .. Len(ids) : id = ids[f]
  BY DEF Range

\* subBuffer of the place and length of a file is the file.
LEMMA PartOfData ==
  ASSUME NEW data \in Seq(Byte), NEW start \in Nat, NEW file \in Seq(Byte),
         start + Len(file) <= Len(data), SubSeq(data, start + 1, start + Len(file)) = file
  PROVE  subBuffer(data, start, Len(file)) = file
<1>1. CASE Len(file) = 0
  <2>1. file = <<>>
    BY <1>1
  <2> QED
    BY <1>1, <2>1 DEF subBuffer
<1>2. CASE Len(file) # 0
  <2>1. start \in 0 .. Len(data) - 1 /\ Len(file) \in 1 .. Len(data) - start
    BY <1>2
  <2> QED
    BY <2>1 DEF subBuffer
<1> QED
  BY <1>1, <1>2

\* Between the places of the ids are the files.
LEMMA FileIsRead ==
  ASSUME NEW a, NEW ids \in Seq(Int), Increasing(ids), a.fileIds = ids, Range(ids) \subseteq DOMAIN a.files,
         NEW files \in Seq(Seq(Byte)), Len(files) = Len(ids), AreAt(a.data, Places(a, ids), files),
         NEW f \in 1 .. Len(ids)
  PROVE  fileBytes(a, ids[f]) = files[f]
<1> DEFINE n == Len(ids)
           at == Places(a, ids)
           start == at[f]
           file == files[f]
           end == IF f = n THEN Len(a.data) ELSE at[f + 1]
<1>1. n \in Nat /\ f \in DOMAIN files /\ f \in DOMAIN ids
  OBVIOUS
<1>2. file \in Seq(Byte) /\ a.data \in Seq(Byte) /\ start \in Nat /\ start + Len(file) <= Len(a.data)
      /\ SubSeq(a.data, start + 1, start + Len(file)) = file /\ start + Len(file) = end
  <2>1. file \in Seq(Byte)
    BY <1>1
  <2>2. f \in 1 .. Len(files) /\ Len(files) = n
    OBVIOUS
  <2>3. AreAt(a.data, at, files)
    OBVIOUS
  <2> HIDE DEF at, n
  <2>4. a.data \in Seq(Byte)
    BY <2>3 DEF AreAt
  <2>5. /\ at[f] \in Nat /\ at[f] + Len(files[f]) <= Len(a.data)
        /\ SubSeq(a.data, at[f] + 1, at[f] + Len(files[f])) = files[f]
        /\ at[f] + Len(files[f]) = IF f = Len(files) THEN Len(a.data) ELSE at[f + 1]
    BY <2>2, <2>3 DEF AreAt
  <2> QED
    BY <2>1, <2>2, <2>4, <2>5
<1>3. start = a.files[ids[f]].fileOffset /\ (f # n => at[f + 1] = a.files[ids[f + 1]].fileOffset)
  <2>1. f # n => f + 1 \in 1 .. n
    OBVIOUS
  <2> QED
    BY <2>1 DEF Places
<1> DEFINE first == CHOOSE i \in DOMAIN a.fileIds :
                      a.fileIds[i] = ids[f] /\ \A j \in 1 .. i - 1 : a.fileIds[j] # ids[f]
<1>4. first = f
  <2>1. DOMAIN a.fileIds = 1 .. n
    OBVIOUS
  <2>2. \A j \in 1 .. n : ids[j] = ids[f] => j = f
    BY IdsDiffer
  <2>3. \A j \in 1 .. f - 1 : j \in 1 .. n /\ j # f
    BY <1>1
  <2>4. \A j \in 1 .. f - 1 : ids[j] # ids[f]
    BY <2>2, <2>3
  <2> QED
    BY <2>1, <2>2, <2>4
<1>5. FileSize(a, ids[f]) = end - start
  <2>1. FileSize(a, ids[f]) = (IF f = n THEN Len(a.data) ELSE a.files[ids[f + 1]].fileOffset)
                                - a.files[ids[f]].fileOffset
    <3>1. FileSize(a, ids[f]) =
            (IF first = Len(a.fileIds) THEN Len(a.data) ELSE a.files[a.fileIds[first + 1]].fileOffset)
              - a.files[ids[f]].fileOffset
      BY DEF FileSize
    <3> HIDE DEF first
    <3> QED
      BY <1>4, <3>1
  <2> QED
    BY <1>3, <2>1
<1> HIDE DEF start, end, at, n, file, first
<1>6. end - start = Len(file)
  BY <1>2
<1>7. ids[f] \in DOMAIN a.files /\ ids[f] \in Range(a.fileIds)
  <2>1. ids[f] \in Range(ids)
    BY InRange
  <2> QED
    BY <2>1
<1>8. fileBytes(a, ids[f]) = subBuffer(a.data, start, Len(file))
  BY <1>3, <1>5, <1>6, <1>7 DEF fileBytes
<1>9. subBuffer(a.data, start, Len(file)) = file
  BY <1>2, PartOfData
<1> QED
  BY <1>8, <1>9 DEF file

\* Of an id that is not the group's there is nothing.
LEMMA NoOther ==
  ASSUME NEW a, NEW f, f \notin Range(a.fileIds)
  PROVE  fileBytes(a, f) = <<>>
  BY DEF fileBytes

-----------------------------------------------------------------------------
(* The blobs of a group.                                                       *)

\* What a blob holds for as many files as there are ids.
PayloadOf(blob) == IF blob.layout = "row" THEN decompressRow(blob.bytes) ELSE decompress(blob.bytes)
FilesFor(blob, payload, ids) ==
  IF blob.layout = "row" THEN decodeArchiveBlob(payload, ids) ELSE unpackNetworkArchive(payload, ids)
UnpackedFor(blob, ids) ==
  IF PayloadOf(blob).how = "refused" THEN Refused ELSE FilesFor(blob, PayloadOf(blob).of, ids)

\* Unpacked is this where both lists of ids are the same.
LEMMA UnpackedIs ==
  ASSUME NEW ids, archive.fileIds = ids, archive.subIds = ids, NEW blob
  PROVE  Unpacked(blob) = UnpackedFor(blob, ids)
  BY DEF Unpacked, UnpackedFor, PayloadOf, FilesFor

\* A payload of the group is cut where its files are.
LEMMA GroupIsCut ==
  ASSUME NEW layout \in {"row", "network"}, NEW c, c.payload \in Seq(Byte),
         NEW files, NEW starts, NEW joined, AreJoined(files, starts, joined),
         HoldsGroup(layout, c, files, starts), NEW ids \in Seq(Int), Len(ids) = Len(files)
  PROVE  \E data, at :
           /\ layout = "row" => decodeArchiveBlob(c.payload, ids) = FilesAt(data, at)
           /\ layout = "network" => unpackNetworkArchive(c.payload, ids) = FilesAt(data, at)
           /\ AreAt(data, at, files)
<1>0. files \in Seq(Seq(Byte))
  BY DEF AreJoined
<1>1. CASE layout = "row"
  <2>1. CASE IsSingle(c.payload, files)
    <3>1. decodeArchiveBlob(c.payload, ids) = FilesAt(c.payload, <<0>>) /\ AreAt(c.payload, <<0>>, files)
      BY <1>0, <2>1, SingleInRow
    <3> QED
      BY <1>1, <3>1
  <2>2. CASE IsRow(c.payload, files, starts)
    <3>1. \E at : decodeArchiveBlob(c.payload, ids) = FilesAt(c.payload, at) /\ AreAt(c.payload, at, files)
      BY <2>2, FilesInRow
    <3> QED
      BY <1>1, <3>1
  <2> QED
    BY <1>1, <2>1, <2>2 DEF HoldsGroup
<1>2. CASE layout = "network"
  <2>1. CASE IsSingle(c.payload, files)
    <3>1. \E at : unpackNetworkArchive(c.payload, ids) = FilesAt(c.payload, at) /\ AreAt(c.payload, at, files)
      BY <1>0, <2>1, SingleInAnswer
    <3> QED
      BY <1>2, <3>1
  <2>2. CASE IsChunked(c.payload, c.cuts, c.ends, files)
    <3>1. \E at : unpackNetworkArchive(c.payload, ids) = FilesAt(joined, at) /\ AreAt(joined, at, files)
      BY <2>2, FilesInAnswer
    <3> QED
      BY <1>2, <3>1
  <2> QED
    BY <1>2, <2>1, <2>2 DEF HoldsGroup
<1> QED
  BY <1>1, <1>2

\* A whole blob is unpacked, any other is refused.
LEMMA BlobUnpacks ==
  ASSUME NEW files, NEW starts, NEW joined, AreJoined(files, starts, joined),
         NEW blob, IsBlob(blob, files, starts), blob.kind # "other",
         NEW ids \in Seq(Int), Len(ids) = Len(files)
  PROVE  /\ blob.kind = "whole" =>
              \E data, at : UnpackedFor(blob, ids) = FilesAt(data, at) /\ AreAt(data, at, files)
         /\ blob.kind # "whole" => UnpackedFor(blob, ids) = Refused
<1> DEFINE c == blob.of
           bytes == blob.bytes
<1>1. blob.layout \in {"row", "network"} /\ bytes \in Seq(Byte) /\ IsContainer(c)
      /\ (c.type = 90 => blob.layout = "row")
  BY DEF IsBlob
<1>2. c.payload \in Seq(Byte) /\ c.size \in Int
  BY <1>1, ContainerType
<1>3. \/ blob.kind = "whole" /\ BeginsWith(bytes, c) /\ SaysItsSize(c)
         /\ HoldsGroup(blob.layout, c, files, starts)
      \/ blob.kind = "cut" /\ \E cut \in 0 .. Len(c.bytes) - 1 : bytes = SubSeq(c.bytes, 1, cut)
      \/ blob.kind = "lies" /\ BeginsWith(bytes, c) /\ ~SaysItsSize(c)
         /\ (c.type = 3 => c.size > Len(c.payload))
      \/ blob.kind = "unknown type" /\ bytes[1] \notin {0, 1, 2, 3, 90}
      \/ blob.kind = "no row" /\ BeginsWith(bytes, c) /\ SaysItsSize(c) /\ blob.layout = "row" /\ Len(files) > 1
         /\ (c.payload = <<>> \/ c.payload[1] # 1)
  BY DEF IsBlob
<1> HIDE DEF c, bytes
<1>4. PayloadOf(blob) = IF blob.layout = "row" THEN decompressRow(bytes) ELSE decompress(bytes)
  BY DEF PayloadOf, bytes
<1>5. ASSUME BeginsWith(bytes, c), SaysItsSize(c) PROVE PayloadOf(blob) = Result(c.payload)
  <2>1. decompressRow(bytes) = Result(c.payload)
    BY <1>1, <1>5, RowOpens
  <2>2. c.type # 90 => decompress(bytes) = Result(c.payload)
    BY <1>1, <1>5, ContainerOpens
  <2> QED
    BY <1>1, <1>4, <2>1, <2>2
<1>6. ASSUME PayloadOf(blob) = Refused PROVE UnpackedFor(blob, ids) = Refused
  BY <1>6, Kinds DEF UnpackedFor
<1>7. ASSUME PayloadOf(blob) = Result(c.payload)
      PROVE  UnpackedFor(blob, ids) = FilesFor(blob, c.payload, ids)
  BY <1>7, Kinds DEF UnpackedFor
<1>8. CASE blob.kind = "whole"
  <2>1. BeginsWith(bytes, c) /\ SaysItsSize(c) /\ HoldsGroup(blob.layout, c, files, starts)
    BY <1>3, <1>8
  <2>2. UnpackedFor(blob, ids) = FilesFor(blob, c.payload, ids)
    BY <1>5, <1>7, <2>1
  <2>3. PICK data, at :
           /\ blob.layout = "row" => decodeArchiveBlob(c.payload, ids) = FilesAt(data, at)
           /\ blob.layout = "network" => unpackNetworkArchive(c.payload, ids) = FilesAt(data, at)
           /\ AreAt(data, at, files)
    BY <1>1, <1>2, <2>1, GroupIsCut
  <2>4. FilesFor(blob, c.payload, ids) = FilesAt(data, at)
    BY <1>1, <2>3 DEF FilesFor
  <2> QED
    BY <1>8, <2>2, <2>3, <2>4
<1>9. CASE blob.kind = "cut"
  <2>1. PICK cut \in 0 .. Len(c.bytes) - 1 : bytes = SubSeq(c.bytes, 1, cut)
    BY <1>3, <1>9
  <2>2. (c.type # 90 => decompress(bytes) = Refused) /\ decompressRow(bytes) = Refused
    BY <1>1, <2>1, CutIsRefused, ZenonT(40)
  <2> QED
    BY <1>1, <1>4, <1>6, <1>9, <2>2
<1>10. CASE blob.kind = "lies"
  <2>1. BeginsWith(bytes, c) /\ ~SaysItsSize(c) /\ (c.type = 3 => c.size > Len(c.payload))
    BY <1>3, <1>10
  <2>2. decompressRow(bytes) = Refused
    BY <1>1, <2>1, RowOpens
  <2>3. c.type # 90 => decompress(bytes) = Refused
    BY <1>1, <2>1, ContainerOpens
  <2> QED
    BY <1>1, <1>4, <1>6, <1>10, <2>2, <2>3
<1>11. CASE blob.kind = "unknown type"
  <2>1. decompress(bytes) = Refused /\ decompressRow(bytes) = Refused
    BY <1>1, <1>3, <1>11, UnknownIsRefused
  <2> QED
    BY <1>4, <1>6, <1>11, <2>1
<1>12. CASE blob.kind = "no row"
  <2>1. BeginsWith(bytes, c) /\ SaysItsSize(c) /\ blob.layout = "row" /\ Len(files) > 1
        /\ (c.payload = <<>> \/ c.payload[1] # 1)
    BY <1>3, <1>12
  <2>2. UnpackedFor(blob, ids) = decodeArchiveBlob(c.payload, ids)
    BY <1>5, <1>7, <2>1 DEF FilesFor
  <2>3. Len(ids) # 1
    BY <2>1
  <2>4. decodeArchiveBlob(c.payload, ids) = Refused
    BY <1>2, <2>1, <2>3, NoRowIsRefused
  <2> QED
    BY <1>12, <2>2, <2>4
<1> QED
  BY <1>3, <1>8, <1>9, <1>10, <1>11, <1>12

-----------------------------------------------------------------------------
(* The invariant.                                                              *)

FilesOf(i) == PackedGroups[i.group].files
DeclaredArchive(i) == decodeReferenceTable(i.table).of.archives[i.asked]
DeclaredIds(i) == DeclaredArchive(i).fileIds

IsArchive(a) == DOMAIN a = {"fileIds", "subIds", "files", "data", "state"}

\* The archive has the ids of the table, and a header for each of them.
HasIds(a, ids) == a.fileIds = ids /\ a.subIds = ids /\ Range(ids) \subseteq DOMAIN a.files

GroupsInv ==
  /\ input \in Indices /\ IsArchive(archive)
  /\ backend = "none" => archive.state = "absent" /\ accepted = {}
  /\ archive.state \in {"declared", "loaded"} /\ Blobs[input.group] # {} => HasIds(archive, DeclaredIds(input))
  /\ archive.state \in {"absent", "declared"} => accepted = {}
  /\ accepted \subseteq Blobs[input.group]
  /\ \A blob \in accepted : blob.kind # "other" =>
       archive.state = "loaded" /\ AreAt(archive.data, Places(archive, archive.fileIds), FilesOf(input))

\* What the assumption says of an index that has blobs.
LEMMA GroupFacts ==
  ASSUME NEW i \in Indices, Blobs[i.group] # {}
  PROVE  /\ decodeReferenceTable(i.table).how = "result"
         /\ i.asked \in DOMAIN decodeReferenceTable(i.table).of.archives
         /\ DeclaredArchive(i).subIds = DeclaredIds(i)
         /\ DeclaredIds(i) \in Seq(Int) /\ Increasing(DeclaredIds(i))
         /\ Len(DeclaredIds(i)) = Len(FilesOf(i)) /\ FilesOf(i) \in Seq(Seq(Byte))
         /\ AreJoined(FilesOf(i), PackedGroups[i.group].starts, PackedGroups[i.group].joined)
         /\ \A blob \in Blobs[i.group] : IsBlob(blob, FilesOf(i), PackedGroups[i.group].starts)
<1>1. i.group \in DOMAIN Blobs /\ DeclaresFiles(i)
  BY GroupsAssumption
<1>2. AreJoined(FilesOf(i), PackedGroups[i.group].starts, PackedGroups[i.group].joined)
      /\ \A blob \in Blobs[i.group] : IsBlob(blob, FilesOf(i), PackedGroups[i.group].starts)
  BY <1>1, GroupsAssumption DEF FilesOf
<1>3. FilesOf(i) \in Seq(Seq(Byte))
  BY <1>2 DEF AreJoined
<1>4. /\ decodeReferenceTable(i.table).how = "result"
      /\ i.asked \in DOMAIN decodeReferenceTable(i.table).of.archives
      /\ DeclaredIds(i) \in Seq(Int) /\ Len(DeclaredIds(i)) = Len(FilesOf(i))
      /\ DeclaredArchive(i).subIds = DeclaredIds(i)
      /\ \A f, g \in 1 .. Len(FilesOf(i)) : f < g => DeclaredIds(i)[f] < DeclaredIds(i)[g]
  BY <1>1 DEF DeclaresFiles, DeclaredIds, DeclaredArchive, FilesOf
<1>5. Increasing(DeclaredIds(i))
  BY <1>4 DEF Increasing
<1> QED
  BY <1>2, <1>3, <1>4, <1>5

\* It is the places that count, not which function they are from.
LEMMA SamePlaces ==
  ASSUME NEW data, NEW at, NEW files, AreAt(data, at, files), NEW other, DOMAIN other = 1 .. Len(files),
         \A f \in 1 .. Len(files) : other[f] = at[f], files \in Seq(Seq(Byte))
  PROVE  AreAt(data, other, files)
<1> DEFINE n == Len(files)
<1>1. n \in Nat
  OBVIOUS
<1>2. ASSUME NEW f \in 1 .. n
      PROVE  /\ other[f] \in Nat /\ other[f] + Len(files[f]) <= Len(data)
             /\ SubSeq(data, other[f] + 1, other[f] + Len(files[f])) = files[f]
             /\ other[f] + Len(files[f]) = IF f = n THEN Len(data) ELSE other[f + 1]
  <2>1. /\ at[f] \in Nat /\ at[f] + Len(files[f]) <= Len(data)
        /\ SubSeq(data, at[f] + 1, at[f] + Len(files[f])) = files[f]
        /\ at[f] + Len(files[f]) = IF f = n THEN Len(data) ELSE at[f + 1]
    BY DEF AreAt
  <2>2. other[f] = at[f]
    OBVIOUS
  <2>3. f # n => other[f + 1] = at[f + 1]
    <3>1. f # n => f + 1 \in 1 .. n
      BY <1>1
    <3> QED
      BY <3>1
  <2> QED
    BY <2>1, <2>2, <2>3
<1> QED
  BY <1>2 DEF AreAt

\* A blob that was not made up is accepted only where the files it gives are the group's.
LEMMA AcceptedGives ==
  ASSUME NEW i \in Indices, NEW blob \in Blobs[i.group], blob.kind # "other",
         HasIds(archive, DeclaredIds(i))
  PROVE  /\ blob.kind = "whole" => Unpacked(blob).how = "result"
         /\ Unpacked(blob).how # "refused" =>
              \E data, at : Unpacked(blob) = FilesAt(data, at) /\ AreAt(data, at, FilesOf(i))
<1> DEFINE ids == DeclaredIds(i)
           files == FilesOf(i)
<1>1. Blobs[i.group] # {}
  OBVIOUS
<1>2. ids \in Seq(Int) /\ Len(ids) = Len(files)
      /\ AreJoined(files, PackedGroups[i.group].starts, PackedGroups[i.group].joined)
      /\ IsBlob(blob, files, PackedGroups[i.group].starts)
  BY <1>1, GroupFacts
<1> HIDE DEF ids, files
<1>3. archive.fileIds = ids /\ archive.subIds = ids
  BY DEF HasIds, ids
<1>4. Unpacked(blob) = UnpackedFor(blob, ids)
  BY <1>3, UnpackedIs
<1>5. /\ blob.kind = "whole" =>
              \E data, at : UnpackedFor(blob, ids) = FilesAt(data, at) /\ AreAt(data, at, files)
      /\ blob.kind # "whole" => UnpackedFor(blob, ids) = Refused
  BY <1>2, BlobUnpacks
<1>6. \A data, at : FilesAt(data, at).how = "result"
  BY Kinds DEF FilesAt
<1>7. blob.kind = "whole" => Unpacked(blob).how = "result"
  BY <1>4, <1>5, <1>6
<1>8. blob.kind # "whole" => Unpacked(blob).how = "refused"
  BY <1>4, <1>5, Kinds
<1>9. Unpacked(blob).how # "refused" =>
        \E data, at : Unpacked(blob) = FilesAt(data, at) /\ AreAt(data, at, files)
  BY <1>4, <1>5, <1>8
<1> QED
  BY <1>7, <1>9 DEF files

\* Setting the state leaves an archive one.
LEMMA StateField ==
  ASSUME NEW a, IsArchive(a), NEW s, NEW b, b = [a EXCEPT !.state = s]
  PROVE  IsArchive(b) /\ b.state = s
  BY DEF IsArchive

\* What Accepts makes of the headers.
StartIn(ids, at, f) ==
  LET places == {i \in DOMAIN ids : ids[i] = f}
  IN  at[CHOOSE i \in places : \A j \in places : j <= i]
PlacedFiles(old, ids, at) ==
  [f \in DOMAIN old |-> IF f \in Range(ids) THEN Header(f, StartIn(ids, at, f)) ELSE old[f]]

\* The header of each id gets its place.
LEMMA PlacedAre ==
  ASSUME NEW ids \in Seq(Int), Increasing(ids), NEW old, Range(ids) \subseteq DOMAIN old, NEW at, NEW k \in 1 .. Len(ids)
  PROVE  PlacedFiles(old, ids, at)[ids[k]].fileOffset = at[k]
<1> DEFINE places == {i \in DOMAIN ids : ids[i] = ids[k]}
<1>1. places = {k}
  <2>1. \A j \in 1 .. Len(ids) : ids[j] = ids[k] => j = k
    BY IdsDiffer
  <2> QED
    BY <2>1
<1>2. StartIn(ids, at, ids[k]) = at[CHOOSE i \in places : \A j \in places : j <= i]
  BY DEF StartIn
<1> HIDE DEF places
<1>3. (CHOOSE i \in places : \A j \in places : j <= i) = k
  <2>1. k <= k
    OBVIOUS
  <2> QED
    BY <1>1, <2>1
<1>4. StartIn(ids, at, ids[k]) = at[k]
  BY <1>2, <1>3
<1>5. ids[k] \in Range(ids) /\ ids[k] \in DOMAIN old
  BY InRange
<1>6. PlacedFiles(old, ids, at)[ids[k]] = Header(ids[k], at[k])
  BY <1>4, <1>5 DEF PlacedFiles
<1> QED
  BY <1>6 DEF Header

\* Accepts, with those headers.
LEMMA AcceptIs ==
  ASSUME NEW blob, NEW ids, Accepts(blob, ids)
  PROVE  /\ archive.state = "declared" /\ Unpacked(blob).how # "refused"
         /\ accepted' = {blob} /\ UNCHANGED <<input, backend, index>>
         /\ archive' = IF Unpacked(blob).how = "undefined" THEN [archive EXCEPT !.state = "undefined"]
                       ELSE [archive EXCEPT !.state = "loaded", !.data = Unpacked(blob).of.data,
                                            !.files = PlacedFiles(archive.files, ids, Unpacked(blob).of.starts)]
  BY DEF Accepts, PlacedFiles, StartIn

\* Accepting a blob.
LEMMA AcceptKeeps ==
  ASSUME GroupsInv, NEW blob \in Blobs[input.group], NEW ids, ids = archive.fileIds \/ ids = archive.subIds,
         Accepts(blob, ids), backend # "none"
  PROVE  GroupsInv'
<1> DEFINE u == Unpacked(blob)
           fs == PlacedFiles(archive.files, ids, u.of.starts)
<1>1. /\ archive.state = "declared" /\ u.how # "refused"
      /\ accepted' = {blob} /\ UNCHANGED <<input, backend, index>>
      /\ archive' = IF u.how = "undefined" THEN [archive EXCEPT !.state = "undefined"]
                    ELSE [archive EXCEPT !.state = "loaded", !.data = u.of.data, !.files = fs]
  BY AcceptIs
<1>2. input \in Indices /\ IsArchive(archive) /\ HasIds(archive, DeclaredIds(input)) /\ Blobs[input.group] # {}
  BY <1>1 DEF GroupsInv
<1>3. ids = DeclaredIds(input) /\ archive.fileIds = ids /\ archive.subIds = ids
      /\ Range(ids) \subseteq DOMAIN archive.files
  BY <1>2 DEF HasIds
<1>4. ids \in Seq(Int) /\ Increasing(ids) /\ Len(ids) = Len(FilesOf(input)) /\ FilesOf(input) \in Seq(Seq(Byte))
  BY <1>2, <1>3, GroupFacts
<1> HIDE DEF u, fs
<1>5. blob.kind # "other" => \E data, at : u = FilesAt(data, at) /\ AreAt(data, at, FilesOf(input))
  BY <1>1, <1>2, AcceptedGives DEF u
<1>6. CASE u.how = "undefined"
  <2>1. IsArchive(archive') /\ archive'.state = "undefined"
    <3>1. archive' = [archive EXCEPT !.state = "undefined"]
      BY <1>1, <1>6
    <3> QED
      BY <1>2, <3>1, StateField
  <2>2. blob.kind = "other"
    <3>1. \A data, at : FilesAt(data, at).how = "result"
      BY Kinds DEF FilesAt
    <3> QED
      BY <1>5, <1>6, <3>1
  <2> QED
    BY <1>1, <1>2, <2>1, <2>2 DEF GroupsInv
<1>7. CASE u.how # "undefined"
  <2>1. /\ IsArchive(archive') /\ archive'.state = "loaded" /\ archive'.data = u.of.data /\ archive'.files = fs
        /\ archive'.fileIds = ids /\ archive'.subIds = ids
    <3>1. archive' = [archive EXCEPT !.state = "loaded", !.data = u.of.data, !.files = fs]
      BY <1>1, <1>7
    <3>2. /\ IsArchive(archive') /\ archive'.state = "loaded" /\ archive'.data = u.of.data /\ archive'.files = fs
          /\ archive'.fileIds = archive.fileIds /\ archive'.subIds = archive.subIds
      <4>1. IsArchive(archive)
        BY <1>2
      <4> DEFINE a == archive
                 b == archive'
                 d == u.of.data
      <4>2. b = [a EXCEPT !.state = "loaded", !.data = d, !.files = fs] /\ IsArchive(a)
        BY <3>1, <4>1
      <4> HIDE DEF a, b, d
      <4>3. IsArchive(b) /\ b.state = "loaded" /\ b.data = d /\ b.files = fs
            /\ b.fileIds = a.fileIds /\ b.subIds = a.subIds
        BY <4>2 DEF IsArchive
      <4> QED
        BY <4>3 DEF a, b, d
    <3> QED
      BY <1>3, <3>2
  <2>2. DOMAIN fs = DOMAIN archive.files
    BY DEF fs, PlacedFiles
  <2>3. HasIds(archive', ids)
    BY <1>3, <2>1, <2>2 DEF HasIds
  <2>4. ASSUME blob.kind # "other" PROVE AreAt(archive'.data, Places(archive', ids), FilesOf(input))
    <3>1. PICK data, at : u = FilesAt(data, at) /\ AreAt(data, at, FilesOf(input))
      BY <1>5, <2>4
    <3>2. u.of.data = data /\ u.of.starts = at
      BY <3>1 DEF FilesAt, Result
    <3>3. \A k \in 1 .. Len(ids) : fs[ids[k]].fileOffset = at[k]
      <4>1. fs = PlacedFiles(archive.files, ids, at)
        BY <3>2 DEF fs
      <4> TAKE k \in 1 .. Len(ids)
      <4> DEFINE old == archive.files
      <4>2. ids \in Seq(Int) /\ Increasing(ids) /\ Range(ids) \subseteq DOMAIN old
        BY <1>3, <1>4
      <4> HIDE DEF old
      <4>3. PlacedFiles(old, ids, at)[ids[k]].fileOffset = at[k]
        BY <4>2, PlacedAre
      <4> QED
        BY <4>1, <4>3 DEF old
    <3>4. DOMAIN Places(archive', ids) = 1 .. Len(FilesOf(input))
          /\ \A k \in 1 .. Len(FilesOf(input)) : Places(archive', ids)[k] = at[k]
      BY <1>4, <2>1, <3>3 DEF Places
    <3>5. AreAt(data, Places(archive', ids), FilesOf(input))
      BY <1>4, <3>1, <3>4, SamePlaces
    <3> QED
      BY <2>1, <3>2, <3>5
  <2>5. DeclaredIds(input') = ids /\ FilesOf(input') = FilesOf(input) /\ Blobs[input'.group] = Blobs[input.group]
        /\ input' \in Indices /\ backend' # "none"
    BY <1>1, <1>2, <1>3
  <2> QED
    BY <1>1, <2>1, <2>3, <2>4, <2>5 DEF GroupsInv
<1> QED
  BY <1>6, <1>7

\* Opening an index declares the ids of its table, or nothing.
LEMMA OpenKeeps ==
  ASSUME GroupsInv, NEW by \in {"local", "live"}, NEW decoded, Opens(by, decoded),
         decoded = decodeReferenceTable(input.table) \/ decoded.how # "result"
  PROVE  GroupsInv'
<1>1. /\ backend = "none" /\ backend' = by /\ input' = input /\ accepted' = accepted
      /\ archive' = IF decoded.how = "result" THEN Declared(decoded.of, input.asked) ELSE NoArchive
  BY DEF Opens
<1>2. input \in Indices /\ accepted = {}
  BY <1>1 DEF GroupsInv
<1>3. IsArchive(archive') /\ archive'.state \in {"absent", "declared"}
  BY <1>1 DEF IsArchive, Declared, NoArchive
<1>4. ASSUME archive'.state = "declared", Blobs[input.group] # {}
      PROVE  HasIds(archive', DeclaredIds(input))
  <2> DEFINE a == DeclaredArchive(input)
             fs == [f \in Range(a.fileIds) |-> Header(f, 0)]
  <2>1. decoded.how = "result"
    BY <1>1, <1>4 DEF NoArchive
  <2>2. decoded = decodeReferenceTable(input.table)
    BY <2>1
  <2>3. input.asked \in DOMAIN decoded.of.archives /\ a.subIds = DeclaredIds(input)
    BY <1>2, <1>4, <2>2, GroupFacts
  <2>4. archive' = [fileIds |-> a.fileIds, subIds |-> a.subIds, files |-> fs, data |-> <<>>, state |-> "declared"]
    BY <1>1, <2>1, <2>2, <2>3 DEF Declared, DeclaredArchive
  <2>5. DOMAIN fs = Range(a.fileIds)
    OBVIOUS
  <2> HIDE DEF a, fs
  <2>6. archive'.fileIds = a.fileIds /\ archive'.subIds = a.subIds /\ archive'.files = fs
    BY <2>4
  <2>7. DeclaredIds(input) = a.fileIds
    BY DEF DeclaredIds, a
  <2> QED
    BY <2>3, <2>5, <2>6, <2>7 DEF HasIds
<1>5. backend' # "none"
  BY <1>1
<1> QED
  BY <1>1, <1>2, <1>3, <1>4, <1>5 DEF GroupsInv

\* A header for a file that is not there leaves the others.
LEMMA ReadKeeps ==
  ASSUME GroupsInv, NEW f, ReadFile(f)
  PROVE  GroupsInv'
<1> DEFINE fs == [id \in DOMAIN archive.files \union {f} |->
                    IF id = f THEN Header(-1, 0) ELSE archive.files[id]]
<1>1. /\ archive.state \in {"declared", "loaded"} /\ f \notin DOMAIN archive.files
      /\ archive' = [archive EXCEPT !.files = fs]
      /\ input' = input /\ backend' = backend /\ accepted' = accepted
  BY DEF ReadFile
<1>2. DOMAIN fs = DOMAIN archive.files \union {f} /\ \A id \in DOMAIN archive.files : fs[id] = archive.files[id]
  BY <1>1
<1> HIDE DEF fs
<1>3. IsArchive(archive)
  BY DEF GroupsInv
<1>4. IsArchive(archive') /\ archive'.state = archive.state /\ archive'.data = archive.data /\ archive'.files = fs
      /\ archive'.fileIds = archive.fileIds /\ archive'.subIds = archive.subIds
  BY <1>1, <1>3 DEF IsArchive
<1>5. \A ids : HasIds(archive, ids) => HasIds(archive', ids)
  BY <1>2, <1>4 DEF HasIds
<1>6. ASSUME NEW blob \in accepted, blob.kind # "other"
      PROVE  AreAt(archive'.data, Places(archive', archive'.fileIds), FilesOf(input))
  <2>1. AreAt(archive.data, Places(archive, archive.fileIds), FilesOf(input)) /\ input \in Indices
        /\ archive.state = "loaded" /\ blob \in Blobs[input.group]
    BY <1>6 DEF GroupsInv
  <2>2. HasIds(archive, DeclaredIds(input))
    BY <2>1 DEF GroupsInv
  <2> DEFINE ids == archive.fileIds
  <2>3. ids \in Seq(Int) /\ Range(ids) \subseteq DOMAIN archive.files
    BY <2>1, <2>2, GroupFacts DEF HasIds
  <2> HIDE DEF ids
  <2>4. \A k \in 1 .. Len(ids) : ids[k] \in DOMAIN archive.files
    BY <2>3, InRange
  <2>5. \A k \in 1 .. Len(ids) : archive'.files[ids[k]] = archive.files[ids[k]]
    BY <1>2, <1>4, <2>4
  <2>6. Places(archive', ids) = Places(archive, ids)
    BY <2>5 DEF Places
  <2> QED
    BY <1>4, <2>1, <2>6 DEF ids
<1> QED
  BY <1>1, <1>4, <1>5, <1>6 DEF GroupsInv

\* The local decoder gives the table of the live one, or nothing.
LEMMA RefusedIs ==
  ASSUME NEW table
  PROVE  \/ decodeReferenceBlob(table) = decodeReferenceTable(table)
         \/ decodeReferenceBlob(table).how # "result"
  BY DEF decodeReferenceBlob, Undefined

\* Whatever is opened, read or refused, the archive has the ids of the table, and the data of
\* a blob of the group has its files at their places.
THEOREM GroupsInvariant == IndexSpec => []GroupsInv
<1>1. IndexInit => GroupsInv
  BY DEF IndexInit, GroupsInv, NoArchive, IsArchive
<1>2. GroupsInv /\ [IndexNext]_indexVars => GroupsInv'
  <2> SUFFICES ASSUME GroupsInv, [IndexNext]_indexVars PROVE GroupsInv'
    OBVIOUS
  <2>1. CASE OpenLocal
    <3>1. Opens("local", decodeReferenceBlob(input.table))
      BY <2>1 DEF OpenLocal
    <3> QED
      BY <3>1, RefusedIs, OpenKeeps
  <2>2. CASE OpenLive
    <3>1. Opens("live", decodeReferenceTable(input.table))
      BY <2>2 DEF OpenLive
    <3> QED
      BY <3>1, OpenKeeps
  <2>3. ASSUME NEW blob \in Blobs[input.group], ReadRow(blob) PROVE GroupsInv'
    <3>1. backend # "none" /\ Accepts(blob, archive.fileIds)
      BY <2>3 DEF ReadRow
    <3> QED
      BY <3>1, AcceptKeeps
  <2>4. ASSUME NEW blob \in Blobs[input.group], Fetch(blob) PROVE GroupsInv'
    <3>1. backend # "none" /\ (Accepts(blob, archive.subIds) \/ Accepts(blob, archive.fileIds))
      BY <2>4 DEF Fetch
    <3> QED
      BY <3>1, AcceptKeeps
  <2>5. ASSUME NEW blob, IsRefused(blob) PROVE GroupsInv'
    BY <2>5 DEF IsRefused, indexVars, GroupsInv
  <2>6. ASSUME NEW f \in Asked, ReadFile(f) PROVE GroupsInv'
    BY <2>6, ReadKeeps
  <2>7. CASE UNCHANGED indexVars
    BY <2>7 DEF indexVars, GroupsInv
  <2> QED
    BY <2>1, <2>2, <2>3, <2>4, <2>5, <2>6, <2>7 DEF IndexNext
<1> QED
  BY <1>1, <1>2, PTL DEF IndexSpec

\* Every group that is declared is read back, whatever its files, its containers, its
\* chunks and the blobs that were refused before.
THEOREM FilesReadBackAlways == IndexSpec => []FilesReadBack
<1>1. GroupsInv => FilesReadBack
  <2> SUFFICES ASSUME GroupsInv PROVE FilesReadBack
    OBVIOUS
  <2> DEFINE ids == archive.fileIds
  <2>0. input \in Indices
    BY DEF GroupsInv
  <2>1. ASSUME archive.state = "declared", NEW blob \in Blobs[input.group], blob.kind = "whole"
        PROVE  Unpacked(blob).how = "result"
    <3>1. HasIds(archive, DeclaredIds(input))
      BY <2>1 DEF GroupsInv
    <3> QED
      BY <2>0, <2>1, <3>1, AcceptedGives
  <2>2. ASSUME NEW blob \in accepted, blob.kind # "other"
        PROVE  /\ archive.state = "loaded"
               /\ \A i \in DOMAIN ids : fileBytes(archive, ids[i]) = PackedGroups[input.group].files[i]
               /\ \A f \in Asked \ Range(ids) : fileBytes(archive, f) = <<>>
    <3>1. archive.state = "loaded" /\ blob \in Blobs[input.group]
          /\ AreAt(archive.data, Places(archive, ids), FilesOf(input))
      BY <2>2 DEF GroupsInv
    <3>2. HasIds(archive, DeclaredIds(input))
      BY <3>1 DEF GroupsInv
    <3>3. ids \in Seq(Int) /\ Increasing(ids) /\ Len(FilesOf(input)) = Len(ids)
          /\ FilesOf(input) \in Seq(Seq(Byte)) /\ Range(ids) \subseteq DOMAIN archive.files
      BY <2>0, <3>1, <3>2, GroupFacts DEF HasIds
    <3>4. \A i \in 1 .. Len(ids) : fileBytes(archive, ids[i]) = FilesOf(input)[i]
      BY <3>1, <3>3, FileIsRead
    <3>5. \A f \in Asked \ Range(ids) : fileBytes(archive, f) = <<>>
      BY NoOther
    <3>6. DOMAIN ids = 1 .. Len(ids)
      BY <3>3
    <3> QED
      BY <3>1, <3>4, <3>5, <3>6 DEF FilesOf
  <2> QED
    BY <2>1, <2>2 DEF FilesReadBack
<1> QED
  BY <1>1, GroupsInvariant, PTL

-----------------------------------------------------------------------------
(* Reference tables.  Each part is where `ends` says, so that decoding reads each    *)
(* number where it begins and leaves where it ends; of a table that is cut off it    *)
(* reads 0 from the cut on, and stays there.                                         *)

\* A position of a table that is cut off, and a value that ends there.
Upto(cut, p) == IF p <= cut THEN p ELSE cut
Until(cut, p, v) == IF p <= cut THEN v ELSE 0
IsCut(w, cut, b) == cut \in 0 .. Len(w.bytes) /\ b = SubSeq(w.bytes, 1, cut)

\* The bytes of a beginning of a table.
LEMMA CutBytes ==
  ASSUME NEW w, w.bytes \in Seq(Byte), NEW cut, NEW b, IsCut(w, cut, b)
  PROVE  b \in Seq(Byte) /\ cut \in Nat /\ Len(b) = cut /\ \A i \in 1 .. cut : b[i] = w.bytes[i]
<1> DEFINE B == w.bytes
<1>1. B \in Seq(Byte) /\ cut \in 0 .. Len(B) /\ b = SubSeq(B, 1, cut)
  BY DEF IsCut
<1> HIDE DEF B
<1>2. b \in Seq(Byte) /\ cut \in Nat /\ Len(b) = cut /\ \A i \in 1 .. cut : b[i] = B[i]
  BY <1>1
<1> QED
  BY <1>2 DEF B

\* Four bytes of a table that is cut off give their value, or 0 and the end.
LEMMA IntOfCut ==
  ASSUME NEW w, w.bytes \in Seq(Byte), NEW cut, NEW b, IsCut(w, cut, b),
         NEW p \in Nat, p + 4 <= Len(w.bytes)
  PROVE  Ints(b)[Upto(cut, p)] =
           Answer(<<Until(cut, p + 4, IntAt(w.bytes, p))>>, Upto(cut, p + 4))
<1>1. b \in Seq(Byte) /\ cut \in Nat /\ Len(b) = cut /\ \A i \in 1 .. cut : b[i] = w.bytes[i]
  BY CutBytes
<1>2. Upto(cut, p) \in Nat
  BY <1>1 DEF Upto
<1>3. Ints(b)[Upto(cut, p)] = readInt(b, Upto(cut, p))
  BY <1>2 DEF Ints
<1>4. CASE p + 4 <= cut
  <2>1. Upto(cut, p) = p /\ Upto(cut, p + 4) = p + 4 /\ canRead(b, p, 4)
    BY <1>1, <1>4 DEF Upto, canRead
  <2>2. IntAt(b, p) = IntAt(w.bytes, p)
    BY <1>1, <1>4 DEF IntAt
  <2>3. readInt(b, p) = Answer(<<IntAt(w.bytes, p)>>, p + 4)
    BY <2>1, <2>2 DEF readInt
  <2> QED
    BY <1>3, <1>4, <2>1, <2>3 DEF Until
<1>5. CASE ~(p + 4 <= cut)
  <2>1. Upto(cut, p + 4) = cut /\ ~canRead(b, Upto(cut, p), 4)
    BY <1>1, <1>5 DEF Upto, canRead
  <2> QED
    BY <1>1, <1>3, <1>5, <2>1 DEF readInt, Exhausted, Until
<1> QED
  BY <1>4, <1>5

\* Which bytes are negative.
LEMMA SignOf ==
  \A k \in Byte : (k < 128 => Signed(k) >= 0) /\ (k >= 128 => ~(Signed(k) >= 0)) /\ Signed(k) \in -128 .. 127
BY SMT DEF Signed, Byte

\* A number ends behind its beginning, inside the table.
LEMMA NumberType ==
  ASSUME NEW w, w.bytes \in Seq(Byte), NEW from \in Nat, NEW to, NEW v, IsNumber(w, from, to, v)
  PROVE  to \in Nat /\ from < to /\ to <= Len(w.bytes) /\ v \in Nat
<1> DEFINE B == w.bytes
           k == B[from + 1]
           l == B[from + 2]
           m == B[from + 3]
           o == B[from + 4]
<1>1. B \in Seq(Byte) /\ to <= Len(B)
  BY DEF IsNumber
<1>2. \/ to = from + 2 /\ v = 256 * k + l
      \/ to = from + 4 /\ v = WithoutSign(IntAt(B, from))
  BY DEF IsNumber
<1>3. IntAt(B, from) = 16777216 * Signed(k) + 65536 * l + 256 * m + o
  BY SMT DEF IntAt
<1>4. \A i \in Nat : i + 1 <= Len(B) => B[i + 1] \in Byte
  BY <1>1
<1> HIDE DEF B
<1>5. to = from + 2 => k \in Byte /\ l \in Byte
  BY <1>1, <1>4
<1>6. to = from + 4 => k \in Byte /\ l \in Byte /\ m \in Byte /\ o \in Byte
  BY <1>1, <1>4
<1> HIDE DEF k, l, m, o
<1>7. ASSUME to = from + 4 PROVE WithoutSign(IntAt(B, from)) \in Nat
  <2>1. Signed(k) \in -128 .. 127 /\ l \in 0 .. 255 /\ m \in 0 .. 255 /\ o \in 0 .. 255
    BY <1>6, <1>7, SignOf DEF Byte
  <2>2. IntAt(B, from) \in Int /\ IntAt(B, from) + 2147483647 + 1 >= 0
    <3> DEFINE h == Signed(k)
               x == 16777216 * h + 65536 * l + 256 * m + o
    <3>1. h \in -128 .. 127
      BY <2>1
    <3> HIDE DEF h
    <3>2. x \in Int /\ x + 2147483647 + 1 >= 0
      BY <2>1, <3>1, SMT
    <3>3. IntAt(B, from) = x
      BY <1>3, SMT DEF h
    <3> HIDE DEF x
    <3> QED
      BY <3>2, <3>3
  <2> QED
    BY <2>2, SMT DEF WithoutSign
<1>8. ASSUME to = from + 2 PROVE 256 * k + l \in Nat
  <2>1. k \in 0 .. 255 /\ l \in 0 .. 255
    BY <1>5, <1>8 DEF Byte
  <2> QED
    BY <2>1, SMT
<1>9. to \in Nat /\ from < to
  BY <1>2
<1>10. v \in Nat
  BY <1>2, <1>7, <1>8
<1> QED
  BY <1>1, <1>9, <1>10 DEF B

\* A number of a table that is cut off, short or long, gives its value, or 0 and the end.
LEMMA NumberOfCut ==
  ASSUME NEW w, w.bytes \in Seq(Byte), w.format \in 5 .. 7, NEW cut, NEW b, IsCut(w, cut, b),
         NEW from \in Nat, NEW to, NEW v, IsNumber(w, from, to, v)
  PROVE  Numbers(b, w.format)[Upto(cut, from)] = Answer(<<Until(cut, to, v)>>, Upto(cut, to))
<1> DEFINE q == Upto(cut, from)
           B == w.bytes
           format == w.format
           is == Answer(<<Until(cut, to, v)>>, Upto(cut, to))
           Two == to = from + 2 /\ v = 256 * B[from + 1] + B[from + 2]
           Four == to = from + 4 /\ v = WithoutSign(IntAt(B, from))
<1>1. b \in Seq(Byte) /\ cut \in Nat /\ Len(b) = cut /\ \A i \in 1 .. cut : b[i] = B[i]
  BY CutBytes
<1>2. q \in Nat /\ q <= cut /\ (from <= cut => q = from) /\ (from > cut => q = cut)
  BY <1>1 DEF Upto
<1>3. Numbers(b, format)[q] = IF format >= 7 THEN readSmartInt(b, q) ELSE readUnsignedShort(b, q)
  BY <1>2 DEF Numbers
<1>4. B \in Seq(Byte) /\ to \in Nat /\ from < to /\ to <= Len(B)
  BY NumberType
<1>5. (Two /\ (format = 7 => B[from + 1] < 128)) \/ (Four /\ format = 7 /\ B[from + 1] >= 128)
  BY DEF IsNumber
<1>6. format \in Nat /\ (format >= 7 <=> format = 7)
  OBVIOUS
<1>7. ASSUME Four PROVE readInt(b, q) = Answer(<<Until(cut, to, IntAt(B, from))>>, Upto(cut, to))
  <2>1. Ints(b)[q] = readInt(b, q)
    BY <1>2 DEF Ints
  <2>2. from + 4 <= Len(w.bytes)
    BY <1>4, <1>7
  <2>3. Ints(b)[q] = Answer(<<Until(cut, from + 4, IntAt(B, from))>>, Upto(cut, from + 4))
    BY <2>2, IntOfCut
  <2> QED
    BY <1>7, <2>1, <2>3
<1>8. from + 1 <= Len(B) /\ B[from + 1] \in Byte
  BY <1>4
<1> SUFFICES Numbers(b, format)[q] = is
  OBVIOUS
<1> HIDE DEF q, B, format
<1>9. ASSUME Two PROVE readUnsignedShort(b, q) = is
  <2>1. CASE to <= cut
    <3>1. q = from /\ canRead(b, q, 2) /\ b[q + 1] = B[from + 1] /\ b[q + 2] = B[from + 2]
      BY <1>1, <1>2, <1>9, <2>1 DEF canRead
    <3> QED
      BY <1>9, <2>1, <3>1 DEF readUnsignedShort, Until, Upto
  <2>2. CASE ~(to <= cut)
    <3>1. ~canRead(b, q, 2)
      BY <1>1, <1>2, <1>9, <2>2 DEF canRead
    <3> QED
      BY <1>1, <2>2, <3>1 DEF readUnsignedShort, Exhausted, Until, Upto
  <2> QED
    BY <2>1, <2>2
<1>10. ASSUME ~canRead(b, q, 1) PROVE readSmartInt(b, q) = is
  <2>1. q = cut /\ ~(to <= cut)
    BY <1>1, <1>2, <1>4, <1>10 DEF canRead
  <2> QED
    BY <1>10, <2>1 DEF readSmartInt, Until, Upto
<1>11. ASSUME canRead(b, q, 1) PROVE b[q + 1] = B[from + 1]
  BY <1>1, <1>2, <1>11 DEF canRead
<1>12. ASSUME Two, B[from + 1] < 128 PROVE readSmartInt(b, q) = is
  <2>1. ASSUME canRead(b, q, 1) PROVE Signed(b[q + 1]) >= 0
    BY <1>8, <1>11, <1>12, <2>1, SignOf
  <2>2. canRead(b, q, 1) => readSmartInt(b, q) = readUnsignedShort(b, q)
    BY <2>1 DEF readSmartInt
  <2> QED
    BY <1>9, <1>10, <1>12, <2>2
<1>13. ASSUME Four, B[from + 1] >= 128 PROVE readSmartInt(b, q) = is
  <2>1. ASSUME canRead(b, q, 1) PROVE ~(Signed(b[q + 1]) >= 0)
    BY <1>8, <1>11, <1>13, <2>1, SignOf
  <2>2. canRead(b, q, 1) =>
          readSmartInt(b, q) = Answer(<<WithoutSign(readInt(b, q).value[1])>>, readInt(b, q).pos)
    BY <2>1 DEF readSmartInt
  <2>3. WithoutSign(Until(cut, to, IntAt(B, from))) = Until(cut, to, v)
    BY <1>13, SMT DEF WithoutSign, Until
  <2>4. readInt(b, q).value[1] = Until(cut, to, IntAt(B, from)) /\ readInt(b, q).pos = Upto(cut, to)
    BY <1>7, <1>13 DEF Answer
  <2> QED
    BY <1>10, <2>2, <2>3, <2>4
<1> QED
  BY <1>3, <1>5, <1>6, <1>9, <1>12, <1>13

\* Two values one behind the other.
LEMMA PairOf ==
  ASSUME NEW x, NEW y
  PROVE  <<x>> \o <<y>> = <<x, y>>
<1> DEFINE S == {x, y}
           s == <<x>>
           t == <<y>>
           u == <<x, y>>
           j == s \o t
<1>1. s \in Seq(S) /\ t \in Seq(S) /\ Len(s) = 1 /\ Len(t) = 1 /\ s[1] = x /\ t[1] = y
  OBVIOUS
<1>2. u \in Seq(S) /\ Len(u) = 2 /\ u[1] = x /\ u[2] = y
  OBVIOUS
<1> HIDE DEF S, s, t, u
<1>3. j \in Seq(S) /\ Len(j) = 2 /\ j[1] = x /\ j[2] = y
  <2>1. \A T : \A a, b \in Seq(T) :
          /\ a \o b \in Seq(T) /\ Len(a \o b) = Len(a) + Len(b)
          /\ \A k \in 1 .. Len(a) + Len(b) : (a \o b)[k] = IF k <= Len(a) THEN a[k] ELSE b[k - Len(a)]
    OBVIOUS
  <2>2. Len(s \o t) = 2
    <3>1. Len(s \o t) = Len(s) + Len(t)
      BY <1>1, <2>1, Zenon
    <3> QED
      BY <1>1, <3>1
  <2>4. s \o t \in Seq(S)
    BY <1>1, <2>1, Zenon
  <2>3. (s \o t)[1] = s[1] /\ (s \o t)[2] = t[1]
    BY <1>1, <2>1
  <2> QED
    BY <1>1, <2>2, <2>3, <2>4
<1> HIDE DEF j
<1>4. j = [i \in 1 .. 2 |-> j[i]] /\ u = [i \in 1 .. 2 |-> u[i]]
  BY <1>2, <1>3
<1>5. \A i \in 1 .. 2 : j[i] = u[i]
  BY <1>2, <1>3
<1>6. j = u
  BY <1>4, <1>5
<1> QED
  BY <1>6 DEF j, u, s, t

\* Numbers that follow each other, and where each ends.
AreNumbers(w, ends, v, n) ==
  /\ ends \in [0 .. n -> Nat] /\ v \in Seq(Int) /\ Len(v) = n
  /\ \A i \in 1 .. n : IsNumber(w, ends[i - 1], ends[i], v[i])

\* Numbers that follow each other give their values, those that are cut off 0.
LEMMA NumbersOfCut ==
  ASSUME NEW w, w.bytes \in Seq(Byte), w.format \in 5 .. 7, NEW cut, NEW b, IsCut(w, cut, b),
         NEW n \in Nat, NEW ends, NEW v, AreNumbers(w, ends, v, n)
  PROVE  Repeated(Numbers(b, w.format), Upto(cut, ends[0]), n) =
           Answer([i \in 1 .. n |-> Until(cut, ends[i], v[i])], Upto(cut, ends[n]))
<1> DEFINE q == [i \in 0 .. n |-> Upto(cut, ends[i])]
           u == [i \in 1 .. n |-> Until(cut, ends[i], v[i])]
           reads == Numbers(b, w.format)
<1>0. /\ ends \in [0 .. n -> Nat] /\ v \in Seq(Int) /\ Len(v) = n
      /\ \A i \in 1 .. n : IsNumber(w, ends[i - 1], ends[i], v[i])
  BY DEF AreNumbers
<1>1. ASSUME NEW i \in 1 .. n PROVE reads[q[i - 1]] = Answer(<<u[i]>>, q[i])
  <2>1. ends[i - 1] \in Nat /\ IsNumber(w, ends[i - 1], ends[i], v[i])
    BY <1>0
  <2>2. q[i - 1] = Upto(cut, ends[i - 1]) /\ q[i] = Upto(cut, ends[i]) /\ u[i] = Until(cut, ends[i], v[i])
    OBVIOUS
  <2>3. reads[Upto(cut, ends[i - 1])] = Answer(<<Until(cut, ends[i], v[i])>>, Upto(cut, ends[i]))
    BY <2>1, NumberOfCut
  <2> QED
    BY <2>2, <2>3
<1>2. u \in Seq(Int) /\ Len(u) = n /\ q[0] = Upto(cut, ends[0]) /\ q[n] = Upto(cut, ends[n])
  <2>1. \A i \in 1 .. n : Until(cut, ends[i], v[i]) \in Int
    BY <1>0 DEF Until
  <2>2. u \in [1 .. n -> Int]
    BY <2>1
  <2> QED
    BY <2>2
<1> HIDE DEF q, u, reads
<1>3. AreReads(reads, q, u, n)
  BY <1>1 DEF AreReads
<1>4. Repeated(reads, q[0], n) = Answer(u, q[n])
  BY <1>2, <1>3, AllAreRead
<1> QED
  BY <1>2, <1>4 DEF u, reads

\* A column of which the values that are cut off are 0.
ColumnUpto(cut, p, column) == [i \in 1 .. Len(column) |-> Until(cut, p + 4 * i, column[i])]

\* Such a column is what is read.
LEMMA ColumnOfCut ==
  ASSUME NEW w, w.bytes \in Seq(Byte), NEW cut, NEW b, IsCut(w, cut, b),
         NEW p \in Nat, NEW n \in Nat, NEW column, IsColumn(w, p, column, n)
  PROVE  Repeated(Ints(b), Upto(cut, p), n) =
           Answer(ColumnUpto(cut, p, column), Upto(cut, p + 4 * n))
<1> DEFINE q == [i \in 0 .. n |-> Upto(cut, p + 4 * i)]
           u == [i \in 1 .. n |-> Until(cut, p + 4 * i, column[i])]
           reads == Ints(b)
<1>0. /\ column \in Seq(Int) /\ Len(column) = n /\ p + 4 * n <= Len(w.bytes)
      /\ \A i \in 1 .. n : IntAt(w.bytes, p + 4 * (i - 1)) = column[i]
  BY DEF IsColumn
<1>1. ASSUME NEW i \in 1 .. n PROVE reads[q[i - 1]] = Answer(<<u[i]>>, q[i])
  <2> DEFINE at == p + 4 * (i - 1)
  <2>1. Len(w.bytes) \in Nat
    OBVIOUS
  <2>2. at \in Nat /\ at + 4 = p + 4 * i /\ at + 4 <= Len(w.bytes) /\ IntAt(w.bytes, at) = column[i]
    BY <1>0, <2>1
  <2>3. q[i - 1] = Upto(cut, at) /\ q[i] = Upto(cut, p + 4 * i) /\ u[i] = Until(cut, p + 4 * i, column[i])
    OBVIOUS
  <2> HIDE DEF at
  <2>4. reads[Upto(cut, at)] = Answer(<<Until(cut, at + 4, IntAt(w.bytes, at))>>, Upto(cut, at + 4))
    BY <2>2, IntOfCut
  <2> QED
    BY <2>2, <2>3, <2>4
<1>2. u \in Seq(Int) /\ Len(u) = n /\ q[0] = Upto(cut, p) /\ q[n] = Upto(cut, p + 4 * n)
  <2>1. \A i \in 1 .. n : Until(cut, p + 4 * i, column[i]) \in Int
    BY <1>0 DEF Until
  <2>2. u \in [1 .. n -> Int]
    BY <2>1
  <2> QED
    BY <2>2
<1>5. u = ColumnUpto(cut, p, column)
  BY <1>0 DEF ColumnUpto
<1> HIDE DEF q, u, reads
<1>3. AreReads(reads, q, u, n)
  BY <1>1 DEF AreReads
<1>4. Repeated(reads, q[0], n) = Answer(u, q[n])
  BY <1>2, <1>3, AllAreRead
<1> QED
  BY <1>2, <1>4, <1>5 DEF reads

\* n pairs of sizes of which the halves that are cut off are 0.
PairsUpto(w, cut, p, n) ==
  [i \in 1 .. n |-> <<Until(cut, p + 8 * (i - 1) + 4, IntAt(w.bytes, p + 8 * (i - 1))),
                      Until(cut, p + 8 * i, IntAt(w.bytes, p + 8 * (i - 1) + 4))>>]

\* Such pairs are what is read.
LEMMA SizesOfCut ==
  ASSUME NEW w, w.bytes \in Seq(Byte), NEW cut, NEW b, IsCut(w, cut, b),
         NEW p \in Nat, NEW n \in Nat, p + 8 * n <= Len(w.bytes)
  PROVE  Repeated(SizePairs(b), Upto(cut, p), n) =
           Answer(PairsUpto(w, cut, p, n), Upto(cut, p + 8 * n))
<1> DEFINE Pair(i) == <<Until(cut, p + 8 * (i - 1) + 4, IntAt(w.bytes, p + 8 * (i - 1))),
                        Until(cut, p + 8 * i, IntAt(w.bytes, p + 8 * (i - 1) + 4))>>
           q == [i \in 0 .. n |-> Upto(cut, p + 8 * i)]
           u == [i \in 1 .. n |-> Pair(i)]
           reads == SizePairs(b)
<1>1. ASSUME NEW i \in 1 .. n PROVE reads[q[i - 1]] = Answer(<<u[i]>>, q[i])
  <2> DEFINE at == p + 8 * (i - 1)
             first == Until(cut, at + 4, IntAt(w.bytes, at))
             second == Until(cut, at + 8, IntAt(w.bytes, at + 4))
  <2>1. at \in Nat /\ at + 4 \in Nat /\ at + 4 + 4 = at + 8 /\ at + 8 = p + 8 * i /\ at + 8 <= Len(w.bytes)
        /\ at + 4 <= Len(w.bytes)
    OBVIOUS
  <2>2. q[i - 1] = Upto(cut, at) /\ q[i] = Upto(cut, p + 8 * i) /\ u[i] = Pair(i)
    OBVIOUS
  <2>3. Pair(i) = <<first, second>>
    BY <2>1
  <2> HIDE DEF at, q, u, Pair
  <2>4. Ints(b)[Upto(cut, at)] = Answer(<<first>>, Upto(cut, at + 4))
    BY <2>1, IntOfCut
  <2>5. Ints(b)[Upto(cut, at + 4)] = Answer(<<second>>, Upto(cut, at + 8))
    BY <2>1, IntOfCut
  <2>6. Upto(cut, at) \in Nat /\ Upto(cut, at + 4) \in Nat
    BY <2>1, CutBytes DEF Upto
  <2> HIDE DEF first, second
  <2>7. readInt(b, Upto(cut, at)) = Answer(<<first>>, Upto(cut, at + 4))
        /\ readInt(b, Upto(cut, at + 4)) = Answer(<<second>>, Upto(cut, at + 8))
    BY <2>4, <2>5, <2>6 DEF Ints
  <2>8. reads[Upto(cut, at)] = Answer(<<<<first>> \o <<second>>>>, Upto(cut, at + 8))
    <3> DEFINE x == Answer(<<first>>, Upto(cut, at + 4))
               y == Answer(<<second>>, Upto(cut, at + 8))
    <3>1. x.value = <<first>> /\ x.pos = Upto(cut, at + 4) /\ y.value = <<second>> /\ y.pos = Upto(cut, at + 8)
      BY DEF Answer
    <3> HIDE DEF x, y
    <3>2. readInt(b, Upto(cut, at)) = x /\ readInt(b, x.pos) = y
      BY <2>7, <3>1 DEF x, y
    <3>3. reads[Upto(cut, at)] =
            Answer(<<readInt(b, Upto(cut, at)).value \o readInt(b, readInt(b, Upto(cut, at)).pos).value>>,
                   readInt(b, readInt(b, Upto(cut, at)).pos).pos)
      BY <2>6 DEF SizePairs, reads
    <3> QED
      BY <3>1, <3>2, <3>3
  <2>9. <<first>> \o <<second>> = <<first, second>>
    BY PairOf
  <2> QED
    BY <2>1, <2>2, <2>3, <2>8, <2>9
<1>2. u \in Seq({u[i] : i \in 1 .. n}) /\ Len(u) = n /\ q[0] = Upto(cut, p) /\ q[n] = Upto(cut, p + 8 * n)
  <2> DEFINE S == {u[i] : i \in 1 .. n}
  <2>1. \A i \in 1 .. n : u[i] \in S
    OBVIOUS
  <2>2. u = [i \in 1 .. n |-> u[i]]
    OBVIOUS
  <2>3. q[0] = Upto(cut, p) /\ q[n] = Upto(cut, p + 8 * n)
    OBVIOUS
  <2> HIDE DEF S, u, q
  <2>4. u \in [1 .. n -> S]
    BY <2>1, <2>2
  <2>5. u \in Seq(S) /\ Len(u) = n
    BY <2>4
  <2> QED
    BY <2>3, <2>5 DEF S
<1>5. u = PairsUpto(w, cut, p, n)
  BY DEF PairsUpto
<1> HIDE DEF q, u, reads
<1>3. AreReads(reads, q, u, n)
  BY <1>1 DEF AreReads
<1>4. Repeated(reads, q[0], n) = Answer(u, q[n])
  BY <1>2, <1>3, AllAreRead
<1> QED
  BY <1>2, <1>4, <1>5 DEF reads

\* Whirlpools that are all there are passed over.
LEMMA WhirlpoolsOfCut ==
  ASSUME NEW b \in Seq(Byte), NEW p \in Nat, NEW n \in Nat, p + 64 * n <= Len(b)
  PROVE  Repeated(Whirlpools(b), p, n).pos = p + 64 * n
<1> DEFINE q == [i \in 0 .. n |-> p + 64 * i]
           u == [i \in 1 .. n |-> 0]
           reads == Whirlpools(b)
<1>1. ASSUME NEW i \in 1 .. n PROVE reads[q[i - 1]] = Answer(<<u[i]>>, q[i])
  <2> DEFINE at == p + 64 * (i - 1)
  <2>1. at \in Nat /\ at + 64 = p + 64 * i /\ at + 64 <= Len(b)
    OBVIOUS
  <2>2. q[i - 1] = at /\ q[i] = p + 64 * i /\ u[i] = 0
    OBVIOUS
  <2> HIDE DEF at, q, u
  <2>3. canRead(b, at, 64)
    BY <2>1 DEF canRead
  <2>4. reads[at] = Answer(<<0>>, at + 64)
    BY <2>1, <2>3 DEF Whirlpools
  <2> QED
    BY <2>1, <2>2, <2>4
<1>2. u \in Seq(Int) /\ Len(u) = n /\ q[0] = p /\ q[n] = p + 64 * n
  OBVIOUS
<1> HIDE DEF q, u, reads
<1>3. AreReads(reads, q, u, n)
  BY <1>1 DEF AreReads
<1>4. Repeated(reads, q[0], n) = Answer(u, q[n])
  BY <1>2, <1>3, AllAreRead
<1> QED
  BY <1>2, <1>4 DEF reads, Answer

\* Rows of values are read one by one, wherever each row ends.
RowStep(reads, before, count) ==
  LET row == Repeated(reads, before.pos, count) IN Answer(Append(before.value, row.value), row.pos)

AreRows(reads, q, v, counts, n) ==
  \A i \in 1 .. n : Repeated(reads, q[i - 1], counts[i]) = Answer(v[i], q[i])

\* One more row is read.
LEMMA OneRowIsRead ==
  ASSUME NEW T, NEW n \in Nat, NEW v \in Seq(T), Len(v) = n, NEW q, NEW reads, NEW count, NEW i \in 1 .. n,
         Repeated(reads, q[i - 1], count) = Answer(v[i], q[i])
  PROVE  RowStep(reads, ReadSoFar(v, q, i - 1), count) = ReadSoFar(v, q, i)
<1> DEFINE s == SubSeq(v, 1, i - 1)
<1>1. Append(s, v[i]) = SubSeq(v, 1, i)
  BY Grows
<1>2. Answer(s, q[i - 1]).value = s /\ Answer(s, q[i - 1]).pos = q[i - 1]
  BY DEF Answer
<1>3. Answer(v[i], q[i]).value = v[i] /\ Answer(v[i], q[i]).pos = q[i]
  BY DEF Answer
<1> HIDE DEF s
<1>4. RowStep(reads, Answer(s, q[i - 1]), count) = Answer(Append(s, v[i]), q[i])
  BY <1>2, <1>3 DEF RowStep
<1> QED
  BY <1>1, <1>4 DEF ReadSoFar, s

\* All of the rows are read.
LEMMA AllRowsAreRead ==
  ASSUME NEW T, NEW n \in Nat, NEW v \in Seq(T), Len(v) = n, NEW q, NEW reads,
         NEW counts, Len(counts) = n, AreRows(reads, q, v, counts, n)
  PROVE  Rows(reads, q[0], counts) = Answer(v, q[n])
<1> DEFINE p == q[0]
           g == [i \in 0 .. n |-> ReadSoFar(v, q, i)]
           f == CHOOSE f : f = [i \in 0 .. n |-> IF i = 0 THEN Answer(<<>>, p) ELSE RowStep(reads, f[i - 1], counts[i])]
<1>1. ASSUME NEW i \in 1 .. n PROVE RowStep(reads, ReadSoFar(v, q, i - 1), counts[i]) = ReadSoFar(v, q, i)
  <2>1. Repeated(reads, q[i - 1], counts[i]) = Answer(v[i], q[i])
    BY DEF AreRows
  <2> QED
    BY <2>1, OneRowIsRead
<1>2. Rows(reads, p, counts) = f[n]
  BY DEF Rows, RowStep
<1>3. ReadSoFar(v, q, 0) = Answer(<<>>, p) /\ ReadSoFar(v, q, n) = Answer(v, q[n])
  <2>1. SubSeq(v, 1, 0) = <<>> /\ SubSeq(v, 1, n) = v
    OBVIOUS
  <2> QED
    BY <2>1 DEF ReadSoFar
<1>4. \A i \in 0 .. n : g[i] = ReadSoFar(v, q, i)
  OBVIOUS
<1>5. g[0] = Answer(<<>>, p) /\ \A i \in 1 .. n : g[i] = RowStep(reads, g[i - 1], counts[i])
  <2> HIDE DEF g, p
  <2>1. g[0] = Answer(<<>>, p)
    BY <1>3, <1>4
  <2>2. ASSUME NEW i \in 1 .. n PROVE g[i] = RowStep(reads, g[i - 1], counts[i])
    <3>1. g[i - 1] = ReadSoFar(v, q, i - 1) /\ g[i] = ReadSoFar(v, q, i)
      BY <1>4
    <3> QED
      BY <1>1, <3>1
  <2> QED
    BY <2>1, <2>2
<1>6. g = [i \in 0 .. n |-> IF i = 0 THEN Answer(<<>>, p) ELSE RowStep(reads, g[i - 1], counts[i])]
  <2>1. \A i \in 0 .. n : g[i] = IF i = 0 THEN Answer(<<>>, p) ELSE RowStep(reads, g[i - 1], counts[i])
    <3> HIDE DEF g, p
    <3> QED
      BY <1>5
  <2> QED
    BY <2>1
<1>7. f = [i \in 0 .. n |-> IF i = 0 THEN Answer(<<>>, p) ELSE RowStep(reads, f[i - 1], counts[i])]
  <2> HIDE DEF g, p
  <2> QED
    BY <1>6
<1>8. g[n] = Answer(v, q[n])
  <2> HIDE DEF g
  <2> QED
    BY <1>3, <1>4
<1> HIDE DEF f, g, p
<1>9. f[0] = Answer(<<>>, p) /\ \A i \in 1 .. n : f[i] = RowStep(reads, f[i - 1], counts[i])
  BY <1>7
<1>10. \A i \in 1 .. n : f[i - 1] = g[i - 1] => f[i] = g[i]
  BY <1>5, <1>9
<1>11. f[n] = g[n]
  BY <1>5, <1>9, <1>10, Unrolled
<1> QED
  BY <1>2, <1>8, <1>11 DEF p

\* None in a row.
LEMMA NoneRead ==
  ASSUME NEW reads, NEW p
  PROVE  Repeated(reads, p, 0) = Answer(<<>>, p)
<1> DEFINE n == 0
           q == [i \in 0 .. n |-> p]
           v == <<>>
<1>1. n \in Nat /\ v \in Seq(Int) /\ Len(v) = n /\ q[0] = p /\ q[n] = p
  OBVIOUS
<1>2. AreReads(reads, q, v, n)
  BY DEF AreReads
<1> HIDE DEF n, q, v
<1>3. Repeated(reads, q[0], n) = Answer(v, q[n])
  BY <1>1, <1>2, AllAreRead
<1> QED
  BY <1>1, <1>3 DEF v, n

\* The differences of a column of ids.
Differences(seq) == [i \in 1 .. Len(seq) |-> Difference(seq, i)]

\* Differences are numbers, as many as there are ids.
LEMMA DifferencesType ==
  ASSUME NEW s \in Seq(Nat)
  PROVE  Differences(s) \in Seq(Int) /\ Len(Differences(s)) = Len(s)
         /\ \A i \in 1 .. Len(s) : Differences(s)[i] = Difference(s, i)
<1> DEFINE n == Len(s)
<1>1. n \in Nat /\ \A i \in 1 .. n : s[i] \in Nat
  OBVIOUS
<1>2. ASSUME NEW i \in 1 .. n PROVE Difference(s, i) \in Int
  <2>1. i # 1 => i - 1 \in 1 .. n
    OBVIOUS
  <2> QED
    BY <1>1, <2>1 DEF Difference
<1> HIDE DEF n
<1>3. [i \in 1 .. n |-> Difference(s, i)] \in [1 .. n -> Int]
  BY <1>2
<1> QED
  BY <1>1, <1>3 DEF Differences, n

\* What of the files of the archive i is said.
LEMMA FilesFacts ==
  ASSUME NEW w, IsTable(w), NEW i \in 1 .. Len(w.ids)
  PROVE  /\ Len(w.ids) \in Nat /\ w.files[i] \in Seq(Nat) /\ Rising(w.files[i])
         /\ w.ends.counts[i - 1] \in Nat /\ w.ends.counts[i] \in Nat
         /\ IsNumber(w, w.ends.counts[i - 1], w.ends.counts[i], Len(w.files[i]))
         /\ w.ends.rows[i - 1] \in Nat /\ w.ends.rows[i] \in Nat
         /\ w.ends.files[i] \in [0 .. Len(w.files[i]) -> Nat]
         /\ w.ends.files[i][0] = w.ends.rows[i - 1] /\ w.ends.files[i][Len(w.files[i])] = w.ends.rows[i]
         /\ \A f \in 1 .. Len(w.files[i]) :
              IsNumber(w, w.ends.files[i][f - 1], w.ends.files[i][f], Difference(w.files[i], f))
<1> DEFINE n == Len(w.ids)
<1>1. HasFiles(w) /\ w.ids \in Seq(Nat)
  BY DEF IsTable, HasArchiveIds
<1>2. n \in Nat
  BY <1>1
<1>3. w.files \in Seq(Seq(Nat)) /\ Len(w.files) = n /\ \A k \in 1 .. n : Rising(w.files[k])
  BY <1>1 DEF HasFiles
<1>4. w.ends.counts \in [0 .. n -> Nat] /\ w.ends.rows \in [0 .. n -> Nat]
      /\ \A k \in 1 .. n : IsNumber(w, w.ends.counts[k - 1], w.ends.counts[k], Len(w.files[k]))
  BY <1>1 DEF HasFiles
<1>5. /\ w.ends.files[i] \in [0 .. Len(w.files[i]) -> Nat]
      /\ w.ends.files[i][0] = w.ends.rows[i - 1] /\ w.ends.files[i][Len(w.files[i])] = w.ends.rows[i]
      /\ \A f \in 1 .. Len(w.files[i]) :
           IsNumber(w, w.ends.files[i][f - 1], w.ends.files[i][f], Difference(w.files[i], f))
  BY <1>1 DEF HasFiles
<1>6. i - 1 \in 0 .. n /\ i \in 0 .. n
  BY <1>2
<1> HIDE DEF n
<1>7. w.files[i] \in Seq(Nat) /\ Rising(w.files[i])
  BY <1>3 DEF n
<1>8. w.ends.counts[i - 1] \in Nat /\ w.ends.counts[i] \in Nat
      /\ w.ends.rows[i - 1] \in Nat /\ w.ends.rows[i] \in Nat
  BY <1>4, <1>6
<1> QED
  BY <1>2, <1>4, <1>5, <1>7, <1>8 DEF n

\* Numbers that follow each other end one behind the other.
LEMMA EndsRise ==
  ASSUME NEW w, w.bytes \in Seq(Byte), NEW n \in Nat, NEW ends \in [0 .. n -> Nat], NEW v,
         \A i \in 1 .. n : IsNumber(w, ends[i - 1], ends[i], v[i])
  PROVE  /\ \A i \in 1 .. n : ends[i - 1] < ends[i]
         /\ \A i \in 0 .. n : ends[i] <= ends[n]
         /\ n > 0 => ends[n] <= Len(w.bytes)
<1>1. ASSUME NEW i \in 1 .. n PROVE ends[i - 1] < ends[i] /\ ends[i] <= Len(w.bytes)
  <2>1. ends[i - 1] \in Nat /\ IsNumber(w, ends[i - 1], ends[i], v[i])
    OBVIOUS
  <2> QED
    BY <2>1, NumberType
<1>2. \A i \in 1 .. n : ends[i - 1] <= ends[i]
  <2> SUFFICES ASSUME NEW i \in 1 .. n PROVE ends[i - 1] <= ends[i]
    OBVIOUS
  <2>1. ends[i - 1] \in Nat /\ ends[i] \in Nat /\ ends[i - 1] < ends[i]
    BY <1>1
  <2> QED
    BY <2>1
<1>3. \A i \in 0 .. n : ends[i] <= ends[n]
  BY <1>2, Rises
<1>4. n > 0 => n \in 1 .. n
  OBVIOUS
<1> QED
  BY <1>1, <1>3, <1>4

\* The numbers of the counts end before the rows begin, which lie one behind the other.
LEMMA RowsRise ==
  ASSUME NEW w, IsTable(w), NEW i \in 1 .. Len(w.ids)
  PROVE  /\ w.ends.counts[i] <= w.ends.rows[0] /\ w.ends.rows[0] <= w.ends.rows[i - 1]
         /\ w.ends.rows[i - 1] <= w.ends.rows[i] /\ w.ends.rows[i] <= w.ends.rows[Len(w.ids)]
<1> DEFINE n == Len(w.ids)
           rows == w.ends.rows
           counts == w.ends.counts
<1>0. w.bytes \in Seq(Byte) /\ w.ids \in Seq(Nat)
  BY DEF IsTable, HasArchiveIds
<1>1. n \in Nat /\ rows \in [0 .. n -> Nat] /\ counts \in [0 .. n -> Nat] /\ rows[0] = counts[n]
  BY <1>0 DEF IsTable, HasFiles
<1>2. ASSUME NEW k \in 1 .. n PROVE rows[k - 1] <= rows[k]
  <2> DEFINE m == Len(w.files[k])
             ends == w.ends.files[k]
  <2>1. /\ ends \in [0 .. m -> Nat] /\ ends[0] = rows[k - 1] /\ ends[m] = rows[k]
        /\ \A f \in 1 .. m : IsNumber(w, ends[f - 1], ends[f], Difference(w.files[k], f))
    BY FilesFacts
  <2>2. w.files[k] \in Seq(Nat)
    BY FilesFacts
  <2>3. m \in Nat
    BY <2>2
  <2> DEFINE v == Differences(w.files[k])
  <2>4. \A f \in 1 .. m : IsNumber(w, ends[f - 1], ends[f], v[f])
    BY <2>1, <2>2, DifferencesType
  <2> HIDE DEF m, ends, v, rows
  <2>5. \A f \in 0 .. m : ends[f] <= ends[m]
    BY <1>0, <2>1, <2>3, <2>4, EndsRise
  <2> QED
    BY <2>1, <2>3, <2>5
<1>3. \A k \in 1 .. n : IsNumber(w, counts[k - 1], counts[k], Len(w.files[k]))
  BY DEF IsTable, HasFiles
<1> DEFINE v == [k \in 1 .. n |-> Len(w.files[k])]
<1>4. \A k \in 1 .. n : IsNumber(w, counts[k - 1], counts[k], v[k])
  BY <1>3
<1>5. i - 1 \in 0 .. n /\ i \in 0 .. n /\ 0 \in 0 .. n /\ i \in 1 .. n
  BY <1>1
<1> HIDE DEF n, rows, counts, v
<1>6. \A k \in 0 .. n : counts[k] <= counts[n]
  BY <1>0, <1>1, <1>4, EndsRise
<1>7. \A k \in 0 .. n : rows[k] <= rows[n]
  BY <1>1, <1>2, Rises
<1>8. rows[0] <= rows[i - 1]
  <2> DEFINE j == i - 1
             e == [k \in 0 .. j |-> rows[k]]
  <2>1. j \in Nat /\ j \in 0 .. n
    BY <1>5
  <2> HIDE DEF j
  <2>2. e \in [0 .. j -> Nat] /\ e[0] = rows[0] /\ e[j] = rows[j]
    BY <1>1, <2>1
  <2>3. \A k \in 1 .. j : e[k - 1] <= e[k]
    <3> SUFFICES ASSUME NEW k \in 1 .. j PROVE e[k - 1] <= e[k]
      OBVIOUS
    <3>1. k \in 1 .. n /\ k - 1 \in 0 .. j /\ k \in 0 .. j
      BY <1>1, <2>1
    <3>2. e[k - 1] = rows[k - 1] /\ e[k] = rows[k]
      BY <3>1
    <3> QED
      BY <1>2, <3>1, <3>2
  <2> HIDE DEF e
  <2>4. \A k \in 0 .. j : e[k] <= e[j]
    BY <2>1, <2>2, <2>3, Rises
  <2>5. e[0] <= e[j]
    BY <2>1, <2>4
  <2> QED
    BY <2>2, <2>5 DEF j
<1>9. counts[i] <= rows[0] /\ rows[i - 1] <= rows[i] /\ rows[i] <= rows[n]
  BY <1>1, <1>2, <1>5, <1>6, <1>7
<1> QED
  BY <1>8, <1>9 DEF n, rows, counts

\* The row of the archive i, of which the values that are cut off are 0.
RowUpto(w, cut, i) ==
  [f \in 1 .. Until(cut, w.ends.counts[i], Len(w.files[i])) |->
     Until(cut, w.ends.files[i][f], Difference(w.files[i], f))]

\* Such a row is what is read.
LEMMA RowOfCut ==
  ASSUME NEW w, IsTable(w), NEW cut, NEW b, IsCut(w, cut, b), NEW i \in 1 .. Len(w.ids)
  PROVE  Repeated(Numbers(b, w.format), Upto(cut, w.ends.rows[i - 1]),
                  Until(cut, w.ends.counts[i], Len(w.files[i])))
           = Answer(RowUpto(w, cut, i), Upto(cut, w.ends.rows[i]))
<1> DEFINE m == Len(w.files[i])
           ends == w.ends.files[i]
           v == Differences(w.files[i])
           reads == Numbers(b, w.format)
<1>0. w.bytes \in Seq(Byte) /\ w.format \in 5 .. 7
  BY DEF IsTable, HasHead
<1>1. /\ w.files[i] \in Seq(Nat) /\ w.ends.counts[i] \in Nat /\ w.ends.rows[i - 1] \in Nat /\ w.ends.rows[i] \in Nat
      /\ ends \in [0 .. m -> Nat] /\ ends[0] = w.ends.rows[i - 1] /\ ends[m] = w.ends.rows[i]
      /\ \A f \in 1 .. m : IsNumber(w, ends[f - 1], ends[f], Difference(w.files[i], f))
  BY FilesFacts
<1>2. m \in Nat /\ cut \in Nat
  BY <1>0, <1>1, CutBytes
<1>3. v \in Seq(Int) /\ Len(v) = m /\ \A f \in 1 .. m : v[f] = Difference(w.files[i], f)
  BY <1>1, DifferencesType
<1>4. ASSUME w.ends.counts[i] <= cut
      PROVE  Repeated(reads, Upto(cut, w.ends.rows[i - 1]), Until(cut, w.ends.counts[i], m))
               = Answer(RowUpto(w, cut, i), Upto(cut, w.ends.rows[i]))
  <2>1. RowUpto(w, cut, i) = [f \in 1 .. m |-> Until(cut, ends[f], v[f])]
        /\ Until(cut, w.ends.counts[i], m) = m
    BY <1>3, <1>4 DEF RowUpto, Until
  <2>2. AreNumbers(w, ends, v, m)
    BY <1>1, <1>3 DEF AreNumbers
  <2> HIDE DEF m, ends, v
  <2>3. Repeated(reads, Upto(cut, ends[0]), m) = Answer([f \in 1 .. m |-> Until(cut, ends[f], v[f])], Upto(cut, ends[m]))
    BY <1>0, <1>2, <2>2, NumbersOfCut
  <2> QED
    BY <1>1, <2>1, <2>3
<1>5. ASSUME ~(w.ends.counts[i] <= cut)
      PROVE  Repeated(reads, Upto(cut, w.ends.rows[i - 1]), Until(cut, w.ends.counts[i], m))
               = Answer(RowUpto(w, cut, i), Upto(cut, w.ends.rows[i]))
  <2>1. Until(cut, w.ends.counts[i], m) = 0
    BY <1>5 DEF Until
  <2>2. RowUpto(w, cut, i) = <<>>
    BY <2>1 DEF RowUpto
  <2>3. w.ends.counts[i] <= w.ends.rows[0] /\ w.ends.rows[0] <= w.ends.rows[i - 1]
        /\ w.ends.rows[i - 1] <= w.ends.rows[i]
    BY RowsRise
  <2>4. w.ends.rows[0] \in Nat
    <3>1. w.ends.rows \in [0 .. Len(w.ids) -> Nat] /\ Len(w.ids) \in Nat
      BY FilesFacts DEF IsTable, HasFiles
    <3> QED
      BY <3>1
  <2>5. ~(w.ends.rows[i - 1] <= cut) /\ ~(w.ends.rows[i] <= cut)
    <3> DEFINE c == w.ends.counts[i]
               o == w.ends.rows[0]
               x == w.ends.rows[i - 1]
               y == w.ends.rows[i]
    <3>1. c \in Nat /\ o \in Nat /\ x \in Nat /\ y \in Nat /\ c <= o /\ o <= x /\ x <= y /\ ~(c <= cut)
      BY <1>1, <1>5, <2>3, <2>4
    <3> HIDE DEF c, o, x, y
    <3>2. ~(x <= cut) /\ ~(y <= cut)
      BY <1>2, <3>1
    <3> QED
      BY <3>2 DEF x, y
  <2>6. Upto(cut, w.ends.rows[i - 1]) = cut /\ Upto(cut, w.ends.rows[i]) = cut
    BY <2>5 DEF Upto
  <2> QED
    BY <2>1, <2>2, <2>6, NoneRead
<1> QED
  BY <1>4, <1>5

\* The counts, the rows and the differences of the ids, of which those that are cut off are 0.
CountsUpto(w, cut) == [i \in 1 .. Len(w.ids) |-> Until(cut, w.ends.counts[i], Len(w.files[i]))]
RowsUpto(w, cut) == [i \in 1 .. Len(w.ids) |-> RowUpto(w, cut, i)]
IdsUpto(w, cut) == [i \in 1 .. Len(w.ids) |-> Until(cut, w.ends.ids[i], Difference(w.ids, i))]

\* Such differences are what is read of the ids.
LEMMA IdsOfCut ==
  ASSUME NEW w, IsTable(w), NEW cut, NEW b, IsCut(w, cut, b)
  PROVE  Repeated(Numbers(b, w.format), Upto(cut, w.ends.ids[0]), Len(w.ids))
           = Answer(IdsUpto(w, cut), Upto(cut, NamesOf(w)))
<1> DEFINE n == Len(w.ids)
           ends == w.ends.ids
           v == Differences(w.ids)
<1>0. w.bytes \in Seq(Byte) /\ w.format \in 5 .. 7 /\ w.ids \in Seq(Nat)
  BY DEF IsTable, HasHead, HasArchiveIds
<1>1. ends \in [0 .. n -> Nat] /\ \A i \in 1 .. n : IsNumber(w, ends[i - 1], ends[i], Difference(w.ids, i))
  BY DEF IsTable, HasArchiveIds
<1>2. v \in Seq(Int) /\ Len(v) = n /\ \A i \in 1 .. n : v[i] = Difference(w.ids, i)
  BY <1>0, DifferencesType
<1>3. AreNumbers(w, ends, v, n)
  BY <1>1, <1>2 DEF AreNumbers
<1>4. IdsUpto(w, cut) = [i \in 1 .. n |-> Until(cut, ends[i], v[i])]
  BY <1>2 DEF IdsUpto
<1>5. n \in Nat
  BY <1>0
<1> HIDE DEF n, ends, v
<1>6. Repeated(Numbers(b, w.format), Upto(cut, ends[0]), n) = Answer([i \in 1 .. n |-> Until(cut, ends[i], v[i])], Upto(cut, ends[n]))
  BY <1>0, <1>3, <1>5, NumbersOfCut
<1> QED
  BY <1>4, <1>6 DEF n, ends, NamesOf

\* Such counts are what is read of the numbers of files.
LEMMA CountsOfCut ==
  ASSUME NEW w, IsTable(w), NEW cut, NEW b, IsCut(w, cut, b)
  PROVE  Repeated(Numbers(b, w.format), Upto(cut, CountsOf(w)), Len(w.ids))
           = Answer(CountsUpto(w, cut), Upto(cut, w.ends.rows[0]))
<1> DEFINE n == Len(w.ids)
           ends == w.ends.counts
           v == [i \in 1 .. n |-> Len(w.files[i])]
<1>0. w.bytes \in Seq(Byte) /\ w.format \in 5 .. 7 /\ w.ids \in Seq(Nat)
  BY DEF IsTable, HasHead, HasArchiveIds
<1>1. ends \in [0 .. n -> Nat] /\ \A i \in 1 .. n : IsNumber(w, ends[i - 1], ends[i], Len(w.files[i]))
  BY DEF IsTable, HasFiles
<1>2. v \in Seq(Int) /\ Len(v) = n /\ \A i \in 1 .. n : v[i] = Len(w.files[i])
  <2>1. \A i \in 1 .. n : Len(w.files[i]) \in Int
    <3> SUFFICES ASSUME NEW i \in 1 .. n PROVE Len(w.files[i]) \in Int
      OBVIOUS
    <3>1. w.files[i] \in Seq(Nat)
      BY FilesFacts
    <3> QED
      BY <3>1
  <2>2. n \in Nat
    BY <1>0
  <2> HIDE DEF n
  <2>3. v \in [1 .. n -> Int]
    BY <2>1
  <2> QED
    BY <2>2, <2>3
<1>3. AreNumbers(w, ends, v, n)
  BY <1>1, <1>2 DEF AreNumbers
<1>4. CountsUpto(w, cut) = [i \in 1 .. n |-> Until(cut, ends[i], v[i])]
  BY <1>2 DEF CountsUpto
<1>5. n \in Nat
  BY <1>0
<1>7. ends[0] = CountsOf(w) /\ ends[n] = w.ends.rows[0]
  BY DEF IsTable, HasFiles
<1> HIDE DEF n, ends, v
<1>6. Repeated(Numbers(b, w.format), Upto(cut, ends[0]), n) = Answer([i \in 1 .. n |-> Until(cut, ends[i], v[i])], Upto(cut, ends[n]))
  BY <1>0, <1>3, <1>5, NumbersOfCut
<1> QED
  BY <1>4, <1>6, <1>7 DEF n

\* Such rows are what is read of the ids of the files.
LEMMA RowsOfCut ==
  ASSUME NEW w, IsTable(w), NEW cut, NEW b, IsCut(w, cut, b)
  PROVE  Rows(Numbers(b, w.format), Upto(cut, w.ends.rows[0]), CountsUpto(w, cut))
           = Answer(RowsUpto(w, cut), Upto(cut, w.ends.rows[Len(w.ids)]))
<1> DEFINE n == Len(w.ids)
           q == [i \in 0 .. n |-> Upto(cut, w.ends.rows[i])]
           v == RowsUpto(w, cut)
           counts == CountsUpto(w, cut)
           reads == Numbers(b, w.format)
           S == {RowUpto(w, cut, i) : i \in 1 .. n}
<1>0. n \in Nat
  BY DEF IsTable, HasArchiveIds
<1>1. ASSUME NEW i \in 1 .. n PROVE Repeated(reads, q[i - 1], counts[i]) = Answer(v[i], q[i])
  <2>1. q[i - 1] = Upto(cut, w.ends.rows[i - 1]) /\ q[i] = Upto(cut, w.ends.rows[i])
        /\ counts[i] = Until(cut, w.ends.counts[i], Len(w.files[i])) /\ v[i] = RowUpto(w, cut, i)
    BY <1>0 DEF CountsUpto, RowsUpto
  <2>2. Repeated(reads, Upto(cut, w.ends.rows[i - 1]), Until(cut, w.ends.counts[i], Len(w.files[i])))
          = Answer(RowUpto(w, cut, i), Upto(cut, w.ends.rows[i]))
    BY RowOfCut
  <2> QED
    BY <2>1, <2>2
<1>2. v \in Seq(S) /\ Len(v) = n
  <2>1. \A i \in 1 .. n : RowUpto(w, cut, i) \in S
    OBVIOUS
  <2>2. v = [i \in 1 .. n |-> RowUpto(w, cut, i)]
    BY DEF RowsUpto
  <2> HIDE DEF S, v, n
  <2>3. v \in [1 .. n -> S]
    BY <2>1, <2>2
  <2> QED
    BY <1>0, <2>3
<1>3. Len(counts) = n
  BY <1>0 DEF CountsUpto
<1>4. q[0] = Upto(cut, w.ends.rows[0]) /\ q[n] = Upto(cut, w.ends.rows[n])
  BY <1>0
<1> HIDE DEF n, q, v, counts, reads, S
<1>5. AreRows(reads, q, v, counts, n)
  BY <1>1 DEF AreRows
<1>6. Rows(reads, q[0], counts) = Answer(v, q[n])
  BY <1>0, <1>2, <1>3, <1>5, AllRowsAreRead
<1> QED
  BY <1>4, <1>6 DEF n, v, counts, reads

\* What is read of the head of a beginning of a table.
LEMMA HeadOfCut ==
  ASSUME NEW w, IsTable(w), NEW cut, NEW b, IsCut(w, cut, b), cut > 0
  PROVE  LET head == TableHead(b) IN
         /\ readUnsignedByte(b, 0).value[1] = w.format
         /\ head.format = w.format /\ head.count = Until(cut, w.ends.ids[0], Len(w.ids))
         /\ head.pos = Upto(cut, w.ends.ids[0])
         /\ w.ends.ids[0] <= cut => head.version = w.version /\ head.mask = w.mask
<1> DEFINE format == readUnsignedByte(b, 0)
           version == IF format.value[1] >= 6 THEN readInt(b, format.pos) ELSE Answer(<<0>>, format.pos)
           mask == readUnsignedByte(b, version.pos)
           count == Numbers(b, format.value[1])[mask.pos]
           at == FlagsOf(w)
           e == w.ends.ids[0]
<1>1. b \in Seq(Byte) /\ cut \in Nat /\ Len(b) = cut /\ \A i \in 1 .. cut : b[i] = w.bytes[i]
  BY CutBytes DEF IsTable
<1>2. /\ w.bytes \in Seq(Byte) /\ w.format \in 5 .. 7 /\ at < Len(w.bytes)
      /\ w.bytes[1] = w.format /\ w.bytes[at + 1] = w.mask
      /\ w.version = IF w.format = 5 THEN 0 ELSE IntAt(w.bytes, 1)
      /\ IsNumber(w, at + 1, e, Len(w.ids))
  BY DEF IsTable, HasHead
<1>3. at \in Nat /\ (at = IF w.format = 5 THEN 1 ELSE 5)
  BY DEF FlagsOf
<1>4. e \in Nat /\ at + 1 < e /\ e <= Len(w.bytes)
  BY <1>2, <1>3, NumberType
<1>5. format = Answer(<<w.format>>, 1)
  <2>1. canRead(b, 0, 1) /\ b[0 + 1] = w.format
    BY <1>1, <1>2 DEF canRead
  <2> QED
    BY <2>1 DEF readUnsignedByte
<1>6. format.value[1] = w.format /\ format.pos = 1
  BY <1>5 DEF Answer
<1> HIDE DEF format, e
<1>7. version.pos = Upto(cut, at) /\ (at <= cut => version.value[1] = w.version)
  <2>1. ASSUME w.format = 5 PROVE version.pos = Upto(cut, at) /\ (at <= cut => version.value[1] = w.version)
    <3>1. version = Answer(<<0>>, 1) /\ at = 1 /\ w.version = 0
      BY <1>2, <1>3, <1>6, <2>1
    <3>2. Upto(cut, 1) = 1
      BY <1>1 DEF Upto
    <3> QED
      BY <3>1, <3>2 DEF Answer
  <2>2. ASSUME w.format # 5 PROVE version.pos = Upto(cut, at) /\ (at <= cut => version.value[1] = w.version)
    <3>1. w.format >= 6 /\ at = 5 /\ w.version = IntAt(w.bytes, 1) /\ 1 + 4 <= Len(w.bytes) /\ 1 \in Nat
      BY <1>2, <1>3, <2>2
    <3>2. version = readInt(b, 1)
      BY <1>6, <3>1
    <3>3. Upto(cut, 1) = 1
      BY <1>1 DEF Upto
    <3> DEFINE p == 1
    <3>4. p \in Nat /\ p + 4 <= Len(w.bytes)
      BY <3>1
    <3> HIDE DEF p
    <3>5. Ints(b)[Upto(cut, p)] = Answer(<<Until(cut, p + 4, IntAt(w.bytes, p))>>, Upto(cut, p + 4))
      BY <1>2, <3>4, IntOfCut
    <3>6. Ints(b)[1] = Answer(<<Until(cut, 5, IntAt(w.bytes, 1))>>, Upto(cut, 5))
      BY <3>3, <3>5 DEF p
    <3>7. readInt(b, 1) = Answer(<<Until(cut, 5, IntAt(w.bytes, 1))>>, Upto(cut, 5))
      BY <3>6 DEF Ints
    <3> QED
      BY <3>1, <3>2, <3>7 DEF Answer, Until
  <2> QED
    BY <2>1, <2>2
<1> HIDE DEF version
<1>8. mask.pos = Upto(cut, at + 1) /\ (at + 1 <= cut => mask.value[1] = w.mask)
  <2>1. ASSUME at + 1 <= cut PROVE mask.pos = Upto(cut, at + 1) /\ (at + 1 <= cut => mask.value[1] = w.mask)
    <3>1. version.pos = at /\ canRead(b, at, 1) /\ b[at + 1] = w.mask /\ Upto(cut, at + 1) = at + 1
      BY <1>1, <1>2, <1>3, <1>7, <2>1 DEF canRead, Upto
    <3>2. mask = Answer(<<w.mask>>, at + 1)
      BY <3>1 DEF readUnsignedByte
    <3> QED
      BY <3>1, <3>2 DEF Answer
  <2>2. ASSUME ~(at + 1 <= cut) PROVE mask.pos = Upto(cut, at + 1) /\ (at + 1 <= cut => mask.value[1] = w.mask)
    <3>1. version.pos = cut /\ ~canRead(b, cut, 1) /\ Upto(cut, at + 1) = cut
      BY <1>1, <1>3, <1>7, <2>2 DEF canRead, Upto
    <3> QED
      BY <2>2, <3>1 DEF readUnsignedByte, Answer
  <2> QED
    BY <2>1, <2>2
<1> HIDE DEF mask
<1>9. count = Answer(<<Until(cut, e, Len(w.ids))>>, Upto(cut, e))
  <2>1. at + 1 \in Nat
    BY <1>3
  <2>2. Numbers(b, w.format)[Upto(cut, at + 1)] = Answer(<<Until(cut, e, Len(w.ids))>>, Upto(cut, e))
    BY <1>2, <2>1, NumberOfCut
  <2> QED
    BY <1>6, <1>8, <2>2
<1>10. count.value[1] = Until(cut, e, Len(w.ids)) /\ count.pos = Upto(cut, e)
  BY <1>9 DEF Answer
<1> HIDE DEF count
<1>11. TableHead(b) = [format |-> format.value[1], version |-> version.value[1], mask |-> mask.value[1],
                       count |-> count.value[1], pos |-> count.pos]
  BY DEF TableHead, format, version, mask, count
<1>12. e <= cut => at <= cut /\ at + 1 <= cut
  BY <1>1, <1>3, <1>4
<1> QED
  BY <1>6, <1>7, <1>8, <1>10, <1>11, <1>12 DEF e, format

\* Where the parts of a table are.
LEMMA PartsFollow ==
  ASSUME NEW w, IsTable(w)
  PROVE  LET n == Len(w.ids) IN
         /\ n \in Nat /\ Len(w.bytes) \in Nat
         /\ NamesOf(w) \in Nat /\ CrcsOf(w) \in Nat /\ HashesOf(w) \in Nat /\ WhirlpoolsOf(w) \in Nat
         /\ SizesOf(w) \in Nat /\ VersionsOf(w) \in Nat /\ CountsOf(w) \in Nat
         /\ CrcsOf(w) = NamesOf(w) + (IF Has(w.mask, 1) THEN 4 * n ELSE 0)
         /\ HashesOf(w) = CrcsOf(w) + 4 * n
         /\ WhirlpoolsOf(w) = HashesOf(w) + (IF Has(w.mask, 8) THEN 4 * n ELSE 0)
         /\ SizesOf(w) = WhirlpoolsOf(w) + (IF Has(w.mask, 2) THEN 64 * n ELSE 0)
         /\ VersionsOf(w) = SizesOf(w) + (IF Has(w.mask, 4) THEN 8 * n ELSE 0)
         /\ CountsOf(w) = VersionsOf(w) + 4 * n /\ CountsOf(w) <= Len(w.bytes)
<1> DEFINE n == Len(w.ids)
           size == Len(w.bytes)
<1>1. w.ids \in Seq(Nat) /\ w.ends.ids \in [0 .. n -> Nat] /\ w.bytes \in Seq(Byte)
      /\ VersionsOf(w) + 4 * n <= size
  BY DEF IsTable, HasArchiveIds, HasValues, IsColumn
<1>2. n \in Nat /\ size \in Nat /\ NamesOf(w) \in Nat
  BY <1>1, SMTT(20) DEF NamesOf
<1>3. CrcsOf(w) = NamesOf(w) + (IF Has(w.mask, 1) THEN 4 * n ELSE 0)
  BY DEF CrcsOf, Width
<1>4. HashesOf(w) = CrcsOf(w) + 4 * n
  BY DEF HashesOf
<1>5. WhirlpoolsOf(w) = HashesOf(w) + (IF Has(w.mask, 8) THEN 4 * n ELSE 0)
  BY DEF WhirlpoolsOf, Width
<1>6. SizesOf(w) = WhirlpoolsOf(w) + (IF Has(w.mask, 2) THEN 64 * n ELSE 0)
  BY DEF SizesOf, Width
<1>7. VersionsOf(w) = SizesOf(w) + (IF Has(w.mask, 4) THEN 8 * n ELSE 0)
  BY DEF VersionsOf, Width
<1>8. CountsOf(w) = VersionsOf(w) + 4 * n
  BY DEF CountsOf
<1>9. CrcsOf(w) \in Nat
  BY <1>2, <1>3
<1>10. HashesOf(w) \in Nat
  BY <1>2, <1>4, <1>9
<1>11. WhirlpoolsOf(w) \in Nat
  BY <1>2, <1>5, <1>10
<1>12. SizesOf(w) \in Nat
  BY <1>2, <1>6, <1>11
<1>13. VersionsOf(w) \in Nat
  BY <1>2, <1>7, <1>12
<1>14. CountsOf(w) \in Nat
  BY <1>2, <1>8, <1>13
<1> QED
  BY <1>1, <1>2, <1>3, <1>4, <1>5, <1>6, <1>7, <1>8, <1>9, <1>10, <1>11, <1>12, <1>13, <1>14

\* A column that a table may have or not, and what stands for it where it does not.
IsOptional(w, part, p, column) == Has(w.mask, part) => IsColumn(w, p, column, Len(w.ids))
Optional(w, part, column) == IF Has(w.mask, part) THEN column ELSE <<>>

\* A column that a table may have or not is read if it has it.
LEMMA OptionalOfCut ==
  ASSUME NEW w, w.bytes \in Seq(Byte), Len(w.ids) \in Nat, NEW cut, NEW b, IsCut(w, cut, b),
         NEW p \in Nat, NEW column, NEW part, IsOptional(w, part, p, column)
  PROVE  Repeated(Ints(b), Upto(cut, p), IF Has(w.mask, part) THEN Len(w.ids) ELSE 0)
           = Answer(Optional(w, part, ColumnUpto(cut, p, column)), Upto(cut, p + Width(w, part, 4)))
<1> DEFINE h == Has(w.mask, part)
           n == Len(w.ids)
<1>1. CASE h
  <2>1. Width(w, part, 4) = 4 * n /\ IsColumn(w, p, column, n)
    BY <1>1 DEF Width, IsOptional
  <2>2. Repeated(Ints(b), Upto(cut, p), n) = Answer(ColumnUpto(cut, p, column), Upto(cut, p + 4 * n))
    BY <2>1, ColumnOfCut
  <2> QED
    BY <1>1, <2>1, <2>2 DEF Optional
<1>2. CASE ~h
  <2>1. p + Width(w, part, 4) = p
    BY <1>2 DEF Width
  <2>2. Repeated(Ints(b), Upto(cut, p), 0) = Answer(<<>>, Upto(cut, p))
    BY NoneRead
  <2> QED
    BY <1>2, <2>1, <2>2 DEF Optional
<1> QED
  BY <1>1, <1>2

\* The sizes are read if the table has them.
LEMMA SizesColumnOfCut ==
  ASSUME NEW w, IsTable(w), NEW cut, NEW b, IsCut(w, cut, b)
  PROVE  Repeated(SizePairs(b), Upto(cut, SizesOf(w)), IF Has(w.mask, 4) THEN Len(w.ids) ELSE 0)
           = Answer(Optional(w, 4, PairsUpto(w, cut, SizesOf(w), Len(w.ids))), Upto(cut, VersionsOf(w)))
<1> DEFINE h == Has(w.mask, 4)
           n == Len(w.ids)
           p == SizesOf(w)
<1>0. w.bytes \in Seq(Byte)
  BY DEF IsTable
<1>1. n \in Nat /\ p \in Nat /\ VersionsOf(w) = p + (IF h THEN 8 * n ELSE 0) /\ VersionsOf(w) \in Nat
      /\ CountsOf(w) = VersionsOf(w) + 4 * n /\ CountsOf(w) <= Len(w.bytes) /\ Len(w.bytes) \in Nat
  BY PartsFollow
<1>2. CASE h
  <2>1. VersionsOf(w) = p + 8 * n
    BY <1>1, <1>2
  <2>2. p + 8 * n <= Len(w.bytes)
    BY <1>1, <2>1
  <2>3. Repeated(SizePairs(b), Upto(cut, p), n) =
           Answer(PairsUpto(w, cut, p, n), Upto(cut, p + 8 * n))
    BY <1>0, <1>1, <2>2, SizesOfCut
  <2> QED
    BY <1>2, <2>1, <2>3 DEF Optional
<1>3. CASE ~h
  <2>1. VersionsOf(w) = p
    BY <1>1, <1>3
  <2>2. Repeated(SizePairs(b), Upto(cut, p), 0) = Answer(<<>>, Upto(cut, p))
    BY NoneRead
  <2> QED
    BY <1>3, <2>1, <2>2 DEF Optional
<1> QED
  BY <1>2, <1>3

\* The hashes, and where the whirlpools behind them end: each of those is read whole.
LEMMA HashesOfCut ==
  ASSUME NEW w, IsTable(w), NEW cut, NEW b, IsCut(w, cut, b), Has(w.mask, 2) => cut = Len(w.bytes)
  PROVE  HashesAndWhirlpools(b, Upto(cut, HashesOf(w)), Len(w.ids), w.mask)
           = Answer(Optional(w, 8, ColumnUpto(cut, HashesOf(w), w.hashes)), Upto(cut, SizesOf(w)))
<1> DEFINE n == Len(w.ids)
           p == HashesOf(w)
           q == WhirlpoolsOf(w)
           hashes == Repeated(Ints(b), Upto(cut, p), IF Has(w.mask, 8) THEN n ELSE 0)
           whirlpools == Repeated(Whirlpools(b), hashes.pos, IF Has(w.mask, 2) THEN n ELSE 0)
           u == Optional(w, 8, ColumnUpto(cut, p, w.hashes))
<1>0. w.bytes \in Seq(Byte) /\ (Has(w.mask, 8) => IsColumn(w, p, w.hashes, n))
  BY DEF IsTable, HasValues
<1>1. /\ n \in Nat /\ p \in Nat /\ q \in Nat /\ q = p + (IF Has(w.mask, 8) THEN 4 * n ELSE 0)
      /\ SizesOf(w) \in Nat /\ SizesOf(w) = q + (IF Has(w.mask, 2) THEN 64 * n ELSE 0)
      /\ SizesOf(w) <= Len(w.bytes) /\ Len(w.bytes) \in Nat
  <2>1. /\ SizesOf(w) \in Nat /\ VersionsOf(w) \in Nat /\ n \in Nat /\ Len(w.bytes) \in Nat
        /\ VersionsOf(w) = SizesOf(w) + (IF Has(w.mask, 4) THEN 8 * n ELSE 0)
        /\ CountsOf(w) = VersionsOf(w) + 4 * n /\ CountsOf(w) <= Len(w.bytes)
    BY PartsFollow
  <2>2. SizesOf(w) <= Len(w.bytes)
    BY <2>1
  <2> QED
    BY <2>2, PartsFollow
<1>2. hashes = Answer(u, Upto(cut, q))
  <2>1. IsOptional(w, 8, p, w.hashes) /\ q = p + Width(w, 8, 4)
    BY <1>0 DEF IsOptional, WhirlpoolsOf
  <2> QED
    BY <1>0, <1>1, <2>1, OptionalOfCut
<1> HIDE DEF hashes, u
<1>3. hashes.value = u /\ hashes.pos = Upto(cut, q)
  BY <1>2 DEF Answer
<1>4. whirlpools.pos = Upto(cut, SizesOf(w))
  <2>1. CASE Has(w.mask, 2)
    <3>1. b \in Seq(Byte) /\ Len(b) = cut /\ cut = Len(w.bytes)
      BY <1>0, <2>1, CutBytes
    <3>2. q + 64 * n <= Len(b) /\ SizesOf(w) = q + 64 * n
      BY <1>1, <2>1, <3>1
    <3>3. Upto(cut, q) = q /\ Upto(cut, SizesOf(w)) = SizesOf(w)
      BY <1>1, <3>1, <3>2, SMTT(20) DEF Upto
    <3>4. Repeated(Whirlpools(b), q, n).pos = q + 64 * n
      BY <1>1, <3>1, <3>2, WhirlpoolsOfCut, SMTT(20)
    <3> QED
      BY <1>3, <2>1, <3>2, <3>3, <3>4
  <2>2. CASE ~Has(w.mask, 2)
    <3>1. SizesOf(w) = q
      BY <1>1, <2>2
    <3>2. Repeated(Whirlpools(b), Upto(cut, q), 0) = Answer(<<>>, Upto(cut, q))
      BY NoneRead
    <3> QED
      BY <1>3, <2>2, <3>1, <3>2 DEF Answer
  <2> QED
    BY <2>1, <2>2
<1>5. HashesAndWhirlpools(b, Upto(cut, p), n, w.mask) = Answer(hashes.value, whirlpools.pos)
  BY DEF HashesAndWhirlpools, hashes
<1> QED
  BY <1>3, <1>4, <1>5 DEF u

\* What is read of the parts of a beginning of a table.
LEMMA ColumnsOfCut ==
  ASSUME NEW w, IsTable(w), NEW cut, NEW b, IsCut(w, cut, b), Has(w.mask, 2) => cut = Len(w.bytes),
         NEW head, head.format = w.format, head.mask = w.mask, head.count = Len(w.ids),
         head.pos = Upto(cut, w.ends.ids[0])
  PROVE  LET columns == TableColumns(b, head) IN
         /\ columns.ids = IdsUpto(w, cut)
         /\ columns.names = Optional(w, 1, ColumnUpto(cut, NamesOf(w), w.names))
         /\ columns.crcs = ColumnUpto(cut, CrcsOf(w), w.crcs)
         /\ columns.hashes = Optional(w, 8, ColumnUpto(cut, HashesOf(w), w.hashes))
         /\ columns.sizes = Optional(w, 4, PairsUpto(w, cut, SizesOf(w), Len(w.ids)))
         /\ columns.versions = ColumnUpto(cut, VersionsOf(w), w.versions)
         /\ columns.files = RowsUpto(w, cut)
         /\ columns.fileNames = Rows(Ints(b), Upto(cut, w.ends.rows[Len(w.ids)]),
                                     IF Has(w.mask, 1) THEN CountsUpto(w, cut) ELSE <<>>).value
<1> DEFINE ints == Ints(b)
           numbers == Numbers(b, head.format)
           n == head.count
           Only(part) == IF Has(head.mask, part) THEN n ELSE 0
           ids == Repeated(numbers, head.pos, n)
           names == Repeated(ints, ids.pos, Only(1))
           crcs == Repeated(ints, names.pos, n)
           hashes == HashesAndWhirlpools(b, crcs.pos, n, head.mask)
           sizes == Repeated(SizePairs(b), hashes.pos, Only(4))
           versions == Repeated(ints, sizes.pos, n)
           counts == Repeated(numbers, versions.pos, n)
           files == Rows(numbers, counts.pos, counts.value)
           fileNames == Rows(ints, files.pos, IF Has(head.mask, 1) THEN counts.value ELSE <<>>)
<1>0. /\ w.bytes \in Seq(Byte) /\ (Has(w.mask, 1) => IsColumn(w, NamesOf(w), w.names, Len(w.ids)))
      /\ IsColumn(w, CrcsOf(w), w.crcs, Len(w.ids)) /\ IsColumn(w, VersionsOf(w), w.versions, Len(w.ids))
  BY DEF IsTable, HasValues
<1>1. ids = Answer(IdsUpto(w, cut), Upto(cut, NamesOf(w)))
  BY IdsOfCut
<1>2. ids.value = IdsUpto(w, cut) /\ ids.pos = Upto(cut, NamesOf(w))
  BY <1>1 DEF Answer
<1> HIDE DEF ids
<1>3. names = Answer(Optional(w, 1, ColumnUpto(cut, NamesOf(w), w.names)), Upto(cut, CrcsOf(w)))
  <2>1. NamesOf(w) \in Nat /\ Len(w.ids) \in Nat
    BY PartsFollow
  <2>3. IsOptional(w, 1, NamesOf(w), w.names) /\ CrcsOf(w) = NamesOf(w) + Width(w, 1, 4)
    BY <1>0 DEF IsOptional, CrcsOf
  <2>2. Repeated(Ints(b), Upto(cut, NamesOf(w)), IF Has(w.mask, 1) THEN Len(w.ids) ELSE 0)
          = Answer(Optional(w, 1, ColumnUpto(cut, NamesOf(w), w.names)), Upto(cut, CrcsOf(w)))
    BY <1>0, <2>1, <2>3, OptionalOfCut
  <2> QED
    BY <1>2, <2>2
<1>4. names.value = Optional(w, 1, ColumnUpto(cut, NamesOf(w), w.names)) /\ names.pos = Upto(cut, CrcsOf(w))
  BY <1>3 DEF Answer
<1> HIDE DEF names
<1>5. crcs = Answer(ColumnUpto(cut, CrcsOf(w), w.crcs), Upto(cut, HashesOf(w)))
  <2>1. CrcsOf(w) \in Nat /\ Len(w.ids) \in Nat /\ HashesOf(w) = CrcsOf(w) + 4 * Len(w.ids)
    BY PartsFollow
  <2>2. Repeated(Ints(b), Upto(cut, CrcsOf(w)), Len(w.ids))
          = Answer(ColumnUpto(cut, CrcsOf(w), w.crcs), Upto(cut, CrcsOf(w) + 4 * Len(w.ids)))
    BY <1>0, <2>1, ColumnOfCut
  <2> QED
    BY <1>4, <2>1, <2>2
<1>6. crcs.value = ColumnUpto(cut, CrcsOf(w), w.crcs) /\ crcs.pos = Upto(cut, HashesOf(w))
  BY <1>5 DEF Answer
<1> HIDE DEF crcs
<1>7. hashes = Answer(Optional(w, 8, ColumnUpto(cut, HashesOf(w), w.hashes)), Upto(cut, SizesOf(w)))
  BY <1>6, HashesOfCut
<1>8. hashes.value = Optional(w, 8, ColumnUpto(cut, HashesOf(w), w.hashes)) /\ hashes.pos = Upto(cut, SizesOf(w))
  BY <1>7 DEF Answer
<1> HIDE DEF hashes
<1>9. sizes = Answer(Optional(w, 4, PairsUpto(w, cut, SizesOf(w), Len(w.ids))), Upto(cut, VersionsOf(w)))
  BY <1>8, SizesColumnOfCut
<1>10. sizes.value = Optional(w, 4, PairsUpto(w, cut, SizesOf(w), Len(w.ids))) /\ sizes.pos = Upto(cut, VersionsOf(w))
  BY <1>9 DEF Answer
<1> HIDE DEF sizes
<1>11. versions = Answer(ColumnUpto(cut, VersionsOf(w), w.versions), Upto(cut, CountsOf(w)))
  <2>1. VersionsOf(w) \in Nat /\ Len(w.ids) \in Nat /\ CountsOf(w) = VersionsOf(w) + 4 * Len(w.ids)
    BY PartsFollow
  <2>2. Repeated(Ints(b), Upto(cut, VersionsOf(w)), Len(w.ids))
          = Answer(ColumnUpto(cut, VersionsOf(w), w.versions), Upto(cut, VersionsOf(w) + 4 * Len(w.ids)))
    BY <1>0, <2>1, ColumnOfCut
  <2> QED
    BY <1>10, <2>1, <2>2
<1>12. versions.value = ColumnUpto(cut, VersionsOf(w), w.versions) /\ versions.pos = Upto(cut, CountsOf(w))
  BY <1>11 DEF Answer
<1> HIDE DEF versions
<1>13. counts = Answer(CountsUpto(w, cut), Upto(cut, w.ends.rows[0]))
  BY <1>12, CountsOfCut
<1>14. counts.value = CountsUpto(w, cut) /\ counts.pos = Upto(cut, w.ends.rows[0])
  BY <1>13 DEF Answer
<1> HIDE DEF counts
<1>15. files = Answer(RowsUpto(w, cut), Upto(cut, w.ends.rows[Len(w.ids)]))
  BY <1>14, RowsOfCut
<1>16. files.value = RowsUpto(w, cut) /\ files.pos = Upto(cut, w.ends.rows[Len(w.ids)])
  BY <1>15 DEF Answer
<1> HIDE DEF files
<1>17. fileNames.value = Rows(Ints(b), Upto(cut, w.ends.rows[Len(w.ids)]),
                              IF Has(w.mask, 1) THEN CountsUpto(w, cut) ELSE <<>>).value
  BY <1>14, <1>16
<1> HIDE DEF fileNames
<1>18. TableColumns(b, head) =
         [ids |-> ids.value, names |-> names.value, crcs |-> crcs.value, hashes |-> hashes.value,
          sizes |-> sizes.value, versions |-> versions.value, files |-> files.value,
          fileNames |-> fileNames.value]
  BY DEF TableColumns, ids, names, crcs, hashes, sizes, versions, counts, files, fileNames
<1> QED
  BY <1>2, <1>4, <1>6, <1>8, <1>10, <1>12, <1>16, <1>17, <1>18

\* Positions that do not fall from one to the next do not fall at all.
LEMMA RisesPairs ==
  ASSUME NEW n \in Nat, NEW e \in [0 .. n -> Nat], \A i \in 1 .. n : e[i - 1] <= e[i]
  PROVE  \A j \in 0 .. n : \A i \in 0 .. j : e[i] <= e[j]
<1> SUFFICES ASSUME NEW j \in 0 .. n PROVE \A i \in 0 .. j : e[i] <= e[j]
  OBVIOUS
<1> DEFINE d == [k \in 0 .. j |-> e[k]]
<1>1. j \in Nat
  OBVIOUS
<1>2. d \in [0 .. j -> Nat]
  OBVIOUS
<1>3. \A k \in 1 .. j : d[k - 1] <= d[k]
  <2> SUFFICES ASSUME NEW k \in 1 .. j PROVE d[k - 1] <= d[k]
    OBVIOUS
  <2>1. k \in 1 .. n /\ k - 1 \in 0 .. j /\ k \in 0 .. j
    BY <1>1
  <2>2. d[k - 1] = e[k - 1] /\ d[k] = e[k]
    BY <2>1
  <2> QED
    BY <2>1, <2>2
<1>4. \A k \in 0 .. j : d[k] = e[k]
  OBVIOUS
<1> HIDE DEF d
<1>5. \A i \in 0 .. j : d[i] <= d[j]
  BY <1>1, <1>2, <1>3, Rises
<1> QED
  BY <1>1, <1>4, <1>5

\* Up to some number of them are not cut off.
LEMMA CutPoint ==
  ASSUME NEW n \in Nat, NEW ends \in [0 .. n -> Nat], \A i \in 1 .. n : ends[i - 1] < ends[i], NEW cut \in Nat
  PROVE  \E k \in 0 .. n : \A i \in 1 .. n : ends[i] <= cut <=> i <= k
<1> DEFINE U == {i \in 1 .. n + 1 : i = n + 1 \/ ~(ends[i] <= cut)}
<1>1. U \in SUBSET Nat /\ U # {}
  <2>1. n + 1 \in 1 .. n + 1
    OBVIOUS
  <2>2. n + 1 \in U
    BY <2>1
  <2>3. U \in SUBSET Nat
    OBVIOUS
  <2> HIDE DEF U
  <2> QED
    BY <2>2, <2>3
<1>2. PICK m \in U : \A i \in U : m <= i
  BY <1>1, LeastExists
<1>3. m \in 1 .. n + 1
  OBVIOUS
<1>4. \A i \in 1 .. n : ends[i - 1] <= ends[i]
  <2> SUFFICES ASSUME NEW i \in 1 .. n PROVE ends[i - 1] <= ends[i]
    OBVIOUS
  <2>1. i - 1 \in 0 .. n /\ i \in 0 .. n
    OBVIOUS
  <2>2. ends[i - 1] \in Nat /\ ends[i] \in Nat /\ ends[i - 1] < ends[i]
    BY <2>1
  <2> QED
    BY <2>2
<1>5. \A j \in 0 .. n : \A i \in 0 .. j : ends[i] <= ends[j]
  BY <1>4, RisesPairs
<1>6. ASSUME NEW i \in 1 .. n, ends[i] <= cut PROVE i <= m - 1
  <2> SUFFICES ASSUME ~(i <= m - 1) PROVE FALSE
    OBVIOUS
  <2>1. m \in 1 .. n /\ m \in 0 .. i /\ i \in 0 .. n
    BY <1>3
  <2>2. ~(ends[m] <= cut)
    BY <2>1
  <2>3. ends[m] <= ends[i]
    BY <1>5, <2>1
  <2>4. ends[m] \in Nat /\ ends[i] \in Nat
    BY <2>1
  <2> QED
    BY <1>6, <2>2, <2>3, <2>4
<1>7. ASSUME NEW i \in 1 .. n, i <= m - 1 PROVE ends[i] <= cut
  <2>1. ~(m <= i)
    BY <1>3, <1>7
  <2>2. i \notin U
    BY <1>2, <2>1
  <2> QED
    BY <2>2
<1>8. m - 1 \in 0 .. n
  BY <1>3
<1> QED
  BY <1>6, <1>7, <1>8

\* What the differences of a column add up to where some of them are cut off: the values
\* that are there, and then the last of them, or 0, again and again.
AreSums(t, s, ends, cut, n) ==
  /\ t \in Seq(Nat) /\ Len(t) = n
  /\ \A i \in 1 .. n : t[i] = 0 \/ \E j \in 1 .. n : t[i] = s[j]
  /\ \A i \in 1 .. n : ends[i] <= cut => t[i] = s[i]
  /\ \A j \in 1 .. n : \A i \in 1 .. j : t[i] <= t[j]

\* Sums of differences that are cut off are such.
LEMMA SumsOfCut ==
  ASSUME NEW n \in Nat, NEW ends \in [0 .. n -> Nat], \A i \in 1 .. n : ends[i - 1] < ends[i], NEW cut \in Nat,
         NEW s \in Seq(Nat), Len(s) = n, Rising(s),
         NEW u, u = [i \in 1 .. n |-> Until(cut, ends[i], Difference(s, i))]
  PROVE  AreSums(Sums(u), s, ends, cut, n)
<1>1. PICK k \in 0 .. n : \A i \in 1 .. n : ends[i] <= cut <=> i <= k
  BY CutPoint
<1> DEFINE last == IF k = 0 THEN 0 ELSE s[k]
           t == [i \in 1 .. n |-> IF i <= k THEN s[i] ELSE last]
<1>2. \A i \in 1 .. n : s[i] \in Nat
  OBVIOUS
<1>3. last \in Nat /\ (last = 0 \/ \E j \in 1 .. n : last = s[j]) /\ (k > 0 => k \in 1 .. n /\ last = s[k]) /\ (k = 0 => last = 0)
  <2>1. k # 0 => k \in 1 .. n
    OBVIOUS
  <2> QED
    BY <1>2, <2>1
<1> HIDE DEF last
<1>4. \A i \in 1 .. n : t[i] = IF i <= k THEN s[i] ELSE last
  OBVIOUS
<1>5. t \in Seq(Nat) /\ Len(t) = n
  <2>1. \A i \in 1 .. n : (IF i <= k THEN s[i] ELSE last) \in Nat
    BY <1>2, <1>3
  <2>2. t \in [1 .. n -> Nat]
    BY <2>1
  <2> QED
    BY <2>2
<1>6. \A i \in 1 .. n : u[i] = IF i <= k THEN Difference(s, i) ELSE 0
  BY <1>1 DEF Until
<1>7. u \in Seq(Int) /\ Len(u) = n
  <2>1. \A i \in 1 .. n : Difference(s, i) \in Int
    <3> SUFFICES ASSUME NEW i \in 1 .. n PROVE Difference(s, i) \in Int
      OBVIOUS
    <3>1. i # 1 => i - 1 \in 1 .. n
      OBVIOUS
    <3> QED
      BY <1>2, <3>1 DEF Difference
  <2>2. \A i \in 1 .. n : Until(cut, ends[i], Difference(s, i)) \in Int
    BY <2>1 DEF Until
  <2>3. u \in [1 .. n -> Int]
    BY <2>2
  <2> QED
    BY <2>3
<1> HIDE DEF t
<1>8. \A i \in 1 .. n : t[i] = u[i] + (IF i = 1 THEN 0 ELSE t[i - 1])
  <2> SUFFICES ASSUME NEW i \in 1 .. n PROVE t[i] = u[i] + (IF i = 1 THEN 0 ELSE t[i - 1])
    OBVIOUS
  <2>1. i # 1 => i - 1 \in 1 .. n /\ t[i - 1] = (IF i - 1 <= k THEN s[i - 1] ELSE last) /\ s[i - 1] \in Nat
    BY <1>2, <1>4
  <2>2. t[i] = (IF i <= k THEN s[i] ELSE last) /\ u[i] = (IF i <= k THEN Difference(s, i) ELSE 0) /\ s[i] \in Nat
    BY <1>2, <1>4, <1>6
  <2>3. CASE i <= k
    <3>1. i # 1 => t[i - 1] = s[i - 1] /\ s[i - 1] \in Nat
      BY <2>1, <2>3
    <3>2. u[i] = s[i] - (IF i = 1 THEN 0 ELSE s[i - 1]) /\ t[i] = s[i]
      BY <2>2, <2>3 DEF Difference
    <3>3. CASE i = 1
      <4>1. u[i] = s[i] - 0
        BY <3>2, <3>3
      <4>2. u[i] = s[i] /\ u[i] \in Nat
        BY <2>2, <4>1
      <4>3. t[i] = u[i] + 0
        BY <3>2, <4>2
      <4> QED
        BY <3>3, <4>3
    <3>4. CASE i # 1
      <4>1. u[i] = s[i] - s[i - 1] /\ t[i - 1] = s[i - 1] /\ s[i - 1] \in Nat
        BY <3>1, <3>2, <3>4
      <4>3. \A a, c \in Int : a = (a - c) + c
        OBVIOUS
      <4>4. s[i] = (s[i] - s[i - 1]) + s[i - 1]
        BY <2>2, <4>1, <4>3, SMTT(20)
      <4>5. t[i] = s[i]
        BY <3>2
      <4>2. t[i] = u[i] + t[i - 1]
        BY <4>1, <4>4, <4>5
      <4> QED
        BY <3>4, <4>2
    <3> QED
      BY <3>3, <3>4
  <2>4. CASE ~(i <= k)
    <3>1. t[i] = last /\ u[i] = 0
      BY <2>2, <2>4
    <3>2. i = 1 => last = 0
      BY <1>3, <2>4
    <3>3. i # 1 => t[i - 1] = last
      <4>1. i # 1 /\ i - 1 <= k => i - 1 = k /\ k > 0
        BY <2>4
      <4> QED
        BY <1>3, <2>1, <4>1
    <3>4. CASE i = 1
      BY <3>1, <3>2, <3>4
    <3>5. CASE i # 1
      <4>2. last = 0 + last
        BY <1>3
      <4>3. t[i - 1] = last
        BY <3>3, <3>5
      <4>1. t[i] = u[i] + t[i - 1]
        BY <3>1, <4>2, <4>3
      <4> QED
        BY <3>5, <4>1
    <3> QED
      BY <3>4, <3>5
  <2> QED
    BY <2>3, <2>4
<1>9. Sums(u) = t
  <2>1. t \in Seq(Int)
    BY <1>5
  <2> QED
    BY <1>5, <1>7, <1>8, <2>1, SumsAre
<1>10. \A i \in 1 .. n : t[i] = 0 \/ \E j \in 1 .. n : t[i] = s[j]
  BY <1>3, <1>4
<1>11. \A i \in 1 .. n : ends[i] <= cut => t[i] = s[i]
  BY <1>1, <1>4
<1>12. \A j \in 1 .. n : \A i \in 1 .. j : t[i] <= t[j]
  <2> SUFFICES ASSUME NEW j \in 1 .. n, NEW i \in 1 .. j PROVE t[i] <= t[j]
    OBVIOUS
  <2>1. i \in 1 .. n /\ s[i] \in Nat /\ s[j] \in Nat
    BY <1>2
  <2>2. \A x, y \in 1 .. n : x <= y => s[x] <= s[y]
    <3> SUFFICES ASSUME NEW x \in 1 .. n, NEW y \in 1 .. n, x <= y PROVE s[x] <= s[y]
      OBVIOUS
    <3>3. DOMAIN s = 1 .. n /\ (x # y => x < y)
      OBVIOUS
    <3>1. x # y => s[x] < s[y]
      BY <3>3 DEF Rising
    <3>2. s[x] \in Nat /\ s[y] \in Nat
      BY <1>2
    <3> QED
      BY <3>1, <3>2, SMTT(20)
  <2>3. t[i] = (IF i <= k THEN s[i] ELSE last) /\ t[j] = (IF j <= k THEN s[j] ELSE last)
    BY <1>4, <2>1
  <2>4. CASE j <= k
    <3>1. t[i] = s[i] /\ t[j] = s[j]
      BY <2>1, <2>3, <2>4
    <3> QED
      BY <2>1, <2>2, <3>1
  <2>5. CASE ~(j <= k) /\ i <= k
    <3>1. k \in 1 .. n /\ last = s[k] /\ t[i] = s[i] /\ t[j] = s[k]
      BY <1>3, <2>1, <2>3, <2>5
    <3> QED
      BY <2>1, <2>2, <2>5, <3>1
  <2>6. CASE ~(j <= k) /\ ~(i <= k)
    BY <1>3, <2>3, <2>6
  <2> QED
    BY <2>4, <2>5, <2>6
<1> QED
  BY <1>5, <1>9, <1>10, <1>11, <1>12 DEF AreSums

\* A sequence that does not fall is what a multiset holds of it.
LEMMA InsertedLast ==
  ASSUME NEW t \in Seq(Nat), NEW i \in 1 .. Len(t), \A j \in 1 .. i : t[j] <= t[i]
  PROVE  Inserted(SubSeq(t, 1, i - 1), t[i]) = SubSeq(t, 1, i)
<1> DEFINE s == SubSeq(t, 1, i - 1)
           x == t[i]
           m == i - 1
           P == {j \in DOMAIN s : s[j] <= x}
<1>1. m \in Nat /\ s \in Seq(Nat) /\ Len(s) = m /\ \A j \in 1 .. m : s[j] = t[j]
  OBVIOUS
<1>2. Append(s, x) = SubSeq(t, 1, i)
  BY Grows
<1>3. x \in Nat /\ \A j \in 1 .. m : t[j] <= x
  OBVIOUS
<1> HIDE DEF s, x, m
<1>4. P = 1 .. m
  BY <1>1, <1>3
<1>5. Cardinality(P) = m
  <2>1. 1 \in Int /\ m \in Int /\ m - 1 + 1 = m
    BY <1>1
  <2>2. Cardinality(1 .. m) = IF 1 > m THEN 0 ELSE m - 1 + 1
    BY <2>1, FS_Interval
  <2>3. (IF 1 > m THEN 0 ELSE m - 1 + 1) = m
    BY <1>1
  <2>4. Cardinality(P) = Cardinality(1 .. m)
    BY <1>4
  <2> QED
    BY <2>2, <2>3, <2>4
<1>6. Inserted(s, x) = SubSeq(s, 1, m) \o <<x>> \o SubSeq(s, m + 1, m)
  BY <1>1, <1>5 DEF Inserted
<1>7. SubSeq(s, 1, m) = s /\ SubSeq(s, m + 1, m) = <<>>
  BY <1>1
<1>8. s \o <<x>> \o <<>> = Append(s, x)
  BY <1>1, <1>3
<1> QED
  BY <1>2, <1>6, <1>7, <1>8 DEF s, x

\* All of them are inserted last.
LEMMA MultisetIs ==
  ASSUME NEW n \in Nat, NEW t \in Seq(Nat), Len(t) = n, \A j \in 1 .. n : \A i \in 1 .. j : t[i] <= t[j]
  PROVE  Multiset(t) = t
<1> DEFINE g == [i \in 0 .. n |-> SubSeq(t, 1, i)]
           f == CHOOSE f : f = [i \in 0 .. n |-> IF i = 0 THEN <<>> ELSE Inserted(f[i - 1], t[i])]
<1>1. \A i \in 1 .. n : Inserted(SubSeq(t, 1, i - 1), t[i]) = SubSeq(t, 1, i)
  BY InsertedLast
<1>2. Multiset(t) = f[n]
  BY DEF Multiset
<1>3. SubSeq(t, 1, 0) = <<>> /\ SubSeq(t, 1, n) = t
  OBVIOUS
<1>4. g[0] = <<>> /\ \A i \in 1 .. n : g[i] = Inserted(g[i - 1], t[i])
  <2>1. \A i \in 0 .. n : g[i] = SubSeq(t, 1, i)
    OBVIOUS
  <2> HIDE DEF g
  <2>2. g[0] = <<>>
    BY <1>3, <2>1
  <2>3. ASSUME NEW i \in 1 .. n PROVE g[i] = Inserted(g[i - 1], t[i])
    <3>1. g[i - 1] = SubSeq(t, 1, i - 1) /\ g[i] = SubSeq(t, 1, i)
      BY <2>1
    <3> QED
      BY <1>1, <3>1
  <2> QED
    BY <2>2, <2>3
<1>5. g = [i \in 0 .. n |-> IF i = 0 THEN <<>> ELSE Inserted(g[i - 1], t[i])]
  <2>1. \A i \in 0 .. n : g[i] = IF i = 0 THEN <<>> ELSE Inserted(g[i - 1], t[i])
    <3> HIDE DEF g
    <3> QED
      BY <1>4
  <2> QED
    BY <2>1
<1>6. f = [i \in 0 .. n |-> IF i = 0 THEN <<>> ELSE Inserted(f[i - 1], t[i])]
  <2> HIDE DEF g
  <2> QED
    BY <1>5
<1>7. g[n] = t
  BY <1>3
<1> HIDE DEF f, g
<1>8. f[0] = <<>> /\ \A i \in 1 .. n : f[i] = Inserted(f[i - 1], t[i])
  BY <1>6
<1>9. f[n] = g[n]
  BY <1>4, <1>8, Unrolled
<1> QED
  BY <1>2, <1>7, <1>9

\* Of rows of which all but the j-th are left out, the j-th.
LEMMA OnlyRow ==
  ASSUME NEW n \in Nat, NEW j \in 1 .. n, NEW T, NEW row \in Seq(T), NEW seqs \in Seq(Seq(T)), Len(seqs) = n,
         \A i \in 1 .. n : seqs[i] = IF i = j THEN row ELSE <<>>
  PROVE  FlattenSeq(seqs) = row
<1> DEFINE e == [i \in 0 .. n |-> IF i < j THEN 0 ELSE Len(row)]
<1>1. e \in [0 .. n -> Nat] /\ e[0] = 0 /\ e[n] = Len(row) /\ Len(row) \in Nat
  OBVIOUS
<1>2. ASSUME NEW i \in 1 .. n
      PROVE  e[i] = e[i - 1] + Len(seqs[i]) /\ e[i] <= Len(row) /\ SubSeq(row, e[i - 1] + 1, e[i]) = seqs[i]
  <2>1. e[i] = (IF i < j THEN 0 ELSE Len(row)) /\ e[i - 1] = (IF i - 1 < j THEN 0 ELSE Len(row))
    OBVIOUS
  <2>2. CASE i < j
    <3>1. e[i] = 0 /\ e[i - 1] = 0 /\ seqs[i] = <<>>
      BY <2>1, <2>2
    <3> QED
      BY <1>1, <3>1
  <2>3. CASE i = j
    <3>1. e[i] = Len(row) /\ e[i - 1] = 0 /\ seqs[i] = row
      BY <2>1, <2>3
    <3> QED
      BY <1>1, <3>1
  <2>4. CASE i > j
    <3>1. e[i] = Len(row) /\ e[i - 1] = Len(row) /\ seqs[i] = <<>>
      BY <2>1, <2>4
    <3> QED
      BY <1>1, <3>1
  <2> QED
    BY <2>2, <2>3, <2>4
<1> HIDE DEF e
<1>3. AreParts(seqs, row, e, n)
  BY <1>1, <1>2 DEF AreParts
<1> QED
  BY <1>3, FlatIs

\* Of rows that are all left out, nothing.
LEMMA NoRow ==
  ASSUME NEW n \in Nat, NEW seqs \in Seq(Seq(Nat)), Len(seqs) = n, \A i \in 1 .. n : seqs[i] = <<>>
  PROVE  FlattenSeq(seqs) = <<>>
<1> DEFINE e == [i \in 0 .. n |-> 0]
           none == <<>>
<1>1. e \in [0 .. n -> Nat] /\ e[0] = 0 /\ e[n] = Len(none) /\ none \in Seq(Nat)
  OBVIOUS
<1>2. ASSUME NEW i \in 1 .. n
      PROVE  e[i] = e[i - 1] + Len(seqs[i]) /\ e[i] <= Len(none) /\ SubSeq(none, e[i - 1] + 1, e[i]) = seqs[i]
  <2>1. e[i] = 0 /\ e[i - 1] = 0 /\ seqs[i] = <<>>
    OBVIOUS
  <2> QED
    BY <2>1
<1> HIDE DEF e
<1>3. AreParts(seqs, none, e, n)
  BY <1>1, <1>2 DEF AreParts
<1> HIDE DEF none
<1>4. FlattenSeq(seqs) = none
  BY <1>1, <1>3, FlatIs
<1> QED
  BY <1>4 DEF none

\* The ids of the files of an archive, where some of them are cut off.
LEMMA FileIdsOfCut ==
  ASSUME NEW w, IsTable(w), NEW cut, NEW b, IsCut(w, cut, b), NEW i \in 1 .. Len(w.ids)
  PROVE  LET t == Sums(RowUpto(w, cut, i)) IN
         /\ t \in Seq(Nat)
         /\ \A k \in 1 .. Len(t) : t[k] = 0 \/ \E g \in 1 .. Len(w.files[i]) : t[k] = w.files[i][g]
         /\ \A j \in 1 .. Len(t) : \A k \in 1 .. j : t[k] <= t[j]
         /\ ~(w.ends.counts[i] <= cut) => t = <<>>
         /\ cut = Len(w.bytes) => t = w.files[i]
<1> DEFINE m == Len(w.files[i])
           s == w.files[i]
           ends == w.ends.files[i]
           row == RowUpto(w, cut, i)
           t == Sums(row)
<1>0. w.bytes \in Seq(Byte) /\ cut \in Nat
  BY CutBytes DEF IsTable
<1>1. /\ s \in Seq(Nat) /\ Rising(s) /\ ends \in [0 .. m -> Nat]
      /\ \A f \in 1 .. m : IsNumber(w, ends[f - 1], ends[f], Difference(s, f))
      /\ w.ends.counts[i - 1] \in Nat /\ IsNumber(w, w.ends.counts[i - 1], w.ends.counts[i], m)
  BY FilesFacts
<1>2. m \in Nat
  BY <1>1
<1>3. ASSUME NEW f \in 1 .. m PROVE ends[f - 1] < ends[f] /\ ends[f] <= Len(w.bytes)
  <2>0. f - 1 \in 0 .. m
    BY <1>2
  <2>2. ends[f - 1] \in Nat
    BY <1>1, <2>0
  <2>1. IsNumber(w, ends[f - 1], ends[f], Difference(s, f))
    BY <1>1
  <2> QED
    BY <1>0, <2>1, <2>2, NumberType
<1>4. w.ends.counts[i] <= Len(w.bytes)
  BY <1>0, <1>1, NumberType
<1>5. ASSUME w.ends.counts[i] <= cut PROVE AreSums(t, s, ends, cut, m)
  <2>1. row = [f \in 1 .. m |-> Until(cut, ends[f], Difference(s, f))]
    BY <1>5 DEF RowUpto, Until
  <2>2. \A f \in 1 .. m : ends[f - 1] < ends[f]
    BY <1>3
  <2>3. Len(s) = m
    OBVIOUS
  <2> HIDE DEF row, ends, s, m
  <2> QED
    BY <1>0, <1>1, <1>2, <2>1, <2>2, <2>3, SumsOfCut
<1>6. ASSUME ~(w.ends.counts[i] <= cut) PROVE t = <<>>
  <2>1. row = <<>>
    BY <1>6 DEF RowUpto, Until
  <2>2. <<>> \in Seq(Int) /\ Len(<<>>) = 0
    OBVIOUS
  <2> DEFINE e == <<>>
             z == 0
  <2>3. z \in Nat /\ e \in Seq(Int) /\ Len(e) = z /\ \A k \in 1 .. z : e[k] = e[k] + (IF k = 1 THEN 0 ELSE e[k - 1])
    OBVIOUS
  <2> HIDE DEF e, z
  <2>4. Sums(e) = e
    BY <2>3, SumsAre
  <2> QED
    BY <2>1, <2>4 DEF e
<1> HIDE DEF t
<1>7. CASE w.ends.counts[i] <= cut
  <2>1. /\ t \in Seq(Nat) /\ Len(t) = m
        /\ \A k \in 1 .. m : t[k] = 0 \/ \E g \in 1 .. m : t[k] = s[g]
        /\ \A k \in 1 .. m : ends[k] <= cut => t[k] = s[k]
        /\ \A j \in 1 .. m : \A k \in 1 .. j : t[k] <= t[j]
    BY <1>5, <1>7 DEF AreSums
  <2>2. ASSUME cut = Len(w.bytes) PROVE t = s
    <3>1. \A k \in 1 .. m : t[k] = s[k]
      BY <1>3, <2>1, <2>2
    <3>2. Len(s) = m
      OBVIOUS
    <3> HIDE DEF s, m
    <3> QED
      BY <1>1, <2>1, <3>1, <3>2, SameSeq
  <2> QED
    BY <1>7, <2>1, <2>2 DEF t
<1>8. CASE ~(w.ends.counts[i] <= cut)
  <2>1. t = <<>> /\ cut # Len(w.bytes)
    BY <1>4, <1>6, <1>8
  <2>2. Len(t) = 0 /\ t \in Seq(Nat)
    BY <2>1
  <2> QED
    BY <2>1, <2>2 DEF t
<1> QED
  BY <1>7, <1>8

\* The same of the ids of the archives.
LEMMA IdsAreSums ==
  ASSUME NEW w, IsTable(w), NEW cut, NEW b, IsCut(w, cut, b)
  PROVE  /\ AreSums(Sums(IdsUpto(w, cut)), w.ids, w.ends.ids, cut, Len(w.ids))
         /\ NamesOf(w) <= cut => Sums(IdsUpto(w, cut)) = w.ids
<1> DEFINE n == Len(w.ids)
           s == w.ids
           ends == w.ends.ids
           u == IdsUpto(w, cut)
<1>0. w.bytes \in Seq(Byte) /\ cut \in Nat
  BY CutBytes DEF IsTable
<1>1. /\ s \in Seq(Nat) /\ Rising(s) /\ ends \in [0 .. n -> Nat]
      /\ \A f \in 1 .. n : IsNumber(w, ends[f - 1], ends[f], Difference(s, f))
  BY DEF IsTable, HasArchiveIds
<1>2. n \in Nat /\ Len(s) = n
  BY <1>1
<1>3. ASSUME NEW f \in 1 .. n PROVE ends[f - 1] < ends[f]
  <2>0. f - 1 \in 0 .. n
    BY <1>2
  <2>2. ends[f - 1] \in Nat
    BY <1>1, <2>0
  <2>1. IsNumber(w, ends[f - 1], ends[f], Difference(s, f))
    BY <1>1
  <2> QED
    BY <1>0, <2>1, <2>2, NumberType
<1>4. AreSums(Sums(u), s, ends, cut, n)
  <2>1. u = [f \in 1 .. n |-> Until(cut, ends[f], Difference(s, f))]
    BY DEF IdsUpto
  <2> HIDE DEF u, ends, s, n
  <2> QED
    BY <1>0, <1>1, <1>2, <1>3, <2>1, SumsOfCut
<1>5. ASSUME NamesOf(w) <= cut PROVE Sums(u) = s
  <2> DEFINE t == Sums(u)
  <2>1. t \in Seq(Nat) /\ Len(t) = n /\ \A k \in 1 .. n : ends[k] <= cut => t[k] = s[k]
    BY <1>4 DEF AreSums
  <2>2. \A k \in 1 .. n : ends[k - 1] <= ends[k]
    <3> SUFFICES ASSUME NEW k \in 1 .. n PROVE ends[k - 1] <= ends[k]
      OBVIOUS
    <3>1. k - 1 \in 0 .. n /\ k \in 0 .. n
      BY <1>2
    <3>2. ends[k - 1] \in Nat /\ ends[k] \in Nat
      BY <1>1, <3>1
    <3> QED
      BY <1>3, <3>2
  <2>3. ends[n] <= cut
    BY <1>5 DEF NamesOf
  <2> HIDE DEF t, ends, s, n
  <2>4. \A k \in 0 .. n : ends[k] <= ends[n]
    BY <1>1, <1>2, <2>2, Rises
  <2>5. ASSUME NEW k \in 1 .. n PROVE t[k] = s[k]
    <3>1. ends[k] <= ends[n] /\ ends[k] \in Nat /\ ends[n] \in Nat
      BY <1>1, <1>2, <2>4
    <3>2. ends[k] <= cut
      BY <1>0, <2>3, <3>1
    <3> QED
      BY <2>1, <3>2
  <2>6. t = s
    BY <1>1, <1>2, <2>1, <2>5, SameSeq
  <2> QED
    BY <2>6 DEF t
<1> QED
  BY <1>4, <1>5

\* The numbers of the counts end behind where they begin.
LEMMA CountsEnd ==
  ASSUME NEW w, IsTable(w), NEW k \in 1 .. Len(w.ids)
  PROVE  CountsOf(w) <= w.ends.counts[k] /\ w.ends.counts[k] \in Nat
<1> DEFINE n == Len(w.ids)
           e == w.ends.counts
<1>0. n \in Nat /\ w.bytes \in Seq(Byte)
  BY DEF IsTable, HasArchiveIds
<1>1. e \in [0 .. n -> Nat] /\ e[0] = CountsOf(w) /\ \A i \in 1 .. n : IsNumber(w, e[i - 1], e[i], Len(w.files[i]))
  BY DEF IsTable, HasFiles
<1> HIDE DEF e
<1>2. ASSUME NEW i \in 1 .. n PROVE e[i - 1] <= e[i]
  <2>1. i - 1 \in 0 .. n /\ i \in 0 .. n
    BY <1>0
  <2>2. e[i - 1] \in Nat /\ e[i] \in Nat
    BY <1>1, <2>1
  <2>3. e[i - 1] < e[i]
    BY <1>0, <1>1, <2>2, NumberType
  <2> QED
    BY <2>2, <2>3
<1>3. 0 \in 0 .. k /\ k \in 0 .. n /\ k \in 1 .. n
  BY <1>0
<1> HIDE DEF n
<1>4. \A j \in 0 .. n : \A i \in 0 .. j : e[i] <= e[j]
  BY <1>0, <1>1, <1>2, RisesPairs
<1>5. e[0] <= e[k]
  BY <1>3, <1>4
<1> QED
  BY <1>1, <1>3, <1>5 DEF e

\* What a decoded table has of an id: the rows of the places that have it.
RowsAt(id, ids, rows) == FlattenSeq([i \in DOMAIN ids |-> IF ids[i] = id THEN rows[i] ELSE <<>>])

\* With the ids all different, that is the row of its place.
LEMMA RowAt ==
  ASSUME NEW n \in Nat, NEW ids \in Seq(Nat), Len(ids) = n, Rising(ids), NEW j \in 1 .. n,
         NEW T, NEW rows \in Seq(Seq(T)), Len(rows) = n
  PROVE  RowsAt(ids[j], ids, rows) = rows[j]
<1> DEFINE seqs == [i \in DOMAIN ids |-> IF ids[i] = ids[j] THEN rows[i] ELSE <<>>]
           row == rows[j]
<1>1. DOMAIN ids = 1 .. n /\ row \in Seq(T) /\ \A i \in 1 .. n : ids[i] \in Nat
  <2>1. \A i \in 1 .. n : rows[i] \in Seq(T)
    OBVIOUS
  <2>2. row \in Seq(T)
    BY <2>1
  <2>3. DOMAIN ids = 1 .. n /\ \A i \in 1 .. n : ids[i] \in Nat
    OBVIOUS
  <2> QED
    BY <2>2, <2>3
<1>2. \A i \in 1 .. n : ids[i] = ids[j] <=> i = j
  <2> SUFFICES ASSUME NEW i \in 1 .. n, ids[i] = ids[j] PROVE i = j
    OBVIOUS
  <2>2. \A x, y \in 1 .. n : x < y => ids[x] < ids[y]
    BY <1>1 DEF Rising
  <2>3. ids[i] \in Nat /\ ids[j] \in Nat /\ ~(ids[i] < ids[j]) /\ ~(ids[j] < ids[i])
    BY <1>1
  <2>1. ~(i < j) /\ ~(j < i)
    BY <2>2, <2>3
  <2> QED
    BY <2>1
<1>3. \A i \in 1 .. n : seqs[i] = IF i = j THEN row ELSE <<>>
  BY <1>1, <1>2
<1>4. seqs \in Seq(Seq(T)) /\ Len(seqs) = n
  <2>1. \A i \in 1 .. n : (IF ids[i] = ids[j] THEN rows[i] ELSE <<>>) \in Seq(T)
    OBVIOUS
  <2>2. seqs \in [1 .. n -> Seq(T)]
    BY <1>1, <2>1
  <2> HIDE DEF seqs
  <2> QED
    BY <2>2
<1>5. RowsAt(ids[j], ids, rows) = FlattenSeq(seqs)
  BY DEF RowsAt
<1> HIDE DEF seqs, row
<1>6. FlattenSeq(seqs) = row
  BY <1>1, <1>3, <1>4, OnlyRow
<1> QED
  BY <1>5, <1>6 DEF row

\* With the rows all empty, it is nothing.
LEMMA NothingAt ==
  ASSUME NEW n \in Nat, NEW ids \in Seq(Nat), Len(ids) = n, NEW id, NEW rows, \A i \in 1 .. n : rows[i] = <<>>
  PROVE  RowsAt(id, ids, rows) = <<>>
<1> DEFINE seqs == [i \in DOMAIN ids |-> IF ids[i] = id THEN rows[i] ELSE <<>>]
<1>1. DOMAIN ids = 1 .. n
  OBVIOUS
<1>2. \A i \in 1 .. n : seqs[i] = <<>>
  BY <1>1
<1>3. seqs \in Seq(Seq(Nat)) /\ Len(seqs) = n
  <2>1. \A i \in 1 .. n : (IF ids[i] = id THEN rows[i] ELSE <<>>) \in Seq(Nat)
    <3> SUFFICES ASSUME NEW i \in 1 .. n PROVE (IF ids[i] = id THEN rows[i] ELSE <<>>) \in Seq(Nat)
      OBVIOUS
    <3>1. rows[i] = <<>> /\ <<>> \in Seq(Nat)
      OBVIOUS
    <3> QED
      BY <3>1
  <2>2. seqs \in [1 .. n -> Seq(Nat)]
    BY <1>1, <2>1
  <2> HIDE DEF seqs
  <2> QED
    BY <2>2
<1>4. RowsAt(id, ids, rows) = FlattenSeq(seqs)
  BY DEF RowsAt
<1> HIDE DEF seqs
<1>5. FlattenSeq(seqs) = <<>>
  BY <1>2, <1>3, NoRow
<1> QED
  BY <1>4, <1>5

\* The ids of the files of a decoded archive.
LEMMA FileIdsOf ==
  ASSUME NEW b
  PROVE  LET head == TableHead(b)
             columns == TableColumns(b, head)
             ids == Sums(columns.ids)
             fileIds == [i \in 1 .. head.count |-> Sums(columns.files[i])]
             t == Table(b)
         IN  /\ t.archiveIds = ids /\ DOMAIN t.archives = Range(ids)
             /\ \A id \in Range(ids) : t.archives[id].fileIds = Multiset(RowsAt(id, ids, fileIds))
BY DEF Table, Declaring, ArchiveOf, RowsAt

\* The counts are behind the names.
LEMMA PartsRise ==
  ASSUME NEW w, IsTable(w)
  PROVE  NamesOf(w) <= CountsOf(w)
<1> DEFINE n == Len(w.ids)
<1>1. /\ n \in Nat /\ NamesOf(w) \in Nat /\ CrcsOf(w) \in Nat /\ HashesOf(w) \in Nat /\ WhirlpoolsOf(w) \in Nat
      /\ SizesOf(w) \in Nat /\ VersionsOf(w) \in Nat /\ CountsOf(w) \in Nat
      /\ CrcsOf(w) = NamesOf(w) + (IF Has(w.mask, 1) THEN 4 * n ELSE 0)
      /\ HashesOf(w) = CrcsOf(w) + 4 * n
      /\ WhirlpoolsOf(w) = HashesOf(w) + (IF Has(w.mask, 8) THEN 4 * n ELSE 0)
      /\ SizesOf(w) = WhirlpoolsOf(w) + (IF Has(w.mask, 2) THEN 64 * n ELSE 0)
      /\ VersionsOf(w) = SizesOf(w) + (IF Has(w.mask, 4) THEN 8 * n ELSE 0)
      /\ CountsOf(w) = VersionsOf(w) + 4 * n
  BY PartsFollow
<1>12. \A x, m \in Nat : x <= x + 4 * m /\ x <= x + 8 * m /\ x <= x + 64 * m /\ x <= x + 0
  OBVIOUS
<1>13. NamesOf(w) <= CrcsOf(w)
  <2>1. CASE Has(w.mask, 1)
    BY <1>1, <1>12, <2>1
  <2>2. CASE ~Has(w.mask, 1)
    BY <1>1, <1>12, <2>2
  <2> QED
    BY <2>1, <2>2
<1>14. HashesOf(w) <= WhirlpoolsOf(w)
  <2>1. CASE Has(w.mask, 8)
    BY <1>1, <1>12, <2>1
  <2>2. CASE ~Has(w.mask, 8)
    BY <1>1, <1>12, <2>2
  <2> QED
    BY <2>1, <2>2
<1>15. SizesOf(w) <= VersionsOf(w)
  <2>1. CASE Has(w.mask, 4)
    BY <1>1, <1>12, <2>1
  <2>2. CASE ~Has(w.mask, 4)
    BY <1>1, <1>12, <2>2
  <2> QED
    BY <2>1, <2>2
<1>16. WhirlpoolsOf(w) <= SizesOf(w)
  BY <1>1, <1>12
<1>6. CrcsOf(w) <= HashesOf(w) /\ VersionsOf(w) <= CountsOf(w)
  BY <1>1, <1>12
<1>7. \A x, y, z \in Nat : x <= y /\ y <= z => x <= z
  OBVIOUS
<1>8. NamesOf(w) <= HashesOf(w) /\ WhirlpoolsOf(w) <= VersionsOf(w)
  BY <1>1, <1>6, <1>7, <1>13, <1>15, <1>16
<1>9. NamesOf(w) <= WhirlpoolsOf(w) /\ WhirlpoolsOf(w) <= CountsOf(w)
  BY <1>1, <1>6, <1>7, <1>8, <1>14
<1>2. NamesOf(w) <= CountsOf(w)
  BY <1>1, <1>7, <1>9
<1> QED
  BY <1>2

\* A table that is cut off declares nothing but what the whole one does, and 0.
LEMMA CutDeclares ==
  ASSUME NEW w, IsTable(w), NEW cut, NEW b, IsCut(w, cut, b), cut > 0, ~Has(w.mask, 2)
  PROVE  LET t == Table(b) IN
         \A id \in DOMAIN t.archives :
           /\ id \in Range(w.ids) \cup {0}
           /\ Range(t.archives[id].fileIds) \subseteq {0} \cup UNION {Range(w.files[i]) : i \in DOMAIN w.files}
<1> DEFINE head == TableHead(b)
           columns == TableColumns(b, head)
           ids == Sums(columns.ids)
           fileIds == [i \in 1 .. head.count |-> Sums(columns.files[i])]
           archives == Table(b).archives
           n == Len(w.ids)
           All == {0} \cup UNION {Range(w.files[i]) : i \in DOMAIN w.files}
<1>0. w.ids \in Seq(Nat) /\ n \in Nat /\ cut \in Nat /\ Len(w.files) = n /\ w.files \in Seq(Seq(Nat))
  BY CutBytes DEF IsTable, HasArchiveIds, HasFiles
<1>1. DOMAIN archives = Range(ids) /\ \A id \in Range(ids) : archives[id].fileIds = Multiset(RowsAt(id, ids, fileIds))
  BY FileIdsOf
<1>2. /\ head.format = w.format /\ head.count = Until(cut, w.ends.ids[0], n) /\ head.pos = Upto(cut, w.ends.ids[0])
      /\ w.ends.ids[0] <= cut => head.version = w.version /\ head.mask = w.mask
  BY HeadOfCut
<1> SUFFICES \A id \in DOMAIN archives : id \in Range(w.ids) \cup {0} /\ Range(archives[id].fileIds) \subseteq All
  OBVIOUS
<1> HIDE DEF head, archives
<1>3. CASE ~(w.ends.ids[0] <= cut)
  <2>1. head.count = 0
    BY <1>2, <1>3 DEF Until
  <2>2. columns.ids = Repeated(Numbers(b, head.format), head.pos, head.count).value
    BY DEF TableColumns
  <2>3. Repeated(Numbers(b, head.format), head.pos, 0) = Answer(<<>>, head.pos)
    BY NoneRead
  <2>4. columns.ids = <<>>
    BY <2>1, <2>2, <2>3 DEF Answer
  <2> HIDE DEF columns
  <2> DEFINE e == <<>>
             z == 0
  <2>5. z \in Nat /\ e \in Seq(Int) /\ Len(e) = z /\ \A k \in 1 .. z : e[k] = e[k] + (IF k = 1 THEN 0 ELSE e[k - 1])
    OBVIOUS
  <2> HIDE DEF e, z
  <2>6. Sums(e) = e
    BY <2>5, SumsAre
  <2>7. ids = <<>>
    BY <2>4, <2>6 DEF e
  <2>8. Range(ids) = {}
    BY <2>7 DEF Range
  <2> QED
    BY <1>1, <2>8
<1>4. CASE w.ends.ids[0] <= cut
  <2>1. head.count = n /\ head.mask = w.mask
    BY <1>2, <1>4 DEF Until
  <2>2. columns.ids = IdsUpto(w, cut) /\ columns.files = RowsUpto(w, cut)
    BY <1>2, <2>1, ColumnsOfCut
  <2> HIDE DEF columns
  <2>3. AreSums(ids, w.ids, w.ends.ids, cut, n) /\ (NamesOf(w) <= cut => ids = w.ids)
    BY <2>2, IdsAreSums
  <2>4. ids \in Seq(Nat) /\ Len(ids) = n /\ \A i \in 1 .. n : ids[i] = 0 \/ \E j \in 1 .. n : ids[i] = w.ids[j]
    BY <2>3 DEF AreSums
  <2>5. \A i \in 1 .. n : fileIds[i] = Sums(RowUpto(w, cut, i))
    BY <2>1, <2>2 DEF RowsUpto
  <2>6. fileIds = [i \in 1 .. n |-> fileIds[i]]
    BY <2>1
  <2> HIDE DEF ids, fileIds
  <2> SUFFICES ASSUME NEW id \in Range(ids) PROVE id \in Range(w.ids) \cup {0} /\ Range(archives[id].fileIds) \subseteq All
    BY <1>1
  <2>7. PICK i \in 1 .. n : id = ids[i]
    BY <2>4 DEF Range
  <2>8. id \in Range(w.ids) \cup {0}
    <3>1. \A j \in 1 .. n : w.ids[j] \in Range(w.ids)
      BY <1>0 DEF Range
    <3> QED
      BY <2>4, <2>7, <3>1
  <2>9. archives[id].fileIds = Multiset(RowsAt(id, ids, fileIds))
    BY <1>1
  <2>10. CASE NamesOf(w) <= cut
    <3>1. ids = w.ids /\ Rising(ids)
      BY <2>3, <2>10 DEF IsTable, HasArchiveIds
    <3> DEFINE t == Sums(RowUpto(w, cut, i))
    <3>2. /\ t \in Seq(Nat) /\ \A j \in 1 .. Len(t) : \A k \in 1 .. j : t[k] <= t[j]
          /\ \A k \in 1 .. Len(t) : t[k] = 0 \/ \E g \in 1 .. Len(w.files[i]) : t[k] = w.files[i][g]
      BY FileIdsOfCut
    <3>3. fileIds \in Seq(Seq(Nat)) /\ Len(fileIds) = n
      <4>1. ASSUME NEW k \in 1 .. n PROVE fileIds[k] \in Seq(Nat)
        <5>1. Sums(RowUpto(w, cut, k)) \in Seq(Nat)
          BY FileIdsOfCut
        <5> QED
          BY <2>5, <5>1
      <4>2. fileIds \in [1 .. n -> Seq(Nat)]
        BY <2>6, <4>1
      <4> HIDE DEF n
      <4> QED
        BY <1>0, <4>2
    <3> HIDE DEF t
    <3>4. RowsAt(id, ids, fileIds) = fileIds[i]
      BY <1>0, <2>4, <2>7, <3>1, <3>3, RowAt
    <3>5. fileIds[i] = t
      BY <2>5 DEF t
    <3>6. Len(t) \in Nat
      BY <3>2
    <3>7. Multiset(t) = t
      BY <3>2, <3>6, MultisetIs
    <3>8. Range(t) \subseteq All
      <4> SUFFICES ASSUME NEW k \in 1 .. Len(t) PROVE t[k] \in All
        BY <3>2 DEF Range
      <4>1. i \in DOMAIN w.files /\ w.files[i] \in Seq(Nat)
        BY <1>0
      <4>2. \A g \in 1 .. Len(w.files[i]) : w.files[i][g] \in Range(w.files[i])
        BY <4>1 DEF Range
      <4>3. Range(w.files[i]) \subseteq All
        BY <4>1
      <4> HIDE DEF All
      <4>4. 0 \in All
        BY DEF All
      <4> QED
        BY <3>2, <4>2, <4>3, <4>4
    <3> QED
      BY <2>8, <2>9, <3>4, <3>5, <3>7, <3>8
  <2>11. CASE ~(NamesOf(w) <= cut)
    <3>1. \A k \in 1 .. n : fileIds[k] = <<>>
      <4> SUFFICES ASSUME NEW k \in 1 .. n PROVE fileIds[k] = <<>>
        OBVIOUS
      <4>1. ~(w.ends.counts[k] <= cut)
        <5>1. NamesOf(w) \in Nat /\ CountsOf(w) \in Nat
          BY PartsFollow
        <5>2. NamesOf(w) <= CountsOf(w)
          BY PartsRise
        <5>3. CountsOf(w) <= w.ends.counts[k] /\ w.ends.counts[k] \in Nat
          BY CountsEnd
        <5> DEFINE c == w.ends.counts[k]
                   x == NamesOf(w)
                   y == CountsOf(w)
        <5>10. c \in Nat /\ x \in Nat /\ y \in Nat /\ x <= y /\ y <= c /\ ~(x <= cut)
          BY <2>11, <5>1, <5>2, <5>3
        <5> HIDE DEF c, x, y
        <5>11. ~(c <= cut)
          BY <1>0, <5>10
        <5> QED
          BY <5>11 DEF c
      <4>2. Sums(RowUpto(w, cut, k)) = <<>>
        BY <4>1, FileIdsOfCut
      <4> QED
        BY <2>5, <4>2
    <3>2. RowsAt(id, ids, fileIds) = <<>>
      BY <1>0, <2>4, <3>1, NothingAt
    <3> DEFINE t == <<>>
               z == 0
    <3>3. z \in Nat /\ t \in Seq(Nat) /\ Len(t) = z /\ \A j \in 1 .. z : \A k \in 1 .. j : t[k] <= t[j]
      OBVIOUS
    <3> HIDE DEF t, z
    <3>4. Multiset(t) = t
      BY <3>3, MultisetIs
    <3>5. archives[id].fileIds = <<>>
      BY <2>9, <3>2, <3>4 DEF t
    <3>6. Range(archives[id].fileIds) = {}
      BY <3>5 DEF Range
    <3> QED
      BY <2>8, <3>6
  <2> QED
    BY <2>10, <2>11
<1> QED
  BY <1>3, <1>4

\* The place of an id among ids that are all different.
LEMMA PlaceIs ==
  ASSUME NEW s \in Seq(Nat), Rising(s), NEW j \in 1 .. Len(s)
  PROVE  PlaceOf(s[j], s) = j /\ LastPlace(s[j], s) = j
<1>1. DOMAIN s = 1 .. Len(s) /\ \A i \in 1 .. Len(s) : s[i] \in Nat
  OBVIOUS
<1>2. \A i \in DOMAIN s : s[i] = s[j] <=> i = j
  <2> SUFFICES ASSUME NEW i \in DOMAIN s, s[i] = s[j] PROVE i = j
    OBVIOUS
  <2>1. \A x, y \in 1 .. Len(s) : x < y => s[x] < s[y]
    BY <1>1 DEF Rising
  <2>2. i \in 1 .. Len(s) /\ s[i] \in Nat /\ s[j] \in Nat /\ ~(s[i] < s[j]) /\ ~(s[j] < s[i])
    BY <1>1
  <2>3. ~(i < j) /\ ~(j < i)
    BY <2>1, <2>2
  <2> QED
    BY <2>2, <2>3
<1>3. j \in DOMAIN s /\ j <= j
  BY <1>1
<1>4. PlaceOf(s[j], s) = j
  BY <1>2, <1>3 DEF PlaceOf
<1>5. \E i \in DOMAIN s : s[i] = s[j] /\ \A k \in DOMAIN s : s[k] = s[j] => k <= i
  BY <1>2, <1>3
<1>6. LastPlace(s[j], s) \in DOMAIN s /\ s[LastPlace(s[j], s)] = s[j]
  BY <1>5 DEF LastPlace
<1> QED
  BY <1>2, <1>4, <1>6

\* Nothing is cut off a whole column.
LEMMA WholeColumn ==
  ASSUME NEW w, w.bytes \in Seq(Byte), NEW p \in Nat, NEW n \in Nat, NEW column, IsColumn(w, p, column, n)
  PROVE  ColumnUpto(Len(w.bytes), p, column) = column
<1> DEFINE size == Len(w.bytes)
           u == ColumnUpto(size, p, column)
<1>1. column \in Seq(Int) /\ Len(column) = n /\ p + 4 * n <= size
  BY DEF IsColumn
<1>2. size \in Nat
  OBVIOUS
<1>3. \A i \in 1 .. n : column[i] \in Int
  BY <1>1
<1> HIDE DEF size
<1>4. \A i \in 1 .. n : p + 4 * i <= size
  BY <1>1, <1>2
<1>5. u = [i \in 1 .. n |-> Until(size, p + 4 * i, column[i])]
  BY <1>1 DEF ColumnUpto
<1>6. \A i \in 1 .. n : u[i] = column[i]
  BY <1>4, <1>5 DEF Until
<1> HIDE DEF u
<1>7. u \in Seq(Int) /\ Len(u) = n
  <2>1. u = [i \in 1 .. n |-> u[i]]
    BY <1>5
  <2>2. \A i \in 1 .. n : u[i] \in Int
    BY <1>3, <1>6
  <2> QED
    BY <2>1, <2>2, IsSeq
<1>8. u = column
  BY <1>1, <1>6, <1>7, SameSeq
<1> QED
  BY <1>8 DEF u, size

\* Nothing is cut off the pairs of sizes either.
LEMMA WholePairs ==
  ASSUME NEW w, IsTable(w), Has(w.mask, 4)
  PROVE  PairsUpto(w, Len(w.bytes), SizesOf(w), Len(w.ids)) = w.sizes
<1> DEFINE size == Len(w.bytes)
           n == Len(w.ids)
           p == SizesOf(w)
           u == PairsUpto(w, size, p, n)
<1>1. /\ n \in Nat /\ p \in Nat /\ size \in Nat /\ VersionsOf(w) \in Nat
      /\ VersionsOf(w) = p + 8 * n /\ CountsOf(w) = VersionsOf(w) + 4 * n /\ CountsOf(w) <= size
  BY PartsFollow
<1>2. p + 8 * n <= size
  BY <1>1
<1>3. w.sizes \in Seq(Int \X Int) /\ Len(w.sizes) = n
      /\ \A i \in 1 .. n : w.sizes[i] = <<IntAt(w.bytes, p + 8 * (i - 1)), IntAt(w.bytes, p + 8 * (i - 1) + 4)>>
  BY DEF IsTable, HasValues
<1>4. u = [i \in 1 .. n |-> <<Until(size, p + 8 * (i - 1) + 4, IntAt(w.bytes, p + 8 * (i - 1))),
                              Until(size, p + 8 * i, IntAt(w.bytes, p + 8 * (i - 1) + 4))>>]
  BY DEF PairsUpto
<1> HIDE DEF size, n, p, u
<1>5. ASSUME NEW i \in 1 .. n PROVE u[i] = w.sizes[i]
  <2>1. p + 8 * (i - 1) + 4 <= size /\ p + 8 * i <= size
    BY <1>1, <1>2
  <2> QED
    BY <1>3, <1>4, <2>1 DEF Until
<1>6. u \in Seq(Int \X Int) /\ Len(u) = n
  <2>1. u = [i \in 1 .. n |-> u[i]]
    BY <1>4
  <2> DEFINE T == Int \X Int
  <2>2. \A i \in 1 .. n : u[i] \in T
    BY <1>3, <1>5, SMTT(20)
  <2> HIDE DEF T
  <2>3. u \in Seq(T) /\ Len(u) = n
    BY <1>1, <2>1, <2>2, IsSeq
  <2> QED
    BY <2>3 DEF T
<1>7. u = w.sizes
  BY <1>3, <1>5, <1>6, SameSeq
<1> QED
  BY <1>7 DEF u, size, n, p

\* The names of the files of a whole table, which only those have that name their archives.
LEMMA FileNamesOfWhole ==
  ASSUME NEW w, IsTable(w), NEW b, IsCut(w, Len(w.bytes), b)
  PROVE  Rows(Ints(b), Upto(Len(w.bytes), w.ends.rows[Len(w.ids)]),
              IF Has(w.mask, 1) THEN CountsUpto(w, Len(w.bytes)) ELSE <<>>).value
           = Optional(w, 1, w.fileNames)
<1> DEFINE n == Len(w.ids)
           size == Len(w.bytes)
           counts == CountsUpto(w, size)
           at == Upto(size, w.ends.rows[n])
           reads == Ints(b)
<1>0. n \in Nat /\ size \in Nat /\ w.bytes \in Seq(Byte)
  BY DEF IsTable, HasArchiveIds
<1>1. CASE Has(w.mask, 1)
  <2> DEFINE v == w.fileNames
             e == w.ends.names
             q == [i \in 0 .. n |-> Upto(size, e[i])]
  <2>1. /\ v \in Seq(Seq(Int)) /\ Len(v) = n /\ e \in [0 .. n -> Nat] /\ e[0] = w.ends.rows[n]
        /\ \A i \in 1 .. n : e[i] = e[i - 1] + 4 * Len(w.files[i]) /\ IsColumn(w, e[i - 1], v[i], Len(w.files[i]))
    BY <1>1 DEF IsTable, HasFileNames
  <2>2. ASSUME NEW i \in 1 .. n PROVE Repeated(reads, q[i - 1], counts[i]) = Answer(v[i], q[i])
    <3> DEFINE m == Len(w.files[i])
    <3>1. i - 1 \in 0 .. n /\ i \in 0 .. n /\ w.files[i] \in Seq(Nat)
      <4>1. w.files[i] \in Seq(Nat)
        BY FilesFacts
      <4>2. i - 1 \in 0 .. n /\ i \in 0 .. n
        BY <1>0
      <4> QED
        BY <4>1, <4>2
    <3>2. m \in Nat /\ e[i - 1] \in Nat
      <4>1. m \in Nat
        BY <3>1
      <4>2. e[i - 1] \in Nat
        BY <2>1, <3>1
      <4> QED
        BY <4>1, <4>2
    <3>3. counts[i] = m
      <4>1. w.ends.counts[i - 1] \in Nat /\ IsNumber(w, w.ends.counts[i - 1], w.ends.counts[i], m)
        BY FilesFacts
      <4>2. w.ends.counts[i] <= size
        BY <1>0, <4>1, NumberType
      <4> QED
        BY <4>2 DEF CountsUpto, Until
    <3>4. IsColumn(w, e[i - 1], v[i], m)
      BY <2>1
    <3> HIDE DEF m
    <3>5. Repeated(reads, Upto(size, e[i - 1]), m) = Answer(ColumnUpto(size, e[i - 1], v[i]), Upto(size, e[i - 1] + 4 * m))
      BY <1>0, <3>2, <3>4, ColumnOfCut
    <3>6. ColumnUpto(size, e[i - 1], v[i]) = v[i]
      BY <1>0, <3>2, <3>4, WholeColumn
    <3>7. q[i - 1] = Upto(size, e[i - 1]) /\ q[i] = Upto(size, e[i])
      BY <3>1
    <3>8. e[i] = e[i - 1] + 4 * m
      BY <2>1 DEF m
    <3> QED
      BY <3>3, <3>5, <3>6, <3>7, <3>8
  <2>3. Len(counts) = n
    BY <1>0 DEF CountsUpto
  <2>4. q[0] = at
    BY <1>0, <2>1
  <2> HIDE DEF v, q, counts, at, reads, n, size
  <2>5. AreRows(reads, q, v, counts, n)
    BY <2>2 DEF AreRows
  <2>6. Rows(reads, q[0], counts) = Answer(v, q[n])
    BY <1>0, <2>1, <2>3, <2>5, AllRowsAreRead
  <2>7. Rows(reads, at, counts).value = v
    BY <2>4, <2>6 DEF Answer
  <2> QED
    BY <1>1, <2>7 DEF v, counts, at, reads, n, size, Optional
<1>2. CASE ~Has(w.mask, 1)
  <2> DEFINE z == 0
             none == <<>>
             q == [i \in 0 .. z |-> at]
  <2>1. z \in Nat /\ none \in Seq(Int) /\ Len(none) = z /\ q[0] = at
    OBVIOUS
  <2>2. AreRows(reads, q, none, none, z)
    BY DEF AreRows
  <2> HIDE DEF z, none, q, at, reads
  <2>3. Rows(reads, q[0], none) = Answer(none, q[z])
    BY <2>1, <2>2, AllRowsAreRead
  <2>4. Rows(reads, at, none).value = none
    BY <2>1, <2>3 DEF Answer
  <2> QED
    BY <1>2, <2>4 DEF none, at, reads, Optional
<1> QED
  BY <1>1, <1>2

\* What is read of the parts of a whole table.
LEMMA ColumnsOfWhole ==
  ASSUME NEW w, IsTable(w), NEW b, IsCut(w, Len(w.bytes), b)
  PROVE  LET head == TableHead(b)
             columns == TableColumns(b, head)
         IN  /\ readUnsignedByte(b, 0).value[1] \in 5 .. 7
             /\ head.version = w.version /\ head.count = Len(w.ids)
             /\ Sums(columns.ids) = w.ids /\ columns.names = Optional(w, 1, w.names) /\ columns.crcs = w.crcs
             /\ columns.hashes = Optional(w, 8, w.hashes) /\ columns.sizes = Optional(w, 4, w.sizes)
             /\ columns.versions = w.versions /\ columns.fileNames = Optional(w, 1, w.fileNames)
             /\ \A i \in 1 .. Len(w.ids) : Sums(columns.files[i]) = w.files[i]
<1> DEFINE head == TableHead(b)
           columns == TableColumns(b, head)
           n == Len(w.ids)
           cut == Len(w.bytes)
<1>0. w.bytes \in Seq(Byte) /\ n \in Nat /\ cut \in Nat /\ w.format \in 5 .. 7 /\ FlagsOf(w) < cut /\ cut > 0
  <2>1. w.bytes \in Seq(Byte) /\ w.ids \in Seq(Nat) /\ w.format \in 5 .. 7 /\ FlagsOf(w) < cut
    BY DEF IsTable, HasArchiveIds, HasHead
  <2>2. FlagsOf(w) \in Nat
    BY DEF FlagsOf
  <2>3. n \in Nat /\ cut \in Nat
    BY <2>1
  <2> QED
    BY <2>1, <2>2, <2>3
<1>1. w.ends.ids[0] \in Nat /\ w.ends.ids[0] <= cut /\ NamesOf(w) <= cut
  <2>1. IsNumber(w, FlagsOf(w) + 1, w.ends.ids[0], n) /\ FlagsOf(w) + 1 \in Nat
    BY DEF IsTable, HasHead, FlagsOf
  <2>2. w.ends.ids[0] \in Nat /\ w.ends.ids[0] <= cut
    BY <1>0, <2>1, NumberType
  <2>3. NamesOf(w) \in Nat /\ CountsOf(w) <= cut /\ NamesOf(w) <= CountsOf(w)
    BY PartsFollow, PartsRise
  <2>4. CountsOf(w) \in Nat
    BY PartsFollow
  <2> QED
    BY <1>0, <2>2, <2>3, <2>4
<1>2. /\ readUnsignedByte(b, 0).value[1] = w.format
      /\ head.format = w.format /\ head.count = n /\ head.pos = Upto(cut, w.ends.ids[0])
      /\ head.version = w.version /\ head.mask = w.mask
  BY <1>0, <1>1, HeadOfCut DEF Until
<1> HIDE DEF head
<1>3. /\ columns.ids = IdsUpto(w, cut)
      /\ columns.names = Optional(w, 1, ColumnUpto(cut, NamesOf(w), w.names))
      /\ columns.crcs = ColumnUpto(cut, CrcsOf(w), w.crcs)
      /\ columns.hashes = Optional(w, 8, ColumnUpto(cut, HashesOf(w), w.hashes))
      /\ columns.sizes = Optional(w, 4, PairsUpto(w, cut, SizesOf(w), Len(w.ids)))
      /\ columns.versions = ColumnUpto(cut, VersionsOf(w), w.versions)
      /\ columns.files = RowsUpto(w, cut)
      /\ columns.fileNames = Rows(Ints(b), Upto(cut, w.ends.rows[Len(w.ids)]),
                                  IF Has(w.mask, 1) THEN CountsUpto(w, cut) ELSE <<>>).value
  BY <1>2, ColumnsOfCut
<1> HIDE DEF columns
<1>4. /\ Has(w.mask, 1) => IsColumn(w, NamesOf(w), w.names, n)
      /\ IsColumn(w, CrcsOf(w), w.crcs, n)
      /\ Has(w.mask, 8) => IsColumn(w, HashesOf(w), w.hashes, n)
      /\ IsColumn(w, VersionsOf(w), w.versions, n)
  BY DEF IsTable, HasValues
<1>5. NamesOf(w) \in Nat /\ CrcsOf(w) \in Nat /\ HashesOf(w) \in Nat /\ VersionsOf(w) \in Nat
  BY PartsFollow
<1>6. columns.names = Optional(w, 1, w.names)
  <2>1. CASE Has(w.mask, 1)
    <3>1. ColumnUpto(cut, NamesOf(w), w.names) = w.names
      BY <1>0, <1>4, <1>5, <2>1, WholeColumn
    <3> QED
      BY <1>3, <3>1
  <2>2. CASE ~Has(w.mask, 1)
    BY <1>3, <2>2 DEF Optional
  <2> QED
    BY <2>1, <2>2
<1>7. columns.crcs = w.crcs
  BY <1>0, <1>3, <1>4, <1>5, WholeColumn
<1>8. columns.hashes = Optional(w, 8, w.hashes)
  <2>1. CASE Has(w.mask, 8)
    <3>1. ColumnUpto(cut, HashesOf(w), w.hashes) = w.hashes
      BY <1>0, <1>4, <1>5, <2>1, WholeColumn
    <3> QED
      BY <1>3, <3>1
  <2>2. CASE ~Has(w.mask, 8)
    BY <1>3, <2>2 DEF Optional
  <2> QED
    BY <2>1, <2>2
<1>9. columns.sizes = Optional(w, 4, w.sizes)
  BY <1>3, WholePairs DEF Optional
<1>10. columns.versions = w.versions
  BY <1>0, <1>3, <1>4, <1>5, WholeColumn
<1>11. columns.fileNames = Optional(w, 1, w.fileNames)
  BY <1>3, FileNamesOfWhole
<1>12. Sums(columns.ids) = w.ids
  BY <1>1, <1>3, IdsAreSums
<1>13. ASSUME NEW i \in 1 .. n PROVE Sums(columns.files[i]) = w.files[i]
  <2>1. columns.files[i] = RowUpto(w, cut, i)
    BY <1>3 DEF RowsUpto
  <2>2. Sums(RowUpto(w, cut, i)) = w.files[i]
    BY FileIdsOfCut
  <2> QED
    BY <2>1, <2>2
<1> QED
  BY <1>0, <1>2, <1>6, <1>7, <1>8, <1>9, <1>10, <1>11, <1>12, <1>13 DEF columns, head

\* What decoding makes of the archive in a place of a whole table.
LEMMA ArchiveOfWhole ==
  ASSUME NEW w, IsTable(w), NEW j \in 1 .. Len(w.ids), NEW values, values[j] = WrittenArchive(w, j).values,
         NEW fileIds, fileIds = [i \in 1 .. Len(w.ids) |-> w.files[i]]
  PROVE  ArchiveOf(w.ids[j], w.ids, values, fileIds, Optional(w, 1, w.fileNames)) = WrittenArchive(w, j)
<1> DEFINE n == Len(w.ids)
           id == w.ids[j]
           row == w.files[j]
           fileNames == Optional(w, 1, w.fileNames)
           Of(rows) == RowsAt(id, w.ids, rows)
           Name(f) == IF fileNames = <<>> THEN 0 ELSE Of(fileNames)[LastPlace(f, Of(fileIds))]
           Written1(f) == IF Has(w.mask, 1) THEN w.fileNames[j][PlaceOf(f, row)] ELSE 0
<1>0. w.ids \in Seq(Nat) /\ Rising(w.ids) /\ n \in Nat
  BY DEF IsTable, HasArchiveIds
<1>1. row \in Seq(Nat) /\ Rising(row)
  BY FilesFacts
<1>2. w.files \in Seq(Seq(Nat)) /\ Len(w.files) = n
  BY DEF IsTable, HasFiles
<1>3. fileIds \in Seq(Seq(Nat)) /\ Len(fileIds) = n /\ fileIds[j] = row
  <2>1. \A i \in 1 .. n : w.files[i] \in Seq(Nat)
    BY <1>2
  <2> HIDE DEF n
  <2>2. fileIds \in [1 .. n -> Seq(Nat)]
    BY <2>1 DEF n
  <2>3. fileIds \in Seq(Seq(Nat)) /\ Len(fileIds) = n
    BY <1>0, <2>2
  <2> QED
    BY <2>3 DEF n
<1>4. Of(fileIds) = row
  BY <1>0, <1>3, RowAt
<1>5. Multiset(row) = row
  <2>1. \A y \in 1 .. Len(row) : \A x \in 1 .. y : row[x] <= row[y]
    <3> SUFFICES ASSUME NEW y \in 1 .. Len(row), NEW x \in 1 .. y PROVE row[x] <= row[y]
      OBVIOUS
    <3> HIDE DEF row
    <3>1. x \in DOMAIN row /\ y \in DOMAIN row /\ row[x] \in Nat /\ row[y] \in Nat /\ (x < y \/ x = y)
      BY <1>1
    <3>3. \A k, l \in DOMAIN row : k < l => row[k] < row[l]
      BY <1>1 DEF Rising
    <3>2. x < y => row[x] < row[y]
      BY <3>1, <3>3
    <3> QED
      BY <3>1, <3>2
  <2>2. Len(row) \in Nat
    BY <1>1
  <2> HIDE DEF row
  <2> QED
    BY <1>1, <2>1, <2>2, MultisetIs
<1>6. LastPlace(id, w.ids) = j
  BY <1>0, PlaceIs
<1>7. ASSUME NEW f \in Range(row) PROVE Name(f) = Written1(f)
  <2>1. LastPlace(f, row) = PlaceOf(f, row)
    <3>1. PICK k \in 1 .. Len(row) : f = row[k]
      BY <1>1 DEF Range
    <3> HIDE DEF row
    <3> QED
      BY <1>1, <3>1, PlaceIs
  <2>2. CASE Has(w.mask, 1)
    <3>1. fileNames = w.fileNames /\ w.fileNames \in Seq(Seq(Int)) /\ Len(w.fileNames) = n
      BY <2>2 DEF Optional, IsTable, HasFileNames
    <3>2. fileNames # <<>>
      BY <1>0, <3>1
    <3>3. Of(w.fileNames) = w.fileNames[j]
      BY <1>0, <3>1, RowAt
    <3> HIDE DEF Of, fileNames, row
    <3> QED
      BY <1>4, <2>1, <2>2, <3>1, <3>2, <3>3
  <2>3. CASE ~Has(w.mask, 1)
    <3>1. fileNames = <<>>
      BY <2>3 DEF Optional
    <3> QED
      BY <2>3, <3>1
  <2> QED
    BY <2>2, <2>3
<1> HIDE DEF fileNames, id, row
<1>8. ArchiveOf(id, w.ids, values, fileIds, fileNames) =
        [values |-> values[LastPlace(id, w.ids)], fileIds |-> Multiset(Of(fileIds)),
         subIds |-> fileIds[LastPlace(id, w.ids)], names |-> [f \in Range(Of(fileIds)) |-> Name(f)]]
  BY DEF ArchiveOf, RowsAt
<1>9. WrittenArchive(w, j) =
        [values |-> WrittenArchive(w, j).values, fileIds |-> row, subIds |-> row,
         names |-> [f \in Range(row) |-> Written1(f)]]
  BY DEF WrittenArchive, row
<1> HIDE DEF Name, Written1, Of
<1>10. [f \in Range(row) |-> Name(f)] = [f \in Range(row) |-> Written1(f)]
  BY <1>7
<1>11. ArchiveOf(id, w.ids, values, fileIds, fileNames) = WrittenArchive(w, j)
  BY <1>3, <1>4, <1>5, <1>6, <1>8, <1>9, <1>10
<1> QED
  BY <1>11 DEF id, fileNames

\* A value of a column that a table may have or not.
At(column, i, default) == IF column = <<>> THEN default ELSE column[i]

\* A whole table is decoded to what was written.
LEMMA WholeTable ==
  ASSUME NEW w, IsTable(w), NEW b, IsCut(w, Len(w.bytes), b)
  PROVE  Table(b) = Written(w) /\ readUnsignedByte(b, 0).value[1] \in 5 .. 7
<1> DEFINE head == TableHead(b)
           columns == TableColumns(b, head)
           n == Len(w.ids)
           Value(i) == [nameHash |-> At(columns.names, i, 0), crc |-> At(columns.crcs, i, 0),
                        hash |-> At(columns.hashes, i, 0), sizes |-> At(columns.sizes, i, <<0, 0>>),
                        version |-> At(columns.versions, i, 0)]
           values == [i \in 1 .. head.count |-> Value(i)]
           ids == Sums(columns.ids)
           fileIds == [i \in 1 .. head.count |-> Sums(columns.files[i])]
<1>1. Table(b) = [version |-> head.version, archiveIds |-> ids,
                  archives |-> [id \in Range(ids) |-> ArchiveOf(id, ids, values, fileIds, columns.fileNames)]]
  BY DEF Table, Declaring, At
<1>2. /\ readUnsignedByte(b, 0).value[1] \in 5 .. 7
      /\ head.version = w.version /\ head.count = n
      /\ ids = w.ids /\ columns.names = Optional(w, 1, w.names) /\ columns.crcs = w.crcs
      /\ columns.hashes = Optional(w, 8, w.hashes) /\ columns.sizes = Optional(w, 4, w.sizes)
      /\ columns.versions = w.versions /\ columns.fileNames = Optional(w, 1, w.fileNames)
      /\ \A i \in 1 .. n : Sums(columns.files[i]) = w.files[i]
  BY ColumnsOfWhole
<1> HIDE DEF head, columns, ids
<1>3. n \in Nat /\ w.ids \in Seq(Nat) /\ Rising(w.ids)
  BY DEF IsTable, HasArchiveIds
<1>4. /\ Has(w.mask, 1) => w.names \in Seq(Int) /\ Len(w.names) = n
      /\ w.crcs \in Seq(Int) /\ Len(w.crcs) = n
      /\ Has(w.mask, 8) => w.hashes \in Seq(Int) /\ Len(w.hashes) = n
      /\ Has(w.mask, 4) => w.sizes \in Seq(Int \X Int) /\ Len(w.sizes) = n
      /\ w.versions \in Seq(Int) /\ Len(w.versions) = n
  BY DEF IsTable, HasValues, IsColumn
<1>5. ASSUME NEW i \in 1 .. n PROVE values[i] = WrittenArchive(w, i).values
  <2>1. n > 0
    BY <1>3
  <2> HIDE DEF n
  <2>2. \A T : \A s \in Seq(T) : Len(s) = n => s # <<>>
    BY <1>3, <2>1
  <2>3. /\ Has(w.mask, 1) => w.names # <<>>
        /\ w.crcs # <<>>
        /\ Has(w.mask, 8) => w.hashes # <<>>
        /\ Has(w.mask, 4) => w.sizes # <<>>
        /\ w.versions # <<>>
    BY <1>4, <2>2
  <2>4. At(columns.names, i, 0) = IF Has(w.mask, 1) THEN w.names[i] ELSE 0
    BY <1>2, <2>3 DEF At, Optional
  <2>5. At(columns.crcs, i, 0) = w.crcs[i]
    BY <1>2, <2>3 DEF At
  <2>6. At(columns.hashes, i, 0) = IF Has(w.mask, 8) THEN w.hashes[i] ELSE 0
    BY <1>2, <2>3 DEF At, Optional
  <2>7. At(columns.sizes, i, <<0, 0>>) = IF Has(w.mask, 4) THEN w.sizes[i] ELSE <<0, 0>>
    BY <1>2, <2>3 DEF At, Optional
  <2>8. At(columns.versions, i, 0) = w.versions[i]
    BY <1>2, <2>3 DEF At
  <2>9. values[i] = Value(i)
    BY <1>2
  <2> QED
    BY <2>4, <2>5, <2>6, <2>7, <2>8, <2>9 DEF WrittenArchive
<1>6. fileIds = [i \in 1 .. n |-> w.files[i]]
  BY <1>2
<1> HIDE DEF values, fileIds
<1>7. ASSUME NEW id \in Range(w.ids)
      PROVE  ArchiveOf(id, w.ids, values, fileIds, Optional(w, 1, w.fileNames)) = WrittenArchive(w, PlaceOf(id, w.ids))
  <2>1. PICK j \in 1 .. n : id = w.ids[j]
    BY <1>3 DEF Range
  <2>2. PlaceOf(id, w.ids) = j
    BY <1>3, <2>1, PlaceIs
  <2>3. values[j] = WrittenArchive(w, j).values
    BY <1>5
  <2>4. ArchiveOf(w.ids[j], w.ids, values, fileIds, Optional(w, 1, w.fileNames)) = WrittenArchive(w, j)
    BY <1>6, <2>3, ArchiveOfWhole
  <2> QED
    BY <2>1, <2>2, <2>4
<1>8. [id \in Range(ids) |-> ArchiveOf(id, ids, values, fileIds, columns.fileNames)]
        = [id \in Range(w.ids) |-> WrittenArchive(w, PlaceOf(id, w.ids))]
  BY <1>2, <1>7
<1>9. Table(b) = Written(w)
  BY <1>1, <1>2, <1>8 DEF Written
<1> QED
  BY <1>2, <1>9

\* Ids that are all different are as many as there are places.
LEMMA AsManyIds ==
  ASSUME NEW s \in Seq(Nat), Rising(s)
  PROVE  Cardinality(Range(s)) = Len(s)
<1> DEFINE n == Len(s)
           D == 1 .. n
           f == [i \in D |-> s[i]]
<1>1. n \in Nat /\ DOMAIN s = D /\ \A i \in D : s[i] \in Nat
  OBVIOUS
<1>2. \A i, j \in D : s[i] = s[j] => i = j
  <2> SUFFICES ASSUME NEW i \in D, NEW j \in D, s[i] = s[j] PROVE i = j
    OBVIOUS
  <2>1. \A x, y \in D : x < y => s[x] < s[y]
    BY <1>1 DEF Rising
  <2>2. s[i] \in Nat /\ s[j] \in Nat /\ ~(s[i] < s[j]) /\ ~(s[j] < s[i])
    BY <1>1
  <2>3. ~(i < j) /\ ~(j < i)
    BY <2>1, <2>2
  <2> QED
    BY <2>3
<1>3. IsFiniteSet(D) /\ Cardinality(D) = n
  <2>1. 1 \in Int /\ n \in Int
    BY <1>1
  <2>2. IsFiniteSet(1 .. n) /\ Cardinality(1 .. n) = IF 1 > n THEN 0 ELSE n - 1 + 1
    BY <2>1, FS_Interval
  <2>3. (IF 1 > n THEN 0 ELSE n - 1 + 1) = n
    BY <1>1
  <2> QED
    BY <2>2, <2>3
<1>4. Range(s) = {s[i] : i \in D}
  BY <1>1 DEF Range
<1>5. f \in Bijection(D, Range(s))
  <2>1. f \in [D -> Range(s)]
    BY <1>4
  <2>2. \A i \in D : f[i] = s[i]
    OBVIOUS
  <2> HIDE DEF f
  <2>3. f \in Injection(D, Range(s))
    BY <1>2, <2>1, <2>2 DEF Injection, IsInjective
  <2>4. f \in Surjection(D, Range(s))
    BY <1>4, <2>1, <2>2 DEF Surjection
  <2> QED
    BY <2>3, <2>4 DEF Bijection
<1>6. ExistsBijection(D, Range(s))
  BY <1>5 DEF ExistsBijection
<1> HIDE DEF D, n
<1>7. Cardinality(Range(s)) = Cardinality(D)
  BY <1>3, <1>6, FS_Bijection
<1> QED
  BY <1>3, <1>7 DEF n

\* What of the table is said in the state that opens it.
TableIsDecoded ==
  /\ input \in Indices
  /\ backend # "none" => index \in {decodeReferenceTable(input.table), decodeReferenceBlob(input.table)}

\* Nothing but opening an index decodes a table.
LEMMA DecodedIs ==
  IndexSpec => []TableIsDecoded
<1>1. IndexInit => TableIsDecoded
  BY DEF IndexInit, TableIsDecoded
<1>2. TableIsDecoded /\ [IndexNext]_indexVars => TableIsDecoded'
  <2> SUFFICES ASSUME TableIsDecoded, [IndexNext]_indexVars PROVE TableIsDecoded'
    OBVIOUS
  <2>1. CASE OpenLocal
    BY <2>1 DEF TableIsDecoded, OpenLocal, Opens
  <2>2. CASE OpenLive
    BY <2>2 DEF TableIsDecoded, OpenLive, Opens
  <2>3. ASSUME NEW blob \in Blobs[input.group], ReadRow(blob) \/ Fetch(blob) \/ IsRefused(blob) PROVE TableIsDecoded'
    <3>1. UNCHANGED <<input, backend, index>>
      BY <2>3 DEF ReadRow, Fetch, IsRefused, Accepts, indexVars
    <3> QED
      BY <3>1 DEF TableIsDecoded
  <2>4. ASSUME NEW f \in Asked, ReadFile(f) PROVE TableIsDecoded'
    <3>1. UNCHANGED <<input, backend, index>>
      BY <2>4 DEF ReadFile
    <3> QED
      BY <3>1 DEF TableIsDecoded
  <2>5. CASE UNCHANGED indexVars
    BY <2>5 DEF TableIsDecoded, indexVars
  <2> QED
    BY <2>1, <2>2, <2>3, <2>4, <2>5 DEF IndexNext
<1> QED
  BY <1>1, <1>2, PTL DEF IndexSpec

\* Both decoders make of a whole table what was written, and of one that is cut off
\* declare nothing that the whole one does not.
LEMMA DecodedExactly ==
  TableIsDecoded => TablesAreExact
<1> SUFFICES ASSUME TableIsDecoded, backend # "none"
             PROVE  LET w == WrittenTables[input.source] IN
                    /\ input.whole => index = Result(Written(w))
                    /\ index.how = "result" /\ ~Has(w.mask, 2) =>
                         \A id \in DOMAIN index.of.archives :
                           /\ id \in Range(w.ids) \cup {0}
                           /\ Range(index.of.archives[id].fileIds)
                                \subseteq {0} \cup UNION {Range(w.files[i]) : i \in DOMAIN w.files}
  BY DEF TablesAreExact
<1> DEFINE w == WrittenTables[input.source]
           b == input.table
<1>1. input \in Indices /\ index \in {decodeReferenceTable(b), decodeReferenceBlob(b)}
  BY DEF TableIsDecoded
<1>2. IsTable(w)
  BY <1>1, TablesAssumption
<1>3. PICK cut \in 0 .. Len(w.bytes) : b = SubSeq(w.bytes, 1, cut) /\ input.whole = (cut = Len(w.bytes))
  BY <1>1, TablesAssumption
<1> HIDE DEF w, b
<1>4. IsCut(w, cut, b)
  BY <1>3 DEF IsCut
<1>5. ASSUME input.whole PROVE index = Result(Written(w))
  <2>1. IsCut(w, Len(w.bytes), b)
    BY <1>3, <1>4, <1>5
  <2>2. Table(b) = Written(w) /\ readUnsignedByte(b, 0).value[1] \in 5 .. 7
    BY <1>2, <2>1, WholeTable
  <2>3. decodeReferenceTable(b) = Result(Written(w))
    BY <2>2 DEF decodeReferenceTable
  <2>4. Cardinality(Range(w.ids)) = Len(w.ids) /\ Len(w.ids) \in Nat
    <3>1. w.ids \in Seq(Nat) /\ Rising(w.ids)
      BY <1>2 DEF IsTable, HasArchiveIds
    <3> QED
      BY <3>1, AsManyIds
  <2>5. Result(Written(w)).of.archiveIds = w.ids
    BY DEF Result, Written
  <2>6. ~(Cardinality(Range(w.ids)) < Len(w.ids))
    BY <2>4
  <2>7. decodeReferenceBlob(b) = Result(Written(w))
    BY <2>3, <2>5, <2>6 DEF decodeReferenceBlob
  <2> QED
    BY <1>1, <2>3, <2>7
<1>6. ASSUME index.how = "result", ~Has(w.mask, 2), NEW id \in DOMAIN index.of.archives
      PROVE  /\ id \in Range(w.ids) \cup {0}
             /\ Range(index.of.archives[id].fileIds) \subseteq {0} \cup UNION {Range(w.files[i]) : i \in DOMAIN w.files}
  <2>1. index = decodeReferenceTable(b)
    BY <1>1, <1>6 DEF decodeReferenceBlob, Undefined
  <2>2. readUnsignedByte(b, 0).value[1] \in 5 .. 7 /\ index = Result(Table(b))
    BY <1>6, <2>1 DEF decodeReferenceTable, Refused
  <2>3. index.of = Table(b)
    BY <2>2 DEF Result
  <2>4. cut > 0
    <3> SUFFICES ASSUME cut = 0 PROVE FALSE
      BY <1>3
    <3>1. Len(b) = 0
      BY <1>2, <1>3, <1>4, CutBytes DEF IsTable
    <3>2. readUnsignedByte(b, 0).value[1] = 0
      BY <3>1 DEF readUnsignedByte, canRead, Answer
    <3> QED
      BY <2>2, <3>2
  <2>5. \A a \in DOMAIN Table(b).archives :
          /\ a \in Range(w.ids) \cup {0}
          /\ Range(Table(b).archives[a].fileIds) \subseteq {0} \cup UNION {Range(w.files[i]) : i \in DOMAIN w.files}
    BY <1>2, <1>4, <1>6, <2>4, CutDeclares
  <2> QED
    BY <1>6, <2>3, <2>5
<1> QED
  BY <1>5, <1>6 DEF w

\* Of every table, whatever its format and parts, both decoders make exactly what was
\* written; of one that is cut off anywhere, and has no whirlpools, they declare nothing
\* that was not, but the id 0.
THEOREM TablesAreExactAlways == IndexSpec => []TablesAreExact
BY DecodedIs, DecodedExactly, PTL

-----------------------------------------------------------------------------
(* The connection.                                                              *)

USE SocketAssumption DEF IdLen, CompLen

Data ==
  /\ pc \in {"none", "idle", "failed"} \cup Reading
  /\ req \in Files
  /\ total \in Nat \cup {-1} /\ current \in Nat /\ bytesread \in 0..MaxBlock
  /\ wire \in Seq(Files) /\ inBlock \in 0..MaxBlock /\ offset \in Nat
  /\ strays \in 0..MaxStrays

Empty == wire = <<>> /\ inBlock = 0 /\ offset = 0

(* The place is one in the first container, if there is one. *)
Placed ==
  \/ Empty
  \/ wire # <<>> /\ offset < Length(Head(wire)) /\ inBlock < MaxBlock

(* The answer is the first thing on the connection; d bytes of it are      *)
(* behind, b of its block.                                                 *)
Reads(d, b) ==
  wire # <<>> /\ Head(wire) = req /\ offset = d /\ inBlock = b

AtStart == inBlock = 0 /\ offset = 0

(* What is counted is what was read, however many calls have failed. *)
Counts ==
  /\ pc = "none" => Empty
  /\ pc = "idle" /\ ~astray => AtStart /\ (total # -1 => current = Length(req))
  /\ pc = "id" => \/ total = -1
                  \/ total = Length(req) /\ current < total /\ Reads(current, 0)
  /\ pc = "comp" => total = -1 /\ bytesread = IdLen /\ Reads(0, IdLen)
  /\ pc = "payload" => /\ total = Length(req) /\ IdLen <= bytesread
                       /\ bytesread < MaxBlock
                       /\ \/ current = total /\ AtStart
                          \/ current < total /\ Reads(current, bytesread)

(* A connection with nothing unasked for holds the answer at hand, if any. *)
Owed ==
  /\ pc \in {"idle", "failed"} => Empty
  /\ pc = "id" /\ total = -1 =>
       AtStart /\ (wire = <<req>> \/ (peerClosed /\ wire = <<>>))
  /\ Len(wire) <= 1
  /\ pc = "payload" /\ current = total => Empty

Astray == strays > 0 /\ Empty /\ pc \notin {"comp", "payload"}

Inv ==
  /\ Data /\ Placed /\ Counts
  /\ strays = 0 => Owed
  /\ astray => Astray
-----------------------------------------------------------------------------
LEMMA LengthType ==
  ASSUME NEW f \in Files
  PROVE  Length(f) \in Nat /\ Length(f) >= CompLen
BY DEF Length

LEMMA WireFacts ==
  ASSUME Data, wire # <<>>
  PROVE  /\ Head(wire) \in Files /\ Tail(wire) \in Seq(Files)
         /\ Len(wire) \in Nat \ {0} /\ Len(Tail(wire)) = Len(wire) - 1
         /\ Head(wire) = wire[1]
BY DEF Data

LEMMA LengthOfEmpty ==
  ASSUME NEW s \in Seq(Files)
  PROVE  Len(s) = 0 <=> s = <<>>
  OBVIOUS

LEMMA TailOfOne ==
  ASSUME Data, wire # <<>>, Len(wire) = 1
  PROVE  Tail(wire) = <<>>
<1>1. Tail(wire) \in Seq(Files) /\ Len(Tail(wire)) = 0
  BY WireFacts
<1> HIDE DEF Data
<1>2. QED
  BY <1>1, LengthOfEmpty

LEMMA Appended ==
  ASSUME NEW s \in Seq(Files), NEW f \in Files
  PROVE  /\ Append(s, f) \in Seq(Files) /\ Append(s, f) # <<>>
         /\ s = <<>> => Append(s, f) = <<f>> /\ Len(Append(s, f)) = 1
         /\ Head(Append(s, f)) = IF s = <<>> THEN f ELSE Head(s)
<1>1. Append(s, f) \in Seq(Files) /\ Len(Append(s, f)) = Len(s) + 1 /\ Len(s) \in Nat
  OBVIOUS
<1>2. CASE s = <<>>
  BY <1>1, <1>2
<1>3. CASE s # <<>>
  <2>1. Len(s) >= 1
    BY <1>3
  <2>2. Head(Append(s, f)) = Append(s, f)[1] /\ Head(s) = s[1]
    BY <1>1, <1>3
  <2>3. Append(s, f)[1] = s[1]
    BY <2>1
  <2>4. QED
    BY <1>1, <1>3, <2>1, <2>2, <2>3
<1>4. QED
  BY <1>2, <1>3

(* The place after a container is that of the next one. *)
LEMMA NextContainer ==
  ASSUME Data, wire # <<>>, wire' = Tail(wire), offset' = 0,
         inBlock' \in 0..IdLen, wire' = <<>> => inBlock' = 0
  PROVE  wire' \in Seq(Files) /\ Placed'
<1>1. wire' \in Seq(Files)
  <2>1. Tail(wire) \in Seq(Files)
    BY WireFacts
  <2>2. QED
    BY <2>1
<1>2. CASE wire' = <<>>
  BY <1>1, <1>2 DEF Placed, Empty
<1>3. CASE wire' # <<>>
  <2> DEFINE next == Head(wire')
  <2>1. next \in Files
    BY <1>1, <1>3
  <2> HIDE DEF next
  <2>2. Length(next) \in Nat /\ Length(next) >= CompLen
    BY <2>1, LengthType
  <2>3. offset' < Length(next) /\ inBlock' < MaxBlock
    BY <2>2, SocketAssumption DEF CompLen, IdLen
  <2>4. QED
    BY <1>1, <1>3, <2>3 DEF Placed, next
<1>4. QED
  BY <1>2, <1>3

(* Reading n bytes of data that the block and the container still hold.    *)
LEMMA Taken ==
  ASSUME Data, NEW n \in Nat \ {0}, NEW d \in Nat, NEW b \in Nat, Reads(d, b),
         IdLen <= b, b + n <= MaxBlock, d + n <= Length(req), TakesData(n),
         strays' = strays, req' = req, ~misread
  PROVE  /\ ~misread'
         /\ wire' \in Seq(Files) /\ inBlock' \in 0..MaxBlock /\ offset' \in Nat
         /\ Placed'
         /\ d + n = Length(req) => AtStart' /\ wire' = Tail(wire)
         /\ d + n < Length(req) => wire' = wire
         /\ d + n < Length(req) /\ b + n = MaxBlock => Reads(d + n, 0)'
         /\ d + n < Length(req) /\ b + n < MaxBlock => Reads(d + n, b + n)'
<1>1. HoldsData(n)
  BY DEF HoldsData, Reads
<1>2. ~misread'
  BY <1>1 DEF TakesData
<1>3. Length(req) \in Nat /\ Head(wire) = req /\ offset = d /\ inBlock = b
  BY LengthType DEF Data, Reads
<1>4. CASE d + n = Length(req)
  <2>1. wire' = Tail(wire) /\ inBlock' = 0 /\ offset' = 0
    BY <1>3, <1>4 DEF TakesData
  <2>2. wire' \in Seq(Files) /\ Placed'
    BY <2>1, NextContainer DEF Reads
  <2>3. QED
    BY <1>2, <1>4, <2>1, <2>2 DEF AtStart
<1>5. CASE d + n < Length(req)
  <2>1. /\ wire' = wire /\ offset' = d + n
        /\ inBlock' = IF b + n = MaxBlock THEN 0 ELSE b + n
    BY <1>3, <1>5 DEF TakesData
  <2>2. wire' # <<>> /\ Head(wire') = req /\ inBlock' < MaxBlock
    BY <2>1 DEF Reads
  <2>3. Placed'
    BY <1>3, <1>5, <2>1, <2>2 DEF Placed, Length
  <2>4. QED
    BY <1>2, <1>3, <1>5, <2>1, <2>2, <2>3 DEF Reads, Data
<1>6. QED
  BY <1>3, <1>4, <1>5

(* Five bytes, from any place. *)
LEMMA FiveTaken ==
  ASSUME Data, Placed, wire # <<>>, TakesFive
  PROVE  /\ wire' \in Seq(Files) /\ inBlock' \in 0..MaxBlock /\ offset' \in Nat
         /\ Placed'
<1>1. PICK data \in 0..IdLen, left \in Int, room \in Int :
        /\ data = IF inBlock < IdLen THEN inBlock ELSE IdLen
        /\ left = Length(Head(wire)) - offset
        /\ room = MaxBlock - inBlock
  BY WireFacts, LengthType DEF Data
<1>2. left > 0 /\ room > 0 /\ Length(Head(wire)) \in Nat
  BY <1>1, WireFacts, LengthType DEF Data, Placed, Empty
<1>3. CASE /\ left <= data /\ left <= room
           /\ Tail(wire) = <<>> => left = data
           /\ wire' = Tail(wire) /\ inBlock' = data - left /\ offset' = 0
  <2>1. inBlock' \in 0..IdLen
    BY <1>2, <1>3
  <2>2. wire' = <<>> => data - left = 0
    BY <1>3
  <2>3. QED
    BY <1>3, <2>1, <2>2, NextContainer
<1>4. CASE /\ room <= data /\ room < left
           /\ wire' = wire /\ inBlock' = data - room /\ offset' = offset + room
  <2>1. inBlock' \in 0..IdLen /\ offset' \in Nat /\ offset' < Length(Head(wire))
    BY <1>1, <1>2, <1>4 DEF Data
  <2>2. QED
    BY <1>4, <2>1 DEF Placed, Length, Data
<1>5. CASE /\ data < left /\ data < room
           /\ wire' = wire /\ inBlock' = inBlock + IdLen /\ offset' = offset + data
  <2>1. inBlock' < MaxBlock /\ offset' \in Nat /\ offset' < Length(Head(wire))
    BY <1>1, <1>2, <1>5 DEF Data
  <2>2. QED
    BY <1>5, <2>1 DEF Placed, Length, Data
<1>6. QED
  BY <1>1, <1>3, <1>4, <1>5 DEF TakesFive

(* On a connection with nothing unasked for, the name is the one asked for.*)
LEMMA NoMismatch ==
  ASSUME Inv, pc = "id", wire # <<>>,
         strays = 0 \/ total # -1
  PROVE  inBlock = 0 /\ Head(wire) = req /\ (total < 0 => offset = 0)
<1>1. CASE total # -1
  <2>1. total = Length(req) /\ Reads(current, 0)
    BY <1>1 DEF Inv, Counts
  <2>2. QED
    BY <2>1, LengthType DEF Reads, Inv, Data
<1>2. CASE strays = 0 /\ total = -1
  <2>1. wire = <<req>> /\ AtStart
    BY <1>2 DEF Inv, Owed
  <2>2. QED
    BY <2>1 DEF AtStart
<1>3. QED
  BY <1>1, <1>2

LEMMA Steps ==
  ASSUME Inv, ~misread, [Next]_vars
  PROVE  Inv' /\ ~misread'
<1> USE DEF Inv, Reading
<1>1. CASE Connect
  BY <1>1 DEF Connect, Data, Placed, Empty, Counts, Owed, AtStart, stream
<1>2. CASE Destroy
  BY <1>2 DEF Destroy, Data, Placed, Empty, Counts, Owed, Astray, call
<1>3. ASSUME NEW f \in Files, Request(f) PROVE Inv' /\ ~misread'
  <2>1. /\ pc \in {"idle", "failed"} /\ pc' = "id" /\ req' = f /\ total' = -1
        /\ current' = 0 /\ bytesread' = 0
        /\ UNCHANGED <<inBlock, offset, peerClosed, strays, misread, astray>>
        /\ wire' = IF peerClosed \/ astray THEN wire ELSE Append(wire, f)
    BY <1>3 DEF Request
  <2>2. CASE peerClosed \/ astray
    BY <2>1, <2>2 DEF Data, Placed, Empty, Counts, Owed, Astray, AtStart
  <2>3. CASE ~peerClosed /\ ~astray
    <3>1. /\ wire' \in Seq(Files) /\ wire' # <<>>
          /\ wire = <<>> => wire' = <<f>> /\ Len(wire') = 1
          /\ Head(wire') = IF wire = <<>> THEN f ELSE Head(wire)
      <4>1. wire \in Seq(Files) /\ wire' = Append(wire, f)
        BY <2>1, <2>3 DEF Data
      <4> HIDE DEF Inv
      <4>2. QED
        BY <4>1, Appended
    <3>2. Placed'
      BY <2>1, <3>1, LengthType DEF Placed, Empty, Length
    <3>3. Data' /\ Counts'
      BY <2>1, <3>1 DEF Data, Counts
    <3>4. strays' = 0 => Owed'
      BY <2>1, <3>1 DEF Owed, Empty, AtStart
    <3>5. QED
      BY <2>1, <2>3, <3>2, <3>3, <3>4
  <2>4. QED
    BY <2>2, <2>3
<1>4. ASSUME NEW f \in Files, Stray(f) PROVE Inv' /\ ~misread'
  <2>1. /\ pc \in {"idle", "failed"} /\ ~astray /\ strays' = strays + 1
        /\ strays < MaxStrays /\ wire' = Append(wire, f)
        /\ UNCHANGED <<pc, req, total, current, bytesread, inBlock, offset,
                      misread, astray>>
    BY <1>4 DEF Stray, call
  <2>2. /\ wire' \in Seq(Files) /\ wire' # <<>>
        /\ Head(wire') = IF wire = <<>> THEN f ELSE Head(wire)
    <3>1. wire \in Seq(Files)
      BY DEF Data
    <3> HIDE DEF Inv
    <3>2. QED
      BY <2>1, <3>1, Appended
  <2>3. Placed'
    BY <2>1, <2>2, LengthType DEF Placed, Empty, Length
  <2>4. strays' # 0 /\ Data' /\ Counts'
    BY <2>1, <2>2 DEF Data, Counts, AtStart, Length
  <2>5. QED
    BY <2>1, <2>3, <2>4
<1>5. CASE ReadId
  <2>1. /\ pc = "id" /\ wire # <<>> /\ Head(wire) = req /\ inBlock' = IdLen
        /\ bytesread' = IdLen /\ pc' = IF total < 0 THEN "comp" ELSE "payload"
        /\ UNCHANGED <<req, total, current, wire, offset, peerClosed, strays, astray>>
        /\ misread' = (misread \/ inBlock # 0)
        /\ total < 0 => inBlock = 0 /\ offset = 0
    BY <1>5 DEF ReadId, AtName
  <2>2. ~astray
    BY <2>1 DEF Astray, Empty
  <2>3. offset < Length(Head(wire)) /\ Placed'
    BY <2>1 DEF Placed, Empty, Length
  <2>4. CASE total = -1
    <3>1. ~misread' /\ Reads(0, IdLen)' /\ pc' = "comp"
      <4> HIDE DEF Inv
      <4>1. total < 0
        BY <2>4
      <4>2. inBlock = 0 /\ offset = 0 /\ pc' = "comp"
        BY <2>1, <4>1
      <4>3. Reads(0, IdLen)'
        BY <2>1, <4>2 DEF Reads
      <4>4. QED
        BY <2>1, <4>2, <4>3
    <3>2. Data' /\ Counts'
      BY <2>1, <2>4, <3>1 DEF Data, Counts
    <3>3. strays' = 0 => Owed'
      BY <2>1, <2>4 DEF Owed
    <3>4. QED
      BY <2>1, <2>2, <2>3, <3>1, <3>2, <3>3
  <2>5. CASE total # -1
    <3>1. total = Length(req) /\ current < total /\ Reads(current, 0)
      BY <2>1, <2>5 DEF Counts
    <3>2. total \in Nat
      BY <3>1, LengthType DEF Data
    <3>3. /\ pc' = "payload" /\ Reads(current, IdLen)' /\ bytesread' = IdLen
          /\ ~misread' /\ total' = Length(req') /\ current' < total'
      <4>1. Reads(current, IdLen)' /\ ~misread'
        BY <2>1, <3>1 DEF Reads
      <4>2. pc' = "payload" /\ bytesread' = IdLen
        BY <2>1, <3>2
      <4>3. total' = Length(req') /\ current' < total'
        BY <2>1, <3>1
      <4>4. QED
        BY <4>1, <4>2, <4>3
    <3>4. Data' /\ Counts'
      BY <2>1, <3>2, <3>3 DEF Data, Counts
    <3>5. strays' = 0 => Owed'
      BY <2>1, <3>2, <3>3 DEF Owed, Data
    <3>6. QED
      BY <2>1, <2>2, <2>3, <3>3, <3>4, <3>5
  <2>6. QED
    BY <2>4, <2>5
<1>6. CASE Mismatch
  <2>1. /\ pc = "id" /\ wire # <<>> /\ (inBlock = 0 => Head(wire) # req)
        /\ TakesFive /\ pc' = "failed"
        /\ UNCHANGED <<req, total, current, bytesread, peerClosed, strays,
                      misread, astray>>
    BY <1>6 DEF Mismatch, call
  <2>2. strays # 0 /\ ~astray
    BY <2>1, NoMismatch DEF Astray, Empty
  <2>3. Data' /\ Placed'
    BY <2>1, FiveTaken DEF Data
  <2>4. QED
    BY <2>1, <2>2, <2>3 DEF Counts
<1>7. CASE GoesAstray
  <2>1. /\ pc = "id" /\ total < 0 /\ wire # <<>> /\ (inBlock # 0 \/ offset # 0)
        /\ Empty' /\ UNCHANGED <<pc, req, total, current, bytesread, peerClosed,
                                 strays, misread>>
    BY <1>7 DEF GoesAstray, call, Empty
  <2>2. strays # 0 /\ total = -1
    BY <2>1, NoMismatch DEF Data
  <2>3. Data' /\ Placed' /\ Counts'
    BY <2>1, <2>2 DEF Data, Placed, Empty, Counts
  <2>4. Astray'
    BY <2>1, <2>2 DEF Astray, Data
  <2>5. QED
    BY <2>1, <2>2, <2>3, <2>4
<1>8. CASE ReadComp
  <2>1. /\ Reads(0, IdLen) /\ bytesread = IdLen /\ Length(req) \in Nat
        /\ Length(req) >= CompLen /\ total' = Length(req) /\ req' = req
        /\ current' = CompLen /\ bytesread' = IdLen + CompLen /\ pc' = "payload"
        /\ TakesData(CompLen) /\ UNCHANGED <<strays, peerClosed, astray>>
        /\ ~astray
    BY <1>8, LengthType DEF ReadComp, Counts, Data, Length, Astray
  <2>2. /\ ~misread'
        /\ wire' \in Seq(Files) /\ inBlock' \in 0..MaxBlock /\ offset' \in Nat
        /\ Placed'
        /\ CompLen = Length(req) => AtStart' /\ wire' = Tail(wire)
        /\ CompLen < Length(req) => Reads(CompLen, IdLen + CompLen)' /\ wire' = wire
    BY <2>1, Taken
  <2>3. Data' /\ Counts'
    BY <2>1, <2>2 DEF Data, Counts
  <2>4. strays' = 0 => Owed'
    <3> SUFFICES ASSUME strays' = 0 PROVE Owed'
      OBVIOUS
    <3>1. Len(wire) = 1
      <4>1. wire # <<>> /\ Data /\ Len(wire) <= 1
        BY <2>1 DEF Owed, Reads
      <4> HIDE DEF Inv
      <4>2. QED
        BY <4>1, WireFacts
    <3>2. CASE CompLen = Length(req)
      <4>1. wire' = <<>>
        <5>1. wire # <<>> /\ wire' = Tail(wire) /\ Data
          BY <2>1, <2>2, <3>2 DEF Reads
        <5> HIDE DEF Inv
        <5>2. QED
          BY <3>1, <5>1, TailOfOne
      <4>2. Len(wire') = 0 /\ Empty'
        BY <2>2, <3>2, <4>1, LengthOfEmpty DEF Empty, AtStart
      <4>3. QED
        BY <2>1, <4>2 DEF Owed
    <3>3. CASE CompLen < Length(req)
      <4>1. wire' = wire
        BY <2>2, <3>3
      <4>2. pc' = "payload" /\ current' # total'
        BY <2>1, <3>3
      <4> HIDE DEF Inv
      <4>3. Len(wire') <= 1
        BY <3>1, <4>1
      <4>4. QED
        BY <4>2, <4>3 DEF Owed
    <3>4. QED
      BY <2>1, <3>2, <3>3
  <2>5. QED
    BY <2>1, <2>2, <2>3, <2>4
<1>9. CASE ReadPayload
  <2>1. /\ total = Length(req) /\ total \in Nat /\ current \in Nat
        /\ current <= total /\ bytesread \in Nat /\ IdLen <= bytesread
        /\ bytesread < MaxBlock /\ ~astray
    BY <1>9, LengthType DEF ReadPayload, Counts, Data, Astray
  <2>2. PICK n \in Nat, c \in Nat, b \in Nat :
          n = PayloadSize /\ c = current /\ b = bytesread
    BY <2>1 DEF PayloadSize
  <2>3. /\ c + n <= total /\ b + n <= MaxBlock /\ (n = 0 <=> c = total)
        /\ c + n = total \/ (c + n < total /\ b + n = MaxBlock)
    BY <2>1, <2>2 DEF PayloadSize
  <2>4. /\ TakesData(n) /\ current' = c + n
        /\ pc' = IF c + n < total THEN "id" ELSE "idle"
        /\ UNCHANGED <<req, total, bytesread, strays, peerClosed, astray>>
    BY <1>9, <2>2 DEF ReadPayload
  <2>5. CASE n = 0
    <3>1. AtStart /\ current = total /\ pc = "payload"
      BY <1>9, <2>1, <2>2, <2>3, <2>5 DEF ReadPayload, Counts
    <3>2. UNCHANGED <<wire, inBlock, offset, misread>>
      BY <2>4, <2>5 DEF TakesData, stream
    <3>3. pc' = "idle" /\ current' = total
      BY <2>2, <2>4, <2>5, <3>1
    <3>4. Data' /\ Placed' /\ Counts'
      BY <2>1, <2>4, <3>1, <3>2, <3>3 DEF Data, Placed, Empty, Counts, AtStart, Length
    <3>5. strays' = 0 => Owed'
      BY <2>4, <3>1, <3>2, <3>3 DEF Owed, Empty
    <3>6. QED
      BY <2>1, <2>4, <3>2, <3>4, <3>5
  <2>6. CASE n # 0
    <3>1. Reads(c, b) /\ IdLen <= b /\ c + n <= Length(req)
      BY <1>9, <2>1, <2>2, <2>3, <2>6 DEF ReadPayload, Counts
    <3>2. /\ ~misread'
          /\ wire' \in Seq(Files) /\ inBlock' \in 0..MaxBlock /\ offset' \in Nat
          /\ Placed'
          /\ c + n = Length(req) => AtStart' /\ wire' = Tail(wire)
          /\ c + n < Length(req) => wire' = wire
          /\ c + n < Length(req) /\ b + n = MaxBlock => Reads(c + n, 0)'
      BY <2>3, <2>4, <2>6, <3>1, Taken
    <3>3. strays' = 0 => Len(wire) = 1
      <4>1. wire # <<>> /\ Data /\ (strays' = 0 => Len(wire) <= 1)
        BY <2>4, <3>1 DEF Owed, Reads
      <4> HIDE DEF Inv
      <4>2. QED
        BY <4>1, WireFacts
    <3>4. CASE c + n = total
      <4>1. pc' = "idle" /\ AtStart' /\ current' = Length(req')
        BY <2>1, <2>4, <3>2, <3>4
      <4>2. Data' /\ Counts'
        BY <2>1, <2>4, <3>2, <4>1 DEF Data, Counts
      <4>3. strays' = 0 => Empty' /\ Len(wire') = 0
        <5>1. wire # <<>> /\ wire' = Tail(wire) /\ Data
          BY <2>1, <3>1, <3>2, <3>4 DEF Reads
        <5>2. strays' = 0 => wire' = <<>>
          <6> HIDE DEF Inv
          <6>1. QED
            BY <3>3, <5>1, TailOfOne
        <5>3. QED
          BY <4>1, <5>2, LengthOfEmpty DEF Empty, AtStart
      <4>4. strays' = 0 => Owed'
        BY <4>1, <4>3 DEF Owed
      <4>5. QED
        BY <2>1, <2>4, <3>2, <4>2, <4>4
    <3>5. CASE c + n < total
      <4>1. Reads(c + n, 0)' /\ pc' = "id" /\ wire' = wire
        BY <2>1, <2>3, <2>4, <3>2, <3>5
      <4>2. Data' /\ Counts'
        BY <2>1, <2>4, <3>2, <3>5, <4>1 DEF Data, Counts, Reads
      <4>3. strays' = 0 => Owed'
        BY <2>1, <2>4, <3>3, <4>1 DEF Owed
      <4>4. QED
        BY <2>1, <2>4, <3>2, <4>2, <4>3
    <3>6. QED
      BY <2>3, <3>4, <3>5
  <2>7. QED
    BY <2>5, <2>6
<1>10. CASE ReadFails
  BY <1>10 DEF ReadFails, call, Data, Placed, Empty, Counts, Owed, Astray
<1>11. CASE SendFails
  <2>1. /\ pc \in {"idle", "failed"} /\ pc' = "failed"
        /\ UNCHANGED <<req, total, current, bytesread, wire, inBlock, offset,
                      peerClosed, strays, misread, astray>>
    BY <1>11 DEF SendFails, call, stream
  <2>2. QED
    BY <2>1 DEF Data, Placed, Empty, Counts, Owed, Astray, Length
<1>12. CASE PeerCloses
  <2>1. /\ peerClosed' = TRUE
        /\ UNCHANGED <<pc, req, total, current, bytesread, wire, inBlock, offset,
                      strays, misread, astray>>
    BY <1>12 DEF PeerCloses, call, stream
  <2>2. QED
    BY <2>1 DEF Data, Placed, Empty, Counts, Owed, Astray, AtStart, Reads, Length
<1>13. CASE Blind
  <2>1. /\ astray /\ pc' \in {"idle", "failed"}
        /\ UNCHANGED <<req, total, current, bytesread, wire, inBlock, offset,
                      peerClosed, strays, misread, astray>>
    BY <1>13 DEF Blind, call, stream
  <2>2. strays # 0 /\ Astray'
    BY <2>1 DEF Astray, Empty, Data
  <2>3. QED
    BY <2>1, <2>2 DEF Data, Placed, Empty, Counts, Length
<1>14. CASE UNCHANGED vars
  BY <1>14 DEF vars, call, stream, Data, Placed, Empty, Counts, Owed, Astray,
               AtStart, Reads, Length
<1>15. QED
  BY <1>1, <1>2, <1>3, <1>4, <1>5, <1>6, <1>7, <1>8, <1>9, <1>10, <1>11, <1>12,
     <1>13, <1>14 DEF Next, Step

LEMMA InitInv == Init => Inv /\ ~misread
BY DEF Init, Inv, Data, Placed, Empty, Counts, Owed, AtStart, Reading

FlagsOK == peerClosed \in BOOLEAN /\ misread \in BOOLEAN /\ astray \in BOOLEAN

LEMMA FlagsStep == FlagsOK /\ [Next]_vars => FlagsOK'
<1> SUFFICES ASSUME FlagsOK, [Next]_vars PROVE FlagsOK'
  OBVIOUS
<1> USE DEF Next, Step, Connect, Destroy, Request, Stray, ReadId, Mismatch,
            GoesAstray, Blind, ReadComp, ReadPayload, ReadFails, SendFails,
            PeerCloses, vars
<1>1. peerClosed' = peerClosed \/ peerClosed' = FALSE \/ peerClosed' = TRUE
  OBVIOUS
<1>2. \/ misread' = misread \/ misread' = (misread \/ inBlock # 0)
      \/ \E n : misread' = (misread \/ ~HoldsData(n))
  BY DEF TakesData
<1>3. astray' = astray \/ astray' = FALSE \/ astray' = TRUE
  OBVIOUS
<1>4. QED
  BY <1>1, <1>2, <1>3 DEF FlagsOK

(* Every behaviour of the socket is type-correct. *)
THEOREM TypeCorrect == Spec => []TypeOK
<1>1. Init => FlagsOK
  BY DEF Init, FlagsOK
<1>2. Inv /\ FlagsOK => TypeOK
  BY DEF Inv, FlagsOK, Data, TypeOK
<1>3. QED
  BY <1>1, <1>2, InitInv, Steps, FlagsStep, PTL DEF Spec

(* Whatever the block size and the lengths of the containers, and however  *)
(* many calls on the connection have failed, getFile returns exactly the   *)
(* container it asked for and leaves the connection at the start of the    *)
(* next; but for a connection gone astray, on which a container came that  *)
(* nobody had asked for.                                                   *)
THEOREM Framing == Spec => []AnswerIsExact
<1>1. Inv /\ ~misread => AnswerIsExact
  BY DEF Inv, Counts, AtStart, Owed, Empty, Astray, AnswerIsExact, InSync, Data
<1>2. QED
  BY <1>1, InitInv, Steps, PTL DEF Spec

(* Without a container nobody asked for, a call, be it the first or one    *)
(* after others that failed, can fail only once the peer has closed the    *)
(* connection.                                                             *)
THEOREM FailureHasCause == Spec => []FailsWithCause
<1>1. Init => FailsWithCause
  BY DEF Init, FailsWithCause
<1>2. Inv /\ FailsWithCause /\ [Next]_vars => FailsWithCause'
  <2> SUFFICES ASSUME Inv, FailsWithCause, [Next]_vars, pc' = "failed"
               PROVE  peerClosed' \/ strays' > 0
    BY DEF FailsWithCause
  <2>1. CASE Mismatch
    <3>1. /\ wire # <<>> /\ strays' = strays /\ pc = "id"
          /\ (inBlock = 0 => Head(wire) # req)
      BY <2>1 DEF Mismatch
    <3>2. strays # 0
      BY <3>1, NoMismatch
    <3>3. QED
      BY <3>1, <3>2 DEF Inv, Data
  <2>2. CASE ReadFails \/ SendFails
    BY <2>2 DEF ReadFails, SendFails
  <2>3. CASE PeerCloses
    BY <2>3 DEF PeerCloses
  <2>4. CASE Blind
    BY <2>4 DEF Blind, Inv, Astray
  <2>5. CASE UNCHANGED vars
    BY <2>5 DEF vars, FailsWithCause
  <2>6. CASE \E f \in Files : Stray(f)
    BY <2>6 DEF Stray, Inv, Data
  <2>7. ~(Connect \/ Destroy \/ ReadId \/ ReadComp \/ ReadPayload \/ GoesAstray)
    BY DEF Connect, Destroy, ReadId, ReadComp, ReadPayload, GoesAstray
  <2>8. \A f \in Files : ~Request(f)
    BY DEF Request
  <2>9. QED
    BY <2>1, <2>2, <2>3, <2>4, <2>5, <2>6, <2>7, <2>8 DEF Next, Step
<1>3. QED
  BY <1>1, <1>2, InitInv, Steps, PTL DEF Spec

=============================================================================

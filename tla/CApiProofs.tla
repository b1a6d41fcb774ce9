----------------------------- MODULE CApiProofs ------------------------------
(***************************************************************************)
(* Proofs about CApi for every cache, every mapping of types and every     *)
(* order of calls.                                                         *)
(***************************************************************************)
EXTENDS CApi, RSCacheProofs

(* Arithmetic of ids: archive and file, put together and taken apart.       *)
LEMMA PowerType == \A s \in Nat : 2 ^ s \in Int
OBVIOUS

LEMMA TakenApart ==
  ASSUME NEW p \in Int, NEW a \in Nat, NEW f \in Nat, f < p
  PROVE  a * p + f \in Nat /\ (a * p + f) \div p = a /\ (a * p + f) % p = f
<1>1. p \in Nat /\ p > 0
  OBVIOUS
<1>2. a * p \in Nat
  BY <1>1
<1>3. a * p + f \in Nat
  BY <1>2
<1>4. (a * p + f) \div p = a
  BY <1>1
<1>5. (a * p + f) % p = f
  BY <1>1
<1>6. QED
  BY <1>3, <1>4, <1>5

LEMMA NextArchive ==
  ASSUME NEW p \in Int, NEW a \in Nat, NEW b \in Nat, NEW f \in Nat, f < p, a < b
  PROVE  a * p + f < b * p
<1>1. p > 0 /\ a + 1 <= b
  OBVIOUS
<1>2. (a + 1) * p <= b * p
  BY <1>1
<1>3. (a + 1) * p = a * p + p
  OBVIOUS
<1>4. a * p \in Int /\ b * p \in Int
  OBVIOUS
<1> DEFINE ap == a * p
           bp == b * p
<1>5. ap + p <= bp /\ ap \in Int /\ bp \in Int
  BY <1>2, <1>3, <1>4
<1> HIDE DEF ap, bp
<1>6. ap + f < bp
  BY <1>5
<1>7. QED
  BY <1>6 DEF ap, bp

LEMMA InItsArchive ==
  ASSUME NEW p \in Int, NEW a \in Nat, NEW f \in Nat, f < p
  PROVE  /\ a * p \in Nat /\ a * p <= a * p + f
         /\ \A h \in Nat : f < h => a * p + f < a * p + h
<1>1. p \in Nat
  OBVIOUS
<1>2. a * p \in Nat
  BY <1>1
<1> DEFINE ap == a * p
<1>3. ap \in Nat
  BY <1>2
<1> HIDE DEF ap
<1>4. ap <= ap + f /\ \A h \in Nat : f < h => ap + f < ap + h
  BY <1>3
<1>5. QED
  BY <1>3, <1>4 DEF ap

LEMMA ExactlyMet == \A n \in Nat, L \in Int : n <= L /\ ~(n < L) => n = L
OBVIOUS

(* What a sweep adds of the files S of an archive, to what it has and      *)
(* under a limit L: they come before those it leaves out, and if it leaves *)
(* any out the limit is met.                                               *)
InOrder(t, g, S, old) ==
  /\ S \subseteq Nat /\ IsFiniteSet(S) /\ \A f \in S : IdOf(t, g, f) \in Nat
  /\ \A f, h \in S : f < h => IdOf(t, g, f) < IdOf(t, g, h)
  /\ old \subseteq Nat /\ IsFiniteSet(old)
  /\ \A e \in old : \A f \in S : e < IdOf(t, g, f)

Swept(t, g, S, old, L) ==
  old \cup {IdOf(t, g, f) : f \in Prefix(S, Cardinality(old), L)}

Limited(t, g, S, new, L) ==
  /\ IsFiniteSet(new) /\ Cardinality(new) <= L
  /\ \A f \in S : \/ IdOf(t, g, f) \in new
                  \/ Cardinality(new) = L /\ \A e \in new : e < IdOf(t, g, f)

LEMMA CountOfSweep ==
  ASSUME NEW t, NEW g, NEW S, NEW old, InOrder(t, g, S, old),
         NEW L \in Nat, Cardinality(old) <= L
  PROVE  Limited(t, g, S, Swept(t, g, S, old, L), L)
<1> DEFINE n == Cardinality(old)
           P == Prefix(S, n, L)
           ids == {IdOf(t, g, f) : f \in P}
           new == old \cup ids
<1>1. n \in Nat /\ n <= L
  BY FS_CardinalityType DEF InOrder
<1>2. /\ IsFiniteSet(P) /\ Cardinality(P) \in Nat /\ n + Cardinality(P) <= L
      /\ \A f \in S \ P : n + Cardinality(P) = L /\ \A h \in P : h < f
  BY <1>1, PrefixFacts DEF InOrder
<1>3. P \subseteq S
  BY DEF Prefix
<1> HIDE DEF n, P
<1>4. IsFiniteSet(ids) /\ Cardinality(ids) = Cardinality(P)
  <2> DEFINE to == [f \in P |-> IdOf(t, g, f)]
  <2>1. ASSUME NEW f \in P, NEW h \in P, to[f] = to[h] PROVE f = h
    <3>1. f \in Nat /\ h \in Nat /\ f \in S /\ h \in S
      BY <1>3 DEF InOrder
    <3>2. IdOf(t, g, f) = IdOf(t, g, h) /\ IdOf(t, g, f) \in Nat
      BY <2>1, <3>1 DEF InOrder
    <3>3. ~(f < h) /\ ~(h < f)
      BY <3>1, <3>2 DEF InOrder
    <3>4. QED
      BY <3>1, <3>3
  <2>2. to \in [P -> ids] /\ \A e \in ids : \E f \in P : to[f] = e
    OBVIOUS
  <2> HIDE DEF to, ids
  <2>3. to \in Bijection(P, ids)
    BY <2>1, <2>2 DEF Bijection, Injection, Surjection, IsInjective
  <2>4. QED
    BY <1>2, <2>3, FS_Bijection DEF ExistsBijection
<1>5. old \cap ids = {}
  <2>1. ASSUME NEW e \in old, NEW f \in P PROVE e # IdOf(t, g, f)
    <3>1. e \in Nat /\ IdOf(t, g, f) \in Nat /\ e < IdOf(t, g, f)
      BY <1>3 DEF InOrder
    <3>2. QED
      BY <3>1
  <2>2. QED
    BY <2>1
<1>6. IsFiniteSet(new) /\ Cardinality(new) = n + Cardinality(P)
  <2> HIDE DEF ids
  <2>1. IsFiniteSet(old \cup ids)
          /\ Cardinality(old \cup ids) = n + Cardinality(ids) - Cardinality(old \cap ids)
    BY <1>4, FS_Union DEF n, InOrder
  <2>2. Cardinality(old \cap ids) = 0
    BY <1>5, FS_EmptySet
  <2>3. QED
    BY <1>1, <1>2, <1>4, <2>1, <2>2
<1>7. ASSUME NEW f \in S, f \notin P
      PROVE  Cardinality(new) = L /\ \A e \in new : e < IdOf(t, g, f)
  <2>1. n + Cardinality(P) = L /\ \A h \in P : h < f
    BY <1>2, <1>7
  <2>2. \A h \in P : IdOf(t, g, h) < IdOf(t, g, f)
    BY <1>3, <2>1 DEF InOrder
  <2>3. QED
    BY <1>6, <2>1, <2>2 DEF InOrder
<1>8. new = Swept(t, g, S, old, L)
  BY DEF Swept, n, P
<1>9. Cardinality(new) <= L
  BY <1>2, <1>6
<1> HIDE DEF new
<1>10. \A f \in S : IdOf(t, g, f) \in new \/ f \notin P
  BY DEF new
<1>11. Limited(t, g, S, new, L)
  BY <1>6, <1>7, <1>9, <1>10, Zenon DEF Limited
<1>12. QED
  BY <1>8, <1>11

(* The parts of a call. *)
LEMMA CallParts ==
  ASSUME NEW what \in Call
  PROVE  /\ what.op \in Op /\ what.type \in Types \cup {"none"} /\ what.id \in Nat
         /\ what.limit \in Int
<1>1. what.op \in Op
  BY DEF Call
<1>2. what.type \in Types \cup {"none"}
  BY DEF Call
<1>3. what.id \in Ids \cup ArchiveIds \cup {0}
  BY DEF Call
<1>4. what.limit \in Limits \cup {-1}
  BY DEF Call
<1>5. Ids \cup ArchiveIds \cup {0} \subseteq Nat /\ Limits \cup {-1} \subseteq Int
  BY CApiAssumption
<1>6. what.id \in Nat
  BY <1>3, <1>5, Zenon
<1>7. what.limit \in Int
  BY <1>4, <1>5, Zenon
<1>8. QED
  BY <1>1, <1>2, <1>6, <1>7

-----------------------------------------------------------------------------
USE TablesAssumption, LiveBuildAssumption, BuildsAssumption DEF Group

(* Where a type's entries are is in the cache's range.                     *)
LEMMA MappingType ==
  ASSUME NEW t \in Types
  PROVE  /\ Mapping[t].index \in IndexIds
         /\ Mapping[t].archive \in ArchiveIds \cup {Sharded}
         /\ Mapping[t].shift \in Nat
BY CApiAssumption DEF TypeMapping

LEMMA RowsType == RowGroup \in Group /\ "dbrow" \in Types /\ ~IsSharded("dbrow")
<1>1. "dbrow" \in Types /\ Mapping["dbrow"].archive # Sharded
  BY CApiAssumption
<1>2. QED
  BY <1>1, MappingType DEF RowGroup, IsSharded

LEMMA WholeType == \A t \in Whole : t \in Types /\ IsSharded(t)
BY CApiAssumption DEF IsSharded
-----------------------------------------------------------------------------
(* What a step does to the cache: a call of it, or nothing.                *)
CacheUse ==
  \/ UNCHANGED cache
  \/ \E g \in Group : Obtains(g) \/ Raises(g)
  \/ \E i \in IndexIds : Lists(i)
  \/ EnableLiveFallback
  \/ Environment

(* What a call goes on with, and what has been handed over so far. *)
Positions ==
  /\ pc = "idle" => out = {}
  /\ pc \in {"load", "rows"} =>
       out = {} /\ (call.op = "row" \/ (call.op = "dump" /\ Type = "dbrow"))
  /\ pc = "rows" => provider.made
  /\ pc = "sweep" => call.op = "dump" /\ Type \in Types \ {"dbrow"}
  /\ pc = "model" => call.op = "icon" /\ call.id \in Ids /\ ModelOf[call.id] > 0
  /\ pc = "square" => call.op = "map"
  /\ pc = "reply" => (call.op = "dump" => Type \in Types)
                     /\ (call.op = "ids" => Type \in Types)
                     /\ (call.op = "null" => Type = "gameval" /\ out = {})
  /\ pc # "idle" => published = 0
  /\ buffers = IF pc = "second" THEN 1 ELSE 0

LEMMA StepUsesCache ==
  Positions /\ [CallNext]_<<cache, handle>> => CacheUse \/ Reopen
<1> SUFFICES ASSUME Positions, [CallNext]_<<cache, handle>>
             PROVE  CacheUse \/ Reopen
  OBVIOUS
<1>1. ASSUME NEW t \in Types, NEW id \in Entries(t),
             Get(t, id) \/ ReadRaw(t, id) \/ Invalid(t, id) \/ ReadPlaced(t, id)
      PROVE  CacheUse
  BY <1>1 DEF Get, ReadRaw, Invalid, ReadPlaced, Entries, CacheUse
<1>2. ASSUME NEW id \in Entries("sprite"), GetNoFrame(id) PROVE CacheUse
  BY <1>2 DEF GetNoFrame, Entries, CacheUse
<1>3. ASSUME NEW id \in Entries("item"), Icon(id) \/ IconModel(id) PROVE CacheUse
  <2>1. CASE Icon(id)
    BY <2>1 DEF Icon, Entries, CacheUse
  <2>2. CASE IconModel(id)
    <3>1. GroupOf("model", ModelOf[id]) \in Group
      BY <2>2, ModelsAssumption DEF IconModel, Positions
    <3>2. QED
      BY <2>2, <3>1 DEF IconModel, CacheUse
  <2>3. QED
    BY <1>3, <2>1, <2>2
<1>4. ASSUME NEW a \in ArchiveIds, GetSquare(a) PROVE CacheUse
  BY <1>4, CApiAssumption DEF GetSquare, CacheUse
<1>5. ASSUME NEW a \in ArchiveIds, NEW t \in Whole, GetWhole(t, a) PROVE CacheUse
  BY <1>5, WholeType, MappingType DEF GetWhole, CacheUse
<1>6. ASSUME NEW t \in Types, ListIds(t) PROVE CacheUse
  BY <1>6, MappingType DEF ListIds, CacheUse
<1>7. ASSUME NEW i \in IndexIds, ListArchives(i) PROVE CacheUse
  BY <1>7 DEF ListArchives, CacheUse
<1>8. ASSUME NEW what, BeginRows(what) PROVE CacheUse
  BY <1>8 DEF BeginRows, CacheUse
<1>9. CASE LoadRows \/ DumpRows
  BY <1>9, RowsType DEF LoadRows, DumpRows, CacheUse
<1>10. ASSUME NEW t \in Types, NEW n \in Limits, BeginDump(t, n) PROVE CacheUse
  BY <1>10, MappingType DEF BeginDump, CacheUse
<1>11. ASSUME NEW g \in Group, SweepFiles(g) \/ SweepArchive(g) PROVE CacheUse
  BY <1>11 DEF SweepFiles, SweepArchive, CacheUse
<1>12. CASE SquareDone \/ GetRow \/ BeginGameVals \/ SweepDone \/ \E n \in Limits : DumpNull(n)
  BY <1>12 DEF SquareDone, GetRow, BeginGameVals, SweepDone, DumpNull, CacheUse
<1>13. CASE Reply \/ Second \/ ReplyFails \/ SecondFails
  BY <1>13 DEF Reply, Second, ReplyFails, SecondFails, CacheUse
<1>14. CASE Enable
  BY <1>14 DEF Enable, CacheUse
<1>15. CASE Environment \/ UNCHANGED <<cache, handle>>
  BY <1>15 DEF CacheUse
<1>16. QED
  BY <1>1, <1>2, <1>3, <1>4, <1>5, <1>6, <1>7, <1>8, <1>9, <1>10, <1>11, <1>12,
     <1>13, <1>14, <1>15, CApiAssumption DEF CallNext

LEMMA UseIsStep == CacheUse => [Next]_vars
<1>1. CASE UNCHANGED cache
  BY <1>1 DEF cache, vars
<1>2. CASE EnableLiveFallback
  BY <1>2 DEF Next
<1>3. CASE Environment
  BY <1>3 DEF Environment, Next
<1>4. QED
  BY <1>1, <1>2, <1>3, CallIsStep, ListsIsStep DEF CacheUse

LEMMA UseKeepsCache == CacheInv /\ CacheUse => CacheInv'
BY UseIsStep, CacheStep

LEMMA CallCacheStep ==
  CacheInv /\ Positions /\ [CallNext]_<<cache, handle>> => CacheInv'
<1>1. CacheInv /\ Reopen => CacheInv'
  <2>1. Reopen => NewCache(FALSE)
    BY DEF Reopen
  <2>2. QED
    BY <2>1, NewCacheIsEmpty DEF CacheInv
<1>2. QED
  BY <1>1, StepUsesCache, UseKeepsCache
-----------------------------------------------------------------------------
(* Ids of entries.                                                         *)
(* A file a build declares fits the shift of its type. *)
LEMMA DeclaredFits ==
  ASSUME NEW t \in Types \ {"if"}, IsSharded(t), NEW g \in Group, g[1] = Mapping[t].index,
         NEW b, NEW f \in DeclaredFiles(b, g)
  PROVE  f \in Nat /\ f < 2 ^ Mapping[t].shift
<1>1. b \in Builds /\ f \in Tables[b][g] /\ f \in FileIds
  BY DEF DeclaredFiles
<1>2. g = <<Mapping[t].index, g[2]>> /\ g[2] \in ArchiveIds
  OBVIOUS
<1>3. \A h \in Tables[b][<<Mapping[t].index, g[2]>>] : h < 2 ^ Mapping[t].shift
  BY <1>1, <1>2, CApiAssumption DEF IsSharded
<1>4. QED
  BY <1>1, <1>2, <1>3, CApiAssumption

LEMMA IdOfType ==
  ASSUME NEW t \in Types \ {"if"}, NEW g \in Group,
         g[1] = Mapping[t].index, IsSharded(t) \/ g[2] = Mapping[t].archive,
         NEW b, NEW f \in DeclaredFiles(b, g)
  PROVE  /\ IdOf(t, g, f) \in Nat
         /\ GroupOf(t, IdOf(t, g, f)) = g
         /\ FileOf(t, IdOf(t, g, f)) = f
<1>1. g = <<Mapping[t].index, g[2]>> /\ g[2] \in ArchiveIds /\ f \in FileIds
  <2>1. f \in FileIds
    BY DEF DeclaredFiles
  <2>2. QED
    BY <2>1
<1>2. g[2] \in Nat /\ f \in Nat
  BY <1>1, CApiAssumption
<1>3. CASE IsSharded(t)
  <2> DEFINE p == 2 ^ Mapping[t].shift
  <2>1. f < p /\ p \in Int
    BY <1>3, DeclaredFits, MappingType, PowerType
  <2>2. IdOf(t, g, f) = g[2] * p + f
    BY <1>3 DEF IdOf
  <2>3. \A id : GroupOf(t, id) = <<Mapping[t].index, id \div p>> /\ FileOf(t, id) = id % p
    BY <1>3 DEF GroupOf, FileOf
  <2> HIDE DEF p
  <2>4. /\ g[2] * p + f \in Nat
        /\ (g[2] * p + f) \div p = g[2] /\ (g[2] * p + f) % p = f
    BY <1>2, <2>1, TakenApart
  <2>5. QED
    BY <1>1, <2>2, <2>3, <2>4
<1>4. CASE ~IsSharded(t)
  BY <1>1, <1>2, <1>4 DEF IdOf, GroupOf, FileOf
<1>5. QED
  BY <1>3, <1>4

LEMMA SeenIsDeclared ==
  ASSUME NEW g, NEW f, Seen(g, f) # "empty"
  PROVE  archives[g] = "loaded" /\ f \in DeclaredFiles(table[g[1]], g)
BY DEF Seen, FileIdsOf
-----------------------------------------------------------------------------
(* Type correctness of the call at hand.                                   *)
Provider == [made : BOOLEAN, rows : SUBSET FileIds, incomplete : BOOLEAN]

CallType ==
  /\ pc \in {"idle", "load", "rows", "sweep", "model", "square", "reply", "second"}
  /\ call \in Call /\ (pc = "idle" => call = NoCall)
  /\ todo \in SUBSET ArchiveIds /\ out \in SUBSET Nat
  /\ provider \in Provider
  /\ published \in 0..2 /\ result \in Result
  /\ pc = "idle" => (result # "OK" => published = 0)

LEMMA RowProvider ==
  ASSUME NEW rows \in SUBSET FileIds, NEW damaged \in BOOLEAN
  PROVE  [made |-> TRUE, rows |-> rows, incomplete |-> damaged] \in Provider
BY DEF Provider

LEMMA TypeIsBoth == Positions /\ TypeOK /\ CallType => CallTypeOK
<1> SUFFICES ASSUME Positions, TypeOK, CallType PROVE CallTypeOK
  OBVIOUS
<1>1. buffers \in 0..2 /\ (pc = "idle" => buffers = 0)
  BY DEF Positions
<1>2. QED
  BY <1>1, Zenon DEF CallType, CallTypeOK, Provider

LEMMA CallShapes ==
  /\ NoCall \in Call
  /\ \A op \in Op : \A id \in Ids \cup ArchiveIds \cup {0} : Asks(op, id) \in Call
  /\ \A op \in Op : \A t \in Types, n \in Limits \cup {-1} : Sweep(op, t, n) \in Call
BY DEF Call, NoCall, Asks, Sweep, Op

Handle == CallType /\ Positions

(* The four ways a step of a call ends. *)
LEMMA FailsType ==
  ASSUME Handle, pc # "second", NEW code \in Result \ {"none", "OK"}, Fails(code),
         published' = 0, provider' \in Provider
  PROVE  Handle'
<1>1. CallType'
  BY CallShapes DEF Fails, Handle, CallType
<1>2. Positions'
  BY DEF Fails, Handle, Positions
<1>3. QED
  BY <1>1, <1>2 DEF Handle

LEMMA RepliesType ==
  ASSUME Handle, pc # "second", NEW what \in Call, NEW entries \in SUBSET Nat,
         Replies(what, entries), what.op \in {"dump", "ids"} => what.type \in Types,
         what.op = "null" => what.type = "gameval" /\ entries = {},
         published' = 0, provider' \in Provider
  PROVE  Handle'
<1>1. CallType'
  BY DEF Replies, Handle, CallType, Result
<1>2. Positions'
  BY DEF Replies, Handle, Positions, Type
<1>3. QED
  BY <1>1, <1>2 DEF Handle

LEMMA GoesOnType ==
  ASSUME Handle, pc # "second", NEW what \in Call, NEW where \in {"rows", "model", "square"},
         GoesOn(what, where), published' = 0, provider' \in Provider,
         where = "model" => what.op = "icon" /\ what.id \in Ids /\ ModelOf[what.id] > 0,
         where = "square" => what.op = "map",
         where = "rows" => /\ provider'.made /\ out = {}
                           /\ what.op = "row" \/ (what.op = "dump" /\ what.type = "dbrow")
  PROVE  Handle'
<1>1. CallType'
  BY DEF GoesOn, Handle, CallType, Result
<1>2. Positions'
  BY DEF GoesOn, Handle, Positions, Type
<1>3. QED
  BY <1>1, <1>2 DEF Handle

(* What a call's start and its later steps have in common. *)
LEMMA StartsType ==
  ASSUME Handle, Starts, UNCHANGED provider
  PROVE  /\ pc # "second" /\ published' = 0 /\ provider' \in Provider
BY DEF Handle, Starts, CallType

LEMMA ContinuesType ==
  ASSUME Handle, pc # "idle", UNCHANGED <<published, provider>>
  PROVE  published' = 0 /\ provider' \in Provider
BY DEF Handle, Positions, CallType

LEMMA SeenType ==
  ASSUME CacheInv', NEW g \in Group, NEW f
  PROVE  Seen(g, f)' \in {"good", "bad", "empty"}
<1>1. CASE archives'[g] = "loaded" /\ f \in FileIdsOf(g)'
  <2>1. content'[g] \in Content
    BY <1>1 DEF CacheInv, TypeOK, LoadedIsDeclared
  <2>2. f \in FileIds
    <3>1. f \in DeclaredFiles(table[g[1]], g)'
      BY <1>1 DEF FileIdsOf
    <3>2. QED
      BY <3>1 DEF DeclaredFiles
  <2>3. Decodes[content'[g]][g][f] \in {"good", "empty", "bad"}
    BY <2>1, <2>2, DecodesAssumption
  <2>4. QED
    BY <1>1, <2>3 DEF Seen
<1>2. CASE ~(archives'[g] = "loaded" /\ f \in FileIdsOf(g)')
  BY <1>2 DEF Seen
<1>3. QED
  BY <1>1, <1>2

(* A call that reads one archive ends there, or goes on with a second. *)
LEMMA GetterType ==
  ASSUME Handle, CacheInv',
         \/ \E t \in Types, id \in Ids : GroupOf(t, id) \in Group
                                         /\ (Get(t, id) \/ ReadRaw(t, id) \/ Invalid(t, id))
         \/ \E id \in Ids : GetNoFrame(id)
         \/ \E t \in Whole, a \in ArchiveIds : GetWhole(t, a)
  PROVE  Handle'
<1>1. Starts /\ UNCHANGED provider
  BY DEF Get, ReadRaw, Invalid, GetNoFrame, GetWhole
<1>2. pc # "second" /\ published' = 0 /\ provider' \in Provider
  BY <1>1, StartsType
<1>3. ASSUME \E code \in Result \ {"none", "OK"} : Fails(code) PROVE Handle'
  BY <1>2, <1>3, FailsType
<1>4. Asks("get", 0) \in Call /\ Asks("get", 0).op = "get"
  BY CallShapes DEF Asks, Op
<1>5. ASSUME NEW id \in Nat, Replies(Asks("get", 0), {id}) PROVE Handle'
  BY <1>2, <1>4, <1>5, RepliesType
<1>6. {"DECODE", "NOT_FOUND", "INVALID", "IO"} \subseteq Result \ {"none", "OK"}
  BY DEF Result
<1>7. Ids \subseteq Nat /\ ArchiveIds \subseteq Nat
  BY CApiAssumption
<1>8. ASSUME NEW t \in Types, NEW id \in Ids, GroupOf(t, id) \in Group, Get(t, id)
      PROVE  Handle'
  <2>1. Seen(GroupOf(t, id), FileOf(t, id))' \in {"good", "bad", "empty"}
    BY <1>8, SeenType
  <2>2. Fails("DECODE") \/ Fails("NOT_FOUND") \/ Replies(Asks("get", 0), {id})
    BY <1>8, <2>1 DEF Get
  <2>3. QED
    BY <1>3, <1>5, <1>6, <1>7, <2>2
<1>9. ASSUME NEW t, NEW id \in Ids, ReadRaw(t, id) PROVE Handle'
  <2>1. Fails("IO") \/ Fails("NOT_FOUND") \/ Replies(Asks("get", 0), {id})
    BY <1>9 DEF ReadRaw
  <2>2. QED
    BY <1>3, <1>5, <1>6, <1>7, <2>1
<1>10. ASSUME NEW t, NEW id, Invalid(t, id) \/ GetNoFrame(id) PROVE Handle'
  BY <1>3, <1>6, <1>10 DEF Invalid, GetNoFrame
<1>11. ASSUME NEW t, NEW a \in ArchiveIds, GetWhole(t, a) PROVE Handle'
  <2>1. Fails("DECODE") \/ Fails("NOT_FOUND") \/ Replies(Asks("get", 0), {a})
    BY <1>11 DEF GetWhole
  <2>2. QED
    BY <1>3, <1>5, <1>6, <1>7, <2>1
<1>12. QED
  BY <1>8, <1>9, <1>10, <1>11
-----------------------------------------------------------------------------
(* The archives a listing of a type goes through, and the ids in them. *)
Own(t) == IF IsSharded(t) THEN {<<Mapping[t].index, a>> : a \in ArchiveIds}
                          ELSE {GroupOf(t, 0)}

LEMMA OwnType ==
  ASSUME NEW t \in Types, NEW g \in Own(t)
  PROVE  /\ g \in Group /\ g[1] = Mapping[t].index
         /\ IsSharded(t) \/ g[2] = Mapping[t].archive
<1>1. CASE IsSharded(t)
  BY <1>1, MappingType DEF Own
<1>2. CASE ~IsSharded(t)
  BY <1>2, MappingType DEF Own, GroupOf, IsSharded
<1>3. QED
  BY <1>1, <1>2

LEMMA IdOfNat ==
  ASSUME NEW t \in Types \ {"if"}, NEW g \in Group, g[1] = Mapping[t].index,
         NEW b, NEW f \in DeclaredFiles(b, g)
  PROVE  IdOf(t, g, f) \in Nat
<1>1. CASE IsSharded(t)
  BY <1>1, IdOfType
<1>2. CASE ~IsSharded(t)
  <2>1. f \in FileIds /\ FileIds \subseteq Nat
    BY CApiAssumption DEF DeclaredFiles
  <2>2. IdOf(t, g, f) = f
    BY <1>2 DEF IdOf
  <2>3. QED
    BY <2>1, <2>2, Zenon
<1>3. QED
  BY <1>1, <1>2

LEMMA ListsType ==
  ASSUME Handle, CacheInv',
         (\E t \in Types : ListIds(t)) \/ (\E i \in IndexIds : ListArchives(i))
  PROVE  Handle'
<1>1. Starts /\ UNCHANGED provider
  BY DEF ListIds, ListArchives
<1>2. pc # "second" /\ published' = 0 /\ provider' \in Provider
  BY <1>1, StartsType
<1>3. ASSUME Fails("IO") PROVE Handle'
  BY <1>2, <1>3, FailsType DEF Result
<1>4. ASSUME NEW t \in Types, ListIds(t), ~Fails("IO") PROVE Handle'
  <2> DEFINE ids == IF t = "if" THEN Listed(Mapping[t].index)'
                    ELSE UNION {{IdOf(t, g, f) : f \in FileIdsOf(g)'} : g \in Own(t)}
  <2>1. Replies(Sweep("ids", t, -1), ids)
    BY <1>4, Zenon DEF ListIds, Own
  <2>2. ids \in SUBSET Nat
    <3>1. CASE t = "if"
      <4>1. Listed(Mapping[t].index)' \in SUBSET ArchiveIds
        BY ListedType
      <4>2. QED
        BY <3>1, <4>1, CApiAssumption, Zenon
    <3>2. ASSUME t # "if", NEW g \in Own(t), NEW f \in FileIdsOf(g)'
          PROVE  IdOf(t, g, f) \in Nat
      <4>1. f \in DeclaredFiles(table'[g[1]], g)
        BY <3>2 DEF FileIdsOf
      <4>2. QED
        BY <3>2, <4>1, OwnType, IdOfNat
    <3>3. QED
      BY <3>1, <3>2
  <2>3. /\ Sweep("ids", t, -1) \in Call /\ Sweep("ids", t, -1).type = t
        /\ Sweep("ids", t, -1).op # "null"
    BY CallShapes DEF Sweep, Op
  <2> HIDE DEF ids
  <2>4. QED
    BY <1>2, <2>1, <2>2, <2>3, RepliesType
<1>5. ASSUME NEW i \in IndexIds, ListArchives(i), ~Fails("IO") PROVE Handle'
  <2>1. Replies(Asks("archives", 0), Listed(i)')
    BY <1>5 DEF ListArchives
  <2>2. Listed(i)' \in SUBSET Nat
    <3>1. Listed(i)' \in SUBSET ArchiveIds
      BY ListedType
    <3>2. QED
      BY <3>1, CApiAssumption, Zenon
  <2>3. Asks("archives", 0) \in Call /\ Asks("archives", 0).op = "archives"
    BY CallShapes DEF Asks, Op
  <2>4. QED
    BY <1>2, <2>1, <2>2, <2>3, RepliesType
<1>6. QED
  BY <1>3, <1>4, <1>5

LEMMA IconType ==
  ASSUME Handle, CacheInv', NEW id \in Ids,
         (GroupOf("item", id) \in Group /\ Icon(id)) \/ IconModel(id)
  PROVE  Handle'
<1>1. ASSUME NEW code \in {"DECODE", "NOT_FOUND"}, Fails(code), pc # "second",
             published' = 0, provider' \in Provider
      PROVE  Handle'
  BY <1>1, FailsType DEF Result
<1>2. id \in Nat
  BY CApiAssumption, Zenon
<1>3. CASE GroupOf("item", id) \in Group /\ Icon(id)
  <2>1. pc # "second" /\ published' = 0 /\ provider' \in Provider
    BY <1>3, StartsType DEF Icon
  <2>2. Seen(GroupOf("item", id), FileOf("item", id))' \in {"good", "bad", "empty"}
    BY <1>3, SeenType
  <2>3. Fails("DECODE") \/ Fails("NOT_FOUND")
          \/ (~(ModelOf[id] <= 0) /\ GoesOn(Asks("icon", id), "model"))
    BY <1>3, <2>2 DEF Icon
  <2>4. ASSUME ~(ModelOf[id] <= 0), GoesOn(Asks("icon", id), "model") PROVE Handle'
    <3>1. Asks("icon", id) \in Call /\ Asks("icon", id).op = "icon"
            /\ Asks("icon", id).id = id
      BY CallShapes DEF Asks, Op
    <3>2. ModelOf[id] > 0
      BY <2>4, CApiAssumption
    <3>3. QED
      BY <2>1, <2>4, <3>1, <3>2, GoesOnType
  <2>5. QED
    BY <1>1, <2>1, <2>3, <2>4
<1>4. CASE IconModel(id)
  <2> DEFINE g == GroupOf("model", ModelOf[id])
             f == FileOf("model", ModelOf[id])
  <2>1. pc # "idle" /\ pc # "second" /\ UNCHANGED <<published, provider>>
    BY <1>4 DEF IconModel
  <2>2. published' = 0 /\ provider' \in Provider
    BY <2>1, ContinuesType
  <2>3. g \in Group
    BY <1>4, ModelsAssumption DEF IconModel, Handle, Positions
  <2>4. Seen(g, f)' \in {"good", "bad", "empty"}
    BY <2>3, SeenType
  <2>5. Fails("DECODE") \/ Fails("NOT_FOUND") \/ Replies(call, {id})
    BY <1>4, <2>4 DEF IconModel
  <2>6. call \in Call /\ call.op = "icon"
    BY <1>4 DEF IconModel, Handle, Positions, CallType
  <2>7. QED
    BY <1>1, <1>2, <2>1, <2>2, <2>5, <2>6, RepliesType
<1>5. QED
  BY <1>3, <1>4

LEMMA SquareType ==
  ASSUME Handle, CacheInv',
         \/ \E a \in ArchiveIds : GetSquare(a)
         \/ \E t, id : ReadPlaced(t, id)
         \/ SquareDone
  PROVE  Handle'
<1>1. ASSUME NEW code \in {"DECODE", "NOT_FOUND"}, Fails(code), pc # "second",
             published' = 0, provider' \in Provider
      PROVE  Handle'
  BY <1>1, FailsType DEF Result
<1>2. ASSUME NEW a \in ArchiveIds, GetSquare(a) PROVE Handle'
  <2>1. pc # "second" /\ published' = 0 /\ provider' \in Provider
    BY <1>2, StartsType DEF GetSquare
  <2>2. Fails("DECODE") \/ Fails("NOT_FOUND") \/ GoesOn(Asks("map", a), "square")
    BY <1>2 DEF GetSquare
  <2>3. Asks("map", a) \in Call /\ Asks("map", a).op = "map"
    BY CallShapes DEF Asks, Op
  <2>4. QED
    BY <1>1, <2>1, <2>2, <2>3, GoesOnType
<1>3. ASSUME pc = "square", UNCHANGED <<published, provider>>
      PROVE  /\ pc # "second" /\ published' = 0 /\ provider' \in Provider
             /\ call \in Call /\ call.op = "map" /\ call.id \in Nat
  <2>1. call \in Call /\ call.op = "map"
    BY <1>3 DEF Handle, Positions, CallType
  <2>2. QED
    BY <1>3, <2>1, ContinuesType, CallParts
<1>4. ASSUME NEW t, NEW id, ReadPlaced(t, id) PROVE Handle'
  <2>1. pc = "square" /\ UNCHANGED <<published, provider>>
    BY <1>4 DEF ReadPlaced
  <2>2. Fails("DECODE") \/ GoesOn(call, "square")
    BY <1>4 DEF ReadPlaced
  <2>3. QED
    BY <1>1, <1>3, <2>1, <2>2, GoesOnType
<1>5. CASE SquareDone
  <2>1. pc = "square" /\ UNCHANGED <<published, provider>> /\ Replies(call, {call.id})
    BY <1>5 DEF SquareDone
  <2>2. QED
    BY <1>3, <2>1, RepliesType
<1>6. QED
  BY <1>2, <1>4, <1>5

LEMMA RowsStepType ==
  ASSUME Handle, CacheInv',
         \/ \E id \in Ids : BeginRows(Asks("row", id))
         \/ \E n \in Limits : BeginRows(Sweep("dump", "dbrow", n))
         \/ LoadRows \/ GetRow \/ DumpRows
  PROVE  Handle'
<1>1. ASSUME NEW code \in {"DECODE", "NOT_FOUND"}, Fails(code), pc # "second",
             published' = 0, provider' \in Provider
      PROVE  Handle'
  BY <1>1, FailsType DEF Result
<1>2. ASSUME NEW what \in Call, what.op = "row" \/ (what.op = "dump" /\ what.type = "dbrow"),
             BeginRows(what)
      PROVE  Handle'
  <2>1. pc = "idle" /\ published' = 0 /\ out = {} /\ out' = {} /\ buffers' = 0
    BY <1>2 DEF BeginRows, Starts, Handle, Positions
  <2>2. pc' \in {"load", "rows"} /\ (pc' = "rows" => provider'.made)
          /\ call' = what /\ result' = "none" /\ UNCHANGED <<todo, provider>>
    BY <1>2 DEF BeginRows
  <2>3. CallType'
    BY <1>2, <2>1, <2>2 DEF Handle, CallType, Result
  <2>4. Positions'
    BY <1>2, <2>1, <2>2 DEF Positions, Type
  <2>5. QED
    BY <2>3, <2>4 DEF Handle
<1>3. CASE \E id \in Ids : BeginRows(Asks("row", id))
  <2>1. PICK id \in Ids : BeginRows(Asks("row", id))
    BY <1>3
  <2>2. Asks("row", id) \in Call /\ Asks("row", id).op = "row"
    BY CallShapes DEF Asks, Op
  <2>3. QED
    BY <1>2, <2>1, <2>2
<1>4. CASE \E n \in Limits : BeginRows(Sweep("dump", "dbrow", n))
  <2>1. PICK n \in Limits : BeginRows(Sweep("dump", "dbrow", n))
    BY <1>4
  <2>2. /\ Sweep("dump", "dbrow", n) \in Call /\ Sweep("dump", "dbrow", n).op = "dump"
        /\ Sweep("dump", "dbrow", n).type = "dbrow"
    BY CallShapes, RowsType DEF Sweep, Op
  <2>3. QED
    BY <1>2, <2>1, <2>2
<1>5. CASE LoadRows
  <2>1. pc = "load" /\ pc # "second" /\ published' = 0
    BY <1>5 DEF LoadRows, Handle, Positions
  <2>2. provider' \in Provider
    <3> DEFINE rows == {f \in Good(RowGroup)' : \A h \in Bad(RowGroup)' : f < h}
               damaged == Bad(RowGroup)' # {} \/ archives'[RowGroup] # "loaded"
    <3>1. rows \in SUBSET FileIds /\ damaged \in BOOLEAN
      BY DEF Good
    <3>2. \/ provider' = [made |-> TRUE, rows |-> {}, incomplete |-> TRUE]
          \/ provider' = [made |-> TRUE, rows |-> rows, incomplete |-> damaged]
      BY <1>5 DEF LoadRows
    <3>3. {} \in SUBSET FileIds /\ TRUE \in BOOLEAN
      OBVIOUS
    <3> HIDE DEF rows, damaged
    <3>4. QED
      BY <3>1, <3>2, <3>3, RowProvider, Zenon
  <2>3. Fails("DECODE") \/ (GoesOn(call, "rows") /\ provider'.made)
    BY <1>5 DEF LoadRows
  <2>4. call \in Call /\ out = {} /\ (call.op = "row" \/ (call.op = "dump" /\ call.type = "dbrow"))
    BY <2>1 DEF Handle, CallType, Positions, Type
  <2>5. QED
    BY <1>1, <2>1, <2>2, <2>3, <2>4, GoesOnType
<1>6. ASSUME pc = "rows", UNCHANGED <<published, provider>>
      PROVE  /\ pc # "second" /\ published' = 0 /\ provider' \in Provider
             /\ call \in Call /\ call.id \in Nat
             /\ call.op = "dump" => call.type \in Types
  <2>1. call \in Call /\ (call.op = "dump" => call.type \in Types)
    BY <1>6, RowsType DEF Handle, Positions, CallType, Type
  <2>2. QED
    BY <1>6, <2>1, ContinuesType, CallParts
<1>7. CASE GetRow
  <2>1. /\ pc = "rows" /\ call.op = "row" /\ UNCHANGED <<published, provider>>
        /\ Fails("NOT_FOUND") \/ Replies(call, {call.id})
    BY <1>7 DEF GetRow
  <2>2. QED
    BY <1>1, <1>6, <2>1, RepliesType
<1>8. CASE DumpRows
  <2> DEFINE rows == UpToLimit(provider.rows \cap FileIdsOf(RowGroup)')
  <2>1. pc = "rows" /\ call.op = "dump" /\ UNCHANGED <<published, provider>>
    BY <1>8 DEF DumpRows
  <2>2. Fails("DECODE") \/ Replies(call, rows)
    BY <1>8 DEF DumpRows
  <2>3. rows \in SUBSET Nat
    <3>1. provider.rows \in SUBSET FileIds
      BY DEF Handle, CallType, Provider
    <3>2. rows \in SUBSET FileIds
      BY <3>1 DEF UpToLimit
    <3>3. QED
      BY <3>2, CApiAssumption, Zenon
  <2> HIDE DEF rows
  <2>4. call.op \notin {"ids"} /\ (call.op = "dump" => call.type \in Types)
    BY <1>6, <2>1
  <2>5. QED
    BY <1>1, <1>6, <2>1, <2>2, <2>3, <2>4, RepliesType
<1>9. QED
  BY <1>3, <1>4, <1>5, <1>7, <1>8

(* The ids of the files of an archive that a sweep has read. *)
LEMMA SweptIds ==
  ASSUME NEW t \in Types \ {"if"}, NEW g \in Group, g[1] = Mapping[t].index,
         NEW f \in FileIds, Seen(g, f)' # "empty"
  PROVE  IdOf(t, g, f) \in Nat /\ f \in DeclaredFiles(table'[g[1]], g)
<1>1. f \in DeclaredFiles(table'[g[1]], g)
  BY DEF Seen, FileIdsOf
<1>2. QED
  BY <1>1, IdOfNat

LEMMA SweepType ==
  ASSUME Handle, CacheInv',
         \/ \E t \in Types, n \in Limits : BeginDump(t, n)
         \/ \E n \in Limits : DumpNull(n)
         \/ BeginGameVals
         \/ \E g \in Group : SweepFiles(g) \/ SweepArchive(g)
         \/ SweepDone
  PROVE  Handle'
<1>1. ASSUME Fails("DECODE"), pc # "second", published' = 0, provider' \in Provider
      PROVE  Handle'
  BY <1>1, FailsType DEF Result
<1>2. ASSUME pc = "idle", pc' = "sweep", call' \in Call, call'.op = "dump",
             call'.type \in Types \ {"dbrow"}, todo' \in SUBSET ArchiveIds,
             result' = "none", published' = 0, UNCHANGED <<out, provider, buffers>>
      PROVE  Handle'
  <2>1. CallType'
    BY <1>2 DEF Handle, CallType, Result
  <2>2. Positions'
    BY <1>2 DEF Handle, Positions, Type
  <2>3. QED
    BY <2>1, <2>2 DEF Handle
<1>3. ASSUME NEW t \in Types, NEW n \in Limits, BeginDump(t, n) PROVE Handle'
  <2>1. pc = "idle" /\ published' = 0 /\ UNCHANGED <<provider, buffers>> /\ t # "dbrow"
    BY <1>3 DEF BeginDump, Starts
  <2>2. CASE Fails("DECODE")
    BY <1>1, <2>1, <2>2, StartsType DEF Starts
  <2>3. CASE ~Fails("DECODE")
    <3>1. /\ pc' = "sweep" /\ call' = Sweep("dump", t, n) /\ result' = "none" /\ out' = out
          /\ todo' = IF IsSharded(t) THEN Listed(Mapping[t].index)'
                                     ELSE {Mapping[t].archive}
      BY <1>3, <2>3 DEF BeginDump
    <3>2. todo' \in SUBSET ArchiveIds
      BY <3>1, ListedType, MappingType DEF IsSharded
    <3>3. call' \in Call /\ call'.op = "dump" /\ call'.type = t
      BY <3>1, CallShapes DEF Sweep, Op
    <3>4. QED
      BY <1>2, <2>1, <3>1, <3>2, <3>3
  <2>4. QED
    BY <2>2, <2>3
<1>4. CASE BeginGameVals
  <2>1. "gameval" \in Types \ {"dbrow"} /\ GameVals \in SUBSET ArchiveIds
    BY CApiAssumption DEF Whole
  <2>2. Sweep("dump", "gameval", -1) \in Call
    BY <2>1, CallShapes DEF Op
  <2>3. /\ Sweep("dump", "gameval", -1).op = "dump"
        /\ Sweep("dump", "gameval", -1).type = "gameval"
    BY DEF Sweep
  <2>4. QED
    BY <1>2, <1>4, <2>1, <2>2, <2>3 DEF BeginGameVals, Starts
<1>5. ASSUME pc = "sweep", UNCHANGED <<published, provider>>
      PROVE  /\ pc # "second" /\ published' = 0 /\ provider' \in Provider
             /\ call \in Call /\ call.op = "dump" /\ Type \in Types \ {"dbrow"}
  <2>1. call \in Call /\ call.op = "dump" /\ Type \in Types \ {"dbrow"}
    BY <1>5 DEF Handle, Positions, CallType
  <2>2. QED
    BY <1>5, <2>1, ContinuesType
<1>6. ASSUME pc = "sweep", UNCHANGED <<published, provider, pc, call, buffers, result>>,
             out' \in SUBSET Nat, todo' \in SUBSET ArchiveIds
      PROVE  Handle'
  <2>1. CallType'
    BY <1>6 DEF Handle, CallType
  <2>2. Positions'
    BY <1>6 DEF Handle, Positions, Type
  <2>3. QED
    BY <2>1, <2>2 DEF Handle
<1>7. ASSUME NEW g \in Group, SweepFiles(g) PROVE Handle'
  <2>1. /\ pc = "sweep" /\ g[1] = Mapping[Type].index /\ UNCHANGED <<published, provider>>
        /\ Type \notin Whole
    BY <1>7 DEF SweepFiles, Sweeping
  <2>2. CASE Fails("DECODE")
    BY <1>1, <1>5, <2>1, <2>2
  <2>3. CASE ~Fails("DECODE")
    <3> DEFINE ids == {IdOf(Type, g, f) : f \in UpToLimit(Good(g)')}
    <3>1. /\ out' = out \cup ids /\ todo' = todo \ {g[2]}
          /\ UNCHANGED <<pc, call, buffers, result>>
      BY <1>7, <2>3 DEF SweepFiles
    <3>2. ASSUME NEW f \in UpToLimit(Good(g)') PROVE IdOf(Type, g, f) \in Nat
      <4>1. f \in FileIds /\ Seen(g, f)' # "empty"
        BY <3>2 DEF UpToLimit, Good
      <4>2. Type \in Types \ {"if"}
        BY <1>5, <2>1 DEF Whole
      <4>3. QED
        BY <2>1, <4>1, <4>2, SweptIds
    <3>3. out' \in SUBSET Nat
      <4>1. out \in SUBSET Nat
        BY DEF Handle, CallType
      <4>2. \A e \in ids : e \in Nat
        BY <3>2
      <4> HIDE DEF ids
      <4>3. QED
        BY <3>1, <4>1, <4>2
    <3>4. todo' \in SUBSET ArchiveIds
      BY <3>1 DEF Handle, CallType
    <3>5. QED
      BY <1>6, <2>1, <3>1, <3>3, <3>4
  <2>4. QED
    BY <2>2, <2>3
<1>8. ASSUME NEW g \in Group, SweepArchive(g) PROVE Handle'
  <2>1. pc = "sweep" /\ UNCHANGED <<published, provider>>
    BY <1>8 DEF SweepArchive, Sweeping
  <2>2. CASE Fails("DECODE")
    BY <1>1, <1>5, <2>1, <2>2
  <2>3. CASE ~Fails("DECODE")
    <3>1. /\ out' \in SUBSET (out \cup {g[2]}) /\ todo' = todo \ {g[2]}
          /\ UNCHANGED <<pc, call, buffers, result>>
      BY <1>8, <2>3 DEF SweepArchive
    <3>2. out' \in SUBSET Nat
      <4>1. out \in SUBSET Nat
        BY DEF Handle, CallType
      <4>2. g[2] \in Nat
        <5>1. g[2] \in ArchiveIds
          OBVIOUS
        <5>2. QED
          BY <5>1, CApiAssumption, Zenon
      <4>3. QED
        BY <3>1, <4>1, <4>2
    <3>3. todo' \in SUBSET ArchiveIds
      BY <3>1 DEF Handle, CallType
    <3>4. QED
      BY <1>6, <2>1, <3>1, <3>2, <3>3
  <2>4. QED
    BY <2>2, <2>3
<1>9. CASE SweepDone
  <2>1. pc = "sweep" /\ UNCHANGED <<published, provider>> /\ Replies(call, out)
    BY <1>9 DEF SweepDone
  <2>2. out \in SUBSET Nat
    BY DEF Handle, CallType
  <2>3. call.type \in Types
    BY <1>5, <2>1 DEF Type
  <2>4. QED
    BY <1>5, <2>1, <2>2, <2>3, RepliesType
<1>10. ASSUME NEW n \in Limits, DumpNull(n) PROVE Handle'
  <2>1. /\ Sweep("null", "gameval", n).op = "null"
        /\ Sweep("null", "gameval", n).type = "gameval"
    BY DEF Sweep
  <2>2. Sweep("null", "gameval", n) \in Call
    <3>1. "gameval" \in Types /\ n \in Limits \cup {-1} /\ "null" \in Op
      BY WholeType DEF Whole, Op
    <3>2. QED
      BY <3>1, CallShapes
  <2>3. Starts /\ Replies(Sweep("null", "gameval", n), {}) /\ UNCHANGED provider
    BY <1>10 DEF DumpNull
  <2>4. pc # "second" /\ published' = 0 /\ provider' \in Provider
    BY <2>3, StartsType
  <2>5. QED
    BY <2>1, <2>2, <2>3, <2>4, RepliesType
<1>11. QED
  BY <1>3, <1>4, <1>7, <1>8, <1>9, <1>10

LEMMA ReplyType ==
  ASSUME Handle, Reply \/ Second \/ ReplyFails \/ SecondFails
  PROVE  Handle'
<1>1. CallType'
  <2>1. CASE ReplyFails \/ SecondFails
    BY <2>1, CallShapes DEF ReplyFails, SecondFails, Fails, Handle, CallType, Positions, Result
  <2>2. ASSUME NEW n \in {0, 1, 2}, Hands(n), UNCHANGED <<todo, provider>> PROVE CallType'
    BY <2>2, CallShapes DEF Hands, Handle, CallType, Result
  <2>3. ASSUME pc' = "second", UNCHANGED <<call, out, result, published, todo, provider>>
        PROVE  CallType'
    BY <2>3 DEF Handle, CallType
  <2>4. QED
    BY <2>1, <2>2, <2>3 DEF Reply, Second
<1>2. Positions'
  BY DEF Reply, Second, ReplyFails, SecondFails, Hands, Fails, Handle, CallType, Positions, Type
<1>3. QED
  BY <1>1, <1>2 DEF Handle

LEMMA HandleStep ==
  Handle /\ CacheInv' /\ [CallNext]_<<cache, handle>> => Handle'
<1> SUFFICES ASSUME Handle, CacheInv', [CallNext]_<<cache, handle>> PROVE Handle'
  OBVIOUS
<1>1. ASSUME NEW t \in Types \ (Whole \cup {"dbrow"}), NEW id \in Entries(t),
             Get(t, id) \/ ReadRaw(t, id) \/ Invalid(t, id)
      PROVE  Handle'
  <2>1. t \in Types /\ id \in Ids /\ GroupOf(t, id) \in Group
    BY DEF Entries
  <2>2. QED
    BY <1>1, <2>1, GetterType
<1>2. ASSUME NEW id \in Entries("sprite"), GetNoFrame(id) PROVE Handle'
  BY <1>2, GetterType DEF Entries
<1>3. ASSUME NEW id \in Entries("item"), Icon(id) \/ IconModel(id) PROVE Handle'
  BY <1>3, IconType DEF Entries
<1>4. ASSUME NEW a \in ArchiveIds, GetSquare(a) PROVE Handle'
  BY <1>4, SquareType
<1>5. ASSUME NEW a \in ArchiveIds, NEW t \in Whole, GetWhole(t, a) PROVE Handle'
  BY <1>5, GetterType
<1>6. ASSUME NEW t, NEW id, ReadPlaced(t, id) PROVE Handle'
  BY <1>6, SquareType
<1>7. CASE SquareDone
  BY <1>7, SquareType
<1>8. CASE (\E t \in Types : ListIds(t)) \/ (\E i \in IndexIds : ListArchives(i))
  BY <1>8, ListsType
<1>9. CASE \/ \E id \in Ids : BeginRows(Asks("row", id))
           \/ \E n \in Limits : BeginRows(Sweep("dump", "dbrow", n))
           \/ LoadRows \/ GetRow \/ DumpRows
  BY <1>9, RowsStepType
<1>10. CASE \/ \E t \in Types, n \in Limits : BeginDump(t, n)
            \/ \E n \in Limits : DumpNull(n)
            \/ BeginGameVals
            \/ \E g \in Group : SweepFiles(g) \/ SweepArchive(g)
            \/ SweepDone
  BY <1>10, SweepType
<1>11. CASE Reply \/ Second \/ ReplyFails \/ SecondFails
  BY <1>11, ReplyType
<1>12. CASE Enable
  BY <1>12 DEF Enable, Starts, Handle, CallType, Positions, Result
<1>13. CASE Reopen
  BY <1>13 DEF Reopen, Handle, CallType, Positions, Provider, Result
<1>14. CASE Environment \/ UNCHANGED <<cache, handle>>
  BY <1>14 DEF Environment, handle, output, Handle, CallType, Positions, Type
<1>15. QED
  BY <1>1, <1>2, <1>3, <1>4, <1>5, <1>6, <1>7, <1>8, <1>9, <1>10, <1>11, <1>12,
     <1>13, <1>14 DEF CallNext

CallInv == CacheInv /\ Handle

LEMMA InitInv == CallInit => CallInv
<1> SUFFICES ASSUME CallInit PROVE CallInv
  OBVIOUS
<1>1. CacheInv
  BY DEF CallInit, Init, CacheInv, TypeOK, LoadedIsDeclared, UnopenedIsEmpty, Entry
<1>2. Handle
  BY CallShapes DEF CallInit, Handle, CallType, Positions, Provider, Result
<1>3. QED
  BY <1>1, <1>2 DEF CallInv

(* What every call finds: a cache as RSCache promises it, and what the     *)
(* call has done so far.                                                   *)
THEOREM CallInvariance == CallSpec => []CallInv
<1>1. CallInv /\ [CallNext]_<<cache, handle>> => CallInv'
  BY CallCacheStep, HandleStep DEF CallInv, Handle
<1>2. QED
  BY <1>1, InitInv, PTL DEF CallSpec

(* Whatever the calls, in whatever order, and whatever fails in them: a    *)
(* call that returns leaves no buffer allocated, one that fails hands      *)
(* none over, and every id it hands out is one.                            *)
THEOREM CallTypeCorrect == CallSpec => []CallTypeOK
<1>1. CallInv => CallTypeOK
  BY TypeIsBoth DEF CallInv, CacheInv, Handle
<1>2. QED
  BY <1>1, CallInvariance, PTL

(* A handle is a client of CacheSource like any other: every step of every *)
(* entry point, those that fail halfway and those of a sweep included, is  *)
(* at most one call of it, from opening the handle until it is closed.     *)
THEOREM HandleUsesCacheSource ==
  CallSpec => CS!CsInit /\ [][UsesCacheSource(Reopen)]_<<cache, handle>>
<1>1. CallInit => CS!CsInit
  BY DEF CallInit, Init, CS!CsInit, StatusOf
<1>2. ASSUME CallInv, [CallNext]_<<cache, handle>> PROVE UsesCacheSource(Reopen)
  <2>1. CASE CacheUse
    BY <1>2, <2>1, UseIsStep, CacheStepIsAbstract DEF CallInv, UsesCacheSource
  <2>2. CASE Reopen
    BY <2>2, NewCacheIsAbstract DEF Reopen, UsesCacheSource
  <2>3. QED
    BY <1>2, <2>1, <2>2, StepUsesCache DEF CallInv, Handle
<1>3. CallInv /\ [CallNext]_<<cache, handle>> =>
        [UsesCacheSource(Reopen)]_<<cache, handle>>
  BY <1>2
<1>4. QED
  BY <1>1, <1>3, CallInvariance, PTL DEF CallSpec
-----------------------------------------------------------------------------
(* A handle never evicts: what it knows of an archive only grows. *)
LEMMA ReadKeepsLoaded ==
  ASSUME CacheInv, NEW i \in IndexIds, NEW a \in ArchiveIds, Read(i, a),
         NEW h \in Group, archives[h] = "loaded"
  PROVE  archives'[h] = "loaded" /\ content'[h] = content[h]
<1>1. h[1] \in opened /\ Archives(i)[h] = archives[h]
  BY DEF CacheInv, LoadedIsDeclared, Archives, EntryOf
<1>2. EntryOf(h) = "loaded" /\ Archives(i) \in [Group -> Entry]
  BY <1>1, ArchivesType DEF EntryOf, CacheInv
<1>3. CASE ReadUndeclared(i, a)
  <2>1. h # <<i, a>>
    BY <1>2, <1>3 DEF ReadUndeclared
  <2>2. QED
    BY <1>1, <1>2, <1>3, <2>1 DEF ReadUndeclared
<1>4. CASE ReadFails(i, a)
  BY <1>1, <1>4 DEF ReadFails
<1>5. ASSUME EntryOf(<<i, a>>) = "declared", NEW src, NEW b, Load(i, a, src, b)
      PROVE  archives'[h] = "loaded" /\ content'[h] = content[h]
  <2>1. h # <<i, a>>
    BY <1>2, <1>5
  <2>2. QED
    BY <1>1, <1>2, <1>5, <2>1 DEF Load, CacheInv, TypeOK
<1>6. CASE ReadFromDisk(i, a)
  BY <1>5, <1>6 DEF ReadFromDisk
<1>7. CASE ReadFromLive(i, a)
  BY <1>5, <1>7 DEF ReadFromLive
<1>8. QED
  BY <1>3, <1>4, <1>6, <1>7 DEF Read

LEMMA LoadedIsKept ==
  ASSUME CacheInv, CacheUse, NEW h \in Group, archives[h] = "loaded"
  PROVE  /\ archives'[h] = "loaded" /\ content'[h] = content[h]
         /\ table'[h[1]] = table[h[1]]
<1>1. table'[h[1]] = table[h[1]]
  <2>1. h[1] \in opened
    BY DEF CacheInv, LoadedIsDeclared
  <2>2. QED
    BY <2>1, UseIsStep, OpenIsKept DEF CacheInv
<1>2. ASSUME NEW g \in Group, Obtains(g) \/ Raises(g)
      PROVE  archives'[h] = "loaded" /\ content'[h] = content[h]
  <2>1. g[1] \in IndexIds /\ g[2] \in ArchiveIds
    OBVIOUS
  <2>2. (UNCHANGED cache) \/ Read(g[1], g[2])
    BY <1>2 DEF Obtains, Raises, Read
  <2>3. QED
    BY <2>1, <2>2, ReadKeepsLoaded DEF cache, client
<1>3. ASSUME NEW i \in IndexIds, Lists(i)
      PROVE  archives'[h] = "loaded" /\ content'[h] = content[h]
  <2>1. h[1] \in opened /\ Archives(i)[h] = archives[h]
    BY DEF CacheInv, LoadedIsDeclared, Archives, EntryOf
  <2>2. QED
    BY <1>3, <2>1 DEF Lists, OpenIndex, cache, client
<1>4. CASE (UNCHANGED cache) \/ EnableLiveFallback \/ Environment
  BY <1>4 DEF cache, client, EnableLiveFallback, Environment, LinkChanges, RowStored, RefStored
<1>5. QED
  BY <1>1, <1>2, <1>3, <1>4 DEF CacheUse

(* An entry that a handle holds stays what it is, whatever is read, listed, *)
(* dumped, stored or enabled, until the handle is closed.                  *)
THEOREM EntriesAreKept == CallSpec => HandleKeepsEntries
<1>1. ASSUME CallInv, [CallNext]_<<cache, handle>>, ~Reopen,
             NEW g \in Group, NEW f \in FileIds, Seen(g, f) # "empty"
      PROVE  Seen(g, f)' = Seen(g, f)
  <2>1. CacheInv /\ CacheUse
    BY <1>1, StepUsesCache DEF CallInv, Handle
  <2>2. archives[g] = "loaded"
    BY <1>1, SeenIsDeclared
  <2>3. /\ archives'[g] = "loaded" /\ content'[g] = content[g]
        /\ table'[g[1]] = table[g[1]]
    BY <2>1, <2>2, LoadedIsKept
  <2>4. QED
    BY <2>2, <2>3 DEF Seen, FileIdsOf
<1>2. CallInv /\ [CallNext]_<<cache, handle>> =>
        [Reopen \/ \A g \in Group, f \in FileIds :
           Seen(g, f) # "empty" => Seen(g, f)' = Seen(g, f)]_<<cache, handle>>
  BY <1>1
<1>3. QED
  BY <1>2, CallInvariance, PTL DEF CallSpec, HandleKeepsEntries
-----------------------------------------------------------------------------
(* Nothing that a table declares is ever dropped from the cache: what a    *)
(* listing of an open index sees is its table.                             *)
KnownIsListed ==
  \A g \in Group :
    g[1] \in opened /\ Declares(table[g[1]], g) => archives[g] \in {"declared", "loaded"}

LEMMA OpeningListsAll ==
  ASSUME CacheInv, KnownIsListed, NEW i \in IndexIds, Opens(i), NEW g \in Group,
         g[1] \in opened', Declares(table'[g[1]], g)
  PROVE  /\ Archives(i)[g] \in {"declared", "loaded"}
         /\ g[1] = i => EntryOf(g) \in {"declared", "loaded"}
<1>1. table'[g[1]] = IF g[1] = i THEN TableOf(i) ELSE table[g[1]]
  BY DEF Opens, CacheInv, TypeOK
<1>2. ASSUME g[1] = i PROVE EntryOf(g) \in {"declared", "loaded"}
  BY <1>1, <1>2 DEF EntryOf, TableOf, KnownIsListed
<1>3. ASSUME g[1] # i PROVE archives[g] \in {"declared", "loaded"}
  BY <1>1, <1>3 DEF Opens, KnownIsListed
<1>4. QED
  BY <1>2, <1>3 DEF Archives

LEMMA ReadListsAll ==
  ASSUME CacheInv, KnownIsListed, NEW i \in IndexIds, NEW a \in ArchiveIds, Read(i, a)
  PROVE  KnownIsListed'
<1> SUFFICES ASSUME NEW g \in Group, g[1] \in opened', Declares(table'[g[1]], g)
             PROVE  archives'[g] \in {"declared", "loaded"}
  BY DEF KnownIsListed, Declares, DeclaredFiles
<1>1. Opens(i) /\ Archives(i) \in [Group -> Entry]
  BY ArchivesType
  DEF Read, ReadUndeclared, ReadFromDisk, ReadFromLive, ReadFails, Load, CacheInv
<1>2. /\ Archives(i)[g] \in {"declared", "loaded"}
      /\ g[1] = i => EntryOf(g) \in {"declared", "loaded"}
  BY <1>1, OpeningListsAll
<1>3. CASE ReadUndeclared(i, a)
  <2>1. g # <<i, a>>
    BY <1>2, <1>3 DEF ReadUndeclared
  <2>2. QED
    BY <1>1, <1>2, <1>3, <2>1 DEF ReadUndeclared
<1>4. CASE ReadFails(i, a)
  BY <1>2, <1>4 DEF ReadFails
<1>5. ASSUME NEW src, NEW b, Load(i, a, src, b)
      PROVE  archives'[g] \in {"declared", "loaded"}
  BY <1>1, <1>2, <1>5 DEF Load
<1>6. QED
  BY <1>3, <1>4, <1>5 DEF Read, ReadFromDisk, ReadFromLive

LEMMA ListsAllStep ==
  CacheInv /\ KnownIsListed /\ (CacheUse \/ Reopen) => KnownIsListed'
<1> SUFFICES ASSUME CacheInv, KnownIsListed, CacheUse \/ Reopen PROVE KnownIsListed'
  OBVIOUS
<1>1. CASE UNCHANGED <<opened, table, archives>>
  BY <1>1 DEF KnownIsListed, Declares, DeclaredFiles
<1>2. ASSUME NEW i \in IndexIds, OpenIndex(i) PROVE KnownIsListed'
  <2>1. ASSUME NEW g \in Group, g[1] \in opened', Declares(table'[g[1]], g)
        PROVE  archives'[g] \in {"declared", "loaded"}
    BY <1>2, <2>1, OpeningListsAll DEF OpenIndex
  <2>2. QED
    BY <2>1 DEF KnownIsListed, Declares, DeclaredFiles
<1>3. ASSUME NEW g \in Group, Obtains(g) \/ Raises(g) PROVE KnownIsListed'
  <2>1. g[1] \in IndexIds /\ g[2] \in ArchiveIds
    OBVIOUS
  <2>2. (UNCHANGED cache) \/ Read(g[1], g[2])
    BY <1>3 DEF Obtains, Raises, Read
  <2>3. QED
    BY <1>1, <2>1, <2>2, ReadListsAll DEF cache, client
<1>4. CASE (UNCHANGED cache) \/ EnableLiveFallback \/ Environment
  BY <1>1, <1>4
  DEF cache, client, EnableLiveFallback, Environment, LinkChanges, RowStored, RefStored
<1>5. ASSUME NEW i \in IndexIds, Lists(i) PROVE KnownIsListed'
  BY <1>1, <1>2, <1>5 DEF Lists, cache, client
<1>6. CASE Reopen
  BY <1>6 DEF Reopen, NewCache, KnownIsListed
<1>7. QED
  BY <1>3, <1>4, <1>5, <1>6 DEF CacheUse
-----------------------------------------------------------------------------
(* Where a call that hands something over, or sweeps, has come from. *)
LEMMA GetterEnds ==
  ASSUME CacheInv', NEW t \in Types, NEW id \in Ids, GroupOf(t, id) \in Group,
         Get(t, id) \/ ReadRaw(t, id) \/ Invalid(t, id)
  PROVE  pc' = "idle" \/ (pc' = "reply" /\ call'.op = "get")
<1>1. Seen(GroupOf(t, id), FileOf(t, id))' \in {"good", "bad", "empty"}
  BY SeenType
<1>2. (\E code : Fails(code)) \/ Replies(Asks("get", 0), {id})
  BY <1>1, Zenon DEF Get, ReadRaw, Invalid
<1>3. QED
  BY <1>2 DEF Fails, Replies, Asks

LEMMA IconEnds ==
  ASSUME Handle, CacheInv', NEW id \in Ids,
         (GroupOf("item", id) \in Group /\ Icon(id)) \/ IconModel(id)
  PROVE  pc' \in {"idle", "model"} \/ (pc' = "reply" /\ call'.op = "icon")
<1>1. CASE GroupOf("item", id) \in Group /\ Icon(id)
  <2>1. Seen(GroupOf("item", id), FileOf("item", id))' \in {"good", "bad", "empty"}
    BY <1>1, SeenType
  <2>2. (\E code : Fails(code)) \/ GoesOn(Asks("icon", id), "model")
    BY <1>1, <2>1, Zenon DEF Icon
  <2>3. QED
    BY <2>2 DEF Fails, GoesOn
<1>2. CASE IconModel(id)
  <2> DEFINE g == GroupOf("model", ModelOf[id])
             f == FileOf("model", ModelOf[id])
  <2>1. g \in Group /\ call.op = "icon"
    BY <1>2, ModelsAssumption DEF IconModel, Handle, Positions
  <2>2. Seen(g, f)' \in {"good", "bad", "empty"}
    BY <2>1, SeenType
  <2>3. (\E code : Fails(code)) \/ Replies(call, {id})
    BY <1>2, <2>2, Zenon DEF IconModel
  <2>4. QED
    BY <2>1, <2>3 DEF Fails, Replies
<1>3. QED
  BY <1>1, <1>2

LEMMA ComesFrom ==
  ASSUME Handle, CacheInv', [CallNext]_<<cache, handle>>, pc' \in {"reply", "sweep"}
  PROVE  \/ pc' = "reply" /\ call'.op \notin {"ids", "dump"}
         \/ pc' = "reply" /\ \E t \in Types : ListIds(t)
         \/ pc' = "reply" /\ (DumpRows \/ SweepDone)
         \/ pc' = "sweep" /\ \E t \in Types, n \in Limits : BeginDump(t, n)
         \/ pc' = "sweep" /\ BeginGameVals
         \/ pc' = "sweep" /\ \E g \in Group : SweepFiles(g) \/ SweepArchive(g)
         \/ UNCHANGED handle /\ (Environment \/ UNCHANGED cache)
<1>1. ASSUME NEW t \in Types \ (Whole \cup {"dbrow"}), NEW id \in Entries(t),
             Get(t, id) \/ ReadRaw(t, id) \/ Invalid(t, id)
      PROVE  pc' = "idle" \/ (pc' = "reply" /\ call'.op = "get")
  <2>1. t \in Types /\ id \in Ids /\ GroupOf(t, id) \in Group
    BY DEF Entries
  <2>2. QED
    BY <1>1, <2>1, GetterEnds
<1>2. ASSUME NEW id, GetNoFrame(id) PROVE pc' = "idle"
  BY <1>2 DEF GetNoFrame, Fails
<1>3. ASSUME NEW id \in Entries("item"), Icon(id) \/ IconModel(id)
      PROVE  pc' \in {"idle", "model"} \/ (pc' = "reply" /\ call'.op = "icon")
  BY <1>3, IconEnds DEF Entries
<1>4. ASSUME NEW a, GetSquare(a) PROVE pc' \in {"idle", "square"}
  BY <1>4 DEF GetSquare, Fails, GoesOn
<1>5. ASSUME NEW a, NEW t, GetWhole(t, a)
      PROVE  pc' = "idle" \/ (pc' = "reply" /\ call'.op = "get")
  BY <1>5 DEF GetWhole, Fails, Replies, Asks
<1>6. ASSUME NEW t, NEW id, ReadPlaced(t, id) PROVE pc' \in {"idle", "square"}
  BY <1>6 DEF ReadPlaced, Fails, GoesOn
<1>7. ASSUME SquareDone PROVE pc' = "reply" /\ call'.op = "map"
  BY <1>7 DEF SquareDone, Replies, Handle, Positions
<1>8. ASSUME NEW t \in Types, ListIds(t) PROVE pc' # "sweep"
  BY <1>8 DEF ListIds, Fails, Replies
<1>9. ASSUME NEW i, ListArchives(i)
      PROVE  pc' = "idle" \/ (pc' = "reply" /\ call'.op = "archives")
  BY <1>9 DEF ListArchives, Fails, Replies, Asks
<1>10. ASSUME NEW what, BeginRows(what) PROVE pc' \in {"rows", "load"}
  BY <1>10 DEF BeginRows
<1>11. ASSUME LoadRows PROVE pc' \in {"idle", "rows"}
  BY <1>11 DEF LoadRows, Fails, GoesOn
<1>12. ASSUME GetRow PROVE pc' = "idle" \/ (pc' = "reply" /\ call'.op = "row")
  BY <1>12 DEF GetRow, Fails, Replies
<1>13. ASSUME DumpRows \/ SweepDone PROVE pc' # "sweep"
  BY <1>13 DEF DumpRows, SweepDone, Fails, Replies
<1>14. ASSUME \/ \E t \in Types, n \in Limits : BeginDump(t, n)
              \/ BeginGameVals
              \/ \E g \in Group : SweepFiles(g) \/ SweepArchive(g)
       PROVE  pc' # "reply"
  BY <1>14 DEF BeginDump, BeginGameVals, SweepFiles, SweepArchive, Sweeping, Fails
<1>15. ASSUME Reply \/ Second \/ ReplyFails \/ SecondFails PROVE pc' \in {"idle", "second"}
  BY <1>15 DEF Reply, Second, ReplyFails, SecondFails, Hands, Fails
<1>16. ASSUME Enable \/ Reopen PROVE pc' = "idle"
  BY <1>16 DEF Enable, Reopen, Starts
<1>17. ASSUME Environment PROVE UNCHANGED handle
  BY <1>17 DEF Environment
<1>22. ASSUME NEW n, DumpNull(n) PROVE pc' = "reply" /\ call'.op = "null"
  BY <1>22 DEF DumpNull, Replies, Sweep
<1>18. "get" \notin {"ids", "dump"} /\ "icon" \notin {"ids", "dump"}
         /\ "map" \notin {"ids", "dump"} /\ "archives" \notin {"ids", "dump"}
         /\ "row" \notin {"ids", "dump"} /\ "null" \notin {"ids", "dump"}
  OBVIOUS
<1>19. CASE UNCHANGED <<cache, handle>>
  BY <1>19
<1>20. CASE CallNext
  BY <1>1, <1>2, <1>3, <1>4, <1>5, <1>6, <1>7, <1>8, <1>9, <1>10, <1>11, <1>12,
     <1>13, <1>14, <1>15, <1>16, <1>17, <1>18, <1>20, <1>22 DEF CallNext
<1>21. QED
  BY <1>19, <1>20
-----------------------------------------------------------------------------
(* What a listing stands for: the files its index's table declares. *)
FilesOf(t) ==
  {e \in Own(t) \X FileIds : e[2] \in DeclaredFiles(table[Mapping[t].index], e[1])}

ListingIsTable ==
  pc = "reply" /\ call.op = "ids" /\ Type # "if" =>
    /\ Mapping[Type].index \in opened
    /\ out = {IdOf(Type, e[1], e[2]) : e \in FilesOf(Type)}

LEMMA ListingIsMade ==
  ASSUME KnownIsListed', NEW t \in Types, ListIds(t), pc' = "reply"
  PROVE  ListingIsTable'
<1> SUFFICES ASSUME t # "if"
             PROVE  /\ Mapping[t].index \in opened'
                    /\ out' = {IdOf(t, e[1], e[2]) : e \in FilesOf(t)'}
  <2>1. call' = Sweep("ids", t, -1)
    BY DEF ListIds, Fails, Replies
  <2>2. call'.type = t
    BY <2>1 DEF Sweep
  <2>3. QED
    BY <2>2 DEF ListingIsTable, Type, FilesOf
<1> DEFINE i == Mapping[t].index
<1>1. /\ Lists(i)
      /\ Replies(Sweep("ids", t, -1), UNION {{IdOf(t, g, f) : f \in FileIdsOf(g)'} : g \in Own(t)})
  BY DEF ListIds, Fails, Own
<1>2. i \in opened'
  BY <1>1 DEF Lists, OpenIndex, Opens, cache, client
<1>3. out' = UNION {{IdOf(t, g, f) : f \in FileIdsOf(g)'} : g \in Own(t)}
  BY <1>1 DEF Replies
<1>4. ASSUME NEW g \in Own(t) PROVE FileIdsOf(g)' = DeclaredFiles(table'[i], g)
  <2>1. g \in Group /\ g[1] = i
    BY OwnType
  <2>2. Declares(table'[g[1]], g) => archives'[g] \in {"declared", "loaded"}
    BY <1>2, <2>1 DEF KnownIsListed, Declares, DeclaredFiles
  <2>3. QED
    BY <2>1, <2>2 DEF FileIdsOf, Declares
<1>5. ASSUME NEW g \in Own(t) PROVE DeclaredFiles(table'[i], g) \subseteq FileIds
  <2>1. g \in Group
    BY OwnType
  <2>2. QED
    BY <2>1 DEF DeclaredFiles
<1> HIDE DEF i
<1>6. ASSUME NEW id \in out' PROVE \E e \in FilesOf(t)' : id = IdOf(t, e[1], e[2])
  <2>1. PICK g \in Own(t) : \E f \in DeclaredFiles(table'[i], g) : id = IdOf(t, g, f)
    BY <1>3, <1>4
  <2>2. PICK f \in DeclaredFiles(table'[i], g) : id = IdOf(t, g, f)
    BY <2>1
  <2>3. <<g, f>> \in FilesOf(t)'
    BY <1>5, <2>2 DEF FilesOf, i
  <2>4. QED
    BY <2>2, <2>3
<1>7. ASSUME NEW e \in FilesOf(t)' PROVE IdOf(t, e[1], e[2]) \in out'
  <2>1. e[1] \in Own(t) /\ e[2] \in DeclaredFiles(table'[i], e[1])
    BY DEF FilesOf, i
  <2>2. QED
    BY <1>3, <1>4, <2>1
<1>8. QED
  BY <1>2, <1>6, <1>7 DEF i

LEMMA ListingStep ==
  ASSUME CallInv, CallInv', KnownIsListed', ListingIsTable,
         [CallNext]_<<cache, handle>>
  PROVE  ListingIsTable'
<1> SUFFICES ASSUME pc' = "reply", call'.op = "ids" PROVE ListingIsTable'
  BY DEF ListingIsTable
<1>1. \/ \E t \in Types : ListIds(t)
      \/ DumpRows \/ SweepDone
      \/ UNCHANGED handle /\ (Environment \/ UNCHANGED cache)
  BY ComesFrom DEF CallInv
<1>2. CASE \E t \in Types : ListIds(t)
  BY <1>2, ListingIsMade
<1>3. CASE DumpRows \/ SweepDone
  BY <1>3 DEF DumpRows, SweepDone, Replies, Fails, CallInv, Handle, Positions
<1>4. CASE UNCHANGED handle /\ (Environment \/ UNCHANGED cache)
  <2>1. UNCHANGED <<pc, call, out, opened, table>>
    BY <1>4 DEF handle, output, cache, client, Environment, LinkChanges, RowStored, RefStored
  <2>2. QED
    BY <2>1 DEF ListingIsTable, FilesOf, Type
<1>5. QED
  BY <1>1, <1>2, <1>3, <1>4

(* Ids of different files are different. *)
LEMMA ListingResolves ==
  ASSUME CallInv, ListingIsTable
  PROVE  ListedIdsResolve
<1> SUFFICES ASSUME pc = "reply", call.op = "ids", Type # "if"
             PROVE  /\ \A id \in out :
                         /\ GroupOf(Type, id) \in Own(Type)
                         /\ FileOf(Type, id) \in
                              DeclaredFiles(table[Mapping[Type].index], GroupOf(Type, id))
                    /\ Cardinality(out) = Cardinality(FilesOf(Type))
  BY Zenon DEF ListedIdsResolve, FilesOf, Own
<1>1. Type \in Types \ {"if"}
  BY DEF CallInv, Handle, Positions
<1>2. ASSUME NEW e \in FilesOf(Type)
      PROVE  /\ e[1] \in Own(Type) /\ e = <<e[1], e[2]>>
             /\ e[2] \in DeclaredFiles(table[Mapping[Type].index], e[1])
             /\ GroupOf(Type, IdOf(Type, e[1], e[2])) = e[1]
             /\ FileOf(Type, IdOf(Type, e[1], e[2])) = e[2]
  <2>1. /\ e[1] \in Own(Type) /\ e = <<e[1], e[2]>>
        /\ e[2] \in DeclaredFiles(table[Mapping[Type].index], e[1])
    BY DEF FilesOf
  <2>2. QED
    BY <1>1, <2>1, OwnType, IdOfType
<1>3. out = {IdOf(Type, e[1], e[2]) : e \in FilesOf(Type)}
  BY DEF ListingIsTable
<1>4. IsFiniteSet(FilesOf(Type))
  <2>1. IsFiniteSet(ArchiveIds \X FileIds)
    BY CApiAssumption, FS_Product
  <2>2. IsFiniteSet(Own(Type))
    <3>1. CASE IsSharded(Type)
      <4> DEFINE at == [a \in ArchiveIds |-> <<Mapping[Type].index, a>>]
      <4>1. at \in Bijection(ArchiveIds, Own(Type))
        BY <3>1 DEF Own, Bijection, Injection, Surjection, IsInjective
      <4>2. QED
        BY <4>1, FS_Bijection, CApiAssumption DEF ExistsBijection
    <3>2. CASE ~IsSharded(Type)
      BY <3>2, FS_Singleton DEF Own
    <3>3. QED
      BY <3>1, <3>2
  <2>3. IsFiniteSet(Own(Type) \X FileIds)
    BY <2>2, CApiAssumption, FS_Product
  <2>4. FilesOf(Type) \in SUBSET (Own(Type) \X FileIds)
    BY DEF FilesOf
  <2>5. QED
    BY <2>3, <2>4, FS_Subset
<1>5. Cardinality(out) = Cardinality(FilesOf(Type))
  <2> DEFINE idOf == [e \in FilesOf(Type) |-> IdOf(Type, e[1], e[2])]
  <2>1. idOf \in [FilesOf(Type) -> out]
    BY <1>3
  <2>2. \A id \in out : \E e \in FilesOf(Type) : idOf[e] = id
    BY <1>3
  <2>3. ASSUME NEW d \in FilesOf(Type), NEW e \in FilesOf(Type), idOf[d] = idOf[e]
        PROVE  d = e
    <3>1. IdOf(Type, d[1], d[2]) = IdOf(Type, e[1], e[2])
      BY <2>3
    <3>2. d[1] = e[1] /\ d[2] = e[2]
      BY <1>2, <3>1
    <3>3. QED
      BY <1>2, <3>2
  <2> HIDE DEF idOf
  <2>4. idOf \in Bijection(FilesOf(Type), out)
    BY <2>1, <2>2, <2>3 DEF Bijection, Injection, Surjection, IsInjective
  <2>5. QED
    BY <1>4, <2>4, FS_Bijection DEF ExistsBijection
<1>6. QED
  BY <1>2, <1>3, <1>5

(* Every id a listing hands out leads back to one file of the table, and   *)
(* no two files share one, whatever the shifts of the types.               *)
THEOREM ListingsResolve == CallSpec => []ListedIdsResolve
<1> DEFINE Listing == KnownIsListed /\ ListingIsTable
<1>1. CallInit => Listing
  BY DEF CallInit, Init, KnownIsListed, ListingIsTable
<1>2. CallInv /\ CallInv' /\ Listing /\ [CallNext]_<<cache, handle>> => Listing'
  BY StepUsesCache, ListsAllStep, ListingStep DEF CallInv, Handle
<1>3. CallInv /\ Listing => ListedIdsResolve
  BY ListingResolves
<1> HIDE DEF Listing
<1>4. QED
  BY <1>1, <1>2, <1>3, CallInvariance, PTL DEF CallSpec
-----------------------------------------------------------------------------
(* Dumps.  The entries of an archive, and where its ids begin.             *)
AvailableIn(t, h) ==
  IF t \in Whole THEN IF Good(h) \cap Parts(t) # {} THEN {h[2]} ELSE {}
  ELSE {IdOf(t, h, f) : f \in Good(h)}

Base(t, a) == IF t \in Whole THEN a ELSE a * 2 ^ Mapping[t].shift

LEMMA AvailableParts ==
  ASSUME NEW t
  PROVE  /\ \A id : id \in Available(t) <=> \E h \in Holding(t) : id \in AvailableIn(t, h)
         /\ \A id : id \in Available(t)' <=> \E h \in Holding(t) : id \in AvailableIn(t, h)'
<1>1. CASE t \in Whole
  BY <1>1 DEF Available, AvailableIn
<1>2. CASE t \notin Whole
  BY <1>2 DEF Available, AvailableIn
<1>3. QED
  BY <1>1, <1>2

(* Nothing is seen of an archive that is not loaded, and what is seen of a *)
(* loaded one stays.                                                       *)
LEMMA GoodIsDeclared ==
  ASSUME NEW g
  PROVE  /\ \A f \in Good(g) : f \in DeclaredFiles(table[g[1]], g) /\ archives[g] = "loaded"
         /\ \A f \in Good(g)' :
              f \in DeclaredFiles(table'[g[1]], g) /\ archives'[g] = "loaded"
BY DEF Good, Seen, FileIdsOf

LEMMA GoodIsKept ==
  ASSUME CacheInv, CacheUse, NEW g \in Group, archives[g] = "loaded"
  PROVE  Good(g)' = Good(g)
<1>1. /\ archives'[g] = "loaded" /\ content'[g] = content[g]
      /\ table'[g[1]] = table[g[1]]
  BY LoadedIsKept
<1>2. \A f : Seen(g, f)' = Seen(g, f)
  BY <1>1 DEF Seen, FileIdsOf
<1>3. QED
  BY <1>2 DEF Good

LEMMA AvailableIsKept ==
  ASSUME CacheInv, CacheUse, NEW t, NEW h \in Group
  PROVE  /\ AvailableIn(t, h) \subseteq AvailableIn(t, h)'
         /\ (archives'[h] = "loaded" => archives[h] = "loaded") =>
              AvailableIn(t, h)' = AvailableIn(t, h)
<1>1. CASE archives[h] = "loaded"
  <2>1. Good(h)' = Good(h)
    BY <1>1, GoodIsKept
  <2>2. QED
    BY <2>1 DEF AvailableIn
<1>2. CASE archives[h] # "loaded"
  <2>1. Good(h) = {}
    BY <1>2, GoodIsDeclared
  <2>2. AvailableIn(t, h) = {}
    BY <2>1 DEF AvailableIn
  <2>3. archives'[h] # "loaded" => Good(h)' = {}
    BY GoodIsDeclared
  <2>4. archives'[h] # "loaded" => AvailableIn(t, h)' = {}
    BY <2>3 DEF AvailableIn
  <2>5. QED
    BY <1>2, <2>2, <2>4
<1>3. QED
  BY <1>1, <1>2

LEMMA HoldingType ==
  ASSUME NEW t \in Types, NEW h \in Holding(t)
  PROVE  /\ h \in Group /\ h[1] = Mapping[t].index /\ h[2] \in ArchiveIds /\ h[2] \in Nat
         /\ IsSharded(t) \/ h[2] = Mapping[t].archive
<1>1. /\ h \in Group /\ h[1] = Mapping[t].index
      /\ IsSharded(t) \/ h[2] = Mapping[t].archive
  BY DEF Holding
<1>2. h[2] \in ArchiveIds
  BY <1>1
<1>3. QED
  BY <1>1, <1>2, CApiAssumption, Zenon

(* The ids of a sharded type's files: after their archive's base, before   *)
(* the base of every later archive, and in the order of the files.         *)
LEMMA IdsInOrder ==
  ASSUME NEW t \in Types \ Whole, IsSharded(t), NEW g \in Group,
         g[1] = Mapping[t].index, NEW b, NEW f \in DeclaredFiles(b, g)
  PROVE  /\ IdOf(t, g, f) \in Nat /\ Base(t, g[2]) \in Nat /\ Base(t, g[2]) <= IdOf(t, g, f)
         /\ \A a \in ArchiveIds : g[2] < a => IdOf(t, g, f) < Base(t, a)
         /\ \A h \in DeclaredFiles(b, g) : f < h => IdOf(t, g, f) < IdOf(t, g, h)
<1> DEFINE p == 2 ^ Mapping[t].shift
<1>1. t \in Types \ {"if"}
  BY DEF Whole
<1>2. p \in Int
  BY MappingType, PowerType
<1>3. \A h \in DeclaredFiles(b, g) : h \in Nat /\ h < p
  BY <1>1, DeclaredFits
<1>4. g[2] \in Nat /\ ArchiveIds \subseteq Nat
  <2>1. g[2] \in ArchiveIds
    OBVIOUS
  <2>2. QED
    BY <2>1, CApiAssumption, Zenon
<1>5. \A h : IdOf(t, g, h) = g[2] * p + h
  BY DEF IdOf
<1>6. \A a : Base(t, a) = a * p
  BY DEF Base
<1> HIDE DEF p
<1>7. f \in Nat /\ f < p
  BY <1>3
<1>8. g[2] * p + f \in Nat
  BY <1>2, <1>4, <1>7, TakenApart
<1>9. /\ g[2] * p \in Nat /\ g[2] * p <= g[2] * p + f
      /\ \A h \in Nat : f < h => g[2] * p + f < g[2] * p + h
  BY <1>2, <1>4, <1>7, InItsArchive
<1>10. \A a \in ArchiveIds : g[2] < a => g[2] * p + f < a * p
  BY <1>2, <1>4, <1>7, NextArchive
<1>11. QED
  BY <1>3, <1>5, <1>6, <1>8, <1>9, <1>10

LEMMA BaseIsBelow ==
  ASSUME NEW t \in Types, IsSharded(t), NEW h \in Holding(t)
  PROVE  \A id \in AvailableIn(t, h) : Base(t, h[2]) <= id /\ Base(t, h[2]) \in Nat /\ id \in Nat
<1>1. h \in Group /\ h[1] = Mapping[t].index /\ h[2] \in Nat
  BY HoldingType
<1>2. CASE t \in Whole
  BY <1>1, <1>2 DEF AvailableIn, Base
<1>3. CASE t \notin Whole
  <2>1. ASSUME NEW f \in Good(h)
        PROVE  /\ Base(t, h[2]) <= IdOf(t, h, f)
               /\ Base(t, h[2]) \in Nat /\ IdOf(t, h, f) \in Nat
    <3>1. f \in DeclaredFiles(table[h[1]], h)
      BY GoodIsDeclared
    <3>2. QED
      BY <1>1, <1>3, <3>1, IdsInOrder
  <2>2. QED
    BY <1>3, <2>1 DEF AvailableIn
<1>4. QED
  BY <1>2, <1>3
-----------------------------------------------------------------------------
(* What a sweep has of the archives it has been through: all of their      *)
(* entries, unless the limit is met, and then those that come first.       *)
LimitBefore(id) ==
  call.limit >= 0 /\ Cardinality(out) = call.limit /\ \A e \in out : e < id

SweepInv ==
  /\ IsFiniteSet(out) /\ out \subseteq Available(Type)
  /\ call.limit >= 0 => Cardinality(out) <= call.limit
  /\ \A h \in Holding(Type) : h[2] \notin todo =>
       \A id \in AvailableIn(Type, h) : id \in out \/ LimitBefore(id)
  /\ IsSharded(Type) => \A e \in out, a \in todo : e < Base(Type, a)
  /\ ~IsSharded(Type) => todo \subseteq {Mapping[Type].archive} /\ (todo # {} => out = {})
  /\ Type = "gameval" => todo \subseteq GameVals

DumpSoFar ==
  /\ pc = "sweep" => SweepInv
  /\ DumpIsComplete

(* A provider whose load did not throw has the rows that can be read.      *)
RowsAreKnown ==
  provider.made /\ ~provider.incomplete =>
    archives[RowGroup] = "loaded" /\ provider.rows = Good(RowGroup)

(* A sweep goes on with an archive, whatever its type. *)
LEMMA SweepGoesOn ==
  ASSUME CallInv, SweepInv, NEW t \in Types, t = Type,
         NEW g \in Group, Sweeping(g), Obtains(g),
         todo' = todo \ {g[2]}, call' = call, NEW new, out' = out \cup new,
         IsFiniteSet(out'), call.limit >= 0 => Cardinality(out') <= call.limit,
         new \subseteq AvailableIn(t, g)',
         \A id \in AvailableIn(t, g)' : id \in out' \/ LimitBefore(id)',
         IsSharded(t) => \A e \in new, a \in todo' : e < Base(t, a)
  PROVE  SweepInv'
<1>1. Type' = t
  BY DEF Type
<1>2. CacheInv /\ CacheUse
  BY DEF CallInv, CacheUse
<1>3. g[1] = Mapping[t].index /\ g[2] \in todo /\ ~Full
  BY DEF Sweeping
<1>4. ~IsSharded(t) => g[2] = Mapping[t].archive
  BY <1>3 DEF SweepInv
<1>5. g \in Holding(t)
  BY <1>3, <1>4 DEF Holding, SweepInv
<1>6. ASSUME NEW h \in Group, h # g PROVE AvailableIn(t, h)' = AvailableIn(t, h)
  BY <1>2, <1>6, CallLoadsOnly, AvailableIsKept DEF CallInv
<1>7. ASSUME NEW h \in Group PROVE AvailableIn(t, h) \subseteq AvailableIn(t, h)'
  BY <1>2, AvailableIsKept
<1>8. out' \subseteq Available(t)'
  <2>1. ASSUME NEW id \in out PROVE id \in Available(t)'
    <3>1. PICK h \in Holding(t) : id \in AvailableIn(t, h)
      BY AvailableParts DEF SweepInv
    <3>2. id \in AvailableIn(t, h)'
      BY <1>7, <3>1 DEF Holding
    <3>3. QED
      BY <3>2, AvailableParts
  <2>2. ASSUME NEW id \in new PROVE id \in Available(t)'
    <3>1. id \in AvailableIn(t, g)'
      OBVIOUS
    <3>2. QED
      BY <1>5, <3>1, AvailableParts
  <2>3. QED
    BY <2>1, <2>2
<1>9. ASSUME NEW h \in Holding(t), h[2] \notin todo', NEW id \in AvailableIn(t, h)'
      PROVE  id \in out' \/ LimitBefore(id)'
  <2>1. CASE h = g
    BY <1>9, <2>1
  <2>2. CASE h # g
    <3>1. h \in Group /\ h[1] = g[1] /\ (IsSharded(t) \/ h[2] = Mapping[t].archive)
      BY <1>3 DEF Holding
    <3>2. h[2] # g[2]
      BY <2>2, <3>1
    <3>3. h[2] \notin todo /\ IsSharded(t)
      BY <1>4, <1>9, <3>1, <3>2
    <3>4. id \in AvailableIn(t, h)
      BY <1>6, <1>9, <2>2, <3>1
    <3>5. id \in out \/ LimitBefore(id)
      BY <3>3, <3>4 DEF SweepInv
    <3>6. LimitBefore(id) => Full
      <4>1. call.limit \in Int
        BY CallParts DEF CallInv, Handle, CallType
      <4>2. LimitBefore(id) => ~(call.limit < 0) /\ ~(Cardinality(out) < call.limit)
        BY <4>1 DEF LimitBefore
      <4>3. QED
        BY <3>3, <4>2 DEF Full, Wanted
    <3>7. QED
      BY <1>3, <3>5, <3>6
  <2>3. QED
    BY <2>1, <2>2
<1>10. IsSharded(t) => \A e \in out', a \in todo' : e < Base(t, a)
  BY DEF SweepInv
<1>11. /\ ~IsSharded(t) => todo' \subseteq {Mapping[t].archive} /\ (todo' # {} => out' = {})
       /\ t = "gameval" => todo' \subseteq GameVals
  <2>1. ~IsSharded(t) => todo' = {}
    BY <1>4 DEF SweepInv
  <2>2. t = "gameval" => todo' \subseteq GameVals
    BY DEF SweepInv
  <2>3. QED
    BY <2>1, <2>2
<1>12. call'.limit >= 0 => Cardinality(out') <= call'.limit
  BY <1>1
<1>13. QED
  BY <1>1, <1>8, <1>9, <1>10, <1>11, <1>12 DEF SweepInv

LEMMA SweepFilesGoesOn ==
  ASSUME CallInv, SweepInv, NEW t \in Types, t = Type,
         NEW g \in Group, SweepFiles(g), pc' = "sweep"
  PROVE  SweepInv'
<1> DEFINE S == Good(g)'
           new == {IdOf(t, g, f) : f \in UpToLimit(S)}
<1>1. /\ Sweeping(g) /\ Obtains(g) /\ t \notin Whole
      /\ out' = out \cup new /\ todo' = todo \ {g[2]} /\ call' = call
  BY DEF SweepFiles, Fails
<1>2. t \in Types \ Whole /\ g[1] = Mapping[t].index /\ out \subseteq Nat
        /\ call.limit \in Int
  BY <1>1, CallParts DEF CallInv, Handle, Positions, CallType, Sweeping
<1>3. \A f \in S : f \in DeclaredFiles(table'[g[1]], g)
  BY GoodIsDeclared
<1>4. S \subseteq Nat /\ IsFiniteSet(S)
  <2>1. S \in SUBSET FileIds
    BY DEF Good
  <2>2. FileIds \subseteq Nat /\ IsFiniteSet(FileIds)
    BY CApiAssumption
  <2> HIDE DEF S
  <2>3. QED
    BY <2>1, <2>2, FS_Subset
<1>5. AvailableIn(t, g)' = {IdOf(t, g, f) : f \in S}
  BY <1>1 DEF AvailableIn
<1> HIDE DEF S
<1>6. InOrder(t, g, S, out)
  <2>1. \A f \in S : IdOf(t, g, f) \in Nat
    BY <1>2, <1>3, IdOfNat DEF Whole
  <2>2. ASSUME NEW f \in S, NEW h \in S, f < h PROVE IdOf(t, g, f) < IdOf(t, g, h)
    <3>1. CASE IsSharded(t)
      BY <1>2, <1>3, <2>2, <3>1, IdsInOrder
    <3>2. CASE ~IsSharded(t)
      BY <2>2, <3>2 DEF IdOf
    <3>3. QED
      BY <3>1, <3>2
  <2>3. ASSUME NEW e \in out, NEW f \in S PROVE e < IdOf(t, g, f)
    <3>1. CASE IsSharded(t)
      <4>1. e \in Nat /\ e < Base(t, g[2])
        BY <1>1, <1>2, <3>1 DEF Sweeping, SweepInv
      <4>2. /\ IdOf(t, g, f) \in Nat /\ Base(t, g[2]) \in Nat
            /\ Base(t, g[2]) <= IdOf(t, g, f)
        BY <1>2, <1>3, <3>1, IdsInOrder
      <4>3. QED
        BY <4>1, <4>2
    <3>2. CASE ~IsSharded(t)
      BY <1>1, <3>2 DEF Sweeping, SweepInv
    <3>3. QED
      BY <3>1, <3>2
  <2>4. IsFiniteSet(out)
    BY DEF SweepInv
  <2>5. QED
    BY <1>2, <1>4, <2>1, <2>2, <2>3, <2>4, Zenon DEF InOrder
<1>7. UpToLimit(S) \subseteq S
  BY DEF UpToLimit
<1>8. IsSharded(t) => \A e \in new, a \in todo' : e < Base(t, a)
  <2>1. ASSUME IsSharded(t), NEW f \in S, NEW a \in todo' PROVE IdOf(t, g, f) < Base(t, a)
    <3>1. a \in ArchiveIds /\ g[2] <= a /\ g[2] # a /\ g[2] \in ArchiveIds
      BY <1>1 DEF Sweeping, CallInv, Handle, CallType
    <3>2. a \in Nat /\ g[2] \in Nat
      BY <3>1, CApiAssumption, Zenon
    <3>3. g[2] < a
      BY <3>1, <3>2, StrictlyAbove
    <3>4. QED
      BY <1>2, <1>3, <2>1, <3>1, <3>3, IdsInOrder
  <2>2. QED
    BY <1>7, <2>1
<1>9. CASE call.limit < 0
  <2>1. UpToLimit(S) = S
    BY <1>9 DEF UpToLimit, Reached, Wanted
  <2>2. out' = out \cup {IdOf(t, g, f) : f \in S}
    BY <1>1, <2>1
  <2>3. IsFiniteSet({IdOf(t, g, f) : f \in S})
    <3> DEFINE to == [f \in S |-> IdOf(t, g, f)]
    <3>1. to \in Surjection(S, {IdOf(t, g, f) : f \in S})
      BY DEF Surjection
    <3> HIDE DEF to
    <3>2. QED
      BY <1>4, <3>1, FS_Surjection
  <2>4. IsFiniteSet(out')
    BY <2>2, <2>3, FS_Union DEF SweepInv
  <2>5. ~(call.limit >= 0)
    BY <1>2, <1>9
  <2>6. new \subseteq AvailableIn(t, g)'
          /\ \A id \in AvailableIn(t, g)' : id \in out'
    BY <1>5, <1>7, <2>2
  <2> HIDE DEF new
  <2>7. QED
    BY <1>1, <1>8, <2>4, <2>5, <2>6, SweepGoesOn
<1>10. CASE ~(call.limit < 0)
  <2>1. call.limit \in Nat /\ call.limit >= 0
    BY <1>2, <1>10
  <2>2. Cardinality(out) <= call.limit
    BY <2>1 DEF SweepInv
  <2>3. UpToLimit(S) = Prefix(S, Cardinality(out), call.limit)
    BY <1>10 DEF UpToLimit, Reached, Wanted, Prefix, Under
  <2>4. out' = Swept(t, g, S, out, call.limit)
    BY <1>1, <2>3 DEF Swept
  <2>5. Limited(t, g, S, out', call.limit)
    BY <1>6, <2>1, <2>2, <2>4, CountOfSweep
  <2>6. IsFiniteSet(out') /\ Cardinality(out') <= call.limit
    BY <2>5 DEF Limited
  <2>7. ASSUME NEW id \in AvailableIn(t, g)' PROVE id \in out' \/ LimitBefore(id)'
    <3>1. PICK f \in S : id = IdOf(t, g, f)
      BY <1>5
    <3>2. call'.limit = call.limit
      BY <1>1
    <3>3. \/ id \in out'
          \/ Cardinality(out') = call.limit /\ \A e \in out' : e < id
      BY <2>5, <3>1, Zenon DEF Limited
    <3>4. QED
      BY <2>1, <3>2, <3>3, Zenon DEF LimitBefore
  <2>8. new \subseteq AvailableIn(t, g)'
    BY <1>5, <1>7
  <2> HIDE DEF new
  <2>9. QED
    BY <1>1, <1>8, <2>6, <2>7, <2>8, SweepGoesOn
<1>11. QED
  BY <1>9, <1>10

LEMMA SweepArchiveGoesOn ==
  ASSUME CallInv, SweepInv, NEW t \in Types, t = Type,
         NEW g \in Group, SweepArchive(g), pc' = "sweep"
  PROVE  SweepInv'
<1> DEFINE new == IF Good(g)' \cap Parts(t) # {} THEN {g[2]} ELSE {}
<1>1. /\ Sweeping(g) /\ Obtains(g) /\ t \in Whole
      /\ out' = out \cup new /\ todo' = todo \ {g[2]} /\ call' = call
  BY DEF SweepArchive, Fails
<1>2. AvailableIn(t, g)' = new
  BY <1>1 DEF AvailableIn
<1>3. call.limit \in Int /\ IsFiniteSet(out) /\ Cardinality(out) \in Nat
  BY CallParts, FS_CardinalityType DEF SweepInv, CallInv, Handle, CallType
<1>4. IsFiniteSet(out') /\ Cardinality(out') <= Cardinality(out) + 1
  <2>1. CASE new = {g[2]}
    BY <1>1, <1>3, <2>1, AtMostOneMore
  <2>2. CASE new = {}
    <3>1. out' = out
      BY <1>1, <2>2
    <3>2. QED
      BY <1>3, <3>1
  <2>3. QED
    BY <2>1, <2>2
<1>5. call.limit >= 0 => Cardinality(out') <= call.limit
  <2>1. call.limit < 0 \/ Cardinality(out) < call.limit
    BY <1>1, WholeType DEF Sweeping, Full, Wanted
  <2>2. Cardinality(out') \in Nat
    BY <1>4, FS_CardinalityType
  <2> HIDE DEF new
  <2>3. QED
    BY <1>3, <1>4, <2>1, <2>2
<1>6. \A e \in new, a \in todo' : e < Base(t, a)
  <2>1. ASSUME NEW a \in todo' PROVE g[2] < a
    <3>1. a \in ArchiveIds /\ g[2] <= a /\ g[2] # a /\ g[2] \in ArchiveIds
      BY <1>1 DEF Sweeping, CallInv, Handle, CallType
    <3>2. a \in Nat /\ g[2] \in Nat
      BY <3>1, CApiAssumption, Zenon
    <3>3. QED
      BY <3>1, <3>2, StrictlyAbove
  <2>2. QED
    BY <1>1, <2>1 DEF Base
<1>7. \A id \in AvailableIn(t, g)' : id \in out'
  BY <1>1, <1>2
<1> HIDE DEF new
<1>8. QED
  BY <1>1, <1>2, <1>4, <1>5, <1>6, <1>7, SweepGoesOn

(* A sweep begins with every archive that can hold an entry before it. *)
LEMMA SweepBegins ==
  ASSUME CallInv, CallInv', pc' = "sweep",
         (\E t \in Types, n \in Limits : BeginDump(t, n)) \/ BeginGameVals
  PROVE  SweepInv'
<1>1. ASSUME NEW t \in Types, Type' = t, out' = {},
             \A h \in Holding(t) : archives'[h] = "loaded" => h[2] \in todo',
             ~IsSharded(t) => todo' \subseteq {Mapping[t].archive},
             t = "gameval" => todo' \subseteq GameVals
      PROVE  SweepInv'
  <2>1. \A h \in Holding(t) : h[2] \notin todo' => AvailableIn(t, h)' = {}
    <3>1. \A h : archives'[h] # "loaded" => Good(h)' = {}
      BY GoodIsDeclared
    <3>2. \A h : Good(h)' = {} => AvailableIn(t, h)' = {}
      BY DEF AvailableIn
    <3>3. QED
      BY <1>1, <3>1, <3>2
  <2>2. IsFiniteSet(out') /\ Cardinality(out') = 0
    BY <1>1, FS_EmptySet
  <2>3. call'.limit >= 0 => Cardinality(out') <= call'.limit
    <3>1. call'.limit \in Int
      BY CallParts DEF CallInv, Handle, CallType
    <3>2. QED
      BY <2>2, <3>1
  <2>4. QED
    BY <1>1, <2>1, <2>2, <2>3 DEF SweepInv
<1>2. ASSUME NEW t \in Types, NEW n \in Limits, BeginDump(t, n) PROVE SweepInv'
  <2>1. /\ call' = Sweep("dump", t, n) /\ out' = out /\ pc = "idle" /\ t # "gameval"
        /\ todo' = IF IsSharded(t) THEN Listed(Mapping[t].index)' ELSE {Mapping[t].archive}
    BY <1>2 DEF BeginDump, Fails, Starts
  <2>2. Type' = t /\ out' = {}
    BY <2>1 DEF Type, Sweep, CallInv, Handle, Positions
  <2>3. ASSUME NEW h \in Holding(t), archives'[h] = "loaded" PROVE h[2] \in todo'
    <3>1. /\ h \in Group /\ h[1] = Mapping[t].index /\ h[2] \in ArchiveIds
          /\ IsSharded(t) \/ h[2] = Mapping[t].archive
      BY HoldingType
    <3>2. h = <<Mapping[t].index, h[2]>>
      BY <3>1
    <3>3. Declares(table'[h[1]], h)
      BY <2>3, <3>1 DEF CallInv, CacheInv, LoadedIsDeclared, Declares, DeclaredFiles
    <3>4. h[2] \in Listed(Mapping[t].index)'
      BY <3>1, <3>2, <3>3 DEF Listed, Declares, DeclaredFiles
    <3>5. QED
      BY <2>1, <3>1, <3>4
  <2>4. QED
    BY <1>1, <2>1, <2>2, <2>3
<1>3. CASE BeginGameVals
  <2>1. "gameval" \in Types /\ IsSharded("gameval")
    BY WholeType DEF Whole
  <2>2. Type' = "gameval" /\ out' = {} /\ todo' = GameVals
    BY <1>3 DEF BeginGameVals, Starts, Type, Sweep, CallInv, Handle, Positions
  <2>3. \A h \in Holding("gameval") : h[2] \in GameVals
    BY DEF Holding
  <2>4. QED
    BY <1>1, <2>1, <2>2, <2>3
<1>4. QED
  BY <1>2, <1>3

(* A sweep that has been through its archives, or has met its limit, has   *)
(* what a dump promises.                                                   *)
Dumped ==
  /\ out \subseteq Available(Type)
  /\ call.limit >= 0 => Cardinality(out) <= call.limit
  /\ \A id \in Available(Type) \ out : LimitBefore(id)

LEMMA DumpIsDumped ==
  ASSUME Positions
  PROVE  DumpIsComplete <=>
           (pc = "reply" /\ call.op = "dump" /\ (Type = "dbrow" => ~provider.incomplete)
              => Dumped)
<1>1. pc = "reply" /\ call.op = "null" => Type = "gameval" /\ out = {}
  BY DEF Positions
<1>2. "dump" # "null"
  OBVIOUS
<1>3. QED
  BY <1>1, <1>2, Zenon DEF DumpIsComplete, Dumped, LimitBefore

LEMMA SweepEnds ==
  ASSUME CallInv, SweepInv, pc = "sweep", todo = {} \/ Full
  PROVE  Dumped
<1>1. PICK t \in Types : t = Type
  BY DEF CallInv, Handle, Positions
<1>2. call.limit \in Int /\ IsFiniteSet(out) /\ Cardinality(out) \in Nat /\ out \subseteq Nat
  BY CallParts, FS_CardinalityType DEF SweepInv, CallInv, Handle, CallType
<1>3. ASSUME NEW id \in Available(t), id \notin out PROVE LimitBefore(id)
  <2>1. PICK h \in Holding(t) : id \in AvailableIn(t, h)
    BY AvailableParts
  <2>2. CASE h[2] \notin todo
    BY <1>1, <1>3, <2>1, <2>2 DEF SweepInv
  <2>3. CASE h[2] \in todo
    <3>1. IsSharded(t) /\ ~(call.limit < 0) /\ ~(Cardinality(out) < call.limit)
      BY <1>1, <2>3 DEF Full, Wanted
    <3>2. call.limit >= 0
      BY <1>2, <3>1
    <3>3. Cardinality(out) <= call.limit
      BY <3>2 DEF SweepInv
    <3>4. Cardinality(out) = call.limit
      BY <1>2, <3>1, <3>3, ExactlyMet
    <3>5. ASSUME NEW e \in out PROVE e < id
      <4>1. e < Base(t, h[2]) /\ e \in Nat
        BY <1>1, <1>2, <2>3, <3>1 DEF SweepInv
      <4>2. Base(t, h[2]) <= id /\ Base(t, h[2]) \in Nat /\ id \in Nat
        BY <2>1, <3>1, BaseIsBelow
      <4>3. QED
        BY <4>1, <4>2
    <3>6. QED
      BY <3>2, <3>4, <3>5 DEF LimitBefore
  <2>4. QED
    BY <2>2, <2>3
<1>4. QED
  BY <1>1, <1>3 DEF Dumped, SweepInv

LEMMA AvailableStays ==
  ASSUME UNCHANGED <<archives, table, content>>
  PROVE  \A t : /\ \A id : id \in Available(t)' <=> id \in Available(t)
                /\ \A h : AvailableIn(t, h)' = AvailableIn(t, h)
<1>1. \A h, f : Seen(h, f)' = Seen(h, f)
  BY DEF Seen, FileIdsOf
<1>2. \A h : Good(h)' = Good(h)
  BY <1>1 DEF Good
<1>3. ASSUME NEW t, NEW h PROVE AvailableIn(t, h)' = AvailableIn(t, h)
  BY <1>2 DEF AvailableIn
<1>4. ASSUME NEW t, NEW id PROVE id \in Available(t)' <=> id \in Available(t)
  BY <1>3, AvailableParts
<1>5. QED
  BY <1>3, <1>4

(* The dump of the rows. *)
LEMMA DumpedRows ==
  ASSUME CallInv, CallInv', RowsAreKnown, DumpRows, pc' = "reply", ~provider.incomplete
  PROVE  Dumped'
<1> DEFINE S == Good(RowGroup)'
<1>1. /\ Obtains(RowGroup) /\ pc = "rows" /\ call.op = "dump"
      /\ Replies(call, UpToLimit(provider.rows \cap FileIdsOf(RowGroup)'))
  BY DEF DumpRows, Fails
<1>2. Type = "dbrow" /\ Type' = "dbrow" /\ out = {} /\ provider.made /\ call' = call
  BY <1>1 DEF CallInv, Handle, Positions, Replies, Type
<1>3. provider.rows = S
  <2>1. archives[RowGroup] = "loaded" /\ provider.rows = Good(RowGroup)
    BY <1>2 DEF RowsAreKnown
  <2>2. CacheInv /\ CacheUse /\ RowGroup \in Group
    BY <1>1, RowsType DEF CallInv, CacheUse
  <2>3. QED
    BY <2>1, <2>2, GoodIsKept
<1>4. S \subseteq FileIdsOf(RowGroup)'
  BY DEF Good, Seen
<1>5. out' = UpToLimit(S)
  <2>1. provider.rows \cap FileIdsOf(RowGroup)' = S
    BY <1>3, <1>4
  <2>2. out' = UpToLimit(provider.rows \cap FileIdsOf(RowGroup)')
    BY <1>1 DEF Replies
  <2> HIDE DEF S
  <2>3. QED
    BY <2>1, <2>2
<1>6. \A id : id \in Available("dbrow")' <=> id \in S
  <2>1. "dbrow" \notin Whole
    BY DEF Whole
  <2>2. Holding("dbrow") = {RowGroup}
    <3>1. RowGroup \in Group /\ ~IsSharded("dbrow")
      BY RowsType
    <3>2. RowGroup \in Holding("dbrow")
      BY <3>1 DEF Holding, RowGroup
    <3>3. ASSUME NEW h \in Holding("dbrow") PROVE h = RowGroup
      BY <3>1 DEF Holding, RowGroup
    <3>4. QED
      BY <3>2, <3>3
  <2>3. AvailableIn("dbrow", RowGroup)' = {IdOf("dbrow", RowGroup, f) : f \in S}
    BY <2>1 DEF AvailableIn
  <2>4. \A f : IdOf("dbrow", RowGroup, f) = f
    BY RowsType DEF IdOf
  <2> HIDE DEF S
  <2>5. \A id : id \in AvailableIn("dbrow", RowGroup)' <=> id \in S
    BY <2>3, <2>4
  <2>6. \A id : id \in Available("dbrow")' <=> id \in AvailableIn("dbrow", RowGroup)'
    BY <2>2, AvailableParts
  <2>7. QED
    BY <2>5, <2>6
<1>7. S \subseteq Nat /\ IsFiniteSet(S)
  <2>1. S \in SUBSET FileIds
    BY DEF Good
  <2>2. FileIds \subseteq Nat /\ IsFiniteSet(FileIds)
    BY CApiAssumption
  <2> HIDE DEF S
  <2>3. QED
    BY <2>1, <2>2, FS_Subset
<1> HIDE DEF S
<1>8. out' \subseteq S
  BY <1>5 DEF UpToLimit
<1>9. call.limit \in Int /\ call'.limit = call.limit
  BY <1>2, CallParts DEF CallInv, Handle, CallType
<1>10. Cardinality(out) = 0
  BY <1>2, FS_EmptySet
<1>11. CASE call.limit < 0
  <2>1. out' = S
    BY <1>5, <1>11 DEF UpToLimit, Reached, Wanted
  <2>2. ~(call'.limit >= 0)
    BY <1>9, <1>11
  <2>3. QED
    BY <1>2, <1>6, <2>1, <2>2 DEF Dumped
<1>12. CASE ~(call.limit < 0)
  <2>1. call.limit \in Nat /\ call.limit >= 0 /\ 0 <= call.limit
    BY <1>9, <1>12
  <2>2. \A f : IdOf("dbrow", RowGroup, f) = f
    BY RowsType DEF IdOf
  <2>3. InOrder("dbrow", RowGroup, S, out)
    BY <1>2, <1>7, <2>2, FS_EmptySet DEF InOrder
  <2>4. out' = Prefix(S, Cardinality(out), call.limit)
    BY <1>5, <1>12 DEF UpToLimit, Reached, Wanted, Prefix, Under
  <2>5. out' = Swept("dbrow", RowGroup, S, out, call.limit)
    BY <1>2, <2>2, <2>4 DEF Swept
  <2>6. Limited("dbrow", RowGroup, S, out', call.limit)
    BY <1>10, <2>1, <2>3, <2>5, CountOfSweep
  <2>7. Cardinality(out') <= call'.limit
    BY <1>9, <2>6 DEF Limited
  <2>8. ASSUME NEW id \in S \ out' PROVE LimitBefore(id)'
    <3>1. IdOf("dbrow", RowGroup, id) = id
      BY <2>2
    <3>2. \/ IdOf("dbrow", RowGroup, id) \in out'
          \/ /\ Cardinality(out') = call.limit
             /\ \A e \in out' : e < IdOf("dbrow", RowGroup, id)
      BY <2>6, Zenon DEF Limited
    <3>3. Cardinality(out') = call.limit /\ \A e \in out' : e < id
      BY <3>1, <3>2
    <3>4. QED
      BY <1>9, <2>1, <3>3, Zenon DEF LimitBefore
  <2>9. QED
    BY <1>2, <1>6, <1>8, <2>7, <2>8 DEF Dumped
<1>13. QED
  BY <1>11, <1>12

(* What is not read again while a call waits for its buffers stays. *)
LEMMA DumpStays ==
  ASSUME CallInv, DumpSoFar, UNCHANGED handle, Environment \/ UNCHANGED cache
  PROVE  DumpSoFar'
<1>1. /\ UNCHANGED <<pc, call, out, todo, provider>> /\ UNCHANGED <<archives, table, content>>
  BY DEF handle, output, cache, client, Environment, LinkChanges, RowStored, RefStored
<1>2. PICK t : t = Type
  OBVIOUS
<1>3. Type' = t
  BY <1>1, <1>2 DEF Type
<1>4. /\ \A id : id \in Available(t)' <=> id \in Available(t)
      /\ \A h : AvailableIn(t, h)' = AvailableIn(t, h)
  BY <1>1, AvailableStays
<1>5. \A id : LimitBefore(id)' <=> LimitBefore(id)
  BY <1>1 DEF LimitBefore
<1>6. SweepInv => SweepInv'
  BY <1>1, <1>2, <1>3, <1>4, <1>5 DEF SweepInv
<1>7. Dumped => Dumped'
  BY <1>1, <1>2, <1>3, <1>4, <1>5 DEF Dumped
<1>8. DumpIsComplete'
  <2>1. pc = "reply" /\ call.op = "dump" /\ (Type = "dbrow" => ~provider.incomplete)
          => Dumped'
    BY <1>7, DumpIsDumped DEF DumpSoFar, CallInv, Handle
  <2>2. pc = "reply" /\ call.op = "null" => Type = "gameval" /\ out = {}
    BY DEF CallInv, Handle, Positions
  <2>3. "dump" # "null"
    OBVIOUS
  <2>4. QED
    BY <1>1, <1>2, <1>3, <2>1, <2>2, <2>3, Zenon DEF DumpIsComplete, Dumped, LimitBefore
<1>9. QED
  BY <1>1, <1>6, <1>8 DEF DumpSoFar

LEMMA DumpStep ==
  ASSUME CallInv, CallInv', DumpSoFar, RowsAreKnown, [CallNext]_<<cache, handle>>
  PROVE  DumpSoFar'
<1>1. CASE UNCHANGED handle /\ (Environment \/ UNCHANGED cache)
  BY <1>1, DumpStays
<1>2. CASE ~(UNCHANGED handle /\ (Environment \/ UNCHANGED cache))
  <2>1. ASSUME pc' = "sweep" PROVE SweepInv'
    <3>1. \/ (\E t \in Types, n \in Limits : BeginDump(t, n)) \/ BeginGameVals
          \/ \E g \in Group : SweepFiles(g) \/ SweepArchive(g)
      BY <1>2, <2>1, ComesFrom DEF CallInv
    <3>2. ASSUME NEW g \in Group, SweepFiles(g) \/ SweepArchive(g) PROVE SweepInv'
      <4>1. pc = "sweep"
        BY <3>2 DEF SweepFiles, SweepArchive, Sweeping
      <4>2. PICK t \in Types : t = Type
        BY <4>1 DEF CallInv, Handle, Positions
      <4>3. SweepInv
        BY <4>1 DEF DumpSoFar
      <4>4. QED
        BY <2>1, <3>2, <4>2, <4>3, SweepFilesGoesOn, SweepArchiveGoesOn
    <3>3. QED
      BY <2>1, <3>1, <3>2, SweepBegins
  <2>2. ASSUME pc' = "reply", call'.op = "dump", Type' = "dbrow" => ~provider'.incomplete
        PROVE  Dumped'
    <3>1. \/ \E t \in Types : ListIds(t)
          \/ DumpRows \/ SweepDone
      BY <1>2, <2>2, ComesFrom DEF CallInv
    <3>2. CASE \E t \in Types : ListIds(t)
      BY <2>2, <3>2 DEF ListIds, Fails, Replies, Sweep
    <3>3. CASE DumpRows
      <4>1. provider' = provider /\ Type' = "dbrow"
        BY <2>2, <3>3 DEF DumpRows, Replies, Fails, Type, CallInv, Handle, Positions
      <4>2. QED
        BY <2>2, <3>3, <4>1, DumpedRows
    <3>4. CASE SweepDone
      <4>1. /\ pc = "sweep" /\ (todo = {} \/ Full) /\ SweepInv
            /\ call' = call /\ out' = out /\ UNCHANGED cache
        BY <3>4 DEF SweepDone, Replies, DumpSoFar
      <4>2. Dumped
        BY <4>1, SweepEnds
      <4>3. PICK t : t = Type
        OBVIOUS
      <4>4. Type' = t
        BY <4>1, <4>3 DEF Type
      <4>5. \A id : id \in Available(t)' <=> id \in Available(t)
        BY <4>1, AvailableStays DEF cache, client
      <4>6. \A id : LimitBefore(id)' <=> LimitBefore(id)
        BY <4>1 DEF LimitBefore
      <4>7. QED
        BY <4>1, <4>2, <4>3, <4>4, <4>5, <4>6 DEF Dumped
    <3>5. QED
      BY <3>1, <3>2, <3>3, <3>4
  <2>3. DumpIsComplete'
    <3>1. pc' = "reply" /\ call'.op = "null" => Type' = "gameval" /\ out' = {}
      BY DEF CallInv, Handle, Positions
    <3>2. "dump" # "null"
      OBVIOUS
    <3>3. QED
      BY <2>2, <3>1, <3>2, Zenon DEF DumpIsComplete, Dumped, LimitBefore
  <2>4. QED
    BY <2>1, <2>3 DEF DumpSoFar
<1>3. QED
  BY <1>1, <1>2

LEMMA ProviderStays ==
  ASSUME [CallNext]_<<cache, handle>>
  PROVE  LoadRows \/ Reopen \/ UNCHANGED provider
BY DEF CallNext, Get, ReadRaw, Invalid, GetNoFrame, Icon, IconModel, GetSquare, GetWhole,
       ReadPlaced, SquareDone, ListIds, ListArchives, BeginRows, GetRow, DumpRows,
       BeginDump, DumpNull, BeginGameVals, SweepFiles, SweepArchive, Sweeping, SweepDone,
       Reply, Second, ReplyFails, SecondFails, Enable, Environment, handle

LEMMA RowsStep ==
  ASSUME CallInv, RowsAreKnown, [CallNext]_<<cache, handle>>
  PROVE  RowsAreKnown'
<1>1. CASE Reopen
  BY <1>1 DEF Reopen, RowsAreKnown
<1>2. CASE LoadRows
  <2>1. CASE provider' = [made |-> TRUE, rows |-> {}, incomplete |-> TRUE]
    BY <2>1 DEF RowsAreKnown
  <2> DEFINE rows == {f \in Good(RowGroup)' : \A h \in Bad(RowGroup)' : f < h}
             damaged == Bad(RowGroup)' # {} \/ archives'[RowGroup] # "loaded"
  <2>2. CASE provider' = [made |-> TRUE, rows |-> rows, incomplete |-> damaged]
    <3>1. ~damaged => archives'[RowGroup] = "loaded" /\ rows = Good(RowGroup)'
      OBVIOUS
    <3>2. provider'.rows = rows /\ provider'.incomplete = damaged
      BY <2>2
    <3> HIDE DEF rows, damaged
    <3>3. QED
      BY <3>1, <3>2 DEF RowsAreKnown
  <2>3. QED
    BY <1>2, <2>1, <2>2 DEF LoadRows
<1>3. CASE ~Reopen /\ UNCHANGED provider
  <2>1. CacheInv /\ CacheUse /\ RowGroup \in Group
    BY <1>3, StepUsesCache, RowsType DEF CallInv, Handle
  <2>2. archives[RowGroup] = "loaded" =>
          archives'[RowGroup] = "loaded" /\ Good(RowGroup)' = Good(RowGroup)
    BY <2>1, LoadedIsKept, GoodIsKept
  <2>3. QED
    BY <1>3, <2>2 DEF RowsAreKnown
<1>4. QED
  BY <1>1, <1>2, <1>3, ProviderStays

(* A dump is what the getters find: of all entries that can be read, those *)
(* that come first, as many as the limit allows, whatever the environment  *)
(* does while the archives are swept.  Excepted are rows of a provider     *)
(* whose load threw, and nxt_dump_all_json("gameval"), which is "null".    *)
THEOREM DumpsAreComplete == CallSpec => []DumpIsComplete
<1> DEFINE Dumping == DumpSoFar /\ RowsAreKnown
<1>1. CallInit => Dumping
  BY DEF CallInit, DumpSoFar, RowsAreKnown, DumpIsComplete
<1>2. CallInv /\ CallInv' /\ Dumping /\ [CallNext]_<<cache, handle>> => Dumping'
  BY DumpStep, RowsStep
<1>3. Dumping => DumpIsComplete
  BY DEF DumpSoFar
<1> HIDE DEF Dumping
<1>4. QED
  BY <1>1, <1>2, <1>3, CallInvariance, PTL DEF CallSpec
=============================================================================

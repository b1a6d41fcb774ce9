-------------------------------- MODULE CApi --------------------------------
(***************************************************************************)
(* The flat C ABI (src/c_api/nxtcache_c.cpp) over a local cache: a handle  *)
(* with its RSCache and its row provider, called one entry point after the *)
(* other.  A call that reads several archives takes a step for each, with  *)
(* the environment of RSCache in between.                                  *)
(*                                                                         *)
(* A call's result is the set of entry ids its buffer holds; the numbers   *)
(* and pixels of an entry, the JSON and the message are left out.          *)
(*                                                                         *)
(* Environment: that of RSCache, and malloc, which may fail.               *)
(***************************************************************************)
EXTENDS CacheCalls, Integers, FiniteSets

CONSTANTS
  Types,     \* the keys of nxt::typeDefaults
  Mapping,   \* [Types -> TypeMapping]: its values
  MapIndex,  \* kMapIndex
  Ids,       \* entry ids callers ask for
  ModelOf,   \* [Ids -> Int]: ItemType::modelID
  GameVals,  \* archive ids of gameValGroups
  Limits     \* limit_or_neg1

Sharded == -1
TypeMapping == [index : IndexIds, archive : ArchiveIds \cup {Sharded}, shift : Nat]

(* Types whose entries are archives: interfaces and gameval groups. *)
Whole == {"if", "gameval"}

ASSUME CApiAssumption ==
  /\ ArchiveIds \subseteq Nat /\ IsFiniteSet(ArchiveIds)
  /\ FileIds \subseteq Nat /\ IsFiniteSet(FileIds)
  /\ Ids \subseteq Nat
  /\ Mapping \in [Types -> TypeMapping] /\ MapIndex \in IndexIds
  /\ Whole \cup {"dbrow", "item", "loc", "overlay", "sprite", "model"} \subseteq Types
  /\ \A t \in Whole \cup {"item", "model"} : Mapping[t].archive = Sharded
  /\ Mapping["dbrow"].archive # Sharded
  /\ ModelOf \in [Ids -> Int]
  /\ GameVals \subseteq ArchiveIds
  /\ Limits \subseteq Int
  \* A sharded type's file ids fit in its shift: "one archive per id, single
  \* file (file 0)" where that is 0.
  /\ \A t \in Types \ {"if"} : Mapping[t].archive = Sharded =>
       \A b \in Builds, a \in ArchiveIds :
         \A f \in Tables[b][<<Mapping[t].index, a>>] : f < 2 ^ Mapping[t].shift

VARIABLES
  pc,         \* "idle", or what the call does next
  call,       \* the call at hand, as far as its later steps need it
  todo,       \* archives it has still to sweep
  out,        \* entries it has decoded, or handed over
  provider,   \* Cache::dbProvider: made, its rows; incomplete is a history
  buffers,    \* allocated and neither freed nor handed over
  published,  \* handed over by the last call
  result      \* its nxt_result, once it has returned

output == <<out, buffers, published, result>>
handle == <<pc, call, todo, output, provider>>

Op == {"none", "get", "row", "dump", "null", "ids", "archives", "icon", "map"}
Call == [op : Op, type : Types \cup {"none"}, id : Ids \cup ArchiveIds \cup {0},
         limit : Limits \cup {-1}]
NoCall == [op |-> "none", type |-> "none", id |-> 0, limit |-> -1]
Result == {"none", "OK", "INVALID", "NOT_FOUND", "DECODE", "IO", "INTERNAL"}

(* What a handle and a call hold.  The caller owns every buffer a call      *)
(* allocated if it succeeds, and has nothing to free if it does not         *)
(* (nxtcache_c.h:198-199).                                                  *)
CallTypeOK ==
  /\ TypeOK
  /\ pc \in {"idle", "load", "rows", "sweep", "model", "square", "reply", "second"}
  /\ call \in Call /\ (pc = "idle" => call = NoCall)
  /\ todo \in SUBSET ArchiveIds /\ out \in SUBSET Nat
  /\ provider \in [made : BOOLEAN, rows : SUBSET FileIds, incomplete : BOOLEAN]
  /\ buffers \in 0..2 /\ published \in 0..2 /\ result \in Result
  /\ pc = "idle" => buffers = 0 /\ (result # "OK" => published = 0)
-----------------------------------------------------------------------------
(* Which archive and file an entry is in, and the id of what is there.     *)
Type == call.type
IsSharded(t) == Mapping[t].archive = Sharded

FileOf(t, id) == IF IsSharded(t) THEN id % 2 ^ Mapping[t].shift ELSE id

GroupOf(t, id) ==
  <<Mapping[t].index,
    IF IsSharded(t) THEN id \div 2 ^ Mapping[t].shift ELSE Mapping[t].archive>>

(* The archives of the models that items name are among those of the cache. *)
ASSUME ModelsAssumption ==
  \A id \in Ids : ModelOf[id] > 0 => GroupOf("model", ModelOf[id]) \in Group

(* Mutant: one shift for all types. *)
IdShiftedByEight(t, g, f) == IF IsSharded(t) THEN g[2] * 256 + f ELSE f

IdOf(t, g, f) == IF IsSharded(t) THEN g[2] * 2 ^ Mapping[t].shift + f ELSE f

RowGroup == <<Mapping["dbrow"].index, Mapping["dbrow"].archive>>

(* The files of an archive that are decoded for an entry it is. *)
Parts(t) == IF t = "gameval" THEN {0} ELSE FileIds
-----------------------------------------------------------------------------
Starts == pc = "idle" /\ published' = 0

(* The call returns an error, or has what it will hand over. *)
Fails(code) ==
  /\ pc' = "idle" /\ result' = code
  /\ call' = NoCall /\ out' = {} /\ todo' = {}
  /\ UNCHANGED buffers

Replies(what, entries) ==
  /\ pc' = "reply" /\ call' = what /\ out' = entries /\ todo' = {}
  /\ result' = "none" /\ UNCHANGED buffers

Asks(op, id) == [op |-> op, type |-> "none", id |-> id, limit |-> -1]
Sweep(op, t, limit) == [op |-> op, type |-> t, id |-> 0, limit |-> limit]

GoesOn(what, where) ==
  /\ pc' = where /\ call' = what /\ result' = "none"
  /\ UNCHANGED <<out, todo, buffers>>

(* Mutant: a getter that bounds the handle's memory. *)
GetEvicting(t, id) ==
  LET g == GroupOf(t, id) IN
  /\ Starts
  /\ UNCHANGED provider
  /\ IF EntryOf(g) = "loaded"
     THEN Evict(g[1], g[2]) /\ Replies(Asks("get", 0), {id})
     ELSE Obtains(g) /\ Fails("NOT_FOUND")

(* getJsonGeneric and the sprite and model getters, over decodeOne.        *)
Get(t, id) ==
  LET g == GroupOf(t, id) IN
  /\ Starts
  /\ UNCHANGED provider
  /\ \/ Raises(g) /\ Fails("DECODE")
     \/ /\ Obtains(g)
        /\ CASE Seen(g, FileOf(t, id))' = "good"  -> Replies(Asks("get", 0), {id})
             [] Seen(g, FileOf(t, id))' = "bad"   -> Fails("DECODE")
             [] Seen(g, FileOf(t, id))' = "empty" -> Fails("NOT_FOUND")

(* nxt_get_sprite_frame_rgba of a frame the sprite has not; an unknown     *)
(* type name or a null argument reads nothing at all.                      *)
GetNoFrame(id) ==
  LET g == GroupOf("sprite", id) IN
  /\ Starts
  /\ UNCHANGED provider
  /\ Obtains(g) /\ Seen(g, FileOf("sprite", id))' = "good"
  /\ Fails("INVALID")

Invalid(t, id) ==
  /\ Starts /\ Fails("INVALID")
  /\ UNCHANGED <<cache, provider>>

(* nxt_read_file_raw, which decodes nothing. *)
ReadRaw(t, id) ==
  LET g == GroupOf(t, id) IN
  /\ Starts
  /\ UNCHANGED provider
  /\ \/ Raises(g) /\ Fails("IO")
     \/ /\ Obtains(g)
        /\ IF Seen(g, FileOf(t, id))' = "empty" THEN Fails("NOT_FOUND")
           ELSE Replies(Asks("get", 0), {id})

(* nxt_get_if_json and nxt_get_gameval_group_json: an archive is an entry. *)
GetWhole(t, a) ==
  LET g == <<Mapping[t].index, a>> IN
  /\ Starts
  /\ UNCHANGED provider
  /\ \/ Raises(g) /\ Fails("DECODE")
     \/ /\ Obtains(g)
        /\ IF Bad(g)' \cap Parts(t) # {} THEN Fails("DECODE")
           ELSE IF Good(g)' \cap Parts(t) = {} THEN Fails("NOT_FOUND")
           ELSE Replies(Asks("get", 0), {a})

(* nxt_list_type_ids. *)
ListIds(t) ==
  LET i == Mapping[t].index
      own == IF IsSharded(t) THEN {<<i, a>> : a \in ArchiveIds}
                             ELSE {GroupOf(t, 0)}
  IN
  /\ Starts
  /\ UNCHANGED provider
  /\ \/ OpenThrows(i) /\ UNCHANGED cache /\ Fails("IO")
     \/ /\ ~OpenThrows(i) /\ Lists(i)
        /\ Replies(Sweep("ids", t, -1),
                   IF t = "if" THEN Listed(i)'
                   ELSE UNION {{IdOf(t, g, f) : f \in FileIdsOf(g)'} : g \in own})

(* nxt_list_archive_ids. *)
ListArchives(i) ==
  /\ Starts
  /\ UNCHANGED provider
  /\ \/ OpenThrows(i) /\ UNCHANGED cache /\ Fails("IO")
     \/ ~OpenThrows(i) /\ Lists(i) /\ Replies(Asks("archives", 0), Listed(i)')
-----------------------------------------------------------------------------
(* nxt_render_item_icon: the item, then its model. *)
Icon(id) ==
  LET g == GroupOf("item", id) IN
  /\ Starts
  /\ UNCHANGED provider
  /\ \/ Raises(g) /\ Fails("DECODE")
     \/ /\ Obtains(g)
        /\ CASE Seen(g, FileOf("item", id))' = "bad"   -> Fails("DECODE")
             [] Seen(g, FileOf("item", id))' = "empty" -> Fails("NOT_FOUND")
             [] Seen(g, FileOf("item", id))' = "good"  ->
                  IF ModelOf[id] <= 0 THEN Fails("NOT_FOUND")
                  ELSE GoesOn(Asks("icon", id), "model")

IconModel(id) ==
  LET g == GroupOf("model", ModelOf[id])
      f == FileOf("model", ModelOf[id])
  IN
  /\ pc = "model" /\ call.id = id
  /\ UNCHANGED <<published, provider>>
  /\ \/ Raises(g) /\ Fails("DECODE")
     \/ /\ Obtains(g)
        /\ CASE Seen(g, f)' = "bad"   -> Fails("DECODE")
             [] Seen(g, f)' = "empty" -> Fails("NOT_FOUND")
             [] Seen(g, f)' = "good"  -> Replies(call, {id})

(* The map square getters.  What buildMapSquareClip computes is MapSquare; *)
(* here it is what it reads: the square, then definitions it places that   *)
(* are not in mapDefs.  A square that is declared but could not be read is *)
(* an empty one.                                                           *)
GetSquare(a) ==
  LET g == <<MapIndex, a>> IN
  /\ Starts
  /\ UNCHANGED provider
  /\ \/ Raises(g) /\ Fails("DECODE")
     \/ /\ Obtains(g)
        /\ IF archives'[g] \in {"declared", "loaded"}
           THEN GoesOn(Asks("map", a), "square") ELSE Fails("NOT_FOUND")

ReadPlaced(t, id) ==
  LET g == GroupOf(t, id) IN
  /\ pc = "square" /\ archives[<<MapIndex, call.id>>] = "loaded"
  /\ UNCHANGED <<published, provider>>
  /\ \/ Raises(g) /\ Fails("DECODE")
     \/ /\ Obtains(g)
        /\ IF Seen(g, FileOf(t, id))' = "bad" THEN Fails("DECODE")
           ELSE GoesOn(call, "square")

SquareDone ==
  /\ pc = "square" /\ Replies(call, {call.id})
  /\ UNCHANGED <<cache, published, provider>>
-----------------------------------------------------------------------------
(* getDbRowJson and dumping dbrows: the row provider is made and loaded    *)
(* first, unless the handle has one.                                       *)
BeginRows(what) ==
  /\ Starts
  /\ pc' = IF provider.made THEN "rows" ELSE "load"
  /\ call' = what /\ result' = "none"
  /\ UNCHANGED <<cache, out, todo, provider, buffers>>

(* DbRowProvider::load, of an object the handle already holds: an exception *)
(* leaves the rows in front of the one that could not be decoded.          *)
LoadRows ==
  /\ pc = "load"
  /\ UNCHANGED published
  /\ \/ /\ Raises(RowGroup)
        /\ provider' = [made |-> TRUE, rows |-> {}, incomplete |-> TRUE]
        /\ Fails("DECODE")
     \/ /\ Obtains(RowGroup)
        /\ provider' = [made |-> TRUE,
             rows |-> {f \in Good(RowGroup)' : \A h \in Bad(RowGroup)' : f < h},
             incomplete |-> Bad(RowGroup)' # {} \/ archives'[RowGroup] # "loaded"]
        /\ IF Bad(RowGroup)' # {} THEN Fails("DECODE") ELSE GoesOn(call, "rows")

GetRow ==
  /\ pc = "rows" /\ call.op = "row"
  /\ UNCHANGED <<cache, published, provider>>
  /\ IF call.id \in provider.rows THEN Replies(call, {call.id}) ELSE Fails("NOT_FOUND")

(* An entry is still wanted when n precede it. *)
Wanted(n) == call.limit < 0 \/ n < call.limit

(* The members of S that are reached before the limit, in ascending order. *)
Reached(S, f) == Wanted(Cardinality(out) + Cardinality({h \in S : h < f}))
UpToLimit(S) == {f \in S : Reached(S, f)}

DumpRows ==
  /\ pc = "rows" /\ call.op = "dump"
  /\ UNCHANGED <<published, provider>>
  /\ \/ Raises(RowGroup) /\ Fails("DECODE")
     \/ /\ Obtains(RowGroup)
        /\ Replies(call, UpToLimit(provider.rows \cap FileIdsOf(RowGroup)'))
-----------------------------------------------------------------------------
(* dumpAll: every archive of a sharded type, or the one archive.  The two   *)
(* types with an archive-keyed or a preloaded source have a branch of their *)
(* own (interfaces are swept as any type; dbrows are BeginRows), gamevals   *)
(* none (DumpNull).                                                         *)
BeginDump(t, limit) ==
  LET i == Mapping[t].index IN
  /\ t \notin {"dbrow", "gameval"}
  /\ Starts
  /\ UNCHANGED <<provider, buffers>>
  /\ \/ /\ IsSharded(t) /\ OpenThrows(i) /\ UNCHANGED cache /\ Fails("DECODE")
     \/ /\ IF IsSharded(t) THEN ~OpenThrows(i) /\ Lists(i) ELSE UNCHANGED cache
        /\ pc' = "sweep" /\ call' = Sweep("dump", t, limit)
        /\ todo' = IF IsSharded(t) THEN Listed(i)' ELSE {Mapping[t].archive}
        /\ result' = "none" /\ UNCHANGED out

(* nxt_dump_all_json of "gameval": a type that is known, and that none of   *)
(* the branches is for.  Nothing is read, and the document is "null".       *)
DumpNull(limit) ==
  /\ Starts
  /\ Replies(Sweep("null", "gameval", limit), {})
  /\ UNCHANGED <<cache, provider>>

(* nxt_dump_gamevals_json: a fixed list of groups. *)
BeginGameVals ==
  /\ Starts
  /\ pc' = "sweep" /\ call' = Sweep("dump", "gameval", -1) /\ todo' = GameVals
  /\ result' = "none" /\ UNCHANGED <<cache, out, provider, buffers>>

(* The next archive of a sweep, which ends where the limit is reached; the *)
(* archive of a type that has only one is read first.                      *)
Full == IsSharded(Type) /\ ~Wanted(Cardinality(out))

Sweeping(g) ==
  /\ pc = "sweep" /\ ~Full /\ g[1] = Mapping[Type].index
  /\ g[2] \in todo /\ \A b \in todo : g[2] <= b
  /\ UNCHANGED <<published, provider>>

(* Mutant: the limit is looked at between archives only.                   *)
SweepWholeArchives(g) ==
  /\ Type \notin Whole /\ Sweeping(g)
  /\ \/ Raises(g) /\ Fails("DECODE")
     \/ /\ Obtains(g)
        /\ IF Bad(g)' # {} THEN Fails("DECODE")
           ELSE /\ out' = out \cup {IdOf(Type, g, f) : f \in Good(g)'}
                /\ todo' = todo \ {g[2]}
                /\ UNCHANGED <<pc, call, buffers, result>>

SweepFiles(g) ==
  /\ Type \notin Whole /\ Sweeping(g)
  /\ \/ Raises(g) /\ Fails("DECODE")
     \/ /\ Obtains(g)
        /\ IF \E f \in Bad(g)' : Reached(Good(g)', f) THEN Fails("DECODE")
           ELSE /\ out' = out \cup {IdOf(Type, g, f) : f \in UpToLimit(Good(g)')}
                /\ todo' = todo \ {g[2]}
                /\ UNCHANGED <<pc, call, buffers, result>>

(* Interfaces and gamevals: an entry per archive. *)
SweepArchive(g) ==
  /\ Type \in Whole /\ Sweeping(g)
  /\ \/ Raises(g) /\ Fails("DECODE")
     \/ /\ Obtains(g)
        /\ IF Bad(g)' \cap Parts(Type) # {} THEN Fails("DECODE")
           ELSE /\ out' = out \cup IF Good(g)' \cap Parts(Type) # {} THEN {g[2]} ELSE {}
                /\ todo' = todo \ {g[2]}
                /\ UNCHANGED <<pc, call, buffers, result>>

SweepDone ==
  /\ pc = "sweep" /\ (todo = {} \/ Full)
  /\ Replies(call, out)
  /\ UNCHANGED <<cache, published, provider>>
-----------------------------------------------------------------------------
(* The buffers of a call that succeeds: none where there is nothing to     *)
(* hand over (no crossings, no colours, or numbers only), two for a map    *)
(* square's clip and crossings.                                            *)
Hands(n) ==
  /\ pc' = "idle" /\ call' = NoCall /\ out' = {}
  /\ result' = "OK" /\ published' = n

Reply ==
  /\ pc = "reply"
  /\ UNCHANGED <<cache, todo, provider>>
  /\ \/ call.op \in {"get", "map"} /\ Hands(0) /\ UNCHANGED buffers
     \/ Hands(1) /\ UNCHANGED buffers
     \/ /\ call.op = "map"
        /\ pc' = "second" /\ buffers' = buffers + 1
        /\ UNCHANGED <<call, out, result, published>>

Second ==
  /\ pc = "second"
  /\ Hands(2) /\ buffers' = buffers - 1
  /\ UNCHANGED <<cache, todo, provider>>

(* malloc fails. *)
ReplyFails ==
  /\ pc = "reply" /\ Fails("INTERNAL")
  /\ UNCHANGED <<cache, published, provider>>

(* Mutant: the first buffer is forgotten. *)
SecondFailsLeaking ==
  /\ pc = "second" /\ Fails("INTERNAL")
  /\ UNCHANGED <<cache, published, provider>>

SecondFails ==
  /\ pc = "second"
  /\ pc' = "idle" /\ result' = "INTERNAL"
  /\ call' = NoCall /\ out' = {} /\ buffers' = buffers - 1
  /\ UNCHANGED <<cache, todo, published, provider>>
-----------------------------------------------------------------------------
CallInit ==
  /\ Init
  /\ pc = "idle"
  /\ call = NoCall
  /\ todo = {} /\ out = {}
  /\ provider = [made |-> FALSE, rows |-> {}, incomplete |-> FALSE]
  /\ buffers = 0 /\ published = 0 /\ result = "none"

(* nxt_cache_enable_live_fallback: succeeds, has succeeded, or fails.      *)
Enable ==
  /\ Starts
  /\ \/ EnableLiveFallback /\ result' = "OK"
     \/ fallbackEnabled /\ UNCHANGED cache /\ result' = "OK"
     \/ ~fallbackEnabled /\ UNCHANGED cache /\ result' = "IO"
  /\ UNCHANGED <<pc, call, out, todo, buffers, provider>>

(* nxt_cache_close, and nxt_cache_open_local again. *)
Reopen ==
  /\ pc = "idle"
  /\ NewCache(FALSE)
  /\ provider' = [made |-> FALSE, rows |-> {}, incomplete |-> FALSE]
  /\ published' = 0 /\ result' = "none"
  /\ UNCHANGED <<pc, call, out, todo, buffers>>

Environment ==
  /\ \/ LinkChanges
     \/ \E g \in Group : RowStored(g)
     \/ \E i \in IndexIds : RefStored(i)
  /\ UNCHANGED handle

Entries(t) == {id \in Ids : GroupOf(t, id) \in Group}

CallNext ==
  \/ \E t \in Types \ (Whole \cup {"dbrow"}) : \E id \in Entries(t) :
       Get(t, id) \/ ReadRaw(t, id) \/ Invalid(t, id)
  \/ \E id \in Entries("sprite") : GetNoFrame(id)
  \/ \E id \in Entries("item") : Icon(id) \/ IconModel(id)
  \/ \E a \in ArchiveIds : GetSquare(a) \/ \E t \in Whole : GetWhole(t, a)
  \/ \E t \in {"loc", "overlay"} : \E id \in Entries(t) : ReadPlaced(t, id)
  \/ SquareDone
  \/ \E t \in Types : ListIds(t)
  \/ \E i \in IndexIds : ListArchives(i)
  \/ \E id \in Ids : BeginRows(Asks("row", id))
  \/ \E n \in Limits : BeginRows(Sweep("dump", "dbrow", n))
  \/ LoadRows \/ GetRow \/ DumpRows
  \/ \E t \in Types, n \in Limits : BeginDump(t, n)
  \/ \E n \in Limits : DumpNull(n)
  \/ BeginGameVals
  \/ \E g \in Group : SweepFiles(g) \/ SweepArchive(g)
  \/ SweepDone
  \/ Reply \/ Second \/ ReplyFails \/ SecondFails
  \/ Enable \/ Reopen \/ Environment

CallSpec == CallInit /\ [][CallNext]_<<cache, handle>>
-----------------------------------------------------------------------------
(* A handle forgets nothing: an entry it holds stays what it is, and every *)
(* later getter finds it, whatever else is read, listed, dumped or enabled *)
(* meanwhile; only closing the handle ends that.                           *)
HandleKeepsEntries ==
  [][Reopen \/ \A g \in Group, f \in FileIds :
       Seen(g, f) # "empty" => Seen(g, f)' = Seen(g, f)]_<<cache, handle>>

(* A dump is what the getters find: of all entries that can be read, those *)
(* that come first, as many as the limit allows ("a JSON array of all      *)
(* decoded entries", nxtcache_c.h:352-353).  There are two exceptions.     *)
(* Rows are complete only if the provider could be loaded.  And the        *)
(* document of nxt_dump_all_json("gameval") is no array but "null",        *)
(* whatever groups can be read (nxtcache_c.cpp:1372-1431); no other        *)
(* type's, and not that of nxt_dump_gamevals_json.                         *)
Holding(t) ==
  {g \in Group : /\ g[1] = Mapping[t].index
                 /\ IsSharded(t) \/ g[2] = Mapping[t].archive
                 /\ t = "gameval" => g[2] \in GameVals}

Available(t) ==
  IF t \in Whole
  THEN {g[2] : g \in {h \in Holding(t) : Good(h) \cap Parts(t) # {}}}
  ELSE UNION {{IdOf(t, g, f) : f \in Good(g)} : g \in Holding(t)}

DumpIsComplete ==
  pc = "reply" /\ call.op \in {"dump", "null"} /\ (Type = "dbrow" => ~provider.incomplete)
  => \/ call.op = "null" /\ Type = "gameval" /\ out = {}
     \/ /\ call.op = "dump" /\ out \subseteq Available(Type)
        /\ call.limit >= 0 => Cardinality(out) <= call.limit
        /\ \A id \in Available(Type) \ out :
             /\ call.limit >= 0 /\ Cardinality(out) = call.limit
             /\ \A e \in out : e < id

(* Every id a listing hands out leads back to the one file of the table it *)
(* stands for, and there are as many as files ("strictly ascending",       *)
(* test_c_api.c:137-138).                                                  *)
ListedIdsResolve ==
  pc = "reply" /\ call.op = "ids" /\ Type # "if" =>
    LET i == Mapping[Type].index
        own == IF IsSharded(Type) THEN {<<i, a>> : a \in ArchiveIds}
                                  ELSE {GroupOf(Type, 0)}
    IN  /\ \A id \in out :
             /\ GroupOf(Type, id) \in own
             /\ FileOf(Type, id) \in DeclaredFiles(table[i], GroupOf(Type, id))
        /\ Cardinality(out) =
             Cardinality({e \in own \X FileIds : e[2] \in DeclaredFiles(table[i], e[1])})
-----------------------------------------------------------------------------
(* nxtcache_c.h:211, "Returns NXT_ERR_NOT_FOUND if the id doesn't resolve". *)
(* Refuted: a provider whose load threw is kept, and answers for the rows  *)
(* behind the damaged one.                                                 *)
NotFoundIsUnresolved ==
  [][GetRow /\ pc' = "idle" => Seen(RowGroup, call.id) # "good"]_<<cache, handle>>
=============================================================================

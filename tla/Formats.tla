------------------------------ MODULE Formats -------------------------------
(***************************************************************************)
(* What the decoders of config_types/Types.cpp read, as tables: for every   *)
(* type and every opcode its if-chain knows, the operands and what becomes   *)
(* of them.                                                                  *)
(*                                                                           *)
(* An operand is a *shape*: a leaf is read by one reader of RSBuffer, every   *)
(* other shape reads one number and is then replaced by the shapes that the    *)
(* number calls for (Definitions says how).  What is not told apart: names of  *)
(* fields that only hold the number read, bits picked out of a flag byte, and   *)
(* how two halves of a number are put together.                                *)
(***************************************************************************)
EXTENDS Integers, Sequences, TLC

(* Shapes. *)

Leaf(kind) ==
  [kind |-> kind, n |-> 0, need |-> 0, count |-> "", body |-> <<>>, mid |-> <<>>, extra |-> <<>>]

U1 == Leaf("u1")                        \* readUnsignedByte
I1 == [Leaf("i1") EXCEPT !.n = 1]       \* readByte, times n
U2 == Leaf("u2")                        \* readUnsignedShort
Id == Leaf("u2id")                      \* the same, 65535 for "none"
I2 == Leaf("i2")                        \* the same, as a signed number
U3 == Leaf("u3")                        \* readMediumInt
I4 == Leaf("i4")                        \* readInt
I8 == Leaf("i8")                        \* readLong
Smart == Leaf("smart")                  \* readSmart
SmartInt == Leaf("smartInt")            \* readSmartInt
SmartId == Leaf("smartId")              \* the same, 65535 for "none"
BigSmart == Leaf("bigSmart")            \* readBigSmart
VarInt == Leaf("varInt")                \* readVarInt
String == Leaf("string")                \* readString
CharType == Leaf("char")                \* cp1252ToUnicode(readByte())
Skip(n) == [Leaf("skip") EXCEPT !.n = n]

\* A vector: a count, that many times the body, then the middle, then that many
\* times the extra.  VectorPlus has n elements more than its count.
Vector(count, body) == [Leaf("vector") EXCEPT !.count = count, !.body = body]
VectorPlus(count, n, body) == [Vector(count, body) EXCEPT !.n = n]
VectorThen(count, body, mid, extra) ==
  [Vector(count, body) EXCEPT !.mid = mid, !.extra = extra]

\* A parameter: whether it is a string, its key, its value.
Param == Leaf("param")

(* What becomes of the operands of an opcode.                                *)
Entry(mode, field, slot, reads) ==
  [mode |-> mode, field |-> field, slot |-> slot, reads |-> reads, fields |-> <<>>]
SetsEach(fields, reads) == [Entry("each", "", 0, reads) EXCEPT !.fields = fields]

Sets(field, reads) == Entry("set", field, 0, reads)
SetsSlot(field, slot, reads) == Entry("set", field, slot, reads)
Replaces(field, reads) == Entry("replace", field, 0, reads)
Appends(field, reads) == Entry("append", field, 0, reads)
Merges(field, reads) == Entry("merge", field, 0, reads)
Becomes(field, value) == Entry("becomes", field, value, <<>>)
Drops(reads) == Entry("drop", "", 0, reads)
Params == Merges("params", <<Vector("u1", <<Param>>)>>)

\* All of some opcodes drop the same operands, or store one in the slot that
\* the opcode's distance from the first one names.
All(opcodes, reads) == [o \in opcodes |-> Drops(reads)]
Slots(first, last, field, reads) ==
  [o \in first .. last |-> SetsSlot(field, o - first, reads)]

-----------------------------------------------------------------------------
(* The small types.                                                          *)

VarbitFormat == 1 :> Sets("domain", <<U1, U2>>) @@ 2 :> Sets("bits", <<U1, U1>>)

ParamFormat ==
  1 :> Sets("type", <<CharType>>) @@ 2 :> Sets("defaultInt", <<I4>>)
  @@ 4 :> Becomes("autoDisable", 0) @@ 5 :> Sets("defaultString", <<String>>)
  @@ 101 :> Sets("type", <<Smart>>)

InventoryFormat ==
  2 :> Sets("capacity", <<U2>>) @@ 4 :> Sets("stock", <<Vector("u1", <<U2, U2>>)>>)
  @@ 21 :> Sets("stock", <<Vector("u1", <<U3, U2>>)>>)

EnumFormat ==
  1 :> Sets("inputTypeId", <<CharType>>) @@ 2 :> Sets("outputTypeId", <<CharType>>)
  @@ 3 :> Sets("stringDefault", <<String>>) @@ 4 :> Sets("intDefault", <<I4>>)
  @@ 5 :> Merges("entries", <<Vector("u2", <<I4, String>>)>>)
  @@ 6 :> Merges("entries", <<Vector("u2", <<I4, I4>>)>>)
  @@ 7 :> Merges("entries", <<Skip(2), Vector("u2", <<U2, String>>)>>)
  @@ 8 :> Merges("entries", <<Skip(2), Vector("u2", <<U2, I4>>)>>)
  @@ 101 :> Sets("inputTypeId", <<Smart>>) @@ 102 :> Sets("outputTypeId", <<Smart>>)

StructFormat == 249 :> Params

SequenceFormat ==
  1 :> Sets("frames", <<VectorThen("u2", <<U2>>, <<>>, <<U2, U2>>)>>)
  @@ 2 :> Sets("loopOffset", <<U2>>) @@ 5 :> Sets("priority", <<I1>>)
  @@ 6 :> Sets("offHand", <<U2>>) @@ 7 :> Sets("mainHand", <<U2>>)
  @@ 8 :> Sets("maxLoops", <<U1>>) @@ 9 :> Sets("animatingPrecedence", <<U1>>)
  @@ 10 :> Sets("walkingPrecedence", <<U1>>) @@ 11 :> Sets("replayMode", <<U1>>)
  @@ 12 :> Sets("secondaryFrames", <<VectorThen("u1", <<U2>>, <<>>, <<U2>>)>>)
  @@ 112 :> Sets("secondaryFrames", <<VectorThen("u2", <<U2>>, <<>>, <<U2>>)>>)
  @@ 13 :> Drops(<<Vector("u2", <<Leaf("sounds")>>)>>)
  @@ 15 :> Becomes("tweened", 1) @@ All({14, 16, 18}, <<>>)
  @@ 19 :> Drops(<<U1, Skip(1)>>) @@ 119 :> Drops(<<U2, Skip(1)>>)
  @@ 20 :> Drops(<<U1, Skip(4)>>) @@ 120 :> Drops(<<U2, Skip(4)>>)
  @@ 22 :> Drops(<<Skip(1)>>) @@ All({23, 24}, <<Skip(2)>>)
  @@ 25 :> Sets("newFramesId", <<U2>>) @@ 26 :> Drops(<<Skip(4)>>) @@ 249 :> Params

QuestFormat ==
  1 :> Sets("name", <<Skip(1), String>>) @@ 2 :> Sets("listName", <<Skip(1), String>>)
  @@ 3 :> Sets("progressVarps", <<Vector("u1", <<U2, I4, I4>>)>>)
  @@ 4 :> Sets("progressVarbits", <<Vector("u1", <<U2, I4, I4>>)>>)
  @@ 5 :> Sets("parentQuestId", <<U2>>) @@ 6 :> Sets("category", <<U1>>)
  @@ 7 :> Sets("difficulty", <<U1>>) @@ 8 :> Becomes("membersOnly", 1)
  @@ 9 :> Sets("questPoints", <<U1>>)
  @@ 10 :> Sets("startLocations", <<Vector("u1", <<I4>>)>>)
  @@ 12 :> Sets("alternateStartLocation", <<I4>>)
  @@ 13 :> Sets("dependentQuestIds", <<Vector("u1", <<U2>>)>>)
  @@ 14 :> Sets("skillRequirements", <<Vector("u1", <<U1, U1>>)>>)
  @@ 15 :> Sets("questPointReq", <<U2>>) @@ 17 :> Sets("questItemSprite", <<SmartInt>>)
  @@ All({18, 19}, <<Vector("u1", <<Skip(12), String>>)>>) @@ 249 :> Params

UnderlayFormat ==
  1 :> Sets("color", <<U3>>) @@ 2 :> Sets("texture", <<Id>>)
  @@ 3 :> Drops(<<Skip(2)>>) @@ All({4, 5}, <<>>)

OverlayFormat ==
  1 :> Sets("color", <<U3>>) @@ All({2, 11, 14, 16, 21}, <<Skip(1)>>)
  @@ All({3, 20, 22}, <<Skip(2)>>) @@ 5 :> Becomes("visible", 0)
  @@ 7 :> Sets("secondaryColor", <<U3>>) @@ All({8, 10}, <<>>)
  @@ 9 :> Sets("texture", <<Id>>) @@ 12 :> Becomes("isWater", 1) @@ 13 :> Drops(<<Skip(3)>>)

WorldMapElementFormat ==
  1 :> Sets("spriteId", <<SmartInt>>) @@ 2 :> Sets("spriteId2", <<SmartInt>>)
  @@ 3 :> Sets("name", <<String>>) @@ 4 :> Drops(<<U3>>) @@ 5 :> Sets("configRef", <<U3>>)
  @@ 6 :> Sets("category", <<Smart>>) @@ All({7, 8, 28, 29, 30}, <<U1>>)
  @@ 9 :> SetsEach(<<"varbitId", "varpId", "conditionMin", "conditionMax">>, <<Id, Id, I4, I4>>)
  @@ Slots(10, 14, "options", <<String>>)
  @@ 15 :> Sets("area", <<VectorThen("u1", <<I2, I2>>, <<I4, Vector("u1", <<I4>>)>>, <<Skip(1)>>)>>)
  @@ 16 :> Drops(<<>>) @@ 17 :> Sets("tooltip", <<String>>)
  @@ All({18, 25}, <<SmartInt>>) @@ 19 :> Sets("elementId", <<U2>>)
  @@ 20 :> Drops(<<U2, U2, I4, I4>>) @@ 21 :> Sets("coord1", <<I4>>)
  @@ 22 :> Sets("coord2", <<I4>>) @@ 23 :> Drops(<<U1, U1, U1>>) @@ 24 :> Drops(<<U2, U2>>)
  @@ 26 :> SetsEach(<<"varbitId", "varpId">>, <<Id, Id, VectorPlus("u1", 1, <<Id>>)>>)
  @@ 27 :> SetsEach(<<"varbitId", "varpId">>, <<Id, Id, Id, VectorPlus("u1", 1, <<Id>>)>>)
  @@ 249 :> Params

\* A table row: opcode 3 holds rows until 255, each with its columns' types.
DbRowFormat == 3 :> Drops(<<U1, Leaf("rows")>>) @@ 4 :> Sets("tableId", <<VarInt>>)

-----------------------------------------------------------------------------
(* Npcs, locations and items, each in two parts: the opcodes up to the        *)
(* transforms (or the model slots), and those after.                           *)

NpcAppearance ==
  1 :> Drops(<<Vector("u1", <<SmartInt>>)>>) @@ 2 :> Sets("name", <<String>>)
  @@ All({3, 12, 100, 101}, <<Skip(1)>>) @@ Slots(30, 34, "options", <<String>>)
  @@ All({40, 41}, <<Vector("u1", <<Skip(4)>>)>>) @@ 42 :> Drops(<<Vector("u1", <<Skip(1)>>)>>)
  @@ All({44, 45, 252, 97, 98}, <<Skip(2)>>) @@ 60 :> Drops(<<Vector("u1", <<SmartInt>>)>>)
  @@ 93 :> Becomes("drawMapDot", 0) @@ 95 :> Sets("combatLevel", <<U2>>)
  @@ 99 :> Drops(<<>>) @@ 102 :> Drops(<<Leaf("icons")>>)
  @@ 103 :> Sets("rotation", <<U2>>)
  @@ 106 :> Sets("transforms", <<Id, Id, VectorPlus("smart", 1, <<Id>>)>>)
  @@ 118 :> Sets("transforms", <<Id, Id, U2, VectorPlus("smart", 1, <<Id>>)>>)

NpcBehaviour ==
  107 :> Becomes("isVisible", 0) @@ 109 :> Becomes("isClickable", 0)
  @@ 111 :> Becomes("animateIdle", 0) @@ All({113, 155, 164}, <<Skip(4)>>)
  @@ All({114, 127, 137, 142} \cup 170 .. 175, <<Skip(2)>>)
  @@ All({119, 125, 128, 140, 163, 165, 168, 180, 183, 184, 253}, <<Skip(1)>>)
  @@ 121 :> Drops(<<Vector("u1", <<Skip(4)>>)>>)
  @@ 134 :> Sets("walkAnimations", <<U2, U2, U2, U2, Skip(1)>>)
  @@ All({135, 136, 181}, <<Skip(3)>>) @@ 138 :> Drops(<<SmartInt>>)
  @@ All({141, 143, 158, 159, 162, 169, 178, 182, 185}, <<>>)
  @@ Slots(150, 154, "options", <<String>>)
  @@ 160 :> Sets("quests", <<Vector("u1", <<U2>>)>>)
  @@ 179 :> Drops(<<Smart, Smart, Smart, Smart, Smart, Smart>>) @@ 249 :> Params

NpcFormat == NpcAppearance @@ NpcBehaviour

LocationAppearance ==
  1 :> Drops(<<Vector("u1", <<Skip(1), Vector("u1", <<SmartInt>>)>>)>>)
  @@ 2 :> Sets("name", <<String>>) @@ 14 :> Sets("sizeX", <<U1>>) @@ 15 :> Sets("sizeY", <<U1>>)
  @@ 17 :> Becomes("solidType", 0) @@ 27 :> Becomes("solidType", 1)
  @@ All({18, 21, 22, 23, 62, 64, 73, 74}, <<>>) @@ 19 :> Sets("interactType", <<U1>>)
  @@ 24 :> Appends("animations", <<SmartInt>>) @@ All({28, 29, 39, 69, 75}, <<Skip(1)>>)
  @@ Slots(30, 34, "options", <<String>>) @@ All({40, 41}, <<Vector("u1", <<Skip(4)>>)>>)
  @@ 42 :> Drops(<<Vector("u1", <<Skip(1)>>)>>) @@ All({44, 45, 70, 71, 72}, <<Skip(2)>>)
  @@ 65 :> Sets("scaleX", <<U2>>) @@ 66 :> Sets("scaleY", <<U2>>) @@ 67 :> Sets("scaleZ", <<U2>>)

LocationBehaviour ==
  77 :> Sets("transforms", <<Id, Id, VectorPlus("smart", 1, <<SmartId>>)>>)
  @@ 92 :> Sets("transforms", <<Id, Id, SmartInt, VectorPlus("smart", 1, <<SmartId>>)>>)
  @@ All({78, 99, 100}, <<Skip(3)>>) @@ 79 :> Drops(<<Skip(5), Vector("u1", <<Skip(2)>>)>>)
  @@ All({81, 101, 104, 178, 186, 196, 197}, <<Skip(1)>>)
  @@ All({82, 88, 89, 94, 97, 98, 103, 105, 168, 169, 177, 188, 189, 198, 199, 202}, <<>>)
  @@ 91 :> Becomes("isMembers", 1) @@ All({93, 95} \cup 164 .. 167, <<Skip(2)>>)
  @@ 102 :> Sets("mapSpriteId", <<U2>>)
  @@ 106 :> Appends("animations", <<Vector("u1", <<SmartInt, Skip(1)>>)>>)
  @@ 107 :> Sets("mapAreaId", <<U2>>) @@ Slots(150, 154, "options", <<String>>)
  @@ 160 :> Drops(<<Vector("u1", <<Skip(2)>>)>>) @@ All({162, 163, 173}, <<Skip(4)>>)
  @@ All({170, 171}, <<Smart>>) @@ Slots(190, 195, "cursors", <<U2>>)
  @@ 201 :> Drops(<<Smart, Smart, Smart, Smart, Smart, Smart>>) @@ 249 :> Params

LocationFormat == LocationAppearance @@ LocationBehaviour

\* Opcode 9 gives the whole list of models, 46 to 56 one slot of it each.
ItemAppearance ==
  1 :> Sets("modelID", <<SmartInt>>) @@ 2 :> Sets("name", <<String>>)
  @@ 3 :> Sets("effect", <<String>>) @@ 4 :> Sets("modelZoom", <<U2>>)
  @@ 5 :> Sets("modelRotationX", <<U2>>) @@ 6 :> Sets("modelRotationY", <<U2>>)
  @@ 7 :> Sets("modelOffsetX", <<I2>>) @@ 8 :> Sets("modelOffsetY", <<I2>>)
  @@ 9 :> Replaces("modelIds", <<Vector("u1", <<BigSmart>>)>>)
  @@ 11 :> Becomes("isStackable", 1) @@ 12 :> Sets("shopPrice", <<I4>>)
  @@ 13 :> Sets("wearpos", <<I1>>) @@ 14 :> Sets("wearpos2", <<I1>>)
  @@ 15 :> Becomes("op15Bool", 1) @@ 16 :> Becomes("isMembers", 1)
  @@ 18 :> Sets("multistackSize", <<U2>>) @@ 23 :> Sets("maleModel1", <<SmartInt>>)
  @@ 24 :> Sets("maleModel2", <<SmartInt>>) @@ 25 :> Sets("femaleModel1", <<SmartInt>>)
  @@ 26 :> Sets("femaleModel2", <<SmartInt>>) @@ 27 :> Sets("wearpos3", <<I1>>)
  @@ Slots(30, 34, "groundOptions", <<String>>) @@ Slots(35, 39, "componentOptions", <<String>>)
  @@ 40 :> Sets("colors", <<Vector("smart", <<U2, U2>>)>>)
  @@ 41 :> Sets("textures", <<Vector("smart", <<U2, U2>>)>>)
  @@ 42 :> Sets("recolorPalette", <<Vector("smart", <<I1>>)>>)
  @@ 43 :> Drops(<<Skip(4)>>) @@ All({44, 45}, <<Skip(2)>>)
  @@ [o \in 46 .. 56 |-> SetsSlot("modelIds", o - 45, <<BigSmart>>)]

\* readByte() << 2, and readByte() * 5.
I1x4 == [I1 EXCEPT !.n = 4]
I1x5 == [I1 EXCEPT !.n = 5]

ItemModels ==
  65 :> Becomes("isAllowedOnGE", 1) @@ 69 :> Sets("geBuyLimit", <<I4>>)
  @@ 78 :> Sets("maleModel3", <<SmartInt>>) @@ 79 :> Sets("femaleModel3", <<SmartInt>>)
  @@ 90 :> Sets("maleHeadModel1", <<SmartInt>>) @@ 91 :> Sets("femaleHeadModel1", <<SmartInt>>)
  @@ 92 :> Sets("maleHeadModel2", <<SmartInt>>) @@ 93 :> Sets("femaleHeadModel2", <<SmartInt>>)
  @@ 94 :> Sets("category", <<U2>>) @@ 95 :> Sets("modelAngleZ", <<U2>>)
  @@ 96 :> Sets("searchable", <<U1>>) @@ 97 :> Sets("notedID", <<U2>>)
  @@ 98 :> Sets("templateID", <<U2>>) @@ Slots(100, 109, "stackIDs", <<U2, U2>>)
  @@ 110 :> Sets("resizeX", <<U2>>) @@ 111 :> Sets("resizeY", <<U2>>)
  @@ 112 :> Sets("resizeZ", <<U2>>) @@ 113 :> Sets("ambient", <<I1>>)
  @@ 114 :> Sets("contrast", <<I1x5>>) @@ 115 :> Sets("teamId", <<Leaf("smartByte")>>)
  @@ 121 :> Sets("lentItemId", <<U2>>) @@ 122 :> Sets("lendTemplate", <<U2>>)
  @@ 125 :> Sets("maleModelOffset", <<I1x4, I1x4, I1x4>>)
  @@ 126 :> Sets("femaleModelOffset", <<I1x4, I1x4, I1x4>>)

\* 190 to 208 are the forms of earlier opcodes for ids above 65535.
ItemVariants ==
  All(127 .. 130, <<Skip(3)>>) @@ 131 :> Drops(<<String>>)
  @@ 132 :> Sets("quests", <<Vector("smart", <<U2>>)>>) @@ 134 :> Sets("pickSizeShift", <<Smart>>)
  @@ 139 :> Sets("bindId", <<U2>>) @@ 140 :> Sets("boundTemplate", <<U2>>)
  @@ Slots(142, 146, "groundCursors", <<U2>>) @@ 147 :> Drops(<<Skip(2)>>)
  @@ Slots(150, 154, "inventoryCursors", <<U2>>) @@ All({156, 167, 168, 178}, <<>>)
  @@ 157 :> Becomes("randomizeGroundPos", 1) @@ 161 :> Sets("shardItemId", <<U2>>)
  @@ 162 :> Sets("shardTemplateId", <<U2>>) @@ 163 :> Sets("shardCombineAmount", <<U2>>)
  @@ 164 :> Sets("shardName", <<String>>) @@ 165 :> Becomes("neverStackable", 1)
  @@ 181 :> Sets("shopPrice", <<I8>>) @@ 182 :> Sets("op182Value", <<U3>>)
  @@ Slots(190, 199, "stackIDs", <<U3, U2>>) @@ 201 :> Sets("notedID", <<U3>>)
  @@ 202 :> Sets("templateID", <<U3>>) @@ 203 :> Sets("lentItemId", <<U3>>)
  @@ 204 :> Sets("lendTemplate", <<U3>>) @@ 205 :> Sets("bindId", <<U3>>)
  @@ 206 :> Sets("boundTemplate", <<U3>>) @@ 207 :> Sets("shardItemId", <<U3>>)
  @@ 208 :> Sets("shardTemplateId", <<U3>>) @@ 242 :> Drops(<<SmartInt, SmartInt>>)
  @@ All(243 .. 248, <<SmartInt>>) @@ 249 :> Params

ItemFormat == ItemAppearance @@ ItemModels @@ ItemVariants

-----------------------------------------------------------------------------
Format ==
  "Varbit" :> VarbitFormat @@ "Npc" :> NpcFormat @@ "Location" :> LocationFormat
  @@ "Item" :> ItemFormat @@ "Param" :> ParamFormat @@ "Inventory" :> InventoryFormat
  @@ "Enum" :> EnumFormat @@ "Struct" :> StructFormat @@ "Sequence" :> SequenceFormat
  @@ "Quest" :> QuestFormat @@ "Underlay" :> UnderlayFormat @@ "Overlay" :> OverlayFormat
  @@ "WorldMapElement" :> WorldMapElementFormat @@ "DbRow" :> DbRowFormat

=============================================================================

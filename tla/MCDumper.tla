------------------------------ MODULE MCDumper -------------------------------
(***************************************************************************)
(* An instance of Dumper for TLC.  Index 2 has interfaces and sprites, and   *)
(* the archives of the rows and of a type with one archive; the second file  *)
(* of its second archive does not decode.  Index 3 has everything else; the   *)
(* first file of its second archive is empty.  At most one of two reference    *)
(* tables and three groups is not readable at first, or else the first group    *)
(* of index 3 is an old one, packed for one file.                              *)
(***************************************************************************)
EXTENDS Dumper

CONSTANTS new, old

Indices == {2, 3}
TwoArchives == {0, 1}
TwoFiles == {0, 1}
TwoBuilds == {new, old}

MapTo(index, archive, shift) == [index |-> index, archive |-> archive, shift |-> shift]

TypeDefaults ==
  [t \in {"npc", "item", "model", "gameval", "if", "sprite", "dbrow", "overlay"} |->
    CASE t = "dbrow" -> MapTo(2, 0, 0)
      [] t = "overlay" -> MapTo(2, 1, 0)
      [] t \in {"if", "sprite"} -> MapTo(2, Sharded, 1)
      [] OTHER -> MapTo(3, Sharded, 1)]

BuildTables ==
  [b \in TwoBuilds |-> [g \in Indices \X TwoArchives |->
     IF b = old /\ g = <<3, 0>> THEN {0} ELSE TwoFiles]]

FileContents ==
  [c \in Content |-> [g \in Group |-> [f \in TwoFiles |->
     CASE g = <<2, 1>> /\ f = 1 -> "bad"
       [] g = <<3, 1>> /\ f = 0 -> "empty"
       [] OTHER -> "good"]]]

\* Item 0 has a model, item 1 none.
ItemModel == [id \in 0 .. 1 |-> IF id = 0 THEN 3 ELSE 0]

Job(type, id, limit, targets) ==
  [type |-> type, id |-> id, limit |-> limit, out |-> "out" \in targets,
   dir |-> "dir" \in targets, fallback |-> "fallback" \in targets]

CommandLines ==
  {Job("npc", None, None, {"out"}), Job("npc", 3, None, {}), Job("npc", None, 1, {}),
   Job("npc", None, 3, {"fallback"}),
   Job("overlay", None, 1, {}), Job("dbrow", None, 1, {"out"}), Job("dbrow", 1, None, {}),
   Job("sprite", None, 3, {"out"}), Job("sprite", 3, None, {"out"}),
   Job("model", None, None, {"out", "fallback"}),
   Job("if", None, 1, {"out"}), Job("if", 0, None, {}), Job("if", 0, None, {"dir"}),
   Job("if", None, None, {"dir", "fallback"}),
   Job("gameval", None, None, {"dir"}), Job("gameval", None, None, {"out"}), Job("gameval", 1, 0, {}),
   Job("locspawn", 5, None, {"out", "fallback"}), Job("locspawn", None, None, {}),
   Job("wmespawn", None, None, {}),
   Job("itemicon", 0, None, {"out"}), Job("itemicon", 1, None, {})}

\* What may be wrong with a row: of each group there is one way at least that
\* ends a sweep, or one that it goes on after.
Damage == [g \in {<<2, 0>>, <<2, 1>>, <<3, 0>>} |->
             CASE g = <<2, 0>> -> {"absent", "throws"}
               [] g = <<2, 1>> -> {"corrupt"}
               [] OTHER -> {"absent", "corrupt", "throws"}]

AtMostOne(formats) ==
  \A x, y \in DOMAIN formats : x # y => formats[x] = "readable" \/ formats[y] = "readable"

FewDefects ==
  /\ refFormat \in {f \in [IndexIds -> Formats] : AtMostOne(f)}
  /\ rowFormat \in {f \in [Group -> Formats] : AtMostOne(f) /\ \A g \in Group :
        f[g] \in {"readable"} \cup IF g \in DOMAIN Damage THEN Damage[g] ELSE {}}
  /\ \A i \in IndexIds, g \in Group : refFormat[i] = "readable" \/ rowFormat[g] = "readable"
  /\ refBuild = [i \in IndexIds |-> new]
  /\ rowBuild \in [Group -> Builds]
  /\ \A g \in Group : rowBuild[g] = old =>
       /\ g = <<3, 0>>
       /\ \A i \in IndexIds, h \in Group : refFormat[i] = "readable" /\ rowFormat[h] = "readable"

mcInit == FewDefects /\ DumpInit
mcSpec == mcInit /\ [][DumpNext]_all
=============================================================================

------------------------------- MODULE MCCApi -------------------------------
(***************************************************************************)
(* An instance of CApi for TLC: index 2 holds the overlays and the rows,   *)
(* index 3 everything that is sharded, two files to an archive, and the    *)
(* squares.  The second row cannot be decoded, nor the first file of the   *)
(* second archive of index 3.  Of the states of the sqlite files those are *)
(* tried where at most one of four rows is not readable: a reference       *)
(* table, the group of the rows, or that second archive.                   *)
(***************************************************************************)
EXTENDS CApi

CONSTANT new

Indices == {2, 3}
ThreeArchives == {0, 1, 2}
Files == {0, 1, 2}
OneBuild == {new}
AllTypes == Whole \cup {"overlay", "dbrow", "item", "loc", "sprite", "model"}

MapTo(index, archive, shift) == [index |-> index, archive |-> archive, shift |-> shift]

TypeDefaults ==
  [t \in AllTypes |->
    CASE t = "overlay" -> MapTo(2, 0, 0)
      [] t = "dbrow"   -> MapTo(2, 1, 0)
      [] OTHER         -> MapTo(3, Sharded, 1)]

BuildTables ==
  [b \in OneBuild |->
    [g \in Indices \X ThreeArchives |->
      CASE g = <<2, 0>> -> {0, 2}
        [] g = <<2, 1>> -> {0, 1, 2}
        [] g = <<3, 0>> -> {0, 1}
        [] g = <<3, 1>> -> {0, 1}
        [] OTHER        -> {}]]

AskedIds == 0..3

\* Item 0 has a model, item 1 none, item 3 one that cannot be decoded.
ItemModel == [id \in AskedIds |-> CASE id = 0 -> 3 [] id = 1 -> 0 [] OTHER -> 2]
Groups == {0, 2}

FileContents ==
  [c \in Content |-> [g \in Group |-> [f \in Files |->
     IF <<g, f>> \in {<< <<2, 1>>, 1 >>, << <<3, 1>>, 0 >>} THEN "bad" ELSE "good"]]]

DumpLimits == {-1, 1}

DefectiveGroups == {<<2, 1>>, <<3, 1>>}

FewDefects ==
  /\ \A i, j \in IndexIds :
        i # j => refFormat[i] = "readable" \/ refFormat[j] = "readable"
  /\ \A g, h \in Group :
        g # h => rowFormat[g] = "readable" \/ rowFormat[h] = "readable"
  /\ \A i \in IndexIds, g \in Group :
        refFormat[i] = "readable" \/ rowFormat[g] = "readable"
  /\ \A g \in Group \ DefectiveGroups : rowFormat[g] = "readable"

mcInit == CallInit /\ FewDefects
mcSpec == mcInit /\ [][CallNext]_<<cache, handle>>
=============================================================================

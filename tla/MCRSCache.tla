------------------------------ MODULE MCRSCache ------------------------------
(***************************************************************************)
(* Instances of RSCache for TLC: two indices of one archive and two game   *)
(* builds, or less.  The builds differ in the files of archive 1 of index  *)
(* 2, and only the newer one declares the rest.                            *)
(***************************************************************************)
EXTENDS RSCache

CONSTANTS old, new

OneIndex == {2}
TwoIndices == {2, 5}
OneArchive == {1}
Files == {0, 1, 2}
OneBuild == {new}
TwoBuilds == {old, new}

OldFiles(g) == IF g = <<2, 1>> THEN {0, 1} ELSE {}

NewFiles(g) == IF g = <<2, 1>> THEN {0, 1, 2} ELSE {0}

BuildTables ==
  [b \in Builds |->
    [g \in IndexIds \X ArchiveIds |->
      IF b = LiveBuild THEN NewFiles(g) ELSE OldFiles(g)]]
=============================================================================

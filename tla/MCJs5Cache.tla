----------------------------- MODULE MCJs5Cache -----------------------------
(* Two indices of two archives over two builds: archive 1 gains a file in  *)
(* build 2, archive 2 of index 2 exists in build 2 only.                   *)
EXTENDS Js5Cache

TwoIndices == {2, 5}
TwoArchives == {1, 2}
Files == {0, 1, 2}

FilesOf(b, g) ==
  CASE g[2] = 1 -> 0..b
    [] g = <<2, 2>> /\ b = 1 -> {}
    [] OTHER -> {0}

BuildTables ==
  [b \in 1..LastBuild |->
    [g \in IndexIds \X ArchiveIds |-> FilesOf(b, g)]]
=============================================================================

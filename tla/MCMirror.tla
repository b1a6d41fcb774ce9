------------------------------ MODULE MCMirror ------------------------------
(* Two indices and up to three archives suffice for every order of skip,   *)
(* download, abandon and commit; the second build adds archives to one     *)
(* index and removes them from the other.                                  *)
EXTENDS Mirror

mcListing ==
  [b \in 1..LastBuild |->
     [i \in IndexIds |-> IF (b = 1) = (i = 1) THEN ArchiveIds ELSE {2}]]

\* --indices is absent: the indices the master lists.
mcAllIndices == [b \in 1..LastBuild |-> <<1, 2>>]
=============================================================================

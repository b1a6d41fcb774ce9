---------------------------- MODULE MCJs5Socket ----------------------------
(* Blocks of 12 bytes, which is 7 bytes of container each.  The containers *)
(* are the shortest there are, packed and not, and those that end just     *)
(* before, at and just after the end of the first and the second block.    *)
EXTENDS Js5Socket

mcSizes == <<0, 1, 2, 3, 8, 9, 10>>
mcFiles == {<<n, p>> : n \in 1..Len(mcSizes), p \in {0, 1}}
mcPacked == {f \in mcFiles : f[2] = 1}
mcSize == [f \in mcFiles |-> mcSizes[f[1]]]
=============================================================================

------------------------------ MODULE MCDefUse ------------------------------
(* Model values and symmetry for the runs of DefUse. *)
EXTENDS DefUse, TLC

CONSTANTS a, b, c

MCNodes == {a, b, c}
MCPinned == {a}
Symmetry == Permutations({b, c})
=============================================================================

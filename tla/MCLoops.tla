------------------------------ MODULE MCLoops ------------------------------
(* Model values and symmetry for the runs of Loops. *)
EXTENDS Loops

CONSTANTS entry, exit, r1, r2, r3

MCRegions == {entry, exit, r1, r2, r3}

Symmetry == Permutations({r1, r2, r3})
=============================================================================

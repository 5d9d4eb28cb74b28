----------------------------- MODULE MCRegAlloc -----------------------------
(* Model values, intervals and symmetry for the runs of RegAlloc. *)
EXTENDS RegAlloc, TLC

CONSTANTS
  v1, v2, v3, v4,
  MaxPoint  \* bound: the last point of a live interval

MCValues == {v1, v2, v3, v4}

(* Every pair of points: Liveness gives a phi nobody uses an end of 0. *)
MCIntervals == [first : 0..MaxPoint, last : 0..MaxPoint]

Symmetry == Permutations(MCValues)
=============================================================================

----------------------------- MODULE MCRewrites -----------------------------
(***************************************************************************)
(* Either rewriting pass on every expression: the client builds one and    *)
(* runs ConstantFolding or Peephole on it.                                 *)
(***************************************************************************)
EXTENDS Folding, Peephole

MCLiterals == <<0, 1>>

RewriteNext ==
  \/ Next
  \/ (PeepholeStart \/ SkipUnused \/ Rule) /\ UNCHANGED visited

(* Folding returns; the fairness is that of its run(). *)
RewriteSpec == Init /\ [][RewriteNext]_vars /\ WF_vars(SkipVisited \/ Fold)
=============================================================================

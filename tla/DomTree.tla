------------------------------ MODULE DomTree ------------------------------
(***************************************************************************)
(* DomTree::recalc (src/Analyses/DomTree.hpp): the walk of DepthFirst,     *)
(* then Function::semiDominators and Function::iDominators on its result,  *)
(* and the questions clients ask of the tree.                              *)
(***************************************************************************)
EXTENDS DepthFirst, FiniteSetsExt

VARIABLES
  phase,  \* the pass that runs
  at,     \* the loop counter of that pass, a DFS number
  semi,   \* semi: by DFS number + 1
  idom    \* m_idomTree: by DFS number + 1

domVars == <<flow, order, parent, number, work, rpo, phase, at, semi, idom>>

tree == <<semi, idom>>

Phases == {"walk", "semi", "idom", "adjust", "done", "thrown"}

N == Len(order)

-----------------------------------------------------------------------------
DomInit ==
  /\ Init
  /\ phase = "walk"
  /\ at = 0
  /\ semi = <<>>
  /\ idom = <<>>

Walk ==
  /\ phase = "walk"
  /\ Next
  /\ UNCHANGED <<phase, at, tree>>

StartSemi ==
  /\ phase = "walk" /\ Walked
  /\ phase' = "semi"
  /\ at' = N - 1
  /\ semi' = [i \in 1..N |-> i - 1]
  /\ UNCHANGED <<walk, idom>>

(* The while loop that looks for u': up the tree from u to below v. *)
Climb(u, v) ==
  LET up[k \in 0..(N - 1)] == IF k < v THEN k ELSE up[Parent(k)]
  IN  up[u]

(* Predecessors with a smaller number and the others contribute the semi   *)
(* of Climb, which leaves the former where they are.                       *)
Found(preds) == {semi[Climb(number[u], at) + 1] : u \in preds}

(* Fault: the greatest semi is kept. *)
SemiMax(preds) == Max({semi[at + 1]} \cup Found(preds))

SemiLeast(preds) == Min({semi[at + 1]} \cup Found(preds))

AboveRoot == at > 0

(* Fault: an unreached predecessor is skipped. *)
SemiSkips ==
  /\ phase = "semi" /\ AboveRoot
  /\ semi' = [semi EXCEPT ![at + 1] = SemiLeast(Predecessors(flow, order[at + 1]) \cap Visited)]
  /\ at' = at - 1
  /\ UNCHANGED <<walk, phase, idom>>

(* One round of the loop over vDFS. *)
SemiRound ==
  /\ phase = "semi" /\ AboveRoot
  /\ Predecessors(flow, order[at + 1]) \subseteq Visited
  /\ semi' = [semi EXCEPT ![at + 1] = SemiLeast(Predecessors(flow, order[at + 1]))]
  /\ at' = at - 1
  /\ UNCHANGED <<walk, phase, idom>>

(* dfsNumber.at(U) of a predecessor the walk did not reach. *)
SemiThrows ==
  /\ phase = "semi" /\ AboveRoot
  /\ ~(Predecessors(flow, order[at + 1]) \subseteq Visited)
  /\ phase' = "thrown"
  /\ UNCHANGED <<walk, at, tree>>

StartIdom ==
  /\ phase = "semi" /\ at = 0
  /\ phase' = "idom"
  /\ at' = N - 1
  /\ idom' = [i \in 1..N |-> 0]
  /\ UNCHANGED <<walk, semi>>

Bucket(w) == {v \in 1..(N - 1) : semi[v + 1] = w}

(* _eval: iDominators links no vertex, every ancestor stays 0, and a       *)
(* vertex evaluates to itself.                                             *)
Eval(v) == v

(* One round of the loop over wDFS. *)
IdomRound ==
  /\ phase = "idom" /\ at > 0
  /\ idom' = [i \in 1..N |->
                IF i - 1 \notin Bucket(at) THEN idom[i]
                ELSE IF semi[Eval(i - 1) + 1] < semi[i] THEN Eval(i - 1)
                ELSE at]
  /\ at' = at - 1
  /\ UNCHANGED <<walk, phase, semi>>

StartAdjust ==
  /\ phase = "idom" /\ at = 0
  /\ phase' = "adjust"
  /\ at' = 1
  /\ UNCHANGED <<walk, tree>>

(* Fault: every vertex is adjusted. *)
AdjustedEvery == idom[idom[at + 1] + 1]

Adjusted == IF idom[at + 1] = semi[at + 1] THEN semi[at + 1] ELSE idom[idom[at + 1] + 1]

(* One round of the final adjustments. *)
AdjustRound ==
  /\ phase = "adjust" /\ at < N
  /\ idom' = [idom EXCEPT ![at + 1] = Adjusted]
  /\ at' = at + 1
  /\ UNCHANGED <<walk, phase, semi>>

AdjustDone ==
  /\ phase = "adjust" /\ at = N
  /\ phase' = "done"
  /\ UNCHANGED <<walk, at, tree>>

DomNext ==
  \/ Walk \/ StartSemi
  \/ SemiRound \/ SemiThrows \/ StartIdom
  \/ IdomRound \/ StartAdjust
  \/ AdjustRound \/ AdjustDone

DomSpec == DomInit /\ [][DomNext]_domVars

-----------------------------------------------------------------------------
(* DomTree::dominates walks up from r until it meets d or the root. *)
Dominates(d, r) == number[d] \in Ancestry(idom, number[r])

(* Whether that walk meets the root, whatever d is. *)
QueryReturns(r) == 0 \in Ancestry(idom, number[r])

Built == phase = "done"

HasInputs(r) == r = Start \/ Predecessors(flow, r) # {}

DomTypeOK ==
  /\ phase \in Phases
  /\ at \in Nat
  /\ semi \in Seq(Nat)
  /\ idom \in Seq(Nat)

(* The walk is over, and nothing was computed from it yet. *)
WalkEnds == phase = "walk" /\ Walked

(* The walk numbers exactly the regions that can be reached, by a depth-   *)
(* first tree: an edge to a higher number stays inside a subtree, by which *)
(* semidominators are defined, and a region is first left after all that   *)
(* it leads to but for edges back up the tree, by which loopAnalyze sees   *)
(* inner loops first.                                                      *)
WalkIsDepthFirst ==
  WalkEnds =>
    /\ Visited = ReachedWithout(flow, {})
    /\ NumbersAgree
    /\ \A u, r \in Visited : GoesTo(flow, u, r) =>
         /\ number[u] < number[r] => IsTreeAncestor(u, r)
         /\ IsTreeAncestor(r, u) \/ FirstLeft(r) < FirstLeft(u)

(* The queries that return are those about regions with inputs: only an    *)
(* end that is entered by ret alone makes dominates() loop.                *)
QueriesReturn == Built => \A r \in Visited : QueryReturns(r) <=> HasInputs(r)

(* No domination is missed: a pass that needs one finds it.                *)
DominatorsAreFound ==
  Built => \A d \in Visited : \A r \in Visited \ ReachedWithout(flow, {d}) :
    HasInputs(r) => Dominates(d, r)

(* What the tree calls a dominator lies on every path from the start.      *)
DominatorsAreTrue ==
  Built => \A d, r \in Visited : Dominates(d, r) => TrulyDominates(flow, d, r)

(* The least number from which r is reached through greater ones than its  *)
(* own: what a semidominator is.                                           *)
LeastSemi(r) ==
  LET found[k \in Nat] ==
        IF k = 0 THEN {r}
        ELSE LET before == found[k - 1]
                 inside == {x \in before : x = r \/ number[x] > number[r]}
             IN  before \cup UNION {Predecessors(flow, x) : x \in inside}
  IN  Min({number[u] : u \in found[N]})

SemisAreLeast == \A r \in Visited : semi[number[r] + 1] = LeastSemi(r)

(* Of semidominators that are right iDominators makes dominators: what the *)
(* tree then calls a dominator of a region is on every path to it.  The    *)
(* end is left out, whose predecessors() is without the rets.              *)
DominatorsFollow ==
  Built /\ SemisAreLeast =>
    \A d \in Visited : \A r \in Visited \ {End} :
      Dominates(d, r) => TrulyDominates(flow, d, r)
=============================================================================

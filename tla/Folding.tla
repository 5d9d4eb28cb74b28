------------------------------ MODULE Folding ------------------------------
(***************************************************************************)
(* ConstantFolding::run (src/Optimizations/ConstantFolding.hpp) on an      *)
(* expression: one action per round of its work loop.                      *)
(***************************************************************************)
EXTENDS Expressions

VARIABLE visited

vars == <<g, pass, work, visited>>

CanFold(h, n) ==
  /\ h[n].op \in Ops
  /\ \A i \in {1, 2} : h[n].in[i] # 0 /\ h[h[n].in[i]].op = "Constant"

Init == InitGraph /\ visited = {}

BuildOp == Building /\ UNCHANGED visited

InitialWork == Ascending({n \in Nodes : UsersCount(n) > 0 /\ CanFold(g, n)})

Start ==
  /\ pass = "build"
  /\ pass' = "fold"
  /\ work' = InitialWork
  /\ UNCHANGED <<g, visited>>

Folding == pass = "fold" /\ work # <<>>

(* Fault: nodes are not remembered. *)
Unseen(n) == TRUE

NotSeen(n) == n \notin visited

SkipVisited ==
  /\ Folding /\ ~NotSeen(Last(work))
  /\ work' = Front(work)
  /\ UNCHANGED <<g, pass, visited>>

(* The shift is of 64 bit words; by 64 or more, it may give anything.      *)
Folded(n) ==
  LET v == Apply(g[n].op, g[Lhs(n)].val, g[Rhs(n)].val)
  IN  IF v = Undefined THEN Words ELSE {v}

(* Fault: the users of the new constant are not looked at. *)
NobodyElse(h, n) == {<<>>}

(* The users of n that can fold, once for each slot, in any order.         *)
NewWork(h, n) ==
  {[i \in DOMAIN s |-> s[i][1]] : s \in SetToSeqs({e \in Uses(h, n) : CanFold(h, e[1])})}

(* Fault: the users of the node are not replaced. *)
Dropped(h, n, m) == Detach(h, n)

Replaced(h, n, m) == Substitute(h, n, m)

Fold ==
  /\ Folding /\ NotSeen(Last(work))
  /\ CanFold(g, Last(work))  \* AssertionsHold
  /\ \E v \in Folded(Last(work)) :
       g' = Replaced(Append(g, Constant(v)), Last(work), Len(g) + 1)
  /\ \E more \in NewWork(g', Len(g')) : work' = Front(work) \o more
  /\ visited' = visited \cup {Last(work)}
  /\ UNCHANGED pass

Next == BuildOp \/ Start \/ SkipVisited \/ Fold

(* run() goes on until its stack is empty; the client owes nothing.        *)
Spec == Init /\ [][Next]_vars /\ WF_vars(SkipVisited \/ Fold)

-----------------------------------------------------------------------------
(* Folding never changes what the function returns. *)
MeaningKept == [][pass # "build" => SameMeaning(g')]_vars

(* The assertions of _folde: what is on the stack twice, or lost operands  *)
(* since it was pushed, was visited.                                       *)
AssertionsHold ==
  Folding /\ NotSeen(Last(work)) => CanFold(g, Last(work))

(* When the stack is empty nothing that is used can be folded.             *)
AllFolded ==
  pass = "fold" /\ work = <<>> =>
    \A n \in Nodes : UsersCount(n) > 0 => ~CanFold(g, n)

(* run() returns. *)
Returns == pass = "fold" ~> work = <<>>
=============================================================================

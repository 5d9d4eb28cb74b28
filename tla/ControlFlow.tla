---------------------------- MODULE ControlFlow ----------------------------
(***************************************************************************)
(* The control flow of a function as its regions report it                 *)
(* (src/Node.cpp, RegionNodeBase::successors and predecessors).            *)
(*                                                                         *)
(* A region is known by its terminator: a jmp (or a call, which goes on    *)
(* in one region as a jmp does), a ret, which goes to the end, an if, or a *)
(* call that enters the end, which successors() does not see ("stop").     *)
(* The order of `to` for an if is the order in which the unordered users   *)
(* of the IfNode come, so both orders are terminators.                     *)
(***************************************************************************)
EXTENDS Naturals, Sequences, FiniteSets

CONSTANTS Regions, Start, End

ASSUME RegionsAssumption ==
  /\ IsFiniteSet(Regions)
  /\ {Start, End} \subseteq Regions
  /\ Start # End

(* No edge enters the start: StartNode has no addCFInput. *)
Targets == Regions \ {Start}

Terminators ==
  [kind : {"jmp"}, to : {<<r>> : r \in Targets}]
    \cup {[kind |-> "ret", to |-> <<End>>], [kind |-> "stop", to |-> <<>>]}
    \cup [kind : {"if"}, to : Targets \X Targets]

(* successors() of the end is empty whatever its users are. *)
EndTerminator == [kind |-> "none", to |-> <<>>]

Successors(flow, r) == flow[r].to

GoesTo(flow, u, r) == \E i \in DOMAIN flow[u].to : flow[u].to[i] = r

(* The end is entered by calls or otherwise, not both: predecessors() of   *)
(* the end would answer a call that successors() does not lead from.       *)
Flows == {f \in [Regions -> Terminators \cup {EndTerminator}] :
            /\ \A r \in Regions : r = End <=> f[r] = EndTerminator
            /\ (\E r \in Regions : f[r].kind = "stop") => \A u \in Regions : ~GoesTo(f, u, End)}

(* predecessors() looks at jmp, if and call inputs: a ret is no input. *)
Predecessors(flow, r) == {u \in Regions : flow[u].kind # "ret" /\ GoesTo(flow, u, r)}

-----------------------------------------------------------------------------
(* Reference definition.  What execution can reach without entering D: a   *)
(* region dominates the ones that cannot be reached without it.            *)

ReachedWithout(flow, D) ==
  LET within[k \in Nat] ==
        IF k = 0 THEN {Start} \ D
        ELSE LET before == within[k - 1]
             IN  before \cup {r \in Regions \ D : \E u \in before : GoesTo(flow, u, r)}
  IN  within[Cardinality(Regions)]

TrulyDominates(flow, d, r) == r \notin ReachedWithout(flow, {d})
=============================================================================

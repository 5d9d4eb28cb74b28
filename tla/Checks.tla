------------------------------- MODULE Checks -------------------------------
(***************************************************************************)
(* ChecksElimination::run (src/Optimizations/ChecksElimination.hpp) on the *)
(* walk and the tree of DomTree: a nullCheck, or a boundsCheck with no     *)
(* greater bound, that another check of its object dominates becomes a     *)
(* jmp.  A check ends its region, so it goes by the name of the region.    *)
(*                                                                         *)
(* A constant is named by its value, so that one node may be the object of *)
(* a check and the bound of another.  clean() is modelled for terminators. *)
(***************************************************************************)
EXTENDS DomTree, SequencesExt

CONSTANTS
  NoRegion,  \* nullptr, an empty slot
  Graphs     \* the functions: flow, inputs in slot order, checks

ASSUME NoRegionAssumption == NoRegion \notin Regions

(* A check ends a region that can be reached, as dfsNumber.at presumes, in *)
(* a slot of one region or of the end, where successors() does not follow. *)
(* A nullCheck has no bound: 0 stands there, so that any nullCheck is as   *)
(* strong as another.                                                      *)
ASSUME GraphsAssumption == \A f \in Graphs :
  /\ f.flow \in Flows
  /\ f.inputs \in [Regions -> Seq(Regions)]
  /\ DOMAIN f.checks \subseteq ReachedWithout(f.flow, {})
  /\ \A r \in DOMAIN f.checks :
       /\ f.flow[r].kind \in {"jmp", "stop"}
       /\ f.checks[r].name \in {"nullCheck", "boundsCheck"}
       /\ f.checks[r].bound \in Int
       /\ f.checks[r].name = "nullCheck" => f.checks[r].bound = 0
       /\ \E s \in Regions :
            /\ {q \in Regions : r \in ToSet(f.inputs[q])} = {s}
            /\ s = End <=> f.flow[r].kind = "stop"

VARIABLES
  graph,    \* the function, given
  pass,     \* the pass that runs
  next,     \* its position in rpo
  current,  \* the region of the check CN, or NoRegion
  users,    \* users: the uses of its object that are left, <<region, slot>>
  checks,   \* the checks that are there
  inputs    \* the slots of each region, by where their node comes from

checkVars == <<graph, pass, next, current, users, checks, inputs>>

everything == <<domVars, checkVars>>

NameOf(p) == IF p = "null" THEN "nullCheck" ELSE "boundsCheck"

HasBound(c, v) == c.name = "boundsCheck" /\ c.bound = v

(* Fault: setOperand registers a check twice with its object. *)
ChecksTwice(v) == {r \in DOMAIN checks : checks[r].object = v} \X {0, 1}

(* The uses of v by checks: as the object, slot 0, and as the bound.       *)
ChecksOf(v) ==
  {r \in DOMAIN checks : checks[r].object = v} \X {0}
    \cup {r \in DOMAIN checks : HasBound(checks[r], v)} \X {1}

(* The regions and the end that have the check of r in a slot.             *)
UsersOf(r) == {s \in Regions : r \in ToSet(inputs[s])}

(* getNextRegion: the end is no RegionNode. *)
NextRegions(r) == UsersOf(r) \ {End}

-----------------------------------------------------------------------------
CheckInit ==
  /\ graph \in Graphs
  /\ flow = graph.flow
  /\ DomInit
  /\ pass = "tree"
  /\ next = 1
  /\ current = NoRegion
  /\ users = {}
  /\ checks = graph.checks
  /\ inputs = graph.inputs

BuildTree ==
  /\ pass = "tree"
  /\ DomNext
  /\ UNCHANGED checkVars

StartNull ==
  /\ pass = "tree" /\ Built
  /\ pass' = "null"
  /\ UNCHANGED <<domVars, graph, next, current, users, checks, inputs>>

Searching == pass \in {"null", "bounds"} /\ current = NoRegion /\ next <= Len(rpo)

IsCheck(r) == r \in DOMAIN checks /\ checks[r].name = NameOf(pass)

NoCheckHere ==
  /\ Searching /\ ~IsCheck(rpo[next])
  /\ next' = next + 1
  /\ UNCHANGED <<domVars, graph, pass, current, users, checks, inputs>>

(* The users are copied, for the loop detaches some of them. *)
CheckHere ==
  /\ Searching /\ IsCheck(rpo[next])
  /\ current' = rpo[next]
  /\ users' = {use \in ChecksOf(checks[rpo[next]].object) : use[1] # rpo[next]}
  /\ UNCHANGED <<domVars, graph, pass, next, checks, inputs>>

-----------------------------------------------------------------------------
(* One round of the loop over the users, in any order.                     *)

Second(use) == checks[use[1]]

Meets(use) == pass \in {"null", "bounds"} /\ current # NoRegion /\ use \in users

(* The node was detached when its first use was met: operand(1) is null.   *)
IsGone(use) == use[1] \notin DOMAIN checks

(* Faults: dominance is not asked; the dominating region must be the idom. *)
ImpliedAnywhere(use) == Second(use).bound <= checks[current].bound

ImpliedByParent(use) ==
  /\ Second(use).bound <= checks[current].bound
  /\ order[idom[number[use[1]] + 1] + 1] = current

Implied(use) ==
  Second(use).bound <= checks[current].bound /\ Dominates(current, use[1])

OtherName(use) == Second(use).name # NameOf(pass)

Keep(use) ==
  /\ Meets(use) /\ ~IsGone(use)
  /\ OtherName(use) \/ ~Implied(use)
  /\ users' = users \ {use}
  /\ UNCHANGED <<domVars, graph, pass, next, current, checks, inputs>>

Emptied(slots, r) == [i \in DOMAIN slots |-> IF slots[i] = r THEN NoRegion ELSE slots[i]]

(* Fault: the new jmp is not stored. *)
DetachOnly(slots, r) == Emptied(slots, r)

(* The check is detached, and the new jmp goes to slot 0. *)
JmpFirst(slots, r) == [Emptied(slots, r) EXCEPT ![1] = r]

RemoveCheck(use) ==
  /\ Meets(use) /\ ~IsGone(use)
  /\ ~OtherName(use) /\ Implied(use)
  /\ \E after \in NextRegions(use[1]) :
       inputs' = [inputs EXCEPT ![after] = JmpFirst(@, use[1])]
  /\ checks' = [r \in DOMAIN checks \ {use[1]} |-> checks[r]]
  /\ users' = users \ {use}
  /\ UNCHANGED <<domVars, graph, pass, next, current>>

(* A null pointer is followed: the bound of a detached check, or the next  *)
(* region of one that enters the end or gave its slot to another jmp.      *)
Crash(use) ==
  /\ Meets(use)
  /\ \/ IsGone(use)
     \/ ~IsGone(use) /\ ~OtherName(use) /\ Implied(use) /\ NextRegions(use[1]) = {}
  /\ pass' = "crashed"
  /\ UNCHANGED <<domVars, graph, next, current, users, checks, inputs>>

UsersDone ==
  /\ pass \in {"null", "bounds"} /\ current # NoRegion /\ users = {}
  /\ current' = NoRegion
  /\ next' = next + 1
  /\ UNCHANGED <<domVars, graph, pass, users, checks, inputs>>

StartBounds ==
  /\ pass = "null" /\ next > Len(rpo)
  /\ pass' = "bounds"
  /\ next' = 1
  /\ UNCHANGED <<domVars, graph, current, users, checks, inputs>>

(* clean() frees the check that has no user left. *)
Clean ==
  /\ pass = "bounds" /\ next > Len(rpo)
  /\ pass' = "done"
  /\ checks' = [r \in {q \in DOMAIN checks : UsersOf(q) # {}} |-> checks[r]]
  /\ UNCHANGED <<domVars, graph, next, current, users, inputs>>

CheckReturned ==
  /\ pass \in {"done", "crashed"}
  /\ UNCHANGED everything

CheckNext ==
  \/ BuildTree \/ StartNull
  \/ NoCheckHere \/ CheckHere \/ UsersDone
  \/ \E use \in users : Keep(use) \/ RemoveCheck(use) \/ Crash(use)
  \/ StartBounds \/ Clean
  \/ CheckReturned

CheckSpec == CheckInit /\ [][CheckNext]_everything

-----------------------------------------------------------------------------
Done == pass = "done"

Removed == DOMAIN graph.checks \ DOMAIN checks

Stronger(q, r) ==
  /\ checks[q].name = graph.checks[r].name
  /\ checks[q].object = graph.checks[r].object
  /\ checks[q].bound >= graph.checks[r].bound

(* No constant is both an object and a bound. *)
ObjectsAreNoBounds ==
  \A q, r \in DOMAIN graph.checks : ~HasBound(graph.checks[r], graph.checks[q].object)

TreeIsTrue == \A d, r \in Visited : Dominates(d, r) => TrulyDominates(flow, d, r)

FlowKept == inputs = graph.inputs

(* A check disappears only if every path to it runs a check that stays and *)
(* asks for as much.  A jmp that displaces one may lose the check that     *)
(* implied it: clean() frees what has no user.                             *)
RemovedAreImplied ==
  Done /\ TreeIsTrue /\ ObjectsAreNoBounds /\ FlowKept =>
    \A r \in Removed : \E q \in DOMAIN checks : Stronger(q, r) /\ TrulyDominates(flow, q, r)

(* No check that stays is implied by another one. *)
NoneIsImplied ==
  Done => \A q, r \in DOMAIN checks :
    q # r /\ Stronger(q, r) => ~TrulyDominates(flow, q, r)

InFirstSlot(r) ==
  \A s \in Regions : \A i \in DOMAIN graph.inputs[s] : graph.inputs[s][i] = r => i = 1

(* The control flow is kept exactly if every check that disappears was in  *)
(* slot 0 of the region after it.                                          *)
FlowIsKept == Done => (FlowKept <=> \A r \in Removed : InFirstSlot(r))

(* The check of q makes that of r a jmp when it meets it among the users   *)
(* of its object, where r may also hold the object as its bound.           *)
Removes(q, r) ==
  LET c == graph.checks
  IN  /\ q # r /\ Dominates(q, r)
      /\ c[q].name = c[r].name /\ c[r].bound <= c[q].bound
      /\ c[r].object = c[q].object \/ HasBound(c[r], c[q].object)

(* A null pointer is followed only where a constant is the object and the  *)
(* bound of one check, two checks lead to one region, or another check     *)
(* removes one that enters the end.                                        *)
CrashesAreKnown ==
  pass = "crashed" =>
    \/ \E r \in DOMAIN graph.checks : HasBound(graph.checks[r], graph.checks[r].object)
    \/ \E s \in Regions : Cardinality(ToSet(graph.inputs[s]) \cap DOMAIN graph.checks) > 1
    \/ \E q, r \in DOMAIN graph.checks : flow[r].kind = "stop" /\ Removes(q, r)

(* run leaves no region with an empty slot, where the checks that it       *)
(* removes are implied: the tree is true, no constant is in two places.    *)
SlotsAreFilled ==
  Done /\ TreeIsTrue /\ ObjectsAreNoBounds => \A r \in Regions : NoRegion \notin ToSet(inputs[r])
=============================================================================

------------------------------ MODULE Schedule ------------------------------
(***************************************************************************)
(* Function::dataSchedule (src/Function.cpp) on a dominator tree: every    *)
(* data node is mapped to the lowest region that dominates its users, once *)
(* these are mapped, in sweeps over m_graph until one maps nothing.        *)
(*                                                                         *)
(* A program is the control flow, for each region the predecessors in the  *)
(* order of its slots, and the data nodes by their position in m_graph:    *)
(* the operands of a computed node, the region and the values of a phi,    *)
(* and the nodes that the terminator of a region takes (the condition of   *)
(* an if, the value of a ret, the arguments of a call).                    *)
(***************************************************************************)
EXTENDS DomTree, SequencesExt

CONSTANTS
  NumValues,     \* how many data nodes m_graph has
  Shapes,        \* the control flows that are tried
  ProgramsOf(_)  \* functions on one

ASSUME NumValuesAssumption == NumValues \in Nat

Values == 1..NumValues

(* Where nodes and their users can be: not in an end that rets alone       *)
(* enter, about which dominates() does not return.                         *)
HomesIn(f) == {r \in ReachedWithout(f, {}) : r = End => Predecessors(f, End) # {}}

IsProgram(p) ==
  LET computed == Values \ DOMAIN p.phis
  IN  /\ p.flow \in Flows
      /\ p.inputs \in [Regions -> Seq(Regions)]
      /\ DOMAIN p.phis \subseteq Values
      /\ \A v \in DOMAIN p.phis :
           LET region == p.phis[v].region
           IN  /\ region \notin {Start, End}
               /\ p.phis[v].vals \in Seq(Values)
               /\ DOMAIN p.phis[v].vals = DOMAIN p.inputs[region]
               /\ \A q \in ToSet(p.inputs[region]) : q \in HomesIn(p.flow) /\ GoesTo(p.flow, q, region)
      /\ p.args \in [computed -> SUBSET Values]
      /\ p.needs \in [Regions -> SUBSET Values]
      /\ \A r \in Regions : p.needs[r] # {} => r \in HomesIn(p.flow)

(* A place for each node makes its operands available where it is used,    *)
(* to a phi at the end of the predecessor.                                 *)
IsPlacement(p, home) ==
  LET Reaches(a, r) == TrulyDominates(p.flow, home[a], r)
  IN  /\ \A v \in DOMAIN p.phis : home[v] = p.phis[v].region
      /\ \A v \in DOMAIN p.args : \A a \in p.args[v] : Reaches(a, home[v])
      /\ \A v \in DOMAIN p.phis : \A i \in DOMAIN p.phis[v].vals :
           Reaches(p.phis[v].vals[i], p.inputs[p.phis[v].region][i])
      /\ \A r \in Regions : \A a \in p.needs[r] : Reaches(a, r)

(* No node is computed from itself, but through phis.                      *)
IsRank(p, rank) == \A v \in DOMAIN p.args : \A a \in p.args[v] : rank[a] < rank[v]

ASSUME ProgramsAssumption ==
  \A shape \in Shapes : \A p \in ProgramsOf(shape) :
    /\ IsProgram(p)
    /\ \E rank \in [Values -> Values] : IsRank(p, rank)
    /\ \E home \in [Values -> HomesIn(p.flow)] : IsPlacement(p, home)

VARIABLES
  code,       \* the function: flow, inputs, args, phis and needs, given
  stage,      \* where the call of dataSchedule is
  cursor,     \* its position in m_graph
  wasMapped,  \* wasMapped: the sweep mapped a node
  mapped,     \* mapped: the region of each node that has one
  result      \* result: the nodes of each region

scheduleVars == <<code, stage, cursor, wasMapped, mapped, result>>

Phis == DOMAIN code.phis

PhisOf(r) == {v \in Phis : code.phis[v].region = r}

Computed == Values \ Phis

-----------------------------------------------------------------------------
ScheduleInit ==
  /\ \E shape \in Shapes : code \in ProgramsOf(shape)
  /\ flow = code.flow
  /\ DomInit
  /\ stage = "tree"
  /\ cursor = 1
  /\ wasMapped = FALSE
  /\ mapped = [v \in {} |-> Start]
  /\ result = [r \in Regions |-> <<>>]

(* The phis are mapped first. *)
StartSchedule ==
  /\ Built /\ stage = "tree"
  /\ stage' = "sweep"
  /\ mapped' = [v \in Phis |-> code.phis[v].region]
  /\ UNCHANGED <<domVars, code, cursor, wasMapped, result>>

PhiRegions(v) ==
  UNION {{code.inputs[code.phis[u].region][i] : i \in {j \in DOMAIN code.phis[u].vals : code.phis[u].vals[j] = v}} :
           u \in Phis}

Consumers(v) == {u \in Computed : v \in code.args[u]}

(* getUserRegions *)
Complete(v) == Consumers(v) \subseteq DOMAIN mapped

(* Fault: a value of a phi is taken for an operand of the phi's region. *)
UserRegionsAtPhi(v) ==
  {r \in Regions : v \in code.needs[r]}
    \cup {mapped[u] : u \in Consumers(v) \cap DOMAIN mapped}
    \cup {code.phis[u].region : u \in {w \in Phis : v \in ToSet(code.phis[w].vals)}}

UserRegions(v) ==
  {r \in Regions : v \in code.needs[r]}
    \cup {mapped[u] : u \in Consumers(v) \cap DOMAIN mapped}
    \cup PhiRegions(v)

(* From one of the user regions up the tree, to one that dominates all. *)
Lifted(front, users) ==
  LET up[i \in 0..(N - 1)] ==
        IF \A u \in users : Dominates(order[i + 1], u) THEN order[i + 1] ELSE up[idom[i + 1]]
  IN  up[number[front]]

Ready(v) == v \notin DOMAIN mapped /\ Complete(v) /\ UserRegions(v) # {}

Sweeping == stage = "sweep" /\ cursor \in Values

(* userRegions.front() is the region of any user. *)
Place ==
  /\ Sweeping /\ Ready(cursor)
  /\ \E front \in UserRegions(cursor) :
       LET home == Lifted(front, UserRegions(cursor))
       IN  /\ mapped' = [v \in DOMAIN mapped \cup {cursor} |-> IF v = cursor THEN home ELSE mapped[v]]
           /\ result' = [result EXCEPT ![home] = Append(@, cursor)]
  /\ wasMapped' = TRUE
  /\ cursor' = cursor + 1
  /\ UNCHANGED <<domVars, code, stage>>

PassOver ==
  /\ Sweeping /\ ~Ready(cursor)
  /\ cursor' = cursor + 1
  /\ UNCHANGED <<domVars, code, stage, wasMapped, mapped, result>>

Swept == stage = "sweep" /\ cursor \notin Values

SweepAgain ==
  /\ Swept /\ wasMapped
  /\ cursor' = 1
  /\ wasMapped' = FALSE
  /\ UNCHANGED <<domVars, code, stage, mapped, result>>

(* Fault: the sweeps end when the first is over. *)
ScheduledOnce ==
  /\ Swept
  /\ stage' = "scheduled"
  /\ result' = [r \in Regions |-> Reverse(result[r])]
  /\ UNCHANGED <<domVars, code, cursor, wasMapped, mapped>>

ScheduleDone ==
  /\ Swept /\ ~wasMapped
  /\ stage' = "scheduled"
  /\ result' = [r \in Regions |-> Reverse(result[r])]
  /\ UNCHANGED <<domVars, code, cursor, wasMapped, mapped>>

ScheduleNext == StartSchedule \/ Place \/ PassOver \/ SweepAgain \/ ScheduleDone

-----------------------------------------------------------------------------
Scheduled == stage = "scheduled"

UsesAreDominated ==
  /\ \A v \in Computed \cap DOMAIN mapped :
       /\ \A a \in code.args[v] \cap DOMAIN mapped : TrulyDominates(flow, mapped[a], mapped[v])
       /\ \A r \in PhiRegions(v) : TrulyDominates(flow, mapped[v], r)
  /\ \A v \in DOMAIN mapped, r \in Regions :
       v \in code.needs[r] => TrulyDominates(flow, mapped[v], r)

(* Every use of a node that was mapped is dominated by the node, if the    *)
(* tree names no false dominator: a legal program has its operands         *)
(* available wherever the schedule puts the users, phis included, which    *)
(* stay in their regions.  Within a region an operand comes before its     *)
(* users, whatever the tree.                                               *)
ScheduleIsLegal ==
  Scheduled =>
    /\ UsesAreDominated \/ ~DominatorsAreTrue
    /\ \A r \in Regions : \A i, j \in DOMAIN result[r] :
         result[r][i] \in code.args[result[r][j]] => i < j

(* The nodes that lead to a node without users, through computed nodes. *)
LeadToUnused ==
  LET found[k \in Nat] ==
        IF k = 0 THEN {v \in Computed : Consumers(v) = {} /\ UserRegions(v) = {}}
        ELSE LET before == found[k - 1]
             IN  before \cup {v \in Computed : Consumers(v) \cap before # {}}
  IN  found[NumValues]

(* The nodes left out of the schedule are the unused ones and, whatever    *)
(* else uses them, all that these are computed from; every other computed  *)
(* node is in its region.                                                  *)
LeftOut ==
  Scheduled =>
    /\ Values \ DOMAIN mapped = LeadToUnused
    /\ \A v \in Computed, r \in Regions :
         v \in ToSet(result[r]) <=> v \in DOMAIN mapped /\ mapped[v] = r
=============================================================================

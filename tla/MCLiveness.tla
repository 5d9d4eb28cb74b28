----------------------------- MODULE MCLiveness -----------------------------
(***************************************************************************)
(* The programs for the runs of Liveness: on each shape of control flow,   *)
(* every legal way to place NumValues data nodes in m_graph order, at most *)
(* one of them a phi, and to use them in terminators.                      *)
(***************************************************************************)
EXTENDS Liveness

CONSTANTS entry, exit, r1, r2, r3, MaxArgs

MCRegions == {entry, exit, r1, r2, r3}

Jmp(r) == [kind |-> "jmp", to |-> <<r>>]
If(r, s) == [kind |-> "if", to |-> <<r, s>>]
Ret == [kind |-> "ret", to |-> <<exit>>]

(* Regions a shape does not name stay apart. *)
Shape(terminators, ins) ==
  [flow   |-> [r \in MCRegions |-> IF r = exit THEN EndTerminator
                                   ELSE IF r \in DOMAIN terminators THEN terminators[r]
                                   ELSE Jmp(r)],
   inputs |-> [r \in MCRegions |-> IF r \in DOMAIN ins THEN ins[r]
                                   ELSE IF r \in DOMAIN terminators \cup {exit} THEN <<>> ELSE <<r>>]]

IfThen(exits) ==
  Shape(entry :> exits @@ r1 :> Jmp(r2) @@ r2 :> Ret, r1 :> <<entry>> @@ r2 :> <<entry, r1>>)

Diamond ==
  Shape(entry :> If(r1, r2) @@ r1 :> Jmp(r3) @@ r2 :> Jmp(r3) @@ r3 :> Ret,
        r1 :> <<entry>> @@ r2 :> <<entry>> @@ r3 :> <<r1, r2>>)

While(exits) ==
  Shape(entry :> Jmp(r1) @@ r1 :> exits @@ r2 :> Jmp(r1) @@ r3 :> Ret,
        r1 :> <<entry, r2>> @@ r2 :> <<r1>> @@ r3 :> <<r1>>)

(* The ret hangs on the end, as in tests/unit/Liveness.                     *)
WhileToEnd ==
  Shape(entry :> Jmp(r1) @@ r1 :> If(r2, r3) @@ r2 :> Jmp(r1) @@ r3 :> Jmp(exit),
        r1 :> <<entry, r2>> @@ r2 :> <<r1>> @@ r3 :> <<r1>> @@ exit :> <<r3>>)

DoWhile ==
  Shape(entry :> Jmp(r1) @@ r1 :> Jmp(r2) @@ r2 :> If(r1, r3) @@ r3 :> Ret,
        r1 :> <<entry, r2>> @@ r2 :> <<r1>> @@ r3 :> <<r2>>)

Nested ==
  Shape(entry :> Jmp(r1) @@ r1 :> If(r2, r3) @@ r2 :> If(r2, r1) @@ r3 :> Ret,
        r1 :> <<entry, r2>> @@ r2 :> <<r1, r2>> @@ r3 :> <<r1>>)

Select ==
  Shape(entry :> If(r1, r1) @@ r1 :> Ret, r1 :> <<entry, entry>>)

(* The header is met twice, and loopAnalyze aborts. *)
Twice ==
  Shape(entry :> If(r1, r1) @@ r1 :> If(r1, r2) @@ r2 :> Ret,
        r1 :> <<entry, entry, r1>> @@ r2 :> <<r1>>)

(* r3 can be reached without r1, and the tree says that r1 dominates it.   *)
Ladder ==
  Shape(entry :> If(r2, r1) @@ r1 :> If(r3, r2) @@ r2 :> Jmp(r3) @@ r3 :> Ret,
        r1 :> <<entry>> @@ r2 :> <<entry, r1>> @@ r3 :> <<r1, r2>>)

MCShapes ==
  {IfThen(If(r1, r2)), IfThen(If(r2, r1)), Diamond, While(If(r2, r3)), While(If(r3, r2)),
   WhileToEnd, DoWhile, Nested, Select, Twice, Ladder}

PhiChoices(s) ==
  {<<>>} \cup
  UNION {{v :> [region |-> r, vals |-> <<a, b>>] : v, a, b \in Values} :
           r \in {q \in MCRegions : Len(s.inputs[q]) = 2}}

SmallSets == {S \in SUBSET Values : Cardinality(S) <= MaxArgs}

Acyclic(args) ==
  \A S \in SUBSET DOMAIN args : S # {} => \E v \in S : args[v] \cap S = {}

ArgChoices(phis) == {args \in [Values \ DOMAIN phis -> SmallSets] : Acyclic(args)}

(* The condition of the ifs, one for all, and the value of a ret or none.  *)
Takers(s, kind) == {r \in MCRegions : s.flow[r].kind = kind}

Rets(s) == Takers(s, "ret") \cup {r \in {exit} : s.inputs[r] # <<>>}

NeedChoices(s) ==
  {[r \in MCRegions |-> IF r \in Takers(s, "if") THEN {cond} ELSE IF r \in DOMAIN val THEN val[r] ELSE {}] :
     cond \in Values, val \in [Rets(s) -> {{}} \cup {{v} : v \in Values}]}

(* Which region dominates which, as pairs. *)
Dominance(s) ==
  {pair \in (MCRegions \ {exit}) \X MCRegions :
     pair[1] \in ReachedWithout(s.flow, {}) /\ TrulyDominates(s.flow, pair[1], pair[2])}

Deeper(over, q, r) == <<q, r>> \in over \/ <<r, q>> \notin over

(* The earliest place of each node: the phi's region, or the lowest of the *)
(* places of the operands.  Any legal place is dominated by it.            *)
Earliest(over, phis, args) ==
  LET home[v \in Values] ==
        IF v \in DOMAIN phis THEN phis[v].region
        ELSE LET above == {entry} \cup {home[a] : a \in args[v]}
             IN  CHOOSE r \in above : \A q \in above : Deeper(over, q, r)
  IN  {<<v, home[v]>> : v \in Values}

(* Every operand is available to its user, a phi's at the end of the       *)
(* predecessor.                                                            *)
Available(s, over, places, phis, args, needs) ==
  \A place \in places :
    LET a == place[1]
        Reaches(r) == <<place[2], r>> \in over
    IN  /\ \A other \in places : other[1] \in DOMAIN args /\ a \in args[other[1]] => Reaches(other[2])
        /\ \A v \in DOMAIN phis : \A i \in DOMAIN phis[v].vals :
             phis[v].vals[i] = a => Reaches(s.inputs[phis[v].region][i])
        /\ \A r \in MCRegions : a \in needs[r] => Reaches(r)

(* The functions for which some placement makes every operand available. *)
ProgramsWith(s, over, phis, args) ==
  LET places == Earliest(over, phis, args)
  IN  {[flow |-> s.flow, inputs |-> s.inputs, phis |-> phis, args |-> args, needs |-> needs] :
         needs \in {n \in NeedChoices(s) : Available(s, over, places, phis, args, n)}}

MCProgramsOf(s) ==
  LET over == Dominance(s)
  IN  UNION {UNION {ProgramsWith(s, over, phis, args) : args \in ArgChoices(phis)} :
               phis \in PhiChoices(s)}
=============================================================================

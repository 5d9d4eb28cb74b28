------------------------------- MODULE Loops -------------------------------
(***************************************************************************)
(* LoopInfo::loopAnalyze (src/Analyses/Loop.hpp) and Function::linearize   *)
(* (src/Function.cpp) on a walk and a dominator tree: the loops, their     *)
(* nesting, and the linear order of the regions that groups them.          *)
(*                                                                         *)
(* Predecessors come in the order the inputs were added to a region, which *)
(* the control flow leaves open: every order is a behaviour.               *)
(***************************************************************************)
EXTENDS DomTree, SequencesExt

VARIABLES
  pass,    \* the pass that runs, or "aborted" by an assertion
  next,    \* its position: in rpo, or in loops
  loops,   \* m_loops: header, latches, m_blocks and the parent's index or 0
  loopOf,  \* m_BBMap: the index of the loop of a region or 0
  stack,   \* workStack of the loop whose body is filled
  seen,    \* visited, of that loop or of linearize
  line     \* the result of linearize

loopVars == <<pass, next, loops, loopOf, stack, seen, line>>

allVars == <<domVars, loopVars>>

Passes == {"tree", "find", "fill", "linear", "linearized", "aborted"}

Loop == [header : Regions, latches : SUBSET Regions, blocks : Seq(Regions), parent : Nat]

-----------------------------------------------------------------------------
LoopInit ==
  /\ DomInit
  /\ pass = "tree"
  /\ next = 1
  /\ loops = <<>>
  /\ loopOf = [r \in Regions |-> 0]
  /\ stack = <<>>
  /\ seen = {}
  /\ line = <<>>

Tree ==
  /\ pass = "tree"
  /\ DomNext
  /\ UNCHANGED loopVars

StartFind ==
  /\ pass = "tree" /\ Built
  /\ pass' = "find"
  /\ UNCHANGED <<domVars, next, loops, loopOf, stack, seen, line>>

Latches(r) == {p \in Predecessors(flow, r) : Dominates(r, p)}

Finding == pass = "find" /\ next <= Len(rpo)

FindNone ==
  /\ Finding /\ Latches(rpo[next]) = {}
  /\ next' = next + 1
  /\ UNCHANGED <<domVars, pass, loops, loopOf, stack, seen, line>>

(* Fault: m_BBMap is not updated. *)
Unowned(r, l) == loopOf

Owned(r, l) == [loopOf EXCEPT ![r] = l]

(* createLoop *)
FindLoop ==
  /\ Finding /\ Latches(rpo[next]) # {}
  /\ loopOf[rpo[next]] = 0
  /\ loops' = Append(loops, [header |-> rpo[next], latches |-> Latches(rpo[next]),
                             blocks |-> <<rpo[next]>>, parent |-> 0])
  /\ loopOf' = Owned(rpo[next], Len(loops'))
  /\ next' = next + 1
  /\ UNCHANGED <<domVars, pass, stack, seen, line>>

(* The assertion of createLoop: this region already is a header. *)
FindAgain ==
  /\ Finding /\ Latches(rpo[next]) # {}
  /\ loopOf[rpo[next]] # 0
  /\ pass' = "aborted"
  /\ UNCHANGED <<domVars, next, loops, loopOf, stack, seen, line>>

-----------------------------------------------------------------------------
Enter(i) ==
  /\ i <= Len(loops)
  /\ pass' = "fill"
  /\ next' = i
  /\ stack' \in SetToSeqs(loops[i].latches)
  /\ seen' = {}

EnterLinear(i) ==
  /\ i > Len(loops)
  /\ pass' = "linear"
  /\ next' = Len(rpo)
  /\ stack' = <<>>
  /\ seen' = {}

StartFill ==
  /\ pass = "find" /\ next > Len(rpo)
  /\ Enter(1) \/ EnterLinear(1)
  /\ UNCHANGED <<domVars, loops, loopOf, line>>

Filling == pass = "fill" /\ stack # <<>>

Skipped(r) == r \in seen \/ r = loops[next].header

Skip ==
  /\ Filling /\ Skipped(Last(stack))
  /\ stack' = Front(stack)
  /\ UNCHANGED <<domVars, pass, next, loops, loopOf, seen, line>>

(* Fault: the traversal does not go on from the blocks of a subloop. *)
OnlyBlocks(r) == {p \in Predecessors(flow, r) : loopOf[r] = 0 /\ ~Skipped(p) /\ p # r}

Above(r) == {p \in Predecessors(flow, r) : ~Skipped(p) /\ p # r}

PushAbove(r) ==
  /\ seen' = seen \cup {r}
  /\ \E ps \in SetToSeqs(Above(r)) : stack' = Front(stack) \o ps

Joined(r) == Append(loops[next].blocks, r)

(* A region without a loop becomes a block of this one. *)
Include ==
  /\ Filling /\ ~Skipped(Last(stack))
  /\ loopOf[Last(stack)] = 0
  /\ loops' = [loops EXCEPT ![next].blocks = Joined(Last(stack))]
  /\ loopOf' = Owned(Last(stack), next)
  /\ PushAbove(Last(stack))
  /\ UNCHANGED <<domVars, pass, next, line>>

AdoptedBy(l) == IF loops[l].parent = 0 THEN next ELSE loops[l].parent

(* A region of another loop: that one is a subloop, unless it has a parent. *)
Absorb ==
  /\ Filling /\ ~Skipped(Last(stack))
  /\ loopOf[Last(stack)] # 0
  /\ loops' = [loops EXCEPT ![loopOf[Last(stack)]].parent = AdoptedBy(loopOf[Last(stack)])]
  /\ PushAbove(Last(stack))
  /\ UNCHANGED <<domVars, pass, next, loopOf, line>>

FillNext ==
  /\ pass = "fill" /\ stack = <<>>
  /\ Enter(next + 1) \/ EnterLinear(next + 1)
  /\ UNCHANGED <<domVars, loops, loopOf, line>>

-----------------------------------------------------------------------------
(* linearize goes through rpo backwards.  Fault: it emits what it has.     *)
EmitAgain(r) == IF loopOf[r] = 0 THEN <<r>> ELSE loops[loopOf[r]].blocks

Emit(r) ==
  IF r \in seen THEN <<>>
  ELSE IF loopOf[r] = 0 THEN <<r>>
  ELSE loops[loopOf[r]].blocks

LinearRound ==
  /\ pass = "linear" /\ next > 0
  /\ line' = line \o Emit(rpo[next])
  /\ seen' = seen \cup ToSet(Emit(rpo[next]))
  /\ next' = next - 1
  /\ UNCHANGED <<domVars, pass, loops, loopOf, stack>>

LinearDone ==
  /\ pass = "linear" /\ next = 0
  /\ pass' = "linearized"
  /\ UNCHANGED <<domVars, next, loops, loopOf, stack, seen, line>>

(* linearize returned, an assertion failed or recalc threw. *)
Returned ==
  /\ pass \in {"linearized", "aborted"} \/ phase = "thrown"
  /\ UNCHANGED allVars

LoopNext ==
  \/ Tree \/ StartFind
  \/ FindNone \/ FindLoop \/ FindAgain
  \/ StartFill \/ Skip \/ Include \/ Absorb \/ FillNext
  \/ LinearRound \/ LinearDone
  \/ Returned

LoopSpec == LoopInit /\ [][LoopNext]_allVars

-----------------------------------------------------------------------------
(* m_BBMap agrees with the blocks of every loop. *)
LoopTypeOK ==
  /\ TypeOK
  /\ DomTypeOK
  /\ pass \in Passes
  /\ next \in Nat
  /\ loops \in Seq(Loop)
  /\ loopOf \in [Regions -> 0..Len(loops)]
  /\ \A i \in DOMAIN loops : \A r \in ToSet(loops[i].blocks) : loopOf[r] = i
  /\ stack \in Seq(Regions)
  /\ seen \subseteq Regions
  /\ line \in Seq(Regions)

Filled == pass \in {"linear", "linearized"}

(* The loops met by following parents from i. *)
Around(i) ==
  LET up[k \in Nat] == IF k = 0 THEN i
                       ELSE IF up[k - 1] = 0 THEN 0 ELSE loops[up[k - 1]].parent
  IN  {up[k] : k \in 0..Len(loops)} \ {0}

Body(i) == UNION {ToSet(loops[j].blocks) : j \in {k \in DOMAIN loops : i \in Around(k)}}

(* What a loop is: the header and all that leads to a latch without it.    *)
LeadsTo(f, S, h) ==
  LET found[k \in Nat] ==
        IF k = 0 THEN S
        ELSE LET before == found[k - 1]
             IN  before \cup ((UNION {Predecessors(f, r) : r \in before}) \ {h})
  IN  found[Cardinality(Regions)]

NaturalLoop(i) ==
  {loops[i].header} \cup LeadsTo(flow, loops[i].latches \ {loops[i].header}, loops[i].header)

(* Following parents ends at a top loop: no loop is inside itself.         *)
TreeOfLoops == Filled => \A i \in DOMAIN loops : \E j \in Around(i) : loops[j].parent = 0

(* If the dominator tree is true, the loops are a tree, and a loop with    *)
(* the loops nested in it makes up its natural loop.  With six regions and *)
(* a false dominator two loops can be each other's parent.                 *)
LoopsAreNatural ==
  Filled =>
    \/ TreeOfLoops /\ \A i \in DOMAIN loops : Body(i) = NaturalLoop(i)
    \/ ~DominatorsAreTrue

FirstIn(s, x) == CHOOSE i \in DOMAIN s : s[i] = x

(* linearize returns every reached region, and none twice.                *)
LineIsComplete ==
  pass = "linearized" =>
    /\ ToSet(line) = Visited
    /\ \A i, j \in DOMAIN line : line[i] = line[j] => i = j

(* The linear order has every reached region once, and a loop starts with  *)
(* its header if the dominator tree is true.                               *)
LineIsGrouped ==
  /\ LineIsComplete
  /\ pass = "linearized" =>
       \/ \A i \in DOMAIN loops : \A r \in Body(i) : FirstIn(line, loops[i].header) <= FirstIn(line, r)
       \/ ~DominatorsAreTrue

(* The assertion of createLoop, that no loop has this header yet, holds at *)
(* every call.  It does not: dfs reports a region twice.                   *)
HeadersAreNew == Finding /\ Latches(rpo[next]) # {} => loopOf[rpo[next]] = 0

(* recalc throws exactly where a region that cannot be reached leads to    *)
(* one that can, and the assertion of createLoop, against HeadersAreNew,   *)
(* fails exactly on the functions with a header that dfs reports twice.    *)
FailuresAreKnown ==
  LET reached == ReachedWithout(flow, {})
      strays == \E r \in reached \ {Start} : ~(Predecessors(flow, r) \subseteq reached)
  IN  /\ phase = "thrown" => strays
      /\ Built => ~strays
      /\ pass = "aborted" =>
           \E i, j \in DOMAIN rpo : i # j /\ rpo[i] = rpo[j] /\ Latches(rpo[i]) # {}
      /\ pass \in {"linear", "linearized"} =>
           \A i, j \in DOMAIN rpo : i # j /\ rpo[i] = rpo[j] => Latches(rpo[i]) = {}
=============================================================================

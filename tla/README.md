# SoN: a TLA+ model of the sea-of-nodes IR, its analyses and its allocator

SoN is a library around one data structure, a graph of nodes in which data and
control flow are edges of the same kind. Everything else reads that graph
(dominators, loops, schedule, liveness, register allocation) or rewrites it
(constant folding, peephole rules, check elimination, inlining). The program is
sequential. What is hard about it is not interleaving of threads but long
sequences of legal edits that must keep two redundant halves of an edge in
agreement, loops over containers that the loop body changes, results whose
order an unordered container decides, and graph algorithms that are right on
the graphs of the unit tests and must be right on all of them.

Paths below are relative to the repository (`src/src/...` is the library).

## Inventory

| part | where | state | operations | modelled by |
|---|---|---|---|---|
| node graph | `Node.hpp`, `Function.hpp` | `m_operands`, `m_users` of each node; `m_graph` | constructors, `setOperand`, `swapOperands`, `addOperand`, `detach`, `replaceWith`, `create`, `addNode`, `clean` | `NodeGraph`, `DefUse`, abstract `ValueGraph` |
| control flow | `Node.cpp` | none of its own: read from the edges | `successors`, `predecessors`, `terminator`, `phis` | `ControlFlow` |
| depth-first walk | `Function.cpp` `_dfs` | work stack, four results | one loop | `DepthFirst` |
| dominators | `Function.cpp`, `DomTree.hpp` | `semi`, `idom` | `semiDominators`, `iDominators`, `recalc`, `dominates`, `idom` | `DomTree` |
| loops | `Loop.hpp`; `linearize` in `Function.cpp` | loops, region to loop map, linear order | `loopAnalyze`, `createLoop`, `linearize` | `Loops` |
| data schedule | `Function.cpp` `dataSchedule` | node to region map | sweeps over nodes | `Schedule` |
| liveness | `Liveness.hpp` | live numbers, live-in sets, intervals | `recalc`, `_liveNumbers` | `Liveness` |
| register allocator | `RegAlloc.hpp` | register map, active list, free pool | linear scan, expiry, spill | `RegAlloc`, abstract `Allocation` |
| constant folding | `ConstantFolding.hpp` | work stack, visited set | `run` | `Folding` on `Expressions` |
| peephole | `Peephole.hpp` | work stack | `_canonicalize`, `_tryAdd/Shl/Xor` | `Peephole` on `Expressions` |
| check elimination | `ChecksElimination.hpp` | none | two passes, then `clean` | `Checks` |
| copy, inlining | `Function.cpp`, `Inlining.hpp` | node map | `copy`, `inlineStaticCall` | `Inlining`, judged by `Inlined` |
| verifier | `Function.cpp` `GraphChecker` | a flag | `verify` | a predicate of `Inlined`, without types and builtins |
| opcodes, visitor, module, printing | `Opcodes.*`, `InstVisitor.hpp`, `Module.hpp`, `dump`, `nameNodes` | none | tables and text | not modelled |

How they interact: every optimisation edits the graph through `Node`'s methods
and may call `Function::clean`; `DomTree::recalc` runs `dfs`, `semiDominators`
and `iDominators` on one snapshot and keeps the result, which goes stale with
the next edit; `loopAnalyze` and `linearize` take the walk and the tree;
`dataSchedule` takes the tree; `Liveness::recalc` calls all of them; `RegAlloc`
takes the intervals.

What makes each part correct:

* **node graph**: every slot has an occurrence in its operand's multiset (so
  that `find` does not miss and `replaceWith` reaches it), no slot points to
  freed storage, looping calls return, and they mean one replacement whatever
  users they meet in whatever order;
* **walk**: all and only the reachable regions are numbered, by a depth-first
  tree (edges to higher numbers stay inside subtrees), inner regions are left
  first;
* **dominators**: `dominates` answers, and its answers are those of the path
  definition;
* **loops, linear order**: every block is in one innermost loop, a loop's body
  is below its header, every region is emitted once;
* **rewrites**: what a function returns never changes, no rule looks into the
  empty slots of a detached node, folding is complete and ends;
* **schedule**: a node is placed where all its users can see it, before them,
  and only what unused nodes use is left out;
* **liveness**: an interval holds the definition and the uses of its value, and
  every point between them on which a path can still reach a use;
* **check elimination**: a check goes only if another one is always made before
  it, none that could go stays, and the control flow is what it was;
* **inlining**: what a function returns never changes, a graph that the verifier
  accepted is still accepted, and no edge leads to what the copy took with it;
* **allocator**: no two values that are live together share a register, no
  register is lost, no stack slot is shared, spills only under pressure.

## The modules

### NodeGraph, DefUse, ValueGraph

`NodeGraph` holds the graph as a value: `operands[n]` is the vector
`m_operands`, `users[d][u]` the multiplicity of `u` in the unordered multiset
`m_users` of `d`. Each operator is the method of its name and changes both
halves in the order the code does. Opcodes and value types are abstracted away.

`DefUse` is the state machine: `live` (nodes owned by `m_graph`, `m_start`,
`m_end`), `g`, and `call`, the looping call in progress. A call that edits one
node is one action. `detach` and `replaceWith` are loops; each round is an
action of the `Round` group (`DropSlot`, `DropDone`, `ReplaceStep`,
`ReplaceAbort`, `ReplaceDone`), and a round picks *any* user, because
`*users().begin()` of an unordered multiset may be any. `ReplaceAbort` is the
failed assertion at `Node.hpp:104`. `Clean` is one sweep: it computes the
unused nodes before any destructor runs, and destructors leave multisets alone,
so one action is what the sweep does. A freed address may be allocated again by
`Create`, whose node then inherits occurrences in the multisets of old operands.

`ValueGraph` is what clients believe: nodes with inputs, where `Replace` and
`Detach` are single steps and `Free` only takes nodes nobody holds. The
refinement mapping `Inputs` shows the graph as the call in progress will leave
it; rounds then are stuttering steps.

`Node::removeOperand` is not modelled: it has no caller (and searches the wrong
multiset).

### ControlFlow, DepthFirst, DomTree

`ControlFlow` knows a region by its terminator (`jmp`, `ret`, `if`, `stop`); a call ends
a region like a jmp, but for one that enters the end: `successors()` follows a call to a
`RegionNode` only, so nothing follows (`stop`). `predecessors()` of the end would answer that
call, and the walk would meet it from the other side alone: an end is entered by calls or
otherwise, not both (`Flows`). The order in which an `if` reports its targets is the order
of its unordered users, so both orders are terminators. `Predecessors` ignores
`ret` inputs, as the code does. Its last section has the reference definitions:
reachability and domination by cuts. `Recursion` has the lemmas with which the
proofs reason about recursive functions (see below).

`DepthFirst` is `_dfs` with its stack: `Visit` is a round that numbers the top
of the stack and pushes its successors, `Leave` a round that pops it.

`DomTree` continues after the walk (`phase`): `SemiRound` is a round of the
reverse loop of `semiDominators`, `SemiThrows` its `at()` of an unreachable
predecessor, `IdomRound` a round over `bucket[w]`, `AdjustRound` one of the final
adjustments. It departs from the algorithm of Lengauer and Tarjan in two places, as
the code does. `Climb` goes from a predecessor with a greater number to the first ancestor
below the region, where the algorithm takes the least semidominator on the way up. And
`Eval(v) == v` is `_eval` as `iDominators` calls it: its `ancestors` vector stays 0. `LeastSemi`
is the reference for the first, what a semidominator is by paths. `Dominates` and `QueryReturns` are the walk of
`DomTree::dominates`.

### RegAlloc, Allocation

`RegAlloc` is one run of the linear scan over *any* intervals, also those where
the end is before the start. `Take` picks the next value (any with the least
start: `std::sort` leaves ties open and the values come from an
`unordered_map`), `Expire` is a round of `expireOldIntervals`, then
`AssignRegister`, `SpillActive` or `SpillCurrent` ends the round. `free` is the
vector of free registers, used at its end; `active` is a set, the front and the
back of the sorted deque being any elements with the least and greatest end.

`Allocation` is the client's view: values get locations in start order, no two
values conflict, and the only location taken back is a register, in exchange for
a stack slot that nobody has.

### Loops

`Loops` continues `DomTree` (`pass`): `FindNone`, `FindLoop` and `FindAgain` are a
round of the loop over `rpo` in `loopAnalyze` (no latch; `createLoop`; the failed
assertion in `createLoop`), `Skip`, `Include` and `Absorb` a round of the
traversal that fills a body, `LinearRound` a round of `linearize`. The order of a
region's predecessors is the order in which its inputs were added, so every order
is a behaviour. A predecessor that an `if` names twice is pushed once: the code
pops the second occurrence without effect.

The references are path definitions: the natural loop of a header and its
latches is a least closed set (`NaturalLoop`), domination is `TrulyDominates`.

### Schedule, Liveness

`Schedule` continues `DomTree` on a given function (`code`): the control flow, the
predecessors of a region in slot order, and the data nodes by their position in
`m_graph` with their operands, the values of phis and what the terminators take.
`Place` and `PassOver` are a round of the loop over `m_graph` for a node that is
ready or is not, `SweepAgain` and `ScheduleDone` end a sweep. `getUserRegions` is
`UserRegions` and `Complete`; which user comes first is open, so the walk up the
tree starts from any. Constants and arguments are nodes without operands. The
functions are those that could have been written: some order computes the nodes
(`IsRank`), and some placement makes each operand available where it is used
(`IsPlacement`). The places are the regions that are reached (`HomesIn`), the end too if jmps lead to it, as in
`tests/unit/Liveness`, where the ret hangs on the end; an end that only rets enter is left
out, since a question about it does not return.

`Liveness` composes `Loops` and `Schedule`: `Analyses` runs the passes that
`recalc` calls, in its order, `NumberRegion` is a round of `_liveNumbers` and
`AnalyseRegion` a round of the loop against the linear order, with the
instructions of the region met from its end (`MetAll`). `operator[]` makes what is
missing a zero. `Recalc` is a second call on the same object, for a function that
did not change: the numbers are replaced, `m_intervals` and `m_liveIn` are not
cleared. The reference is by paths (`EntryLive`, `ExitLive`).

### Checks

`Checks` continues `DomTree` with the two passes over `rpo`. A region that a check
ends stands for the check. `CheckHere` copies the users of the object, and a round
for one of them, in any order, is `Keep`, `RemoveCheck` or `Crash`: null is
followed where a check was detached when its first use was met (one constant is
its object and its bound), or where no region follows it: `getNextRegion` answers a
`RegionNode`, and the slot after the check was given to another jmp, or is one of the end.
`inputs` has the slots of each region by the region they come from, so that
`JmpFirst`, the jmp stored in slot 0, may displace another edge. `Clean` frees the
checks that lead nowhere. The checks a graph may have are in reachable regions
(`dfsNumber.at` throws for others, and nothing is said of what it leaves behind) and
each has one user, a region or the end (`GraphsAssumption`). `HasBound` tells a `BoundsCheck`
from a `NullCheck`.

### Inlining, Inlined

`Inlining` runs on the graph of `NodeGraph`, for all functions of a module at once:
`label` has the kind of each node and what it is a kind of (value, index, callee),
`functions` the nodes each one owns, `script` what a client calls on which
function. `CopyCallee` is `Function::copy` with its map (`VMap`), `ReplaceArg` a round
of the loop over arguments, `CreateRet` the region and the phi, `ConvertRet` a round
over the rets, `FinalJmp` the loop over the users of the call, `ReplaceCall` and
`MoveNodes` the rest with the destruction of the copy. `Stop` is where an assertion
fails or a freed user is read. `clean()` is an action of the client.

The loop in `FinalJmp` erases the element it stands on. The element is freed, the
`emplace` of the same call takes the storage for its own, whose next is null, and
the loop ends: this is the outcome the build has, and the action does one round.
An address is not given twice here (`DefUse` has that), a call enters one region,
as the comment in the code says it expects, and callees return a value.
`HasRoom` is the bound: a step that allocates is taken as long as there are addresses.
`IsModule` says what a module is before anything is run on it: each node has one owner and refers to nodes of
its function, and kinds and slots are what the constructors give them.

`Inlined` is what it is checked against: `Verify` is `GraphChecker` with the
assertions of `successors()`, `Returned` evaluates a function on numbers modulo 3,
through phis, loops, calls and recursion, until `Fuel` regions were entered. It has
`RECURSIVE` operators, and `Inlining` does not.

### Expressions, Folding, Peephole

`Expressions` holds a graph of data nodes as a sequence, in the order of
`m_graph`, with the returned value in front. Users are read off the slots, which
is what `m_users` holds as long as nothing calls `clean` (`UsersStayExact` of
`EdgeProofs`), and `replaceWith` and `detach` are the single steps that
`ValuesSpec` shows them to be. The client builds any expression (`Build`, one
constructor call each); a pass then runs. `Ascending` is the order in which a pass meets
the nodes of a set when it walks `m_graph`. `Meaning` is the value returned for an
argument, by levels: at level `d` the nodes have values whose chains of operands are
shorter than `d`; a shift by the width or more has none.

`Folding` has one action per round of the work loop of `ConstantFolding::run`;
the users of the new constant are pushed in any order, once for each slot, as an
unordered multiset gives them. An assertion of `_folde` would fail where
`AssertionsHold` does not hold. A folded shift that is too wide is any word.

`Peephole` has one action per rule, with the conditions of the rules before it
negated as the early returns do, `PeepholeStart` for `_canonicalize` (its rounds do not
affect each other) and `SkipUnused` for a node without users. `MCRewrites` lets the
client that built an expression run either pass on it.

## What the runs check

| run | question | result |
|---|---|---|
| `DefUse.cfg` | 3 addresses, any edits and cleans, freed addresses that multisets still name being allocated again: are slots registered and live, and is `ValueGraph` implemented? | holds |
| `DefUseTidy.cfg` | 3 addresses with 2 slots, a client that detaches before `clean`: exact users, no failed assertion, `ValueGraph` implemented, calls return, no deadlock | holds |
| `DefUseClean.cfg` | the assertion of `replaceWith` under any client | violated |
| `RegAlloc.cfg` | 4 values, 4 points, 2 registers, every combination of intervals; the scan is never stuck before every value is placed | holds |
| `DomTreeTrue.cfg` | where the semidominators are exact, what the tree calls a dominator of a region is one | violated |
| `Loops.cfg` | every graph of 5 regions: depth-first numbering, no dominator missed, exactly the queries about an end entered by `ret` alone do not return, natural loops in a forest if the tree is true, linear order, when `recalc` throws and `createLoop` aborts | holds |
| `LoopsTwice.cfg` | `createLoop` is called for headers that have no loop yet | violated |
| `Liveness.cfg` | 3 data nodes on 11 shapes of control flow: legal and complete schedule, intervals that hold uses and live points, a second `recalc` | holds |
| `Checks.cfg` | checks of two objects on 10 shapes: removed ones are implied, none that is implied stays, when the flow is kept and when null is followed | holds |
| `ChecksSlots.cfg` | no region is left with an empty slot | violated |
| `Inlining.cfg` | 129 callers with callees, 7 sequences of inlining and `clean()`: edges, meaning, verifier, one level is gone, when a run stops | holds |
| `Rewrites.cfg` | every expression of up to 3 operations, under folding or the peephole rules: same meaning, assertions, completeness, return, no empty slot read | holds |

The violated ones are disagreements between the code and what it says of itself:

* `clean()` frees an unused node and leaves its address in the multisets of its
  operands; the next `replaceWith` on such an operand works on freed storage
  (`Function.hpp:81`, assertion `Node.hpp:104`). The tidy client shows that
  detaching first is enough.
* `iDominators` never links vertices, so semidominators are taken for
  dominators (`Function.cpp:562`); on the graphs of the unit tests they agree. In the run
  the semidominators themselves are exact and the region is not the end, so nothing else is to blame: the
  start branches to r1 and r2, r1 jumps to r3, r2 branches to r3 and r1, and the tree says
  that r2 dominates r3.
* `createLoop` asserts that a header has no loop yet (`Loop.hpp:122`), and `loopAnalyze` calls it
  for every entry of `rpo` with latches. `dfs` reports a region once for each edge that found it
  unvisited, so a header entered by both sides of a branch fails the assertion, and one
  entered by a branch directly and from the other side of the branch does, if the unordered
  users come in the wrong order. `FailuresAreKnown` keeps the exact condition: `createLoop`
  aborts for the headers that `dfs` reports twice and no others.
* a jmp that replaces a check is stored in slot 0 of the region after it
  (`ChecksElimination.hpp:47`, `:85`), whichever slot the check had. The region keeps
  an empty slot, and `verify()` and `predecessors()` assert that there is none. The run has
  a true tree and no constant in two places, so that the check was right to go.

There are two more ways to a tree that says too much, which that run leaves out:

* the climb of `semiDominators` (`Function.cpp:497`): the start branches to a and b, both jump
  to c, and c jumps to a. If the walk meets b first, it goes on to c and a; for the
  predecessor a of c the climb ends at b, so that b is called the semidominator of c, which is
  the start, by way of a.
* `predecessors()` does not look at rets. An end with a jmp from one region and a ret from
  another is said to be dominated by the first.

What a false tree does: a cycle with two entries can become a "loop" whose blocks reach
back to the start node (`Loop.hpp:63`), and the loops need not be the `tree of
loops` of `Loop.hpp:18`. The body of a cycle with two entries may run up to the start
and on through a second loop, and the bodies make each loop the parent of the other. No
graph of five regions shows it, one of six does: the start branches to c and the end,
a jumps to d, b branches to d and c, and both c and d branch to b and a.

Other facts are stated as equivalences, since no document promises the opposite:
an end reached only by `ret` has no predecessors and is its own immediate
dominator, so that `dominates(x, end)` does not return, and no other query does so
(`QueriesReturn`); and `recalc` throws exactly if an unreachable region leads to a
reachable one (`FailuresAreKnown`). The null pointers that the passes over checks follow have three
causes (`CrashesAreKnown`): a constant that is the object and the bound of one check, two
checks that lead to one region, and a check that enters the end and is removed.

Conditions of the properties, each of which is needed:

* `LoopsAreNatural` and the second half of `LineIsGrouped` need a true tree, by the graph
  of six regions above.
* `ScheduleIsLegal` needs a true tree for domination (one of the shapes has a false
  dominator, and a node is put into it), not for the order in a region.
* `DominatorsFollow` needs exact semidominators and says nothing of the end, so that its violation has
  one cause.
* `RemovedAreImplied` needs a true tree (a false dominator removes a check that a
  path makes alone), no constant that is the object of a check and the bound of
  another, and a flow that is kept: a jmp may displace the very check that implied
  the removed one, and `clean()` frees it.
* `IntervalsHoldLives` needs a linear order in which a region comes before its
  successors but for back edges, and no nested loops: `linearize` gives others, for
  which the single pass reads live-in sets that are not there yet, and a loop ends
  at the greatest end of its own blocks only. It needs phis with one value for each
  predecessor, since `getValOf` answers the first. The points at terminators are
  not in it: their uses extend no interval.
* `RecalcIsStable` needs the same orders: on others the second pass reads live-in
  sets the first one missed, and makes intervals longer.
* `MeaningKept` and `StaysVerified` of `Inlined` are about functions whose users are
  there: after `clean()` a multiset may name freed nodes. Inlining twice without
  `clean()` aborts, and so does copying a function that was inlined into and not
  cleaned.

**Bounds.** `MaxOperands` (slots of a node) and `MaxUses` (occurrences that a
new node may inherit) bound `DefUse`; three addresses are the fewest where a
node has two different users or a user of a user. Two slots, the fewest where an
operand is held twice, and two inherited occurrences are each checked, in
`DefUseTidy.cfg` and `DefUse.cfg`; together they are too many states, and for
both at once there are the proofs of the invariants. Five regions (start, end
and three between) are the fewest where a semidominator differs from the
immediate dominator and where a region waits on the stack twice. Four points,
four values and two registers are the fewest where a spill takes a register that
expired earlier and a third value meets it. Expressions have up to three
operations (a chain, its result, and another user of the chain), words of two
bits (the least with an overflow, a shift that keeps a bit and one that is too
wide), and the literals the rules tell apart, 0 and 1 (a shift by a folded sum is too wide). Five regions give three nested loops; two loops that
are each other's parents take six.

Three data nodes are the fewest with a value, a user and a user of the user, one
of them perhaps a phi with two values; a node has up to `MaxArgs` = 2 operands, the ifs
of a function take one condition (a use by a terminator extends no interval), and
the shapes are the branches, joins and loops of five regions, with a header met
twice, an if with both exits in one region, a ret that hangs on the end, and one whose tree has a false dominator
(`_eval`). The checks are on up to
three regions of a shape, for two objects and two bounds; one object is a constant that
may be a bound, one shape makes the tree name a false dominator (for one order of its users by `_eval`, for the
other by the climb), and in one a check may enter the end. `Inlining` has
120 addresses, more than any sequence allocates (with fewer `HasRoom` would block and the run find a deadlock), values modulo
3, `Fuel` = 30 regions, and functions with one argument, up to two rets, a join, a
loop, calls in sequence or in a branch, unused results and recursion.

Symmetry is used over interchangeable regions, values or addresses and never
where a leads-to property is checked.

**Fairness.** `WF(Round)` in `TidySpec`: the rounds of a call follow each other,
nothing else runs in between. `WF` of the rounds of `Folding` in its `Spec` and in `RewriteSpec`: a sequential
function runs until it returns. The editing client of `DefUse` owes nothing: no
fairness on edits or `Clean`.

**Deadlock** is checked in `DefUseTidy.cfg`, `RegAlloc.cfg`, `Loops.cfg` (which
includes the walk and the dominator tree), `Liveness.cfg`, `Checks.cfg` and
`Inlining.cfg`: before the steps that say that a function returned or stopped, some
step is always possible. Elsewhere the system may stop: a function returned, or a call was
aborted.

## What is proved

`EdgeProofs` starts with the lemmas about the operators of `NodeGraph`: the number of slots of a
node that hold `d` after storing, appending or swapping (`CountStore`,
`CountAppend`, `CountSwap`), types of graphs after every edit, and the balance
lemmas (`SetOperandBalance`, `AddOperandBalance`, `SwapOperandsBalance`): an edit
changes the occurrences of `n` in `d`'s multiset by as much as the slots.

It proves for every `Nodes`, `Pinned`, `MaxOperands`, `MaxUses`:

* under `Spec`: `TypeCorrect`, `OperandsStayLive`, `UsesStayRegistered`.
  `TypeOK` alone is not inductive: the erase of `setOperand` keeps counts
  natural only because the slot was registered, registered slots survive `clean`
  only because it frees nodes with an empty multiset, and a round of
  `replaceWith` keeps operands live only because the call works on live nodes.
  The invariant is the conjunction of `TypeOK`, `OperandsAreLive`,
  `UsesAreRegistered` and `CallIsLive`.
* under `TidySpec`: `UsersStayExact` and `ReplaceAlwaysFindsSlot`, from the same
  invariant with exactness: a user with an occurrence has a slot, so there is a
  first one.

`RegAllocProofs` proves for every set of values, intervals and number of
registers: `TypeCorrect`, `RegistersStayPartitioned`, `RegistersAreNotShared`.
The inductive invariant adds that the pool and the active values hold registers
below `NumRegs`, that active values are not spilled, and that a placed value
which is not active and not spilled has ended before everything still to come
starts.

With a clause that no two spilled values share a slot of the stack and that the next
slot is new, the same invariant gives `AllocatorIsImplemented` (every run of the scan
is a run of `Allocation`: an assignment is `Allocate`, a spill of an active value is
`Evict`, one of the current value is `Spill`, all else stutters) and `SpillsAreForced`: for each
spilled value there is a point it occupies at which the values placed by then need more
registers than there are. The set that shows it is the active values with the one being
placed, as soon as the expired ones are out.

`EdgeProofs` also proves the refinement of `ValueGraph`, under `Spec` and under
`TidySpec` (`ValuesAreImplemented`, `TidyValuesAreImplemented`): each round of
`detach` and `replaceWith` leaves `Inputs`, the graph as the call will leave it,
unchanged, and each other action is the abstract action of its name. It needs
`UsesAreRegistered`: without it a call would end before the last slot.

It proves of `Inlining`, for any modules and what is run on them, `EdgesStayAgreed` (`EdgesAgree`), from `EdgesStaySound`: `EdgeInv` is
inductive. `EdgesAgree` alone is not: the copy is destroyed with its start, end, arguments and rets, and nothing
says that the moved nodes do not refer to them. `EdgeInv` adds

* of the nodes, that no multiset holds an address not yet given (`Within`), and what the kinds may
  have as operands (`IsFormed`): rets enter nothing but an end, an end enters nothing, a call has as
  many slots as its callee has arguments and one more;
* of the functions, that they own disjoint nodes and keep their start, end and arguments (`FramesHold`);
* of the copy, that it has a frame as the callee has, and that neither the call nor an end of a function refers to
  it (`CopyHolds`). The loop over the arguments gives each the call's operand, which for
  that reason is no argument of the copy: the arguments replaced so far are operands of no node (`ArgsReplaced`), and none
  comes back;
* of the rets, that those still to come are there (`RetsHold`): an end holds each once, so a detached one
  empties no other slot.

`CloneFacts`, `ClonesAgree` and `CloneFrame` are about `Function::copy`: its map pairs nodes and fresh addresses, so the
edges of the clones agree as those of the callee do. `ReplaceKeeps`, `DetachKeeps`, `ConstructKeeps`
and `DestroyKeeps` are about `replaceWith`, `detach`, constructors and destructors on the nodes that are left.

**Recursive functions.** `ReachedWithout`, `Ancestry`, `Chain` and the like are
recursive *functions*. The library's induction theorems take an operator as a
parameter and cannot be used. `Recursion` states induction about a *set* instead
(`LeastNumber`, `Induction`, `StrongInduction`: what a set of numbers that is closed
under successor contains), and the existence of a recursive function on numbers, by
its finite approximations (`RecursionExists`). A proof by induction takes the set of numbers for
which the claim holds.

`DomTreeProofs` proves for every finite graph of regions:

* `WalksAreDepthFirst` (`WalkIsDepthFirst`). The invariant `WalkInv` speaks of the stack: a
  region that is numbered and not left holds an entry (`OpenIsHeld`), the regions that hold
  entries are one line of the tree (`HeldAreOneLine`), each entry was pushed by one of them
  and the deeper one's entries are on top (`EntriesAreEdges`, `EntriesAreLater`), the
  successors of a region that holds an entry are numbered or wait above it
  (`HeldIsComplete`), those of a region that was left are all numbered (`LeftIsComplete`),
  and edges to higher numbers stay in the tree (`ForwardIsDown`). When the stack is empty
  these are the property.
* `NoDominatorIsMissed` (`DominatorsAreFound`): whatever the tree leaves out is no
  dominator. `PassInv` says that `semi` of every number handled so far is the least of itself and
  the closest common ancestors with its predecessors (`SemiOf`), and that the later passes keep it; a
  dominator is an ancestor in the walk (`DominatorIsAncestor`), and the tree path around a region
  avoids what the tree leaves out (`TreeAvoids`). The opposite, that what the tree says is true, is
  refuted by `DomTreeTrue.cfg`, even for exact semidominators.
* `QueriesAreKnown` (`QueriesReturn`): `idom` leads to lower numbers except at a region
  without predecessors, and only the end can be one (`OnlyTheEnd`).

`LoopsProofs` goes on from there: `LoopsKeepTypes`, `NoRegionIsLost` (`LineIsComplete`, the
first half of `LineIsGrouped`) and `LoopFailuresAreKnown` (`FailuresAreKnown`). `LoopInv`
adds to the invariant of the tree that the map from regions to loops and the blocks of
the loops are inverse to each other (`OwnersAgree`), that exactly the headers met so far have
loops (`HeadersFound`), and that the line has whole loops and all of `rpo` behind the position,
each region once (`LineGrows`).

It also proves `LoopsAreNested` (`LoopsAreNatural`) and `HeadersComeFirst` (`LineIsGrouped`),
with a second invariant, `NestAndOrder`. `WalkOrder` is about the tree's walk: a region stays on the stack while
one that it dominates is there, so it is left after all that it dominates, and inner headers are
met before outer ones. `NestInv` is about the loops: a block belongs to the first loop whose
body has it (`BlocksBelong`), a fill that ends has met a set closed under predecessors, which holds the least
one (`BodiesAreMet`, and `FillIsUnderway` while it runs), a parent has a block of its subloop (`ParentsMeet`), and the line
has a header before its blocks, and the parent's header before the subloop (`LineLeads`, `LineNests`).
Under a true tree, of two loops that share a region the later has the header of the first:
the two headers dominate the region, so one dominates the other, and it is not the one met
first (`SharedIsInner`). So what lies within a loop is exactly the loops whose
header it has (`AroundIsNested`), and their blocks together are its body (`BodyIsNatural`). With a false
tree none of this holds, as `LoopsAreNatural` says.

`ChecksProofs` proves, also on top of the tree: `RemovalsAreImplied`, `NoRedundancyIsLeft`,
`FlowKeptExactly` and `NullsAreKnown`. `ChecksInv` has a clause for each: each check
that was removed has one that stands (`ImpliedSoFar`, since domination and strength are transitive);
a check behind the position of its pass implies none that stands (`NothingIsLeft`); each slot
but the first is as it was, or empty where its check was removed, and slot 0 may hold any
removed one (`SlotsAreKnown`); and the users still to be met are uses of the object
(`UsersAreUses`). `NullsAreKnown` follows from the last two: where no region follows a check that is
still there, its slot was one of the end, or slot 0 got the jmp of another check of the region after it.

`RewriteProofs` proves of constant folding, for every width, every set of literals and any
number of operations: `AssertionsNeverFail` (`AssertionsHold`), `FoldingIsComplete`
(`AllFolded`) and `FoldingKeepsMeaning` (`MeaningKept`). `FoldInv` says that the graph has its
types (`IsGraph`), that what waits and was not seen can be folded (`WorkIsReady`), that what was
seen has lost its operands (`SeenAreDone`), and that every used node that can be folded waits and was
not seen (`NothingIsForgotten`): the last is why no node is left over when the stack is empty,
although users are pushed only when an operand becomes a constant. That a fold keeps the
meaning is an induction on levels (`FoldedValues`): the new constant has at level 1 the value that
the folded node has at level 2, a value stays at the levels above (`ValuesStay`, since
operations are strict, `ApplyIsStrict`), and no other node sees a difference.

It proves of the peephole rules `RulesFindOperands` (`OperandsArePresent`). By itself that is not
inductive: if a node could be its own operand, replacing it by that operand and detaching
it would empty the slots of its users. `RulesInv` adds that the nodes have levels, higher than
those of their operands and 0 for constants (`Levels`); the rules only replace a node by one
that is no higher (`SubstituteKeepsLevels`), a new one can be given a level
(`AppendKeepsLevels`), and the chain rule puts a constant below an addition and the inner value below the
outer addition (`AddChainKeeps`).

`LivenessProofs` proves of the schedule that `recalc` computes, for every function that
could have been written: `OnlyUnusedAreLeftOut` (`LeftOut`) and `SchedulesAreLegal`
(`ScheduleIsLegal`). `SchedInv` says that a mapped node has all its users mapped, in regions
its own dominates (`UsersAreFirst`), that it lies below every place a legal
placement has for it (`MappedBelowPlaces`), that a sweep which mapped nothing yet has passed
over no node that is ready (`SweptInVain`), and that the lists hold the mapped nodes
with users in front (`ListsAreMapped`, `ListsAreOrdered`). Domination follows
from the second: the place of an operand dominates that of its user, and the operand is lifted to
the lowest region that dominates the users it has (`LiftedIsLowest`), so it is found on the way up and the
walk does not leave the tree. Nothing waits forever in a ring of users: the rank of a function decreases
from users to operands, so that a node left out by the last sweep leads to one without
users (`LeftOutLemma`).

It also proves `IntervalsHoldAllUses` (`IntervalsHoldUses`), for both calls and any linear order.
`IntervalInv` says that the regions on the line have their ranges one after the other
and the instructions of a region their numbers inside it (`NumbersAscend`), and of the instructions met so far,
those behind a position on the line, that their intervals hold them and their uses (`HoldsUses`). That
meeting an instruction moves the start of its interval loses no use: the uses met before have greater
numbers, since operands come first in a region (`MetHolds`), and everything after only widens
(`WidenedFacts`, `AroundLoopFacts`). `MetAllHolds` is the induction over a region.

On top of that, `IntervalsHoldAllLives` (`IntervalsHoldLives`): for both calls and any linear order of a tree
that is true, the interval of a value holds the range of each region that it is live
through. `LivesInv` says of the regions behind the position what must be in a live-in set (what is used in
the region, what a phi takes at its end, and what is live-in where it goes on the
line, `LivesHeld`), and that an interval reaches the start of a region with the value live-in and the end of
one that leaves with it; at the header of a loop, the end of all its blocks (`EntryHolds`, `ExitHolds`,
`LeavesFor`). The sets of the first call that the second finds only add, and
the number of a phi is the start of its region, or 0 before it is met (`PhisStartRegions`). In the end, by induction on the length of the
path along which a value is live (`EntryIsLive`, `LivesGoUp`), it is in the live-in set of
the region, or a loop around the region was entered with the value live. That is enough because a loop that lies in no
other is closed under predecessors, but for its header (`LoopIsClosed`, from `NestInv`), and the header comes before
the loop on the line (`LineLeads`). The functions are those the verifier takes (`Function.cpp:140`): a phi has as
many values as its region has inputs; without this a set could not name the value a
predecessor passes.

And `RecalcKeepsIntervals` (`RecalcIsStable`): on an order that `recalc` is made for, the second call leaves each
interval exactly as it was. Bounds on one side do not give this, so the round of a region is described exactly
(`RoundFacts`, from `MetAllExactly` and `AroundLoopExactly`): a value that the region defines starts at its number, another one
where it did or, live at the entry, where the region does; and an end is never later than some use, exit or
loop asks. The numbers and ranges are functions of the line and the schedule, so the second numbering finds those of the first
(`NumbersInv`). `StableInv` says of the first call (`FirstHeld`) that behind the position a live-in set
is what the region uses or passes forward on the line, that the ends satisfy all of it, and that a start is
the number of the value or the start of a region with the value live-in (`FirstRound`). The second call meets full maps at
its back edges, so its live-in sets are larger: by what is live at the header of the loop, and by nothing else
(`OutGrew`, from `LoopIsClosed`). At that header the first call gave the value an interval that holds all
blocks of the loop, so no end moves (`AroundFacts`); and starts, which the second call computes again
from the definition, find a region as early as the first did and none earlier (`SecondHeld`, `SecondRound`, `SameAgain`).

The proofs assume what the modules name: `NullAssumption`, `PinnedAssumption`,
`BoundsAssumption`, `NumRegsAssumption` (a machine without registers reads the
back of an empty deque), `ValuesAssumption`, `IntervalsAssumption`, `RegionsAssumption`
(finitely many regions, the start and the end among them), `NoRegionAssumption` (null is no region),
`GraphsAssumption`, `NumValuesAssumption`, `ProgramsAssumption` (the functions can be written),
`WidthAssumption`, `LiteralsAssumption`, `MaxOpsAssumption`, `AddressesAssumption` (addresses are the first
numbers, and finitely many) and `ModulesAssumption` (the modules are as `IsModule` says).

**Only model-checked.** `RulesKeepMeaning` of `Peephole` (that a rule keeps the meaning is arithmetic on
powers of 2, about which the provers know nothing), and of copy and inlining when a run stops (`StopsAreKnown`) and what is called after it
(`OneLevelIsGone`). `Inlined` has `RECURSIVE` operators, which the proof system cannot take, and termination and other liveness under fairness are outside what it handles.

## Plan

1. *Done*: def-use graph, walk, dominators, loops and linear order, allocator,
   constant folding, peephole rules, and the first proofs.
2. *Done*: schedule and liveness intervals, check elimination, copy and inlining,
   the verifier as a predicate on what inlining leaves.
3. *Done*: the proofs of the refinements of `RegAlloc` and `DefUse`, of the walk, the
   dominator tree, the nests of loops and the linear order, the schedule, the uses and the
   live values in intervals, the second call of `recalc`, check elimination, constant folding and the operands of the peephole rules, and the
   edges that copy and inlining leave.
4. Proofs left: `StopsAreKnown` and `OneLevelIsGone` of `Inlining`.

## Not modelled, and why

* Opcode tables, the instruction visitor, the module list, names and dumps: no
  state that a property could be about.
* `Node::removeOperand`: no caller.
* Types narrower than a constant in the rewrites: the code computes in 64 bits
  for every type and no document says what the extra bits mean.
* Phis in expressions: the passes treat them as opaque users and operands, as
  the return and the argument are.
* The verifier's checks of types and of builtin calls: types are not in the models.
* Inlining a callee that returns nothing: `getRetValue()` reads past the one slot of
  its ret, which is undefined.
* Functions whose end is entered by calls and by jmps or rets: `Flows` has either.
* The value that a `CallNode` returns as an operand of other nodes, in the schedule and in
  intervals: the nodes of `m_graph` that are placed are instructions and phis.
* The outcomes of the loop at `Inlining.hpp:68` other than the one described above: it advances an
  iterator whose element was erased, which is undefined.
* A machine without registers: the scan reads the back of an empty deque.
* Uses by terminators in intervals: no document says whether an interval reaches
  the terminator, and the code does not extend it.
* `recalc` of `Liveness` on an object that saw another function, or this one before
  it was edited: only the second call for an unchanged function is modelled.
* Memory exhaustion and exceptions of the standard library, other than the
  `at()` that `semiDominators` can really meet.

------------------------------ MODULE Inlining ------------------------------
(***************************************************************************)
(* Inlining::run (src/Optimizations/Inlining.hpp) and Function::copy and   *)
(* clean (src/Function.cpp, src/Function.hpp), on the nodes of functions   *)
(* that call each other.  A client runs them on functions in any order.    *)
(*                                                                         *)
(* What a node is, its kind and payload, is its label; types are left out, *)
(* a ret has a value, a call enters one region at most, as the code        *)
(* expects.  An address is not allocated twice: DefUse models its reuse.   *)
(***************************************************************************)
EXTENDS NodeGraph, SequencesExt

CONSTANTS
  Functions,  \* the functions of the module
  Programs    \* the modules, and what is run on them: see InlineInit

(* Addresses are numbers, allocated one after the other. *)
ASSUME AddressesAssumption == IsFiniteSet(Nodes) /\ Nodes = 1..Cardinality(Nodes)

VARIABLES
  graph,      \* m_operands and m_users of every node
  label,      \* the kind of a node, and of what: value, index or callee
  functions,  \* m_start, m_end, m_args and m_graph of each function
  script,     \* what the client will run on which function
  phase,      \* where the run is
  calls,      \* toInline: the calls that are left
  copy,       \* CalleeCopy
  slot,       \* i: the argument or the ret that is next
  ret,        \* RetRegion and RetValue
  given       \* the program at the beginning

inlineVars == <<graph, label, functions, script, phase, calls, copy, slot, ret, given>>

OwnedBy(f) == {f.start, f.end} \cup ToSet(f.nodes)

NoFunction == [start |-> Null, end |-> Null, args |-> <<>>, nodes |-> <<>>]

(* The nodes that a unique_ptr owns. *)
Live == (OwnedBy(copy) \ {Null}) \cup UNION {OwnedBy(functions[f]) : f \in Functions}

IsKind(n, kind) == label[n].kind = kind

Caller == script[1].on

Call == calls[1]

Callee == functions[label[Call].of]

(* Fresh addresses: a node is labelled once. *)
Fresh(k) == Cardinality(DOMAIN label) + k

Labelled(l, n, kind) == [m \in DOMAIN l \cup {n} |-> IF m = n THEN [kind |-> kind, of |-> 0] ELSE l[m]]

(* Bound: the addresses suffice for k nodes more. *)
HasRoom(k) == Fresh(k) \in Nodes

(* What of s is in S, as SelectSeq has it. *)
Only(s, S) ==
  LET kept[i \in 0..Len(s)] ==
        IF i = 0 THEN <<>>
        ELSE IF s[i] \in S THEN Append(kept[i - 1], s[i]) ELSE kept[i - 1]
  IN  kept[Len(s)]

-----------------------------------------------------------------------------
(* Node::replaceWith: every user's slot, one after the other. *)
ReplaceWith(h, n, m) ==
  [operands |-> [u \in Nodes |->
                   IF h.users[n][u] = 0 THEN h.operands[u]
                   ELSE [i \in DOMAIN h.operands[u] |->
                           IF h.operands[u][i] = n THEN m ELSE h.operands[u][i]]],
   users    |-> [d \in Nodes |->
                   IF d = n THEN NoUsers
                   ELSE IF d = m THEN [u \in Nodes |-> h.users[d][u] + h.users[n][u]]
                   ELSE h.users[d]]]

(* Node::detach: the slots are emptied, one after the other, then those of *)
(* the users.                                                              *)
Emptied(h, n) ==
  [operands |-> [h.operands EXCEPT ![n] = [i \in DOMAIN @ |-> Null]],
   users    |-> [d \in Nodes |-> [h.users[d] EXCEPT ![n] = @ - Uses(h, n, d)]]]

Detach(h, n) == ReplaceWith(Emptied(h, n), n, Null)

(* Fault: the end is not in VMap. *)
CanCopyInside(f) ==
  \A n \in OwnedBy(f) :
    UsersOf(graph, n) \cup ToSet(graph.operands[n]) \subseteq OwnedBy(f) \ {f.end}

(* Function::copy asserts that every operand and user is a node of f. *)
CanCopy(f) ==
  \A n \in OwnedBy(f) :
    UsersOf(graph, n) \cup ToSet(graph.operands[n]) \subseteq OwnedBy(f)

NodesOf(f) == <<f.start, f.end>> \o f.nodes

(* VMap: the clone of the i-th node has the i-th fresh address. *)
VMap(f, n) == Fresh(CHOOSE i \in DOMAIN NodesOf(f) : NodesOf(f)[i] = n)

Clones(f) == {Fresh(i) : i \in DOMAIN NodesOf(f)}

Original(f, c) == NodesOf(f)[c - Fresh(0)]

CloneEdges(f) ==
  [operands |-> [c \in Nodes |->
                   IF c \notin Clones(f) THEN graph.operands[c]
                   ELSE LET slots == graph.operands[Original(f, c)]
                        IN  [i \in DOMAIN slots |-> VMap(f, slots[i])]],
   users    |-> [c \in Nodes |->
                   IF c \notin Clones(f) THEN graph.users[c]
                   ELSE [u \in Nodes |-> IF u \notin Clones(f) THEN 0
                                         ELSE graph.users[Original(f, c)][Original(f, u)]]]]

-----------------------------------------------------------------------------
(* The nodes and functions that create() and the constructors build, with  *)
(* no slot left empty: each node has one owner, operands are of the same   *)
(* function, rets enter nothing but an end, and an end holds its inputs    *)
(* once each.                                                              *)
EndInputs == {"ret", "jmp", "ifTrue", "ifFalse"}

IsFormed(n, operands, l, arity) ==
  LET slots == operands[n]
  IN  /\ \A i \in DOMAIN slots : slots[i] # Null =>
           /\ l[slots[i]].kind # "end"
           /\ l[slots[i]].kind = "ret" => l[n].kind = "end"
           /\ l[n].kind = "end" => l[slots[i]].kind \in EndInputs
           /\ l[n].kind = "end" => \A j \in DOMAIN slots : slots[j] = slots[i] => j = i
      /\ l[n].kind = "ret" => Len(slots) = 2
      /\ l[n].kind = "call" => l[n].of \in Functions /\ Len(slots) = arity[l[n].of] + 1

(* The nodes that f has, each in its place, and their kinds. *)
IsFrame(f, l) ==
  /\ f.start # f.end /\ {f.start, f.end} \cap ToSet(f.nodes) = {} /\ IsInjective(f.nodes)
  /\ l[f.start].kind = "start" /\ l[f.end].kind = "end"
  /\ \A n \in ToSet(f.nodes) : l[n].kind \notin {"start", "end"} /\ (l[n].kind = "arg" => n \in ToSet(f.args))
  /\ \A n \in ToSet(f.args) : n \in ToSet(f.nodes) /\ l[n].kind = "arg"

Frames(S) == [start : S, end : S, args : Seq(S), nodes : Seq(S)]

ArityOf(fs) == [f \in Functions |-> Len(fs[f].args)]

IsModule(p) ==
  LET created == DOMAIN p.label
      Frame(f) == p.functions[f]
  IN  /\ created \subseteq Nodes /\ IsFiniteSet(created) /\ created = 1..Cardinality(created)
      /\ p.operands \in [created -> Seq(created)]
      /\ p.functions \in [Functions -> Frames(created)]
      /\ p.script \in Seq([run : {"inline", "clean"}, on : Functions])
      /\ \A f \in Functions :
           /\ IsFrame(Frame(f), p.label)
           /\ \A h \in Functions \ {f} : OwnedBy(Frame(f)) \cap OwnedBy(Frame(h)) = {}
           /\ \A n \in OwnedBy(Frame(f)) :
                ToSet(p.operands[n]) \subseteq OwnedBy(Frame(f)) /\ IsFormed(n, p.operands, p.label, ArityOf(p.functions))

ASSUME ModulesAssumption == \A p \in Programs : IsModule(p)

(* Edges as registered by setOperand, for nodes that are there. *)
EdgesOf(operands) ==
  LET SlotsAt(n) == IF n \in DOMAIN operands THEN operands[n] ELSE <<>>
  IN  [operands |-> [n \in Nodes |-> SlotsAt(n)],
       users    |-> [d \in Nodes |-> [u \in Nodes |-> Cardinality(Slots(SlotsAt(u), d))]]]

InlineInit ==
  /\ given \in Programs
  /\ graph = EdgesOf(given.operands)
  /\ label = given.label
  /\ functions = given.functions
  /\ script = given.script
  /\ phase = "ready"
  /\ calls = <<>>
  /\ copy = NoFunction
  /\ slot = 1
  /\ ret = [region |-> Null, value |-> Null]

Ready(run) == phase = "ready" /\ script # <<>> /\ script[1].run = run

(* Function::clean *)
CleanFunction ==
  /\ Ready("clean")
  /\ LET freed == {n \in ToSet(functions[Caller].nodes) : ~IsKind(n, "arg") /\ UsersOf(graph, n) = {}}
     IN  /\ graph' = Destroy(graph, freed)
         /\ functions' = [functions EXCEPT ![Caller].nodes = Only(@, ToSet(@) \ freed)]
  /\ script' = Tail(script)
  /\ UNCHANGED <<label, phase, calls, copy, slot, ret, given>>

(* _getCandidates *)
StartInlining ==
  /\ Ready("inline")
  /\ calls' = Only(functions[Caller].nodes, {n \in Live : IsKind(n, "call")})
  /\ phase' = "calls"
  /\ UNCHANGED <<graph, label, functions, script, copy, slot, ret, given>>

CopyCallee ==
  /\ phase = "calls" /\ calls # <<>>
  /\ CanCopy(Callee)
  /\ HasRoom(Len(NodesOf(Callee)))
  /\ graph' = CloneEdges(Callee)
  /\ label' = [c \in DOMAIN label \cup Clones(Callee) |->
                 IF c \in DOMAIN label THEN label[c] ELSE label[Original(Callee, c)]]
  /\ copy' = [start |-> VMap(Callee, Callee.start),
              end   |-> VMap(Callee, Callee.end),
              args  |-> [i \in DOMAIN Callee.args |-> VMap(Callee, Callee.args[i])],
              nodes |-> [i \in DOMAIN Callee.nodes |-> VMap(Callee, Callee.nodes[i])]]
  /\ slot' = 1
  /\ phase' = "args"
  /\ UNCHANGED <<functions, script, calls, ret, given>>

(* The call's value takes the place of the argument: nullptr if the call   *)
(* was inlined by an earlier run, and still is in m_graph.                 *)
ReplaceArg ==
  /\ phase = "args" /\ slot <= Len(copy.args)
  /\ graph' = ReplaceWith(graph, copy.args[slot], graph.operands[Call][slot])
  /\ slot' = slot + 1
  /\ UNCHANGED <<label, functions, script, phase, calls, copy, ret, given>>

Rets == graph.operands[copy.end]

Added(f, n) == [functions EXCEPT ![f].nodes = @ \o <<n>>]

(* RetRegion, and RetValue with a slot for each ret. *)
CreateRet ==
  /\ phase = "args" /\ slot > Len(copy.args)
  /\ HasRoom(2)
  /\ ret' = [region |-> Fresh(1), value |-> Fresh(2)]
  /\ label' = Labelled(Labelled(label, Fresh(1), "region"), Fresh(2), "phi")
  /\ graph' = Construct(Construct(graph, Fresh(1), <<>>), Fresh(2),
                    <<Fresh(1)>> \o [i \in DOMAIN Rets |-> Null])
  /\ functions' = [functions EXCEPT ![Caller].nodes = @ \o <<Fresh(1), Fresh(2)>>]
  /\ slot' = 1
  /\ phase' = "rets"
  /\ UNCHANGED <<script, calls, copy, given>>

(* Fault: the values are stored from the last slot on. *)
SlotFromLast(i) == Len(Rets) - i + 2

SlotOf(i) == i + 1

(* Fault: addCFInput is forgotten. *)
NotJoined(h, jmp) == h

Joined(h, jmp) == AddOperand(h, ret.region, jmp)

(* One round of the loop over the rets: its value goes to RetValue, a jmp  *)
(* from its region to RetRegion.                                           *)
ConvertRet ==
  /\ phase = "rets" /\ slot <= Len(Rets)
  /\ IsKind(Rets[slot], "ret")
  /\ HasRoom(1)
  /\ LET old    == Rets[slot]
         jmp    == Fresh(1)
         valued == SetOperand(graph, ret.value, SlotOf(slot), graph.operands[old][2])
         left   == Construct(valued, jmp, <<graph.operands[old][1]>>)
     IN  graph' = Detach(Joined(left, jmp), old)
  /\ label' = Labelled(label, Fresh(1), "jmp")
  /\ functions' = Added(Caller, Fresh(1))
  /\ slot' = slot + 1
  /\ UNCHANGED <<script, phase, calls, copy, ret, given>>

Continuations == {u \in UsersOf(graph, Call) : u \in Live /\ IsKind(u, "region")}

(* The first slot of the region that holds the call.  setOperand erases    *)
(* the user the range-for stands on; the emplace that follows is given the *)
(* freed element, whose next is null in a new multiset: the loop ends.     *)
FinalJmp ==
  /\ phase = "rets" /\ slot > Len(Rets)
  /\ UsersOf(graph, Call) \subseteq Live
  /\ HasRoom(1)
  /\ \E u \in Continuations :
       LET i == Min(SlotsOf(graph, u, Call))
       IN  graph' = SetOperand(Construct(graph, Fresh(1), <<ret.region>>), u, i, Fresh(1))
  /\ label' = Labelled(label, Fresh(1), "jmp")
  /\ functions' = Added(Caller, Fresh(1))
  /\ phase' = "call"
  /\ UNCHANGED <<script, calls, copy, slot, ret, given>>

ReplaceCall ==
  /\ phase = "call"
  /\ graph' = ReplaceWith(graph, Call, ret.value)
  /\ phase' = "move"
  /\ UNCHANGED <<label, functions, script, calls, copy, slot, ret, given>>

CVInput == Last(graph.operands[Call])

Moved(n) == ~IsKind(n, "ret") /\ ~IsKind(n, "arg")

(* Faults: the start, the call is forgotten. *)
StartKept(h) == h

CallKept(h) == h

StartReplaced(h) == ReplaceWith(h, copy.start, CVInput)

CallDetached(h) == Detach(h, Call)

(* What is entered from the start is entered from the call's region; the   *)
(* nodes are moved, the call is detached, and the copy is destroyed with   *)
(* its start, end, arguments and rets.                                     *)
MoveNodes ==
  /\ phase = "move"
  /\ LET moved == Only(copy.nodes, {n \in Live : Moved(n)})
     IN  /\ functions' = [functions EXCEPT ![Caller].nodes = @ \o moved]
         /\ graph' = Destroy(CallDetached(StartReplaced(graph)),
                         OwnedBy(copy) \ ToSet(moved))
  /\ copy' = NoFunction
  /\ calls' = Tail(calls)
  /\ ret' = [region |-> Null, value |-> Null]
  /\ slot' = 1
  /\ phase' = "calls"
  /\ UNCHANGED <<label, script, given>>

InliningDone ==
  /\ phase = "calls" /\ calls = <<>>
  /\ script' = Tail(script)
  /\ phase' = "ready"
  /\ UNCHANGED <<graph, label, functions, calls, copy, slot, ret, given>>

(* The assertions of copy, on the ret and on done. *)
AssertionFails ==
  \/ phase = "calls" /\ calls # <<>> /\ ~CanCopy(Callee)
  \/ phase = "rets" /\ slot <= Len(Rets) /\ ~IsKind(Rets[slot], "ret")
  \/ phase = "rets" /\ slot > Len(Rets) /\ UsersOf(graph, Call) \subseteq Live /\ Continuations = {}

(* A user that clean() freed is read. *)
ReadsFreed == phase = "rets" /\ slot > Len(Rets) /\ ~(UsersOf(graph, Call) \subseteq Live)

Stop ==
  /\ AssertionFails \/ ReadsFreed
  /\ phase' = IF AssertionFails THEN "aborted" ELSE "undefined"
  /\ UNCHANGED <<graph, label, functions, script, calls, copy, slot, ret, given>>

Stopped ==
  /\ phase \in {"aborted", "undefined"} \/ (phase = "ready" /\ script = <<>>)
  /\ UNCHANGED inlineVars

InlineNext ==
  \/ CleanFunction \/ StartInlining \/ InliningDone
  \/ CopyCallee \/ ReplaceArg \/ CreateRet \/ ConvertRet
  \/ FinalJmp \/ ReplaceCall \/ MoveNodes
  \/ Stop \/ Stopped

InlineSpec == InlineInit /\ [][InlineNext]_inlineVars

-----------------------------------------------------------------------------
(* Whatever of a copy is moved or destroyed, the nodes that stay refer to  *)
(* nothing that is gone, and two of them agree on the edges between them.  *)
EdgesAgree ==
  \A n \in Live :
    /\ ToSet(graph.operands[n]) \subseteq Live \cup {Null}
    /\ \A d \in Live : graph.users[d][n] = Uses(graph, n, d)

Past == 1..(Len(given.script) - Len(script))

(* f was inlined into, and not cleaned since then. *)
HoldsDetachedCalls(f) ==
  \E i \in Past :
    /\ given.script[i] = [run |-> "inline", on |-> f]
    /\ \A j \in i..Len(given.script) : j \in Past => given.script[j] # [run |-> "clean", on |-> f]

(* clean() freed a node that is still a user of one of f. *)
HoldsFreedUsers(f) == \E n \in OwnedBy(functions[f]) : ~(UsersOf(graph, n) \subseteq Live)

CalledOf(c) == label[c].of

(* A run stops only on what came before it: the detached calls an earlier  *)
(* run left in the caller or the callee, or this one in a function that    *)
(* calls itself; users that clean() freed; an end entered by a jmp; a call *)
(* that goes on nowhere.                                                   *)
StopsAreKnown ==
  phase \in {"aborted", "undefined"} =>
    \/ HoldsDetachedCalls(Caller) \/ HoldsDetachedCalls(CalledOf(Call))
    \/ CalledOf(Call) = Caller
    \/ HoldsFreedUsers(Caller) \/ HoldsFreedUsers(CalledOf(Call))
    \/ \E r \in ToSet(given.operands[Callee.end]) : given.label[r].kind # "ret"
    \/ \A u \in DOMAIN given.operands :
         given.label[u].kind = "region" => Call \notin ToSet(given.operands[u])

(* The calls of f that are not detached. *)
CallsIn(nodes, l, operands) ==
  {l[n].of : n \in {m \in ToSet(nodes) : l[m].kind = "call" /\ Null \notin ToSet(operands[m])}}

GivenCalls(f) == CallsIn(given.functions[f].nodes, given.label, given.operands)

(* One level is inlined: after the first run the caller calls what its     *)
(* callees call, and nothing else.                                         *)
OneLevelIsGone ==
  phase = "ready" /\ Past = {1} /\ given.script[1].run = "inline" =>
    LET f == given.script[1].on
    IN  CallsIn(functions[f].nodes, label, graph.operands) = UNION {GivenCalls(c) : c \in GivenCalls(f)}
=============================================================================

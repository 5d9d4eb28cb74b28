------------------------------- MODULE DefUse -------------------------------
(***************************************************************************)
(* The nodes of one Function and the calls that edit them                  *)
(* (src/Node.hpp, class Node; src/Function.hpp, create and clean).         *)
(*                                                                         *)
(* The program is sequential.  A call that edits one node is one action;   *)
(* detach and replaceWith loop over slots and users, and each round of     *)
(* their loops is an action of the running call, which picks its user the  *)
(* way the code does: *users().begin() of an unordered multiset.           *)
(*                                                                         *)
(* `live` is the set of nodes that m_graph, m_start and m_end own.  A node *)
(* that clean() frees leaves `live`; its address may be allocated again.   *)
(***************************************************************************)
EXTENDS NodeGraph

CONSTANTS
  Pinned,       \* the start, the end and the arguments: never freed
  MaxOperands,  \* bound: slots of a node
  MaxUses       \* bound: occurrences a new node may inherit in a multiset

ASSUME PinnedAssumption == Pinned \subseteq Nodes

ASSUME BoundsAssumption == MaxOperands \in Nat /\ MaxUses \in Nat

VARIABLES
  live,  \* the nodes that exist
  g,     \* m_operands and m_users of every node
  call   \* the looping call in progress

vars == <<live, g, call>>

Phases == {"idle", "drop", "replace", "aborted"}

Calls == [phase : Phases, this : NodeOrNull, to : NodeOrNull, slot : Nat]

NoCall == [phase |-> "idle", this |-> Null, to |-> Null, slot |-> 1]

Idle == call.phase = "idle"

LiveOrNull == live \cup {Null}

OperandLists == UNION {[1..k -> NodeOrNull] : k \in 0..MaxOperands}

-----------------------------------------------------------------------------
(* Function::Function: the start, the end and the arguments, no edges. *)
Init ==
  /\ live = Pinned
  /\ g = [operands |-> [n \in Nodes |-> <<>>], users |-> [d \in Nodes |-> NoUsers]]
  /\ call = NoCall

(* Function::create, or addNode with a node of another function: allocates *)
(* an address that is free and runs the constructor on existing nodes.     *)
Create(n, ops) ==
  /\ Idle
  /\ n \notin live
  /\ \A i \in DOMAIN ops : ops[i] \in LiveOrNull
  /\ \A d \in live : g.users[d][n] <= MaxUses
  /\ live' = live \cup {n}
  /\ g' = Construct(g, n, ops)
  /\ UNCHANGED call

CallSetOperand(n, i, d) ==
  /\ Idle
  /\ n \in live
  /\ i \in DOMAIN g.operands[n]
  /\ d \in LiveOrNull
  /\ g' = SetOperand(g, n, i, d)
  /\ UNCHANGED <<live, call>>

CallAddOperand(n, d) ==
  /\ Idle
  /\ n \in live
  /\ Len(g.operands[n]) < MaxOperands
  /\ d \in LiveOrNull
  /\ g' = AddOperand(g, n, d)
  /\ UNCHANGED <<live, call>>

CallSwapOperands(n, i, j) ==
  /\ Idle
  /\ n \in live
  /\ {i, j} \subseteq DOMAIN g.operands[n]
  /\ g' = SwapOperands(g, n, i, j)
  /\ UNCHANGED <<live, call>>

(* Fault: a node replaced with itself. *)
BeginReplaceAny(n, m) ==
  /\ Idle
  /\ n \in live
  /\ m \in LiveOrNull
  /\ call' = [phase |-> "replace", this |-> n, to |-> m, slot |-> 1]
  /\ UNCHANGED <<live, g>>

(* replaceWith(m) called on n; no caller passes n itself, with which the   *)
(* loop would not end.                                                     *)
BeginReplace(n, m) ==
  /\ Idle
  /\ n \in live
  /\ m \in LiveOrNull \ {n}
  /\ call' = [phase |-> "replace", this |-> n, to |-> m, slot |-> 1]
  /\ UNCHANGED <<live, g>>

BeginDetach(n) ==
  /\ Idle
  /\ n \in live
  /\ call' = [phase |-> "drop", this |-> n, to |-> Null, slot |-> 1]
  /\ UNCHANGED <<live, g>>

-----------------------------------------------------------------------------
(* The rounds of detach() and replaceWith().                               *)

DropSlot ==
  /\ call.phase = "drop"
  /\ call.slot \in DOMAIN g.operands[call.this]
  /\ g' = SetOperand(g, call.this, call.slot, Null)
  /\ call' = [call EXCEPT !.slot = @ + 1]
  /\ UNCHANGED live

(* Fault: detach() forgets its users. *)
DropReturns ==
  /\ call.phase = "drop"
  /\ call.slot \notin DOMAIN g.operands[call.this]
  /\ call' = NoCall
  /\ UNCHANGED <<live, g>>

(* No slot is left: detach() goes on as replaceWith(nullptr). *)
DropDone ==
  /\ call.phase = "drop"
  /\ call.slot \notin DOMAIN g.operands[call.this]
  /\ call' = [call EXCEPT !.phase = "replace"]
  /\ UNCHANGED <<live, g>>

(* std::find_if: the first slot of u that holds d. *)
FirstSlot(u, d) ==
  {i \in SlotsOf(g, u, d) : \A j \in SlotsOf(g, u, d) : i <= j}

ReplaceStep(u) ==
  /\ call.phase = "replace"
  /\ u \in UsersOf(g, call.this)
  /\ u \in live
  /\ \E i \in FirstSlot(u, call.this) : g' = SetOperand(g, u, i, call.to)
  /\ UNCHANGED <<live, call>>

(* The user is freed storage, or a node with no such slot: the assertion   *)
(* fails, and without assertions the position past the last slot makes     *)
(* m_operands.at throw.                                                    *)
ReplaceAbort(u) ==
  /\ call.phase = "replace"
  /\ u \in UsersOf(g, call.this)
  /\ u \notin live \/ SlotsOf(g, u, call.this) = {}
  /\ call' = [call EXCEPT !.phase = "aborted"]
  /\ UNCHANGED <<live, g>>

ReplaceDone ==
  /\ call.phase = "replace"
  /\ UsersOf(g, call.this) = {}
  /\ call' = NoCall
  /\ UNCHANGED <<live, g>>

-----------------------------------------------------------------------------
(* Function::clean: one sweep over m_graph frees every node without users. *)
(* Fault: clean frees the nodes without inputs. *)
WithoutInputs == {n \in live \ Pinned : Detached(g, n)}

Unused == {n \in live \ Pinned : UsersOf(g, n) = {}}

Clean ==
  /\ Idle
  /\ Unused # {}
  /\ live' = live \ Unused
  /\ g' = Destroy(g, Unused)
  /\ UNCHANGED call

Edit ==
  \/ \E n \in Nodes, ops \in OperandLists : Create(n, ops)
  \/ \E n \in Nodes, i \in 1..MaxOperands, d \in NodeOrNull : CallSetOperand(n, i, d)
  \/ \E n \in Nodes, d \in NodeOrNull : CallAddOperand(n, d)
  \/ \E n \in Nodes, i, j \in 1..MaxOperands : CallSwapOperands(n, i, j)
  \/ \E n \in Nodes, m \in NodeOrNull : BeginReplace(n, m)
  \/ \E n \in Nodes : BeginDetach(n)

Round ==
  \/ DropSlot
  \/ DropDone
  \/ \E u \in Nodes : ReplaceStep(u)
  \/ \E u \in Nodes : ReplaceAbort(u)
  \/ ReplaceDone

Next == Edit \/ Round \/ Clean

Spec == Init /\ [][Next]_vars

(* A client that calls detach() on the nodes it drops before clean().      *)
TidyNext == Edit \/ Round \/ (Clean /\ \A n \in Unused : Detached(g, n))

(* The rounds of a call follow each other until it returns.                *)
TidySpec == Init /\ [][TidyNext]_vars /\ WF_vars(Round)

-----------------------------------------------------------------------------
TypeOK ==
  /\ live \subseteq Nodes
  /\ g \in Graph
  /\ call \in Calls

(* Every slot of an existing node holds an existing node or nullptr:       *)
(* clean() never frees what an operand still points to.                    *)
OperandsAreLive == \A n \in live : \A i \in DOMAIN g.operands[n] : g.operands[n][i] \in LiveOrNull

(* Every slot that holds d has its own occurrence in d's multiset: the     *)
(* find() in setOperand never misses and replaceWith reaches every slot.   *)
UsesAreRegistered == \A n, d \in live : Uses(g, n, d) <= g.users[d][n]

(* The calls that loop work on nodes that exist.                           *)
CallIsLive == ~Idle => call.this \in live /\ call.to \in LiveOrNull

(* Under a tidy client the two directions of an edge agree exactly: no     *)
(* multiset keeps an occurrence of a node that does not hold the node.     *)
UsersAreExact == \A d \in live, n \in Nodes :
  g.users[d][n] = IF n \in live THEN Uses(g, n, d) ELSE 0

(* The assertion of replaceWith: the user it picks has a slot to replace.  *)
ReplaceFindsSlot == call.phase # "aborted"

(* detach() and replaceWith() return.                                      *)
CallsReturn == ~Idle ~> Idle

(* The graph as the client of a call in progress will find it: every slot  *)
(* that still holds the node being replaced, or still is to be dropped.    *)
Inputs == [n \in Nodes |-> [i \in DOMAIN g.operands[n] |->
  IF call.phase = "drop" /\ n = call.this THEN Null
  ELSE IF g.operands[n][i] = call.this THEN call.to
  ELSE g.operands[n][i]]]

Values == INSTANCE ValueGraph WITH inputs <- Inputs

(* The rounds of a call add up to one replacement, whatever users they     *)
(* meet and in which order, and clean() takes only values nobody uses.     *)
ValuesSpec == Values!Spec
=============================================================================

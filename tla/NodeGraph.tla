------------------------------ MODULE NodeGraph ------------------------------
(***************************************************************************)
(* The sea-of-nodes graph as a value (src/Node.hpp, class Node).           *)
(*                                                                         *)
(* A node keeps its inputs in m_operands, a vector whose slots may be      *)
(* empty (nullptr), and its outputs in m_users, an unordered multiset with *)
(* one occurrence of u for every slot of u that holds the node.  The two   *)
(* are redundant: every operator below changes both, in the order the      *)
(* method it is named for does.                                            *)
(*                                                                         *)
(* A graph is a record: operands[n] is the sequence of n's slots and       *)
(* users[d][u] the number of occurrences of u in d's multiset.             *)
(***************************************************************************)
EXTENDS Naturals, Sequences, FiniteSets

CONSTANTS
  Nodes,  \* the addresses nodes are allocated at
  Null    \* nullptr, an empty slot

ASSUME NullAssumption == Null \notin Nodes

NodeOrNull == Nodes \cup {Null}

Graph == [operands : [Nodes -> Seq(NodeOrNull)], users : [Nodes -> [Nodes -> Nat]]]

(* The slots of n that hold d, and how many there are. *)
Slots(ops, d) == {i \in DOMAIN ops : ops[i] = d}

SlotsOf(g, n, d) == Slots(g.operands[n], d)

Uses(g, n, d) == Cardinality(SlotsOf(g, n, d))

NoUsers == [u \in Nodes |-> 0]

UsersOf(g, d) == {u \in Nodes : g.users[d][u] > 0}

Detached(g, n) == \A i \in DOMAIN g.operands[n] : g.operands[n][i] = Null

(* m_users.emplace(u) on d and m_users.erase(m_users.find(u)) on d; both   *)
(* are skipped when d is nullptr.                                          *)
Emplace(users, d, u) == IF d = Null THEN users ELSE [users EXCEPT ![d][u] = @ + 1]

(* Fault: m_users.erase(u), which erases every occurrence of u.            *)
EraseEvery(users, d, u) == IF d = Null THEN users ELSE [users EXCEPT ![d][u] = 0]

Erase(users, d, u) == IF d = Null THEN users ELSE [users EXCEPT ![d][u] = @ - 1]

(* Node::setOperand: leave the previous operand, join the new one, store. *)
SetOperand(g, n, i, d) ==
  [operands |-> [g.operands EXCEPT ![n][i] = d],
   users    |-> Emplace(Erase(g.users, g.operands[n][i], n), d, n)]

(* Node::swapOperands exchanges two slots and touches no multiset. *)
SwapOperands(g, n, i, j) ==
  [operands |-> [g.operands EXCEPT ![n][i] = g.operands[n][j], ![n][j] = g.operands[n][i]],
   users    |-> g.users]

(* Fault: the usage of the new operand is not registered. *)
AddOperandSilently(g, n, d) ==
  [operands |-> [g.operands EXCEPT ![n] = Append(@, d)],
   users    |-> g.users]

(* Node::addOperand, reached through addCFInput of a region or the end. *)
AddOperand(g, n, d) ==
  [operands |-> [g.operands EXCEPT ![n] = Append(@, d)],
   users    |-> Emplace(g.users, d, n)]

(* Fault: the constructor registers each operand twice. *)
ConstructTwice(g, n, ops) ==
  [operands |-> [g.operands EXCEPT ![n] = ops],
   users    |-> [d \in Nodes |->
                   IF d = n THEN NoUsers
                   ELSE [g.users[d] EXCEPT ![n] = @ + 2 * Cardinality(Slots(ops, d))]]]

(* A constructor: nobody uses the new node n, whose slots are filled with  *)
(* ops by one setOperand each, on a vector of nullptr.                     *)
Construct(g, n, ops) ==
  [operands |-> [g.operands EXCEPT ![n] = ops],
   users    |-> [d \in Nodes |->
                   IF d = n THEN NoUsers
                   ELSE [g.users[d] EXCEPT ![n] = @ + Cardinality(Slots(ops, d))]]]

(* ~Node runs for the nodes of S: their storage is gone.  The destructor   *)
(* is defaulted: it leaves the multisets of their operands as they are.    *)
Destroy(g, S) ==
  [operands |-> [n \in Nodes |-> IF n \in S THEN <<>> ELSE g.operands[n]],
   users    |-> [d \in Nodes |-> IF d \in S THEN NoUsers ELSE g.users[d]]]
=============================================================================

---------------------------- MODULE Expressions ----------------------------
(***************************************************************************)
(* Expressions a client builds and the passes rewrite (src/Node.hpp,       *)
(* ConstantNode and BinOpNode; src/Function.hpp, create).                  *)
(*                                                                         *)
(* g is m_graph with the node of a return in front: a node has an opcode,  *)
(* a constant if it is one, and the nodes in its slots, 0 for nullptr.     *)
(* Users are read off the slots: nothing here calls clean(), and without   *)
(* it m_users has one occurrence for every slot (UsersAreExact of DefUse). *)
(* replaceWith and detach are single steps, as ValueGraph has them.        *)
(*                                                                         *)
(* All nodes have one type, as wide as the storage of a constant.          *)
(***************************************************************************)
EXTENDS Naturals, SequencesExt

CONSTANTS
  Width,     \* the bits of a constant: 64 in the code
  Literals,  \* the constants the client creates, in this order
  MaxOps     \* bound: the operations the client creates

ASSUME WidthAssumption == Width \in Nat \ {0}

Words == 0..(2^Width - 1)

ASSUME LiteralsAssumption == Literals \in Seq(Words)

ASSUME MaxOpsAssumption == MaxOps \in Nat

(* A shift by Width or more: the IR gives it no value, C++ no meaning.     *)
Undefined == 2^Width

Ops == {"Add", "Shl", "Xor"}

VARIABLES
  g,     \* the nodes
  pass,  \* "build" while the client builds, then what the pass is doing
  work   \* the pass's work stack, its top at the end

Ret == 1

-----------------------------------------------------------------------------
Nodes == DOMAIN g

Is(n, op) == n # 0 /\ g[n].op = op
IsConstant(n) == Is(n, "Constant")
Lhs(n) == g[n].in[1]
Rhs(n) == g[n].in[2]

(* The nodes of S in the order of m_graph. *)
Ascending(S) ==
  CHOOSE s \in SetToSeqs(S) : \A i, j \in DOMAIN s : i < j => s[i] < s[j]

Constant(v) == [op |-> "Constant", val |-> v, in |-> <<>>]
BinOp(op, a, b) == [op |-> op, val |-> 0, in |-> <<a, b>>]

(* The occurrences in m_users of n. *)
Uses(h, n) ==
  {e \in (DOMAIN h) \X {1, 2} : e[2] \in DOMAIN h[e[1]].in /\ h[e[1]].in[e[2]] = n}

UsersCount(n) == Cardinality(Uses(g, n))

ReplaceWith(h, n, m) ==
  [u \in DOMAIN h |-> [h[u] EXCEPT !.in = [i \in DOMAIN @ |-> IF @[i] = n THEN m ELSE @[i]]]]

Detach(h, n) == ReplaceWith([h EXCEPT ![n].in = [i \in DOMAIN @ |-> 0]], n, 0)

Substitute(h, n, m) == Detach(ReplaceWith(h, n, m), n)

-----------------------------------------------------------------------------
Bit(a, k) == (a \div 2^k) % 2

Xor(a, b) ==
  CHOOSE c \in Words : \A k \in 0..(Width - 1) : Bit(c, k) = (Bit(a, k) + Bit(b, k)) % 2

Apply(op, a, b) ==
  IF Undefined \in {a, b} THEN Undefined
  ELSE CASE op = "Add" -> (a + b) % 2^Width
         [] op = "Xor" -> Xor(a, b)
         [] op = "Shl" -> IF b < Width THEN (a * 2^b) % 2^Width ELSE Undefined

(* The value of n, from those of its operands. *)
ValueOf(h, x, n, val) ==
  CASE h[n].op = "Argument" -> x
    [] h[n].op = "Constant" -> h[n].val
    [] OTHER -> Apply(h[n].op, val[h[n].in[1]], val[h[n].in[2]])

(* What h returns for the argument x.  It has no cycle, so that as many    *)
(* levels as nodes are enough.                                             *)
Meaning(h, x) ==
  LET val[d \in Nat] == [n \in 0..Len(h) |->
        IF d = 0 \/ n = 0 THEN Undefined ELSE ValueOf(h, x, n, val[d - 1])]
  IN  val[Len(h)][h[Ret].in[1]]

-----------------------------------------------------------------------------
(* The function of one argument that returns it, and the literals.         *)
InitGraph ==
  /\ g = <<[op |-> "Ret", val |-> 0, in |-> <<2>>], [op |-> "Argument", val |-> 0, in |-> <<>>]>>
           \o [i \in DOMAIN Literals |-> Constant(Literals[i])]
  /\ work = <<>>
  /\ pass = "build"

(* The client creates an operation on nodes it has and returns its result. *)
Build(op, a, b) ==
  /\ pass = "build"
  /\ Len(g) < 2 + Len(Literals) + MaxOps
  /\ g' = [Append(g, BinOp(op, a, b)) EXCEPT ![Ret].in = <<Len(g) + 1>>]
  /\ UNCHANGED <<pass, work>>

Building == \E op \in Ops, a, b \in Nodes \ {Ret} : Build(op, a, b)

(* Where a graph has a value, the rewritten graph has the same.            *)
SameMeaning(h) == \A x \in Words : Meaning(g, x) # Undefined => Meaning(h, x) = Meaning(g, x)
=============================================================================

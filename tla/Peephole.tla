------------------------------ MODULE Peephole ------------------------------
(***************************************************************************)
(* Peephole::run (src/Optimizations/Peephole.hpp) on an expression: one    *)
(* action per rule of the work loop.                                       *)
(***************************************************************************)
EXTENDS Expressions

peepholeVars == <<g, pass, work>>

PeepholeInit == InitGraph

-----------------------------------------------------------------------------
Commutes(op) == op \in {"Add", "Xor"}

ConstantFirst(n) ==
  /\ Commutes(g[n].op)
  /\ UsersCount(n) > 0
  /\ IsConstant(Lhs(n)) /\ ~IsConstant(Rhs(n))

(* _canonicalize, whose rounds do not affect each other, and the initial   *)
(* work list.                                                              *)
PeepholeStart ==
  /\ pass = "build"
  /\ pass' = "work"
  /\ g' = [n \in Nodes |-> IF ConstantFirst(n) THEN [g[n] EXCEPT !.in = <<@[2], @[1]>>] ELSE g[n]]
  /\ work' = Ascending({n \in Nodes : g[n].op \in Ops})

-----------------------------------------------------------------------------
Top == Last(work)

Working == pass = "work" /\ work # <<>>

(* Fault: nodes without users are not passed over. *)
Always(n) == TRUE

Used(n) == UsersCount(n) > 0

At(op) == Working /\ Used(Top) /\ Is(Top, op)

(* The rule leaves the graph h. *)
Rewrite(h) ==
  /\ g' = h
  /\ work' = Front(work)
  /\ UNCHANGED pass

Twice(n) == Lhs(n) = Rhs(n)

ZeroRight(n) == IsConstant(Rhs(n)) /\ g[Rhs(n)].val = 0

(* Add V, 0 *)
AddZero == At("Add") /\ ZeroRight(Top) /\ Rewrite(Substitute(g, Top, Lhs(Top)))

(* Fault: the inner addition may have other users. *)
Shared(n) == TRUE

Private(n) == UsersCount(n) <= 1

ChainOfConstants(n) ==
  /\ Is(Lhs(n), "Add") /\ IsConstant(Rhs(n))
  /\ Private(Lhs(n))
  /\ ~IsConstant(Lhs(Lhs(n))) /\ IsConstant(Rhs(Lhs(n)))

(* (V + C1) + C2 becomes (C2 + C1) + V, in the nodes there are. *)
AddChain ==
  /\ At("Add") /\ ~ZeroRight(Top) /\ ChainOfConstants(Top)
  /\ Rewrite([g EXCEPT ![Lhs(Top)].in[1] = Rhs(Top), ![Top].in[2] = Lhs(Lhs(Top))])

(* Add V, V becomes Shl V, 1, with two new nodes. *)
AddTwice ==
  /\ At("Add") /\ ~ZeroRight(Top) /\ Twice(Top)
  /\ Rewrite(Substitute(g \o <<Constant(1), BinOp("Shl", Lhs(Top), Len(g) + 1)>>,
                         Top, Len(g) + 2))

AddNone ==
  /\ At("Add") /\ ~ZeroRight(Top) /\ ~Twice(Top) /\ ~ChainOfConstants(Top)
  /\ Rewrite(g)

(* Shl V, 0 *)
ShlZero == At("Shl") /\ ZeroRight(Top) /\ Rewrite(Substitute(g, Top, Lhs(Top)))

ShlNone == At("Shl") /\ ~ZeroRight(Top) /\ Rewrite(g)

(* Xor V, V *)
XorSame ==
  /\ At("Xor") /\ Twice(Top)
  /\ Rewrite(Substitute(Append(g, Constant(0)), Top, Len(g) + 1))

(* Xor V, 0 *)
XorZero ==
  /\ At("Xor") /\ ~Twice(Top) /\ ZeroRight(Top)
  /\ Rewrite(Substitute(g, Top, Lhs(Top)))

XorNone == At("Xor") /\ ~Twice(Top) /\ ~ZeroRight(Top) /\ Rewrite(g)

SkipUnused ==
  /\ Working /\ ~Used(Top)
  /\ work' = Front(work)
  /\ UNCHANGED <<g, pass>>

Rule == AddZero \/ AddChain \/ AddTwice \/ AddNone \/ ShlZero \/ ShlNone \/ XorSame \/ XorZero \/ XorNone

PeepholeNext == Building \/ PeepholeStart \/ SkipUnused \/ Rule

PeepholeSpec == PeepholeInit /\ [][PeepholeNext]_peepholeVars

-----------------------------------------------------------------------------
(* No rule, nor the swap of operands before them, changes what the         *)
(* function returns.                                                       *)
RulesKeepMeaning == [][pass' = "work" /\ g' # g => SameMeaning(g')]_peepholeVars

(* A node with users has its operands: the rules that look at operands of  *)
(* a node they did not detach never meet nullptr.                          *)
OperandsArePresent ==
  \A n \in Nodes : Used(n) => \A i \in DOMAIN g[n].in : g[n].in[i] # 0
=============================================================================

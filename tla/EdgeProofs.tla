----------------------------- MODULE EdgeProofs -----------------------------
(***************************************************************************)
(* The edges between the nodes: facts about the operators of NodeGraph,    *)
(* each of which changes the slots and the multisets by the same amounts,  *)
(* the invariants of DefUse that they carry, for every set of nodes and    *)
(* every bound, and those of Inlining, for every program.                  *)
(***************************************************************************)
EXTENDS DefUse, Inlining, Recursion, FiniteSetTheorems, TLAPS

(* The slots of a sequence that hold one element are counted by a natural. *)
LEMMA SlotsFinite ==
  ASSUME NEW T, NEW s \in Seq(T), NEW e
  PROVE  /\ IsFiniteSet(Slots(s, e))
         /\ Cardinality(Slots(s, e)) \in Nat
         /\ Cardinality(Slots(s, e)) = 0 <=> Slots(s, e) = {}
<1>1. DOMAIN s = 1..Len(s) /\ Len(s) \in Nat
  OBVIOUS
<1>2. IsFiniteSet(1..Len(s))
  BY <1>1, FS_Interval
<1>3. Slots(s, e) \subseteq 1..Len(s)
  BY <1>1 DEF Slots
<1>4. IsFiniteSet(Slots(s, e))
  BY <1>2, <1>3, FS_Subset
<1>. QED
  BY <1>4, FS_CardinalityType, FS_EmptySet

(* Storing d over an element moves one slot from that element to d. *)
LEMMA CountStore ==
  ASSUME NEW T, NEW s \in Seq(T), NEW i \in DOMAIN s, NEW d \in T, NEW e
  PROVE  LET t == [s EXCEPT ![i] = d]
         IN  /\ t \in Seq(T)
             /\ Cardinality(Slots(t, e)) + (IF s[i] = e THEN 1 ELSE 0)
                  = Cardinality(Slots(s, e)) + (IF d = e THEN 1 ELSE 0)
<1>. DEFINE t == [s EXCEPT ![i] = d]
<1>1. t \in Seq(T) /\ DOMAIN t = DOMAIN s
  OBVIOUS
<1>2. IsFiniteSet(Slots(s, e)) /\ Cardinality(Slots(s, e)) \in Nat
  BY SlotsFinite
<1>3. CASE s[i] = e /\ d = e
  <2>1. Slots(t, e) = Slots(s, e)
    BY <1>3 DEF Slots
  <2>. QED
    BY <1>1, <1>3, <2>1
<1>4. CASE s[i] # e /\ d # e
  <2>1. Slots(t, e) = Slots(s, e)
    BY <1>4 DEF Slots
  <2>. QED
    BY <1>1, <1>2, <1>4, <2>1
<1>5. CASE s[i] = e /\ d # e
  <2>1. Slots(t, e) = Slots(s, e) \ {i} /\ i \in Slots(s, e)
    BY <1>5 DEF Slots
  <2>2. Cardinality(Slots(t, e)) = Cardinality(Slots(s, e)) - 1
    BY <1>2, <2>1, FS_RemoveElement
  <2>. QED
    BY <1>1, <1>2, <1>5, <2>2
<1>6. CASE s[i] # e /\ d = e
  <2>1. Slots(t, e) = Slots(s, e) \cup {i} /\ i \notin Slots(s, e)
    BY <1>6 DEF Slots
  <2>2. Cardinality(Slots(t, e)) = Cardinality(Slots(s, e)) + 1
    BY <1>2, <2>1, FS_AddElement
  <2>. QED
    BY <1>1, <1>2, <1>6, <2>2
<1>. QED
  BY <1>3, <1>4, <1>5, <1>6

(* Appending d adds one slot for d. *)
LEMMA CountAppend ==
  ASSUME NEW T, NEW s \in Seq(T), NEW d \in T, NEW e
  PROVE  Cardinality(Slots(Append(s, d), e))
           = Cardinality(Slots(s, e)) + (IF d = e THEN 1 ELSE 0)
<1>. DEFINE t == Append(s, d)
<1>1. /\ DOMAIN t = DOMAIN s \cup {Len(s) + 1}
      /\ Len(s) + 1 \notin DOMAIN s
      /\ t[Len(s) + 1] = d
      /\ \A k \in DOMAIN s : t[k] = s[k]
  OBVIOUS
<1>2. IsFiniteSet(Slots(s, e)) /\ Cardinality(Slots(s, e)) \in Nat
  BY SlotsFinite
<1>3. CASE d = e
  <2>1. Slots(t, e) = Slots(s, e) \cup {Len(s) + 1} /\ Len(s) + 1 \notin Slots(s, e)
    BY <1>1, <1>3 DEF Slots
  <2>. QED
    BY <1>2, <1>3, <2>1, FS_AddElement
<1>4. CASE d # e
  <2>1. Slots(t, e) = Slots(s, e)
    BY <1>1, <1>4 DEF Slots
  <2>. QED
    BY <1>2, <1>4, <2>1
<1>. QED
  BY <1>3, <1>4

(* Exchanging two elements leaves every count as it is. *)
LEMMA CountSwap ==
  ASSUME NEW T, NEW s \in Seq(T), NEW i \in DOMAIN s, NEW j \in DOMAIN s, NEW e
  PROVE  LET t == [s EXCEPT ![i] = s[j], ![j] = s[i]]
         IN  /\ t \in Seq(T)
             /\ Cardinality(Slots(t, e)) = Cardinality(Slots(s, e))
<1>. DEFINE r == [s EXCEPT ![i] = s[j]]
            t == [r EXCEPT ![j] = s[i]]
<1>1. s[i] \in T /\ s[j] \in T
  OBVIOUS
<1>2. /\ r \in Seq(T) /\ j \in DOMAIN r /\ r[j] = s[j]
      /\ Cardinality(Slots(r, e)) + (IF s[i] = e THEN 1 ELSE 0)
           = Cardinality(Slots(s, e)) + (IF s[j] = e THEN 1 ELSE 0)
  BY <1>1, CountStore
<1>. HIDE DEF r
<1>3. /\ t \in Seq(T)
      /\ Cardinality(Slots(t, e)) + (IF r[j] = e THEN 1 ELSE 0)
           = Cardinality(Slots(r, e)) + (IF s[i] = e THEN 1 ELSE 0)
  BY <1>1, <1>2, CountStore
<1>4. /\ Cardinality(Slots(s, e)) \in Nat /\ Cardinality(Slots(r, e)) \in Nat
      /\ Cardinality(Slots(t, e)) \in Nat
  BY <1>2, <1>3, SlotsFinite
<1>5. Cardinality(Slots(t, e)) = Cardinality(Slots(s, e))
  BY <1>2, <1>3, <1>4
<1>6. t = [s EXCEPT ![i] = s[j], ![j] = s[i]]
  BY DEF r
<1>. QED
  BY <1>3, <1>5, <1>6

-----------------------------------------------------------------------------
(* What a node's entry in a multiset exceeds its slots by is not changed   *)
(* by an edit; h is the graph after it.                                    *)
Balanced(f, h) == \A n, d \in Nodes :
  h.users[d][n] + Uses(f, n, d) = f.users[d][n] + Uses(h, n, d)

LEMMA UsesType ==
  ASSUME NEW f \in Graph, NEW n \in Nodes, NEW d
  PROVE  Uses(f, n, d) \in Nat /\ (Uses(f, n, d) = 0 <=> SlotsOf(f, n, d) = {})
<1>1. f.operands[n] \in Seq(NodeOrNull)
  BY DEF Graph
<1>. QED
  BY <1>1, SlotsFinite DEF Uses, SlotsOf

LEMMA UsersType ==
  ASSUME NEW f \in Graph, NEW n \in Nodes, NEW d \in Nodes
  PROVE  f.users[d][n] \in Nat
<1>1. f.users \in [Nodes -> [Nodes -> Nat]]
  BY DEF Graph
<1>. QED
  BY <1>1

(* Joining and leaving the multiset of a node, or of nullptr.              *)
LEMMA EmplaceType ==
  ASSUME NEW users \in [Nodes -> [Nodes -> Nat]], NEW d \in NodeOrNull, NEW u \in Nodes
  PROVE  /\ Emplace(users, d, u) \in [Nodes -> [Nodes -> Nat]]
         /\ \A m, e \in Nodes : Emplace(users, d, u)[e][m] =
              users[e][m] + (IF m = u /\ e = d THEN 1 ELSE 0)
<1>1. CASE d = Null
  BY <1>1, NullAssumption DEF Emplace
<1>2. CASE d \in Nodes
  <2>1. Emplace(users, d, u) = [users EXCEPT ![d] = [users[d] EXCEPT ![u] = users[d][u] + 1]]
    BY <1>2, NullAssumption DEF Emplace
  <2>2. users[d] \in [Nodes -> Nat] /\ users[d][u] + 1 \in Nat
    BY <1>2
  <2>3. [users[d] EXCEPT ![u] = users[d][u] + 1] \in [Nodes -> Nat]
    BY <2>2
  <2>. QED
    BY <1>2, <2>1, <2>2, <2>3
<1>. QED
  BY <1>1, <1>2 DEF NodeOrNull

LEMMA EraseType ==
  ASSUME NEW users \in [Nodes -> [Nodes -> Nat]], NEW d \in NodeOrNull, NEW u \in Nodes,
         d \in Nodes => users[d][u] > 0
  PROVE  /\ Erase(users, d, u) \in [Nodes -> [Nodes -> Nat]]
         /\ \A m, e \in Nodes :
              Erase(users, d, u)[e][m] + (IF m = u /\ e = d THEN 1 ELSE 0) = users[e][m]
<1>1. CASE d = Null
  BY <1>1, NullAssumption DEF Erase
<1>2. CASE d \in Nodes
  <2>1. Erase(users, d, u) = [users EXCEPT ![d] = [users[d] EXCEPT ![u] = users[d][u] - 1]]
    BY <1>2, NullAssumption DEF Erase
  <2>2. users[d] \in [Nodes -> Nat] /\ users[d][u] - 1 \in Nat
    BY <1>2
  <2>3. [users[d] EXCEPT ![u] = users[d][u] - 1] \in [Nodes -> Nat]
    BY <2>2
  <2>. QED
    BY <1>2, <2>1, <2>2, <2>3
<1>. QED
  BY <1>1, <1>2 DEF NodeOrNull

(* setOperand, on a slot whose node knows its user: find() succeeds.       *)
LEMMA SetOperandBalance ==
  ASSUME NEW f \in Graph, NEW n \in Nodes, NEW i \in DOMAIN f.operands[n],
         NEW d \in NodeOrNull,
         f.operands[n][i] \in Nodes => f.users[f.operands[n][i]][n] > 0
  PROVE  /\ SetOperand(f, n, i, d) \in Graph
         /\ Balanced(f, SetOperand(f, n, i, d))
<1>. DEFINE h == SetOperand(f, n, i, d)
            old == f.operands[n][i]
            now == [f.operands[n] EXCEPT ![i] = d]
            left == Erase(f.users, old, n)
<1>. USE NullAssumption
<1>1. f.operands[n] \in Seq(NodeOrNull) /\ old \in NodeOrNull
  BY DEF Graph
<1>2. now \in Seq(NodeOrNull)
  BY <1>1
<1>3. /\ left \in [Nodes -> [Nodes -> Nat]]
      /\ \A m, e \in Nodes :
           left[e][m] + (IF m = n /\ e = old THEN 1 ELSE 0) = f.users[e][m]
  <2>1. f.users \in [Nodes -> [Nodes -> Nat]]
    BY DEF Graph
  <2>2. old \in Nodes => f.users[old][n] > 0
    OBVIOUS
  <2>3. old \in NodeOrNull
    BY <1>1
  <2>. DEFINE U == f.users
  <2>. HIDE DEF old, h, now, U
  <2>4. /\ Erase(U, old, n) \in [Nodes -> [Nodes -> Nat]]
        /\ \A m, e \in Nodes :
             Erase(U, old, n)[e][m] + (IF m = n /\ e = old THEN 1 ELSE 0) = U[e][m]
    <3>1. U \in [Nodes -> [Nodes -> Nat]] /\ (old \in Nodes => U[old][n] > 0)
      BY <2>1, <2>2 DEF U
    <3>. QED
      BY <3>1, <2>3, EraseType
  <2>. QED
    BY <2>4 DEF U
<1>5. /\ h = [operands |-> h.operands, users |-> h.users]
      /\ h.operands = [f.operands EXCEPT ![n] = now]
      /\ h.users = Emplace(left, d, n)
  BY DEF SetOperand
<1>. HIDE DEF left, h, now, old
<1>4. /\ Emplace(left, d, n) \in [Nodes -> [Nodes -> Nat]]
      /\ \A m, e \in Nodes : Emplace(left, d, n)[e][m] =
           left[e][m] + (IF m = n /\ e = d THEN 1 ELSE 0)
  BY <1>3, EmplaceType
<1>6. h.operands \in [Nodes -> Seq(NodeOrNull)]
  BY <1>2, <1>5 DEF Graph
<1>7. h \in Graph
  BY <1>4, <1>5, <1>6 DEF Graph
<1>8. ASSUME NEW m \in Nodes, NEW e \in Nodes
      PROVE  h.users[e][m] + Uses(f, m, e) = f.users[e][m] + Uses(h, m, e)
  <2>1. /\ f.users[e][m] \in Nat /\ h.users[e][m] \in Nat
        /\ Uses(f, m, e) \in Nat /\ Uses(h, m, e) \in Nat
    BY <1>7, UsesType, UsersType
  <2>2. CASE m # n
    <3>1. h.operands[m] = f.operands[m]
      BY <1>5, <2>2 DEF Graph
    <3>2. h.users[e][m] = f.users[e][m]
      BY <1>3, <1>4, <1>5, <2>2
    <3>. QED
      BY <3>1, <3>2 DEF Uses, SlotsOf
  <2>3. CASE m = n
    <3>1. h.operands[n] = now
      BY <1>5 DEF Graph
    <3>2. Uses(h, n, e) + (IF old = e THEN 1 ELSE 0) = Uses(f, n, e) + (IF d = e THEN 1 ELSE 0)
      BY <1>1, <3>1, CountStore DEF Uses, SlotsOf, now, old
    <3>3. left[e][n] \in Nat /\ left[e][n] + (IF e = old THEN 1 ELSE 0) = f.users[e][n]
      BY <1>3
    <3>4. h.users[e][n] = left[e][n] + (IF e = d THEN 1 ELSE 0)
      BY <1>4, <1>5
    <3>. QED
      BY <2>1, <2>3, <3>2, <3>3, <3>4
  <2>. QED
    BY <2>2, <2>3
<1>. QED
  BY <1>7, <1>8 DEF Balanced, h

(* addOperand. *)
LEMMA AddOperandBalance ==
  ASSUME NEW f \in Graph, NEW n \in Nodes, NEW d \in NodeOrNull
  PROVE  /\ AddOperand(f, n, d) \in Graph
         /\ Balanced(f, AddOperand(f, n, d))
<1>. DEFINE h == AddOperand(f, n, d)
<1>. USE NullAssumption
<1>1. f.operands[n] \in Seq(NodeOrNull)
  BY DEF Graph
<1>2. /\ h.users \in [Nodes -> [Nodes -> Nat]]
      /\ \A m, e \in Nodes : h.users[e][m] =
           f.users[e][m] + (IF m = n /\ e = d THEN 1 ELSE 0)
  <2>1. h.users = Emplace(f.users, d, n)
    BY DEF AddOperand
  <2>2. f.users \in [Nodes -> [Nodes -> Nat]]
    BY DEF Graph
  <2>. HIDE DEF h
  <2>. QED
    BY <2>1, <2>2, EmplaceType
<1>3. /\ h = [operands |-> h.operands, users |-> h.users]
      /\ h.operands = [f.operands EXCEPT ![n] = Append(f.operands[n], d)]
  BY DEF AddOperand
<1>. HIDE DEF h
<1>4. h \in Graph
  <2>1. Append(f.operands[n], d) \in Seq(NodeOrNull)
    BY <1>1
  <2>. QED
    BY <1>2, <1>3, <2>1 DEF Graph
<1>5. ASSUME NEW m \in Nodes, NEW e \in Nodes
      PROVE  h.users[e][m] + Uses(f, m, e) = f.users[e][m] + Uses(h, m, e)
  <2>1. /\ f.users[e][m] \in Nat /\ h.users[e][m] \in Nat
        /\ Uses(f, m, e) \in Nat /\ Uses(h, m, e) \in Nat
    BY <1>4, UsesType, UsersType
  <2>2. Uses(h, m, e) = Uses(f, m, e) + (IF m = n /\ d = e THEN 1 ELSE 0)
    <3>1. CASE m = n
      BY <1>1, <1>3, <2>1, <3>1, CountAppend DEF Graph, Uses, SlotsOf
    <3>2. CASE m # n
      BY <1>3, <2>1, <3>2 DEF Graph, Uses, SlotsOf
    <3>. QED
      BY <3>1, <3>2
  <2>. QED
    <3>1. h.users[e][m] = f.users[e][m] + (IF m = n /\ e = d THEN 1 ELSE 0)
      BY <1>2
    <3>. QED
      BY <2>1, <2>2, <3>1
<1>. QED
  BY <1>4, <1>5 DEF Balanced, h

(* swapOperands. *)
LEMMA SwapOperandsBalance ==
  ASSUME NEW f \in Graph, NEW n \in Nodes,
         NEW i \in DOMAIN f.operands[n], NEW j \in DOMAIN f.operands[n]
  PROVE  /\ SwapOperands(f, n, i, j) \in Graph
         /\ Balanced(f, SwapOperands(f, n, i, j))
<1>. DEFINE h == SwapOperands(f, n, i, j)
            s == f.operands[n]
            t == [s EXCEPT ![i] = s[j], ![j] = s[i]]
<1>1. s \in Seq(NodeOrNull)
  BY DEF Graph
<1>2. t \in Seq(NodeOrNull)
  BY <1>1, CountSwap
<1>3. /\ h = [operands |-> h.operands, users |-> h.users]
      /\ h.operands = [f.operands EXCEPT ![n] = t] /\ h.users = f.users
  <2>1. [f.operands EXCEPT ![n][i] = s[j], ![n][j] = s[i]] = [f.operands EXCEPT ![n] = t]
    BY DEF Graph
  <2>. QED
    BY <2>1 DEF SwapOperands
<1>. HIDE DEF h, t
<1>4. h \in Graph
  <2>1. h.operands \in [Nodes -> Seq(NodeOrNull)]
    BY <1>2, <1>3 DEF Graph
  <2>. QED
    BY <1>3, <2>1 DEF Graph
<1>5. ASSUME NEW m \in Nodes, NEW e \in Nodes
      PROVE  Uses(h, m, e) = Uses(f, m, e)
  <2>1. CASE m = n
    <3>1. h.operands[n] = t
      BY <1>3 DEF Graph
    <3>2. Cardinality(Slots(t, e)) = Cardinality(Slots(s, e))
      BY <1>1, CountSwap DEF t
    <3>. QED
      BY <2>1, <3>1, <3>2 DEF Uses, SlotsOf
  <2>2. CASE m # n
    BY <1>3, <2>2 DEF Graph, Uses, SlotsOf
  <2>. QED
    BY <2>1, <2>2
<1>. QED
  BY <1>3, <1>4, <1>5 DEF Balanced, h

-----------------------------------------------------------------------------
IInv ==
  /\ TypeOK
  /\ OperandsAreLive
  /\ UsesAreRegistered
  /\ CallIsLive

(* The type of a state component follows from TypeOK. *)
LEMMA TypeFacts ==
  ASSUME TypeOK
  PROVE  /\ live \subseteq Nodes
         /\ g \in Graph
         /\ g.operands \in [Nodes -> Seq(NodeOrNull)]
         /\ g.users \in [Nodes -> [Nodes -> Nat]]
         /\ LiveOrNull \subseteq NodeOrNull
         /\ call.this \in NodeOrNull /\ call.to \in NodeOrNull /\ call.slot \in Nat
         /\ call.phase \in Phases
BY DEF TypeOK, Graph, Calls, LiveOrNull, NodeOrNull

(* The find() of setOperand succeeds: a slot that holds a node implies an  *)
(* occurrence in that node's multiset.                                     *)
LEMMA SlotIsRegistered ==
  ASSUME IInv, NEW n \in live, NEW i \in DOMAIN g.operands[n], g.operands[n][i] \in Nodes
  PROVE  g.users[g.operands[n][i]][n] > 0
<1>. DEFINE d == g.operands[n][i]
<1>1. d \in live /\ n \in Nodes /\ d \in Nodes
  BY NullAssumption, TypeFacts DEF IInv, OperandsAreLive, LiveOrNull
<1>2. i \in SlotsOf(g, n, d)
  BY DEF SlotsOf, Slots
<1>3. Uses(g, n, d) \in Nat /\ Uses(g, n, d) # 0
  BY <1>1, <1>2, TypeFacts, UsesType DEF IInv
<1>4. Uses(g, n, d) <= g.users[d][n]
  BY <1>1 DEF IInv, UsesAreRegistered
<1>5. g.users[d][n] \in Nat
  BY <1>1, TypeFacts, UsersType DEF IInv
<1>. QED
  BY <1>3, <1>4, <1>5

(* An edit that moves slots and occurrences by the same amounts keeps      *)
(* every use registered.                                                   *)
LEMMA BalancedKeepsRegistered ==
  ASSUME IInv, Balanced(g, g'), g' \in Graph, live' = live
  PROVE  UsesAreRegistered'
<1>. SUFFICES ASSUME NEW n \in live, NEW d \in live
              PROVE  Uses(g', n, d) <= g'.users[d][n]
  BY DEF UsesAreRegistered
<1>1. n \in Nodes /\ d \in Nodes /\ g \in Graph
  BY TypeFacts DEF IInv
<1>2. /\ Uses(g, n, d) \in Nat /\ Uses(g', n, d) \in Nat
      /\ g.users[d][n] \in Nat /\ g'.users[d][n] \in Nat
  BY <1>1, UsesType, UsersType
<1>3. g'.users[d][n] + Uses(g, n, d) = g.users[d][n] + Uses(g', n, d)
  BY <1>1 DEF Balanced
<1>4. Uses(g, n, d) <= g.users[d][n]
  BY DEF IInv, UsesAreRegistered
<1>. QED
  BY <1>2, <1>3, <1>4

(* What every call of setOperand on an existing node keeps. *)
LEMMA SetOperandKeeps ==
  ASSUME IInv, NEW n \in live, NEW i \in DOMAIN g.operands[n], NEW d \in LiveOrNull,
         g' = SetOperand(g, n, i, d), live' = live
  PROVE  g' \in Graph /\ OperandsAreLive' /\ UsesAreRegistered' /\ Balanced(g, g')
<1>1. n \in Nodes /\ d \in NodeOrNull /\ g \in Graph
  BY TypeFacts DEF IInv
<1>2. g' \in Graph /\ Balanced(g, g')
  BY <1>1, SlotIsRegistered, SetOperandBalance
<1>3. UsesAreRegistered'
  BY <1>2, BalancedKeepsRegistered
<1>4. OperandsAreLive'
  <2>1. g'.operands = [g.operands EXCEPT ![n] = [g.operands[n] EXCEPT ![i] = d]]
    BY DEF SetOperand
  <2>2. \A m \in live : m \in Nodes
    BY TypeFacts DEF IInv
  <2>. QED
    BY <1>1, <2>1, <2>2, TypeFacts DEF IInv, OperandsAreLive, LiveOrNull
<1>. QED
  BY <1>2, <1>3, <1>4

-----------------------------------------------------------------------------
LEMMA InitKeeps == Init => IInv
<1>. SUFFICES ASSUME Init PROVE IInv
  OBVIOUS
<1>1. TypeOK
  <2>1. live \subseteq Nodes
    BY PinnedAssumption DEF Init
  <2>2. g \in Graph
    <3>1. <<>> \in Seq(NodeOrNull)
      OBVIOUS
    <3>. QED
      BY <3>1 DEF Init, Graph, NoUsers
  <2>3. call \in Calls
    BY DEF Init, NoCall, Calls, Phases, NodeOrNull
  <2>. QED
    BY <2>1, <2>2, <2>3 DEF TypeOK
<1>2. OperandsAreLive
  BY PinnedAssumption DEF Init, OperandsAreLive
<1>3. UsesAreRegistered
  <2>1. \A n, d \in Nodes : SlotsOf(g, n, d) = {} /\ g.users[d][n] = 0
    BY DEF Init, SlotsOf, Slots, NoUsers
  <2>2. \A n, d \in Nodes : Uses(g, n, d) = 0
    BY <2>1, FS_EmptySet DEF Uses
  <2>3. \A n \in live : n \in Nodes
    BY PinnedAssumption DEF Init
  <2>. QED
    BY <2>1, <2>2, <2>3 DEF UsesAreRegistered
<1>4. CallIsLive
  BY DEF Init, CallIsLive, NoCall, Idle
<1>. QED
  BY <1>1, <1>2, <1>3, <1>4 DEF IInv

(* A constructor keeps what its new node inherits, and nobody uses it yet. *)
LEMMA CreateKeeps ==
  ASSUME IInv, NEW n \in Nodes, NEW ops \in OperandLists, Create(n, ops)
  PROVE  IInv'
<1>. USE DEF Create
<1>1. /\ n \notin live /\ live' = live \cup {n} /\ call' = call /\ g' = Construct(g, n, ops)
      /\ live \subseteq Nodes /\ g \in Graph
  BY TypeFacts DEF IInv
<1>2. /\ g'.operands = [g.operands EXCEPT ![n] = ops]
      /\ g'.users = [d \in Nodes |->
                       IF d = n THEN NoUsers
                       ELSE [g.users[d] EXCEPT ![n] = @ + Cardinality(Slots(ops, d))]]
      /\ g' = [operands |-> g'.operands, users |-> g'.users]
  BY <1>1 DEF Construct
<1>3. ops \in Seq(NodeOrNull)
  <2>1. PICK k \in 0..MaxOperands : ops \in [1..k -> NodeOrNull]
    BY DEF OperandLists
  <2>. QED
    BY <2>1, BoundsAssumption
<1>4. \A m \in live : m \in Nodes /\ m # n /\ g'.operands[m] = g.operands[m]
  BY <1>1, <1>2, TypeFacts DEF IInv
<1>5. g'.operands[n] = ops
  BY <1>2, TypeFacts DEF IInv
<1>6. \A d \in Nodes : Cardinality(Slots(ops, d)) \in Nat
  BY <1>3, SlotsFinite
<1>7. g' \in Graph
  <2>1. g'.operands \in [Nodes -> Seq(NodeOrNull)]
    BY <1>2, <1>3, TypeFacts DEF IInv
  <2>2. \A d \in Nodes : g'.users[d] \in [Nodes -> Nat]
    <3>. SUFFICES ASSUME NEW d \in Nodes PROVE g'.users[d] \in [Nodes -> Nat]
      OBVIOUS
    <3>1. CASE d = n
      BY <1>2, <3>1 DEF NoUsers
    <3>2. CASE d # n
      <4>1. g.users[d] \in [Nodes -> Nat]
        BY TypeFacts DEF IInv
      <4>2. g.users[d][n] + Cardinality(Slots(ops, d)) \in Nat
        BY <1>6, <4>1
      <4>3. g'.users[d] = [g.users[d] EXCEPT ![n] = g.users[d][n] + Cardinality(Slots(ops, d))]
        BY <1>2, <3>2
      <4>. QED
        BY <4>1, <4>2, <4>3
    <3>. QED
      BY <3>1, <3>2
  <2>3. g'.users \in [Nodes -> [Nodes -> Nat]]
    BY <1>2, <2>2
  <2>. QED
    BY <1>2, <2>1, <2>3 DEF Graph
<1>8. TypeOK'
  BY <1>1, <1>7 DEF IInv, TypeOK
<1>9. OperandsAreLive'
  <2>. SUFFICES ASSUME NEW m \in live', NEW i \in DOMAIN g'.operands[m]
                PROVE  g'.operands[m][i] \in live' \cup {Null}
    BY DEF OperandsAreLive, LiveOrNull
  <2>1. CASE m = n
    BY <1>1, <1>5, <2>1 DEF LiveOrNull
  <2>2. CASE m \in live
    BY <1>1, <1>4, <2>2 DEF IInv, OperandsAreLive, LiveOrNull
  <2>. QED
    BY <1>1, <2>1, <2>2
<1>10. UsesAreRegistered'
  <2>. SUFFICES ASSUME NEW m \in live', NEW d \in live'
                PROVE  Uses(g', m, d) <= g'.users[d][m]
    BY DEF UsesAreRegistered
  <2>1. CASE m = n /\ d = n
    <3>1. SlotsOf(g', n, n) = {}
      BY <1>1, <1>5, NullAssumption DEF SlotsOf, Slots, LiveOrNull
    <3>2. Uses(g', n, n) = 0
      BY <1>7, <3>1, UsesType
    <3>3. g'.users[n][n] = 0
      BY <1>2 DEF NoUsers
    <3>. QED
      BY <2>1, <3>2, <3>3
  <2>2. CASE m = n /\ d \in live
    <3>1. g'.users[d][n] = g.users[d][n] + Cardinality(Slots(ops, d))
      BY <1>2, <1>4, <2>2, TypeFacts DEF IInv
    <3>2. g.users[d][n] \in Nat
      BY <1>4, <2>2, TypeFacts DEF IInv
    <3>3. Uses(g', n, d) = Cardinality(Slots(ops, d))
      BY <1>5 DEF Uses, SlotsOf
    <3>. QED
      BY <1>4, <1>6, <2>2, <3>1, <3>2, <3>3
  <2>3. CASE m \in live /\ d = n
    <3>1. SlotsOf(g', m, n) = {}
      BY <1>1, <1>4, <2>3, NullAssumption DEF SlotsOf, Slots, IInv, OperandsAreLive, LiveOrNull
    <3>2. Uses(g', m, n) = 0
      BY <1>4, <1>7, <2>3, <3>1, UsesType
    <3>3. g'.users[n][m] = 0
      BY <1>2, <1>4, <2>3 DEF NoUsers
    <3>. QED
      BY <2>3, <3>2, <3>3
  <2>4. CASE m \in live /\ d \in live
    <3>1. g'.users[d][m] = g.users[d][m]
      <4>1. g.users[d] \in [Nodes -> Nat]
        BY <1>4, <2>4, TypeFacts DEF IInv
      <4>2. g'.users[d] = [g.users[d] EXCEPT ![n] = g.users[d][n] + Cardinality(Slots(ops, d))]
        BY <1>2, <1>4, <2>4
      <4>. QED
        BY <1>4, <2>4, <4>1, <4>2
    <3>2. Uses(g', m, d) = Uses(g, m, d)
      BY <1>4, <2>4 DEF Uses, SlotsOf
    <3>. QED
      BY <2>4, <3>1, <3>2 DEF IInv, UsesAreRegistered
  <2>. QED
    BY <1>1, <2>1, <2>2, <2>3, <2>4
<1>11. CallIsLive'
  BY <1>1 DEF CallIsLive, Idle
<1>. QED
  BY <1>8, <1>9, <1>10, <1>11 DEF IInv

(* A node clean() frees has an empty multiset, so no slot holds it.        *)
LEMMA CleanKeeps ==
  ASSUME IInv, Clean
  PROVE  IInv'
<1>1. /\ live' = live \ Unused /\ g' = Destroy(g, Unused) /\ call' = call /\ Idle
      /\ Unused \subseteq live
  BY DEF Clean, Unused
<1>2. live \subseteq Nodes /\ g \in Graph
  BY TypeFacts DEF IInv
<1>3. /\ g'.operands = [n \in Nodes |-> IF n \in Unused THEN <<>> ELSE g.operands[n]]
      /\ g'.users = [d \in Nodes |-> IF d \in Unused THEN NoUsers ELSE g.users[d]]
      /\ g' = [operands |-> g'.operands, users |-> g'.users]
  BY <1>1 DEF Destroy
<1>4. TypeOK'
  <2>1. g'.operands \in [Nodes -> Seq(NodeOrNull)]
    <3>1. <<>> \in Seq(NodeOrNull)
      OBVIOUS
    <3>. QED
      BY <1>3, <3>1, TypeFacts DEF IInv
  <2>2. g'.users \in [Nodes -> [Nodes -> Nat]]
    BY <1>3, TypeFacts DEF IInv, NoUsers
  <2>. QED
    BY <1>1, <1>2, <1>3, <2>1, <2>2 DEF IInv, TypeOK, Graph
<1>5. \A n, d \in live' : /\ n \in live /\ d \in live
                        /\ g'.operands[n] = g.operands[n]
                        /\ g'.users[d] = g.users[d]
  BY <1>1, <1>2, <1>3
<1>6. OperandsAreLive'
  <2>. SUFFICES ASSUME NEW n \in live', NEW i \in DOMAIN g.operands[n],
                       g.operands[n][i] # Null
                PROVE  g.operands[n][i] \notin Unused
    BY <1>1, <1>5 DEF OperandsAreLive, LiveOrNull, IInv
  <2>1. g.operands[n][i] \in live
    BY <1>5 DEF IInv, OperandsAreLive, LiveOrNull
  <2>2. g.users[g.operands[n][i]][n] > 0
    BY <1>2, <1>5, <2>1, SlotIsRegistered
  <2>. QED
    BY <1>2, <1>5, <2>2 DEF Unused, UsersOf
<1>7. UsesAreRegistered'
  BY <1>5 DEF IInv, UsesAreRegistered, Uses, SlotsOf
<1>8. CallIsLive'
  BY <1>1 DEF CallIsLive, Idle
<1>. QED
  BY <1>4, <1>6, <1>7, <1>8 DEF IInv

-----------------------------------------------------------------------------
LEMMA EditKeeps ==
  ASSUME IInv, Edit
  PROVE  IInv'
<1>1. CASE \E n \in Nodes, ops \in OperandLists : Create(n, ops)
  BY <1>1, CreateKeeps
<1>2. ASSUME NEW n \in Nodes, NEW i \in 1..MaxOperands, NEW d \in NodeOrNull,
             CallSetOperand(n, i, d)
      PROVE  IInv'
  <2>1. /\ n \in live /\ i \in DOMAIN g.operands[n] /\ d \in LiveOrNull
        /\ g' = SetOperand(g, n, i, d) /\ live' = live /\ call' = call
    BY <1>2 DEF CallSetOperand
  <2>2. g' \in Graph /\ OperandsAreLive' /\ UsesAreRegistered'
    BY <2>1, SetOperandKeeps
  <2>. QED
    BY <2>1, <2>2 DEF IInv, TypeOK, CallIsLive, Idle, LiveOrNull
<1>3. ASSUME NEW n \in Nodes, NEW d \in NodeOrNull, CallAddOperand(n, d)
      PROVE  IInv'
  <2>1. /\ n \in live /\ d \in LiveOrNull
        /\ g' = AddOperand(g, n, d) /\ live' = live /\ call' = call
    BY <1>3 DEF CallAddOperand
  <2>2. g' \in Graph /\ Balanced(g, g')
    BY <2>1, AddOperandBalance, TypeFacts DEF IInv
  <2>3. UsesAreRegistered'
    BY <2>1, <2>2, BalancedKeepsRegistered
  <2>4. OperandsAreLive'
    <3>1. g'.operands = [g.operands EXCEPT ![n] = Append(g.operands[n], d)]
      BY <2>1 DEF AddOperand
    <3>2. \A i \in DOMAIN Append(g.operands[n], d) :
            \/ i \in DOMAIN g.operands[n] /\ Append(g.operands[n], d)[i] = g.operands[n][i]
            \/ Append(g.operands[n], d)[i] = d
      <4>1. g.operands[n] \in Seq(NodeOrNull)
        BY TypeFacts DEF IInv
      <4>. QED
        BY <4>1
    <3>. QED
      BY <2>1, <3>1, <3>2, TypeFacts DEF IInv, OperandsAreLive, LiveOrNull
  <2>. QED
    BY <2>1, <2>2, <2>3, <2>4 DEF IInv, TypeOK, CallIsLive, Idle, LiveOrNull
<1>4. ASSUME NEW n \in Nodes, NEW i \in 1..MaxOperands, NEW j \in 1..MaxOperands,
             CallSwapOperands(n, i, j)
      PROVE  IInv'
  <2>1. /\ n \in live /\ i \in DOMAIN g.operands[n] /\ j \in DOMAIN g.operands[n]
        /\ g' = SwapOperands(g, n, i, j) /\ live' = live /\ call' = call
    BY <1>4 DEF CallSwapOperands
  <2>2. g' \in Graph /\ Balanced(g, g')
    BY <2>1, SwapOperandsBalance, TypeFacts DEF IInv
  <2>3. UsesAreRegistered'
    BY <2>1, <2>2, BalancedKeepsRegistered
  <2>4. OperandsAreLive'
    <3>1. g'.operands = [g.operands EXCEPT ![n][i] = g.operands[n][j], ![n][j] = g.operands[n][i]]
      BY <2>1 DEF SwapOperands
    <3>2. ASSUME NEW m \in live, NEW k \in DOMAIN g'.operands[m]
          PROVE  \E l \in DOMAIN g.operands[m] : g'.operands[m][k] = g.operands[m][l]
      <4>1. m \in Nodes
        BY TypeFacts DEF IInv
      <4>2. CASE m = n
        BY <2>1, <3>1, <3>2, <4>1, <4>2, TypeFacts DEF IInv
      <4>3. CASE m # n
        BY <3>1, <3>2, <4>1, <4>3, TypeFacts DEF IInv
      <4>. QED
        BY <4>2, <4>3
    <3>. QED
      BY <2>1, <3>2 DEF IInv, OperandsAreLive, LiveOrNull
  <2>. QED
    BY <2>1, <2>2, <2>3, <2>4 DEF IInv, TypeOK, CallIsLive, Idle, LiveOrNull
<1>5. ASSUME NEW n \in Nodes, NEW m \in NodeOrNull, BeginReplace(n, m)
      PROVE  IInv'
  <2>1. /\ n \in live /\ m \in LiveOrNull /\ live' = live /\ g' = g
        /\ call' = [phase |-> "replace", this |-> n, to |-> m, slot |-> 1]
    BY <1>5 DEF BeginReplace
  <2>2. call' \in Calls /\ CallIsLive'
    BY <2>1 DEF Calls, CallIsLive, Idle, LiveOrNull, Phases, NodeOrNull
  <2>. QED
    BY <2>1, <2>2 DEF IInv, TypeOK, OperandsAreLive, UsesAreRegistered, LiveOrNull
<1>6. ASSUME NEW n \in Nodes, BeginDetach(n)
      PROVE  IInv'
  <2>1. /\ n \in live /\ live' = live /\ g' = g
        /\ call' = [phase |-> "drop", this |-> n, to |-> Null, slot |-> 1]
    BY <1>6 DEF BeginDetach
  <2>2. call' \in Calls /\ CallIsLive'
    BY <2>1 DEF Calls, CallIsLive, Idle, LiveOrNull, Phases, NodeOrNull
  <2>. QED
    BY <2>1, <2>2 DEF IInv, TypeOK, OperandsAreLive, UsesAreRegistered, LiveOrNull
<1>. QED
  BY <1>1, <1>2, <1>3, <1>4, <1>5, <1>6 DEF Edit

LEMMA RoundKeeps ==
  ASSUME IInv, Round
  PROVE  IInv'
<1>1. ASSUME DropSlot PROVE IInv'
  <2>1. /\ call.this \in live /\ call.slot \in DOMAIN g.operands[call.this]
        /\ g' = SetOperand(g, call.this, call.slot, Null) /\ live' = live
        /\ call' = [call EXCEPT !.slot = @ + 1] /\ ~Idle
    BY <1>1 DEF DropSlot, IInv, CallIsLive, Idle
  <2>2. g' \in Graph /\ OperandsAreLive' /\ UsesAreRegistered'
    BY <2>1, SetOperandKeeps DEF LiveOrNull
  <2>3. call' \in Calls /\ CallIsLive'
    BY <2>1 DEF IInv, TypeOK, Calls, CallIsLive, Idle, LiveOrNull
  <2>. QED
    BY <2>1, <2>2, <2>3 DEF IInv, TypeOK
<1>2. ASSUME DropDone PROVE IInv'
  <2>1. /\ live' = live /\ g' = g /\ call' = [call EXCEPT !.phase = "replace"] /\ ~Idle
    BY <1>2 DEF DropDone, Idle
  <2>2. call' \in Calls /\ CallIsLive'
    BY <2>1 DEF IInv, TypeOK, Calls, Phases, CallIsLive, Idle, LiveOrNull
  <2>. QED
    BY <2>1, <2>2 DEF IInv, TypeOK, OperandsAreLive, UsesAreRegistered, LiveOrNull
<1>3. ASSUME NEW u \in Nodes, ReplaceStep(u) PROVE IInv'
  <2>1. PICK i \in FirstSlot(u, call.this) : g' = SetOperand(g, u, i, call.to)
    BY <1>3 DEF ReplaceStep
  <2>2. /\ u \in live /\ i \in DOMAIN g.operands[u] /\ call.to \in LiveOrNull
        /\ live' = live /\ call' = call
    BY <1>3 DEF ReplaceStep, FirstSlot, SlotsOf, Slots, IInv, CallIsLive, Idle
  <2>3. g' \in Graph /\ OperandsAreLive' /\ UsesAreRegistered'
    BY <2>1, <2>2, SetOperandKeeps
  <2>. QED
    BY <2>2, <2>3 DEF IInv, TypeOK, CallIsLive, Idle, LiveOrNull
<1>4. ASSUME NEW u \in Nodes, ReplaceAbort(u) PROVE IInv'
  <2>1. /\ live' = live /\ g' = g /\ call' = [call EXCEPT !.phase = "aborted"] /\ ~Idle
    BY <1>4 DEF ReplaceAbort, Idle
  <2>2. call' \in Calls /\ CallIsLive'
    BY <2>1 DEF IInv, TypeOK, Calls, Phases, CallIsLive, Idle, LiveOrNull
  <2>. QED
    BY <2>1, <2>2 DEF IInv, TypeOK, OperandsAreLive, UsesAreRegistered, LiveOrNull
<1>5. ASSUME ReplaceDone PROVE IInv'
  <2>1. live' = live /\ g' = g /\ call' = NoCall
    BY <1>5 DEF ReplaceDone
  <2>2. call' \in Calls /\ CallIsLive'
    BY <2>1 DEF NoCall, Calls, Phases, CallIsLive, Idle, NodeOrNull
  <2>. QED
    BY <2>1, <2>2 DEF IInv, TypeOK, OperandsAreLive, UsesAreRegistered, LiveOrNull
<1>. QED
  BY <1>1, <1>2, <1>3, <1>4, <1>5 DEF Round

LEMMA NextKeeps == IInv /\ [Next]_vars => IInv'
<1>. SUFFICES ASSUME IInv, [Next]_vars PROVE IInv'
  OBVIOUS
<1>1. CASE UNCHANGED vars
  BY <1>1 DEF vars, IInv, TypeOK, OperandsAreLive, UsesAreRegistered, CallIsLive, Idle, LiveOrNull
<1>. QED
  BY <1>1, EditKeeps, RoundKeeps, CleanKeeps DEF Next

(* For every set of nodes: the three invariants hold whatever sequence of  *)
(* edits, replacements, detachments and sweeps a client asks for.          *)
THEOREM Invariance == Spec => []IInv
BY InitKeeps, NextKeeps, PTL DEF Spec

(* Types: in particular no occurrence is erased that is not there.         *)
THEOREM TypeCorrect == Spec => []TypeOK
<1>1. IInv => TypeOK
  BY DEF IInv
<1>. QED
  BY <1>1, Invariance, PTL

(* No operand of an existing node points to freed storage.                 *)
THEOREM OperandsStayLive == Spec => []OperandsAreLive
<1>1. IInv => OperandsAreLive
  BY DEF IInv
<1>. QED
  BY <1>1, Invariance, PTL

(* Every use is in the multiset of the node it uses.                       *)
THEOREM UsesStayRegistered == Spec => []UsesAreRegistered
<1>1. IInv => UsesAreRegistered
  BY DEF IInv
<1>. QED
  BY <1>1, Invariance, PTL

-----------------------------------------------------------------------------
(* A client that detaches what it drops.                                   *)

TidyInv == IInv /\ UsersAreExact /\ ReplaceFindsSlot

(* Edits of existing nodes keep multisets exact. *)
LEMMA BalancedKeepsExact ==
  ASSUME IInv, UsersAreExact, Balanced(g, g'), g' \in Graph, live' = live,
         \A n \in Nodes \ live : g'.operands[n] = g.operands[n]
  PROVE  UsersAreExact'
<1>. SUFFICES ASSUME NEW d \in live, NEW n \in Nodes
              PROVE  g'.users[d][n] = IF n \in live THEN Uses(g', n, d) ELSE 0
  BY DEF UsersAreExact
<1>1. d \in Nodes /\ g \in Graph
  BY TypeFacts DEF IInv
<1>2. /\ Uses(g, n, d) \in Nat /\ Uses(g', n, d) \in Nat
      /\ g.users[d][n] \in Nat /\ g'.users[d][n] \in Nat
  BY <1>1, UsesType, UsersType
<1>3. g'.users[d][n] + Uses(g, n, d) = g.users[d][n] + Uses(g', n, d)
  BY <1>1 DEF Balanced
<1>4. g.users[d][n] = IF n \in live THEN Uses(g, n, d) ELSE 0
  BY DEF UsersAreExact
<1>5. n \notin live => Uses(g', n, d) = Uses(g, n, d)
  BY DEF Uses, SlotsOf
<1>. QED
  BY <1>2, <1>3, <1>4, <1>5

LEMMA SetOperandKeepsExact ==
  ASSUME IInv, UsersAreExact, NEW n \in live, NEW i \in DOMAIN g.operands[n],
         NEW d \in LiveOrNull, g' = SetOperand(g, n, i, d), live' = live
  PROVE  UsersAreExact'
<1>1. g' \in Graph /\ Balanced(g, g')
  BY SetOperandKeeps
<1>2. g'.operands = [g.operands EXCEPT ![n] = [g.operands[n] EXCEPT ![i] = d]]
  BY DEF SetOperand
<1>3. \A m \in Nodes \ live : g'.operands[m] = g.operands[m]
  BY <1>2, TypeFacts DEF IInv
<1>. QED
  BY <1>1, <1>3, BalancedKeepsExact

LEMMA CreateKeepsExact ==
  ASSUME IInv, UsersAreExact, NEW n \in Nodes, NEW ops \in OperandLists, Create(n, ops)
  PROVE  UsersAreExact'
<1>1. /\ n \notin live /\ live' = live \cup {n} /\ live \subseteq Nodes
      /\ \A i \in DOMAIN ops : ops[i] \in LiveOrNull
      /\ g'.operands = [g.operands EXCEPT ![n] = ops]
      /\ g'.users = [d \in Nodes |->
                       IF d = n THEN NoUsers
                       ELSE [g.users[d] EXCEPT ![n] = @ + Cardinality(Slots(ops, d))]]
  BY TypeFacts DEF IInv, Create, Construct
<1>2. /\ \A m \in live : m \in Nodes /\ m # n /\ g'.operands[m] = g.operands[m]
      /\ g'.operands[n] = ops
  BY <1>1, TypeFacts DEF IInv
<1>3. IInv'
  BY CreateKeeps
<1>4. ops \in Seq(NodeOrNull)
  BY <1>2, <1>3 DEF IInv, TypeOK, Graph
<1>5. \A d \in Nodes : Cardinality(Slots(ops, d)) \in Nat
  BY <1>4, SlotsFinite
<1>. SUFFICES ASSUME NEW d \in live', NEW m \in Nodes
              PROVE  g'.users[d][m] = IF m \in live' THEN Uses(g', m, d) ELSE 0
  BY DEF UsersAreExact
<1>6. CASE d = n
  <2>1. g'.users[n][m] = 0
    BY <1>1 DEF NoUsers
  <2>2. CASE m = n
    <3>1. Slots(ops, n) = {}
      BY <1>1, NullAssumption DEF Slots, LiveOrNull
    <3>. QED
      BY <1>1, <1>2, <1>6, <2>1, <2>2, <3>1, FS_EmptySet DEF Uses, SlotsOf
  <2>3. CASE m \in live
    <3>1. SlotsOf(g', m, n) = {}
      BY <1>1, <1>2, <2>3, NullAssumption DEF SlotsOf, Slots, IInv, OperandsAreLive, LiveOrNull
    <3>. QED
      BY <1>1, <1>6, <2>1, <2>3, <3>1, FS_EmptySet DEF Uses
  <2>4. CASE m \notin live'
    BY <1>6, <2>1, <2>4
  <2>. QED
    BY <1>1, <2>2, <2>3, <2>4
<1>7. CASE d \in live
  <2>1. /\ d \in Nodes /\ d # n /\ g.users[d] \in [Nodes -> Nat]
        /\ g'.users[d] = [g.users[d] EXCEPT ![n] = g.users[d][n] + Cardinality(Slots(ops, d))]
    BY <1>1, <1>2, <1>7, TypeFacts DEF IInv
  <2>2. CASE m = n
    <3>1. g.users[d][n] = 0
      BY <1>1, <1>7 DEF UsersAreExact
    <3>2. g'.users[d][n] = Cardinality(Slots(ops, d))
      BY <1>5, <2>1, <3>1
    <3>. QED
      BY <1>1, <1>2, <2>2, <3>2 DEF Uses, SlotsOf
  <2>3. CASE m # n
    <3>1. g'.users[d][m] = g.users[d][m]
      BY <2>1, <2>3
    <3>2. g.users[d][m] = IF m \in live THEN Uses(g, m, d) ELSE 0
      BY <1>7 DEF UsersAreExact
    <3>3. m \in live => Uses(g', m, d) = Uses(g, m, d)
      BY <1>2 DEF Uses, SlotsOf
    <3>. QED
      BY <1>1, <2>3, <3>1, <3>2, <3>3
  <2>. QED
    BY <2>2, <2>3
<1>. QED
  BY <1>1, <1>6, <1>7

(* What a tidy client frees left no occurrence behind. *)
LEMMA TidyCleanKeepsExact ==
  ASSUME IInv, UsersAreExact, Clean, \A n \in Unused : Detached(g, n)
  PROVE  UsersAreExact'
<1>1. /\ live' = live \ Unused /\ live \subseteq Nodes /\ Unused \subseteq live
      /\ g'.operands = [n \in Nodes |-> IF n \in Unused THEN <<>> ELSE g.operands[n]]
      /\ g'.users = [d \in Nodes |-> IF d \in Unused THEN NoUsers ELSE g.users[d]]
  BY TypeFacts DEF IInv, Clean, Destroy, Unused
<1>. SUFFICES ASSUME NEW d \in live', NEW n \in Nodes
              PROVE  g'.users[d][n] = IF n \in live' THEN Uses(g', n, d) ELSE 0
  BY DEF UsersAreExact
<1>2. /\ d \in live /\ d \in Nodes /\ g'.users[d][n] = g.users[d][n]
      /\ g.users[d][n] = IF n \in live THEN Uses(g, n, d) ELSE 0
  BY <1>1 DEF UsersAreExact
<1>3. CASE n \in live'
  BY <1>1, <1>2, <1>3 DEF Uses, SlotsOf
<1>4. CASE n \in Unused
  <2>1. SlotsOf(g, n, d) = {}
    BY <1>2, <1>4, NullAssumption DEF Detached, SlotsOf, Slots
  <2>. QED
    BY <1>1, <1>2, <1>4, <2>1, FS_EmptySet DEF Uses
<1>5. CASE n \notin live
  BY <1>1, <1>2, <1>5
<1>. QED
  BY <1>1, <1>3, <1>4, <1>5

LEMMA TidyNextKeeps == TidyInv /\ [TidyNext]_vars => TidyInv'
<1>. SUFFICES ASSUME TidyInv, [TidyNext]_vars PROVE TidyInv'
  OBVIOUS
<1>0. IInv /\ UsersAreExact /\ ReplaceFindsSlot
  BY DEF TidyInv
<1>1. IInv'
  BY <1>0, NextKeeps DEF TidyNext, Next
<1>2. CASE UNCHANGED vars
  BY <1>0, <1>1, <1>2 DEF vars, TidyInv, UsersAreExact, ReplaceFindsSlot
<1>3. CASE Clean /\ \A n \in Unused : Detached(g, n)
  <2>1. ReplaceFindsSlot'
    BY <1>0, <1>3 DEF Clean, ReplaceFindsSlot
  <2>. QED
    BY <1>0, <1>1, <1>3, <2>1, TidyCleanKeepsExact DEF TidyInv
<1>4. CASE Edit
  <2>1. ReplaceFindsSlot'
    BY <1>0, <1>4 DEF Edit, Create, CallSetOperand, CallAddOperand, CallSwapOperands,
                      BeginReplace, BeginDetach, ReplaceFindsSlot
  <2>2. ASSUME NEW n \in Nodes, NEW ops \in OperandLists, Create(n, ops)
        PROVE  UsersAreExact'
    BY <1>0, <2>2, CreateKeepsExact
  <2>3. ASSUME NEW n \in Nodes, NEW i \in 1..MaxOperands, NEW d \in NodeOrNull,
               CallSetOperand(n, i, d)
        PROVE  UsersAreExact'
    BY <1>0, <2>3, SetOperandKeepsExact DEF CallSetOperand
  <2>4. ASSUME NEW n \in Nodes, NEW d \in NodeOrNull, CallAddOperand(n, d)
        PROVE  UsersAreExact'
    <3>1. n \in live /\ d \in LiveOrNull /\ g' = AddOperand(g, n, d) /\ live' = live
      BY <2>4 DEF CallAddOperand
    <3>2. g' \in Graph /\ Balanced(g, g')
      BY <1>0, <3>1, AddOperandBalance, TypeFacts DEF IInv
    <3>3. g'.operands = [g.operands EXCEPT ![n] = Append(g.operands[n], d)]
      BY <3>1 DEF AddOperand
    <3>4. \A m \in Nodes \ live : g'.operands[m] = g.operands[m]
      BY <1>0, <3>1, <3>3, TypeFacts DEF IInv
    <3>. QED
      BY <1>0, <3>1, <3>2, <3>4, BalancedKeepsExact
  <2>5. ASSUME NEW n \in Nodes, NEW i \in 1..MaxOperands, NEW j \in 1..MaxOperands,
               CallSwapOperands(n, i, j)
        PROVE  UsersAreExact'
    <3>1. /\ n \in live /\ i \in DOMAIN g.operands[n] /\ j \in DOMAIN g.operands[n]
          /\ g' = SwapOperands(g, n, i, j) /\ live' = live
      BY <2>5 DEF CallSwapOperands
    <3>2. g' \in Graph /\ Balanced(g, g')
      BY <1>0, <3>1, SwapOperandsBalance, TypeFacts DEF IInv
    <3>3. g'.operands = [g.operands EXCEPT ![n][i] = g.operands[n][j], ![n][j] = g.operands[n][i]]
      BY <3>1 DEF SwapOperands
    <3>4. \A m \in Nodes \ live : g'.operands[m] = g.operands[m]
      BY <1>0, <3>1, <3>3, TypeFacts DEF IInv
    <3>. QED
      BY <1>0, <3>1, <3>2, <3>4, BalancedKeepsExact
  <2>6. ASSUME NEW n \in Nodes, NEW m \in NodeOrNull, BeginReplace(n, m)
        PROVE  UsersAreExact'
    BY <1>0, <2>6 DEF BeginReplace, UsersAreExact
  <2>7. ASSUME NEW n \in Nodes, BeginDetach(n)
        PROVE  UsersAreExact'
    BY <1>0, <2>7 DEF BeginDetach, UsersAreExact
  <2>8. UsersAreExact'
    BY <1>4, <2>2, <2>3, <2>4, <2>5, <2>6, <2>7 DEF Edit
  <2>. QED
    BY <1>1, <2>1, <2>8 DEF TidyInv
<1>5. CASE Round
  <2>1. ASSUME DropSlot PROVE UsersAreExact' /\ ReplaceFindsSlot'
    <3>1. /\ call.this \in live /\ call.slot \in DOMAIN g.operands[call.this] /\ Null \in LiveOrNull
          /\ g' = SetOperand(g, call.this, call.slot, Null) /\ live' = live
          /\ call' = [call EXCEPT !.slot = @ + 1] /\ call.phase = "drop"
      BY <1>0, <2>1 DEF DropSlot, IInv, CallIsLive, Idle, LiveOrNull
    <3>2. UsersAreExact'
      BY <1>0, <3>1, SetOperandKeepsExact
    <3>3. ReplaceFindsSlot'
      BY <1>0, <3>1 DEF ReplaceFindsSlot, IInv, TypeOK, Calls
    <3>. QED
      BY <3>2, <3>3
  <2>2. ASSUME DropDone PROVE UsersAreExact' /\ ReplaceFindsSlot'
    BY <1>0, <2>2 DEF DropDone, UsersAreExact, ReplaceFindsSlot, IInv, TypeOK, Calls
  <2>3. ASSUME NEW u \in Nodes, ReplaceStep(u) PROVE UsersAreExact' /\ ReplaceFindsSlot'
    <3>1. PICK i \in FirstSlot(u, call.this) : g' = SetOperand(g, u, i, call.to)
      BY <2>3 DEF ReplaceStep
    <3>2. /\ u \in live /\ i \in DOMAIN g.operands[u] /\ call.to \in LiveOrNull
          /\ live' = live /\ call' = call
      BY <1>0, <2>3 DEF ReplaceStep, FirstSlot, SlotsOf, Slots, IInv, CallIsLive, Idle
    <3>. QED
      BY <1>0, <3>1, <3>2, SetOperandKeepsExact DEF ReplaceFindsSlot
  <2>4. ASSUME NEW u \in Nodes, ReplaceAbort(u) PROVE FALSE
    <3>1. /\ call.this \in live /\ g.users[call.this][u] > 0
          /\ u \notin live \/ SlotsOf(g, u, call.this) = {}
      BY <1>0, <2>4 DEF ReplaceAbort, UsersOf, IInv, CallIsLive, Idle
    <3>2. g.users[call.this][u] = IF u \in live THEN Uses(g, u, call.this) ELSE 0
      BY <1>0, <3>1 DEF UsersAreExact
    <3>3. SlotsOf(g, u, call.this) = {} => Uses(g, u, call.this) = 0
      BY FS_EmptySet DEF Uses
    <3>. QED
      BY <3>1, <3>2, <3>3
  <2>5. ASSUME ReplaceDone PROVE UsersAreExact' /\ ReplaceFindsSlot'
    BY <1>0, <2>5 DEF ReplaceDone, NoCall, UsersAreExact, ReplaceFindsSlot
  <2>. QED
    BY <1>1, <1>5, <2>1, <2>2, <2>3, <2>4, <2>5 DEF Round, TidyInv
<1>. QED
  BY <1>2, <1>3, <1>4, <1>5 DEF TidyNext

LEMMA TidyInvariance == TidySpec => []TidyInv
<1>1. Init => TidyInv
  <2>. SUFFICES ASSUME Init PROVE TidyInv
    OBVIOUS
  <2>1. IInv
    BY InitKeeps
  <2>2. \A n, d \in Nodes : g.users[d][n] = 0 /\ SlotsOf(g, n, d) = {}
    BY DEF Init, NoUsers, SlotsOf, Slots
  <2>3. \A n, d \in Nodes : Uses(g, n, d) = 0
    BY <2>2, FS_EmptySet DEF Uses
  <2>4. \A d \in live : d \in Nodes
    BY PinnedAssumption DEF Init
  <2>5. UsersAreExact
    BY <2>2, <2>3, <2>4 DEF UsersAreExact
  <2>6. ReplaceFindsSlot
    BY DEF Init, NoCall, ReplaceFindsSlot
  <2>. QED
    BY <2>1, <2>5, <2>6 DEF TidyInv
<1>. QED
  BY <1>1, TidyNextKeeps, PTL DEF TidySpec

(* For a tidy client both directions of every edge agree, for every graph. *)
THEOREM UsersStayExact == TidySpec => []UsersAreExact
<1>1. TidyInv => UsersAreExact
  BY DEF TidyInv
<1>. QED
  BY <1>1, TidyInvariance, PTL

(* The assertion in replaceWith never fails for a tidy client.             *)
THEOREM ReplaceAlwaysFindsSlot == TidySpec => []ReplaceFindsSlot
<1>1. TidyInv => ReplaceFindsSlot
  BY DEF TidyInv
<1>. QED
  BY <1>1, TidyInvariance, PTL
-----------------------------------------------------------------------------
(* The rounds of a call add up to one replacement.                         *)

(* A freed node has no slots, a call replaces a node by another, and the   *)
(* slots detach() has been to are empty.                                   *)
CallShape ==
  /\ \A n \in Nodes \ live : g.operands[n] = <<>>
  /\ Idle => call.this = call.to
  /\ ~Idle => call.this # call.to
  /\ call.phase = "drop" =>
       /\ call.to = Null /\ call.slot # 0
       /\ \A i \in DOMAIN g.operands[call.this] :
            i < call.slot => g.operands[call.this][i] = Null

(* Editing a node that exists leaves the slots of the others alone. *)
LEMMA ShapeOfEdit ==
  ASSUME IInv, CallShape, Idle, live' = live, call' = call,
         \A n \in Nodes \ live : g'.operands[n] = g.operands[n]
  PROVE  CallShape'
BY DEF CallShape, Idle

LEMMA ShapeKeeps ==
  ASSUME IInv, CallShape, [Next]_vars
  PROVE  CallShape'
<1>0. /\ g.operands \in [Nodes -> Seq(NodeOrNull)] /\ live \subseteq Nodes
      /\ call \in Calls /\ call.slot \in Nat
  BY TypeFacts DEF IInv, TypeOK
<1>1. CASE UNCHANGED vars
  BY <1>1 DEF vars, CallShape, Idle
<1>2. ASSUME NEW n \in Nodes, NEW ops \in OperandLists, Create(n, ops) PROVE CallShape'
  <2>1. /\ g'.operands = [g.operands EXCEPT ![n] = ops] /\ live' = live \cup {n} /\ call' = call
        /\ Idle
    BY <1>2 DEF Create, Construct
  <2>. QED
    BY <1>0, <2>1 DEF CallShape, Idle
<1>3. ASSUME NEW n \in Nodes, NEW i, NEW d, CallSetOperand(n, i, d) PROVE CallShape'
  BY <1>0, <1>3, ShapeOfEdit DEF CallSetOperand, SetOperand
<1>4. ASSUME NEW n \in Nodes, NEW d, CallAddOperand(n, d) PROVE CallShape'
  BY <1>0, <1>4, ShapeOfEdit DEF CallAddOperand, AddOperand
<1>5. ASSUME NEW n \in Nodes, NEW i, NEW j, CallSwapOperands(n, i, j) PROVE CallShape'
  BY <1>0, <1>5, ShapeOfEdit DEF CallSwapOperands, SwapOperands
<1>6. ASSUME NEW n \in Nodes, NEW m, BeginReplace(n, m) PROVE CallShape'
  BY <1>6 DEF BeginReplace, CallShape, Idle
<1>7. ASSUME NEW n \in Nodes, BeginDetach(n) PROVE CallShape'
  <2>1. /\ live' = live /\ g' = g
        /\ call' = [phase |-> "drop", this |-> n, to |-> Null, slot |-> 1]
    BY <1>7 DEF BeginDetach
  <2>2. \A i \in DOMAIN g.operands[n] : ~(i < 1)
    BY <1>0
  <2>. QED
    BY <2>1, <2>2, NullAssumption DEF CallShape, Idle
<1>8. ASSUME DropSlot PROVE CallShape'
  <2>1. PICK n : n = call.this
    OBVIOUS
  <2>2. PICK k : k = call.slot
    OBVIOUS
  <2>3. /\ call.phase = "drop" /\ n \in live /\ k \in DOMAIN g.operands[n] /\ live' = live
        /\ g'.operands = [g.operands EXCEPT ![n] = [g.operands[n] EXCEPT ![k] = Null]]
        /\ call' = [call EXCEPT !.slot = k + 1]
    BY <1>8, <2>1, <2>2 DEF DropSlot, SetOperand, IInv, CallIsLive, Idle
  <2>4. /\ call'.phase = "drop" /\ call'.this = n /\ call'.to = Null /\ call'.slot = k + 1
        /\ n # Null
    BY <1>0, <2>1, <2>3, NullAssumption DEF Calls, CallShape
  <2>5. \A i \in DOMAIN g'.operands[n] : i < k + 1 => g'.operands[n][i] = Null
    BY <1>0, <2>1, <2>2, <2>3 DEF CallShape
  <2>6. \A m \in Nodes \ live : g'.operands[m] = <<>>
    BY <1>0, <2>3 DEF CallShape
  <2>. QED
    BY <1>0, <2>2, <2>3, <2>4, <2>5, <2>6 DEF CallShape, Idle
<1>9. ASSUME DropDone PROVE CallShape'
  BY <1>0, <1>9 DEF DropDone, CallShape, Idle, Calls
<1>10. ASSUME NEW u \in Nodes, ReplaceStep(u) PROVE CallShape'
  BY <1>0, <1>10 DEF ReplaceStep, SetOperand, CallShape, Idle
<1>11. ASSUME NEW u \in Nodes, ReplaceAbort(u) PROVE CallShape'
  BY <1>0, <1>11 DEF ReplaceAbort, CallShape, Idle, Calls
<1>12. ASSUME ReplaceDone PROVE CallShape'
  BY <1>12 DEF ReplaceDone, NoCall, CallShape, Idle
<1>13. ASSUME Clean PROVE CallShape'
  BY <1>0, <1>13 DEF Clean, Destroy, CallShape, Idle
<1>. QED
  BY <1>1, <1>2, <1>3, <1>4, <1>5, <1>6, <1>7, <1>8, <1>9, <1>10, <1>11, <1>12, <1>13
     DEF Next, Edit, Round

(* Between calls a client sees the slots as they are. *)
LEMMA InputsAreOperands ==
  ASSUME IInv, CallShape, Idle
  PROVE  Inputs = g.operands
<1>1. \A n \in Nodes : g.operands[n] = [i \in DOMAIN g.operands[n] |-> g.operands[n][i]]
  BY TypeFacts DEF IInv
<1>2. call.phase # "drop" /\ call.this = call.to
  BY DEF CallShape, Idle
<1>3. \A n \in Nodes : Inputs[n] = [i \in DOMAIN g.operands[n] |-> g.operands[n][i]]
  BY <1>2 DEF Inputs
<1>4. Inputs = [n \in Nodes |-> Inputs[n]]
  BY DEF Inputs
<1>5. g.operands = [n \in Nodes |-> g.operands[n]]
  BY TypeFacts DEF IInv
<1>. QED
  BY <1>1, <1>3, <1>4, <1>5

(* No slot holds a node without users. *)
LEMMA UnusedIsNowhere ==
  ASSUME IInv, CallShape, NEW d \in Nodes, UsersOf(g, d) = {},
         NEW n \in Nodes, NEW i \in DOMAIN g.operands[n]
  PROVE  g.operands[n][i] # d
<1>1. n \in live
  BY DEF CallShape
<1>. QED
  BY <1>1, SlotIsRegistered DEF UsersOf

LEMMA RoundsRefine ==
  ASSUME IInv, CallShape, IInv', CallShape', Round
  PROVE  UNCHANGED Values!vars
<1>0. /\ g.operands \in [Nodes -> Seq(NodeOrNull)] /\ live \subseteq Nodes
      /\ call \in Calls
  BY TypeFacts DEF IInv, TypeOK
<1>. SUFFICES live' = live /\ Inputs' = Inputs
  BY DEF Values!vars
<1>1. live' = live
  BY DEF Round, DropSlot, DropDone, ReplaceStep, ReplaceAbort, ReplaceDone
<1>2. ASSUME \A n \in Nodes : Inputs'[n] = Inputs[n] PROVE Inputs' = Inputs
  BY <1>2 DEF Inputs
<1>3. ASSUME DropSlot PROVE Inputs' = Inputs
  <2>1. PICK m, k : m = call.this /\ k = call.slot
    OBVIOUS
  <2>2. /\ call.phase = "drop" /\ m \in live /\ k \in DOMAIN g.operands[m]
        /\ g'.operands = [g.operands EXCEPT ![m] = [g.operands[m] EXCEPT ![k] = Null]]
        /\ call' = [call EXCEPT !.slot = k + 1]
    BY <1>3, <2>1 DEF DropSlot, SetOperand, IInv, CallIsLive, Idle
  <2>3. call'.phase = "drop" /\ call'.this = m /\ call'.to = call.to
    BY <1>0, <2>1, <2>2 DEF Calls
  <2>4. DOMAIN g'.operands[m] = DOMAIN g.operands[m]
    BY <1>0, <2>2
  <2>5. \A n \in Nodes \ {m} : g'.operands[n] = g.operands[n]
    BY <1>0, <2>2
  <2>6. Inputs'[m] = Inputs[m]
    BY <1>0, <2>1, <2>2, <2>3, <2>4 DEF Inputs
  <2>7. \A n \in Nodes \ {m} : Inputs'[n] = Inputs[n]
    BY <2>1, <2>3, <2>5 DEF Inputs
  <2>. QED
    BY <1>2, <2>6, <2>7
<1>4. ASSUME DropDone PROVE Inputs' = Inputs
  <2>1. PICK m : m = call.this
    OBVIOUS
  <2>2. /\ m \in live /\ m # Null /\ g' = g /\ call.slot \notin DOMAIN g.operands[m]
        /\ call.phase = "drop" /\ call.to = Null /\ call.slot \in Nat \ {0}
        /\ call'.phase = "replace" /\ call'.this = m /\ call'.to = Null
    BY <1>0, <1>4, <2>1, NullAssumption DEF DropDone, IInv, CallIsLive, CallShape, Idle, Calls
  <2>3. \A i \in DOMAIN g.operands[m] : g.operands[m][i] = Null
    <3>1. \A i \in DOMAIN g.operands[m] : i < call.slot
      BY <1>0, <2>2
    <3>. QED
      BY <2>1, <2>2, <3>1 DEF CallShape
  <2>4. Inputs'[m] = Inputs[m]
    BY <1>0, <2>1, <2>2, <2>3 DEF Inputs
  <2>5. \A n \in Nodes \ {m} : Inputs'[n] = Inputs[n]
    BY <2>1, <2>2 DEF Inputs
  <2>. QED
    BY <1>2, <2>4, <2>5
<1>5. ASSUME NEW u \in Nodes, ReplaceStep(u) PROVE Inputs' = Inputs
  <2>1. PICK i \in FirstSlot(u, call.this) : g' = SetOperand(g, u, i, call.to)
    BY <1>5 DEF ReplaceStep
  <2>2. /\ i \in DOMAIN g.operands[u] /\ g.operands[u][i] = call.this
        /\ g'.operands = [g.operands EXCEPT ![u] = [g.operands[u] EXCEPT ![i] = call.to]]
        /\ call' = call /\ call.phase = "replace" /\ call.to # call.this
    BY <1>5, <2>1 DEF ReplaceStep, FirstSlot, SlotsOf, Slots, SetOperand, CallShape, Idle
  <2>3. /\ DOMAIN g'.operands[u] = DOMAIN g.operands[u]
        /\ g'.operands[u][i] = call.to
        /\ \A j \in DOMAIN g.operands[u] \ {i} : g'.operands[u][j] = g.operands[u][j]
    BY <1>0, <2>2
  <2>4. \A n \in Nodes \ {u} : g'.operands[n] = g.operands[n]
    BY <1>0, <2>2
  <2>5. Inputs'[u] = Inputs[u]
    BY <2>2, <2>3 DEF Inputs
  <2>6. \A n \in Nodes \ {u} : Inputs'[n] = Inputs[n]
    BY <2>2, <2>4 DEF Inputs
  <2>. QED
    BY <1>2, <2>5, <2>6
<1>6. ASSUME NEW u \in Nodes, ReplaceAbort(u) PROVE Inputs' = Inputs
  <2>1. /\ g' = g /\ call'.this = call.this /\ call'.to = call.to
        /\ call.phase # "drop" /\ call'.phase # "drop"
    BY <1>0, <1>6 DEF ReplaceAbort, Calls
  <2>. QED
    BY <2>1 DEF Inputs
<1>7. ASSUME ReplaceDone PROVE Inputs' = Inputs
  <2>1. PICK m : m = call.this
    OBVIOUS
  <2>2. /\ m \in Nodes /\ UsersOf(g, m) = {} /\ g' = g /\ call.phase = "replace"
        /\ call' = NoCall
    BY <1>0, <1>7, <2>1 DEF ReplaceDone, IInv, CallIsLive, Idle
  <2>3. \A n \in Nodes : \A i \in DOMAIN g.operands[n] : g.operands[n][i] # m
    BY <2>2, UnusedIsNowhere
  <2>4. \A n \in Nodes : Inputs[n] = [i \in DOMAIN g.operands[n] |-> g.operands[n][i]]
    BY <2>1, <2>2, <2>3 DEF Inputs
  <2>5. \A n \in Nodes : Inputs'[n] = [i \in DOMAIN g.operands[n] |-> g.operands[n][i]]
    BY <2>2 DEF Inputs, NoCall
  <2>. QED
    BY <1>2, <2>4, <2>5
<1>. QED
  BY <1>1, <1>3, <1>4, <1>5, <1>6, <1>7 DEF Round

LEMMA EditsRefine ==
  ASSUME IInv, CallShape, IInv', CallShape', Edit
  PROVE  Values!Next
<1>0. /\ g.operands \in [Nodes -> Seq(NodeOrNull)] /\ live \subseteq Nodes
      /\ call \in Calls /\ Idle /\ Inputs = g.operands
  BY TypeFacts, InputsAreOperands
     DEF IInv, TypeOK, Edit, Create, CallSetOperand, CallAddOperand, CallSwapOperands,
         BeginReplace, BeginDetach
<1>1. ASSUME call' = call PROVE Inputs' = g'.operands
  <2>1. g'.operands \in [Nodes -> Seq(NodeOrNull)]
    BY DEF IInv, TypeOK, Graph
  <2>2. \A n \in Nodes : g'.operands[n] = [i \in DOMAIN g'.operands[n] |-> g'.operands[n][i]]
    BY <2>1
  <2>3. call'.phase # "drop" /\ call'.this = call'.to
    BY <1>0, <1>1 DEF CallShape, Idle
  <2>4. \A n \in Nodes : Inputs'[n] = [i \in DOMAIN g'.operands[n] |-> g'.operands[n][i]]
    BY <2>3 DEF Inputs
  <2>5. Inputs' = [n \in Nodes |-> Inputs'[n]]
    BY DEF Inputs
  <2>6. g'.operands = [n \in Nodes |-> g'.operands[n]]
    BY <2>1
  <2>. QED
    BY <2>2, <2>4, <2>5, <2>6
<1>2. ASSUME NEW n \in Nodes, NEW ops \in OperandLists, Create(n, ops) PROVE Values!Next
  <2>1. /\ n \notin live /\ live' = live \cup {n} /\ call' = call
        /\ \A i \in DOMAIN ops : ops[i] \in live \cup {Null}
        /\ g'.operands = [g.operands EXCEPT ![n] = ops]
    BY <1>2 DEF Create, Construct, LiveOrNull
  <2>2. ops \in Seq(live \cup {Null})
    <3>1. PICK k \in 0..MaxOperands : ops \in [1..k -> NodeOrNull]
      BY DEF OperandLists
    <3>. QED
      BY <2>1, <3>1, BoundsAssumption
  <2>3. Inputs'[n] = ops /\ Inputs' = [Inputs EXCEPT ![n] = Inputs'[n]]
    BY <1>0, <1>1, <2>1
  <2>4. Values!Add(n)
    BY <2>1, <2>2, <2>3 DEF Values!Add
  <2>. QED
    BY <2>4 DEF Values!Next
<1>3. ASSUME NEW n \in Nodes, NEW i \in 1..MaxOperands, NEW d \in NodeOrNull,
             CallSetOperand(n, i, d)
      PROVE  Values!Next
  <2>1. /\ n \in live /\ i \in DOMAIN g.operands[n] /\ d \in live \cup {Null}
        /\ live' = live /\ call' = call
        /\ g'.operands = [g.operands EXCEPT ![n] = [g.operands[n] EXCEPT ![i] = d]]
    BY <1>3 DEF CallSetOperand, SetOperand, LiveOrNull
  <2>2. Inputs' = [Inputs EXCEPT ![n] = [Inputs[n] EXCEPT ![i] = d]]
    BY <1>0, <1>1, <2>1
  <2>3. Values!SetInput(n, i, d)
    BY <1>0, <2>1, <2>2 DEF Values!SetInput
  <2>. QED
    BY <1>0, <2>1, <2>3 DEF Values!Next
<1>4. ASSUME NEW n \in Nodes, NEW d \in NodeOrNull, CallAddOperand(n, d) PROVE Values!Next
  <2>1. /\ n \in live /\ d \in live \cup {Null} /\ live' = live /\ call' = call
        /\ g'.operands = [g.operands EXCEPT ![n] = Append(g.operands[n], d)]
    BY <1>4 DEF CallAddOperand, AddOperand, LiveOrNull
  <2>2. Inputs' = [Inputs EXCEPT ![n] = Append(Inputs[n], d)]
    BY <1>0, <1>1, <2>1
  <2>3. Values!AddInput(n, d)
    BY <2>1, <2>2 DEF Values!AddInput
  <2>. QED
    BY <2>1, <2>3 DEF Values!Next
<1>5. ASSUME NEW n \in Nodes, NEW i \in 1..MaxOperands, NEW j \in 1..MaxOperands,
             CallSwapOperands(n, i, j)
      PROVE  Values!Next
  <2>1. /\ n \in live /\ i \in DOMAIN g.operands[n] /\ j \in DOMAIN g.operands[n]
        /\ live' = live /\ call' = call
        /\ g'.operands = [g.operands EXCEPT ![n][i] = g.operands[n][j],
                                            ![n][j] = g.operands[n][i]]
    BY <1>5 DEF CallSwapOperands, SwapOperands
  <2>2. Inputs' = [Inputs EXCEPT ![n] =
                     [Inputs[n] EXCEPT ![i] = Inputs[n][j], ![j] = Inputs[n][i]]]
    BY <1>0, <1>1, <2>1
  <2>3. Values!SwapInputs(n, i, j)
    BY <1>0, <2>1, <2>2 DEF Values!SwapInputs
  <2>. QED
    BY <1>0, <2>1, <2>3 DEF Values!Next
<1>6. ASSUME NEW n \in Nodes, NEW m \in NodeOrNull, BeginReplace(n, m) PROVE Values!Next
  <2>1. /\ n \in live /\ m \in live \cup {Null} /\ live' = live /\ g' = g
        /\ call' = [phase |-> "replace", this |-> n, to |-> m, slot |-> 1]
    BY <1>6 DEF BeginReplace, LiveOrNull
  <2>2. Inputs' = Values!Replaced(n, m)
    BY <1>0, <2>1 DEF Inputs, Values!Replaced
  <2>3. Values!Replace(n, m)
    BY <2>1, <2>2 DEF Values!Replace
  <2>. QED
    BY <2>1, <2>3 DEF Values!Next
<1>7. ASSUME NEW n \in Nodes, BeginDetach(n) PROVE Values!Next
  <2>1. /\ n \in live /\ live' = live /\ g' = g
        /\ call' = [phase |-> "drop", this |-> n, to |-> Null, slot |-> 1]
    BY <1>7 DEF BeginDetach
  <2>2. Inputs' = [Values!Replaced(n, Null) EXCEPT ![n] = [i \in DOMAIN Inputs[n] |-> Null]]
    <3>0. call'.phase = "drop" /\ call'.this = n /\ call'.to = Null
      BY <2>1
    <3>1. Inputs'[n] = [i \in DOMAIN g.operands[n] |-> Null]
      BY <2>1, <3>0 DEF Inputs
    <3>2. \A u \in Nodes \ {n} : Inputs'[u] = Values!Replaced(n, Null)[u]
      BY <1>0, <2>1, <3>0 DEF Inputs, Values!Replaced
    <3>3. \A u \in Nodes : Inputs'[u] = IF u = n THEN [i \in DOMAIN g.operands[n] |-> Null]
                                       ELSE Values!Replaced(n, Null)[u]
      BY <3>1, <3>2
    <3>4. Inputs' = [u \in Nodes |-> Inputs'[u]]
      BY DEF Inputs
    <3>. QED
      BY <1>0, <3>3, <3>4 DEF Values!Replaced
  <2>3. Values!Detach(n)
    BY <2>1, <2>2 DEF Values!Detach
  <2>. QED
    BY <2>3 DEF Values!Next
<1>. QED
  BY <1>2, <1>3, <1>4, <1>5, <1>6, <1>7 DEF Edit

LEMMA CleanRefines ==
  ASSUME IInv, CallShape, IInv', CallShape', Clean
  PROVE  Values!Next
<1>1. /\ Idle /\ Idle' /\ live' = live \ Unused /\ Inputs = g.operands /\ live \subseteq Nodes
      /\ g'.operands = [n \in Nodes |-> IF n \in Unused THEN <<>> ELSE g.operands[n]]
      /\ Unused \subseteq live \ Pinned
  BY InputsAreOperands, TypeFacts DEF Clean, Destroy, Unused, Idle, IInv
<1>2. Inputs' = g'.operands
  <2>1. g'.operands \in [Nodes -> Seq(NodeOrNull)]
    BY DEF IInv, TypeOK, Graph
  <2>2. \A n \in Nodes : g'.operands[n] = [i \in DOMAIN g'.operands[n] |-> g'.operands[n][i]]
    BY <2>1
  <2>3. call'.phase # "drop" /\ call'.this = call'.to
    BY <1>1 DEF CallShape, Idle
  <2>4. \A n \in Nodes : Inputs'[n] = [i \in DOMAIN g'.operands[n] |-> g'.operands[n][i]]
    BY <2>3 DEF Inputs
  <2>5. Inputs' = [n \in Nodes |-> Inputs'[n]]
    BY DEF Inputs
  <2>6. g'.operands = [n \in Nodes |-> g'.operands[n]]
    BY <2>1
  <2>. QED
    BY <2>2, <2>4, <2>5, <2>6
<1>3. \A u \in live : \A i \in DOMAIN Inputs[u] : Inputs[u][i] \notin Unused
  BY <1>1, UnusedIsNowhere DEF Unused
<1>4. Values!Free(Unused)
  BY <1>1, <1>2, <1>3 DEF Values!Free
<1>5. PICK S : S = Unused
  OBVIOUS
<1>6. S \in SUBSET live /\ Values!Free(S)
  BY <1>1, <1>4, <1>5
<1>. QED
  BY <1>6 DEF Values!Next

LEMMA InitRefines == Init => CallShape /\ Values!Init
<1>. SUFFICES ASSUME Init PROVE CallShape /\ Values!Init
  OBVIOUS
<1>1. /\ live = Pinned /\ call = NoCall /\ g.operands = [n \in Nodes |-> <<>>]
  BY DEF Init
<1>2. CallShape
  BY <1>1 DEF CallShape, NoCall, Idle
<1>3. \A n \in Nodes : Inputs[n] = <<>>
  BY <1>1 DEF Inputs
<1>4. Inputs = [n \in Nodes |-> <<>>]
  BY <1>3 DEF Inputs
<1>. QED
  BY <1>1, <1>2, <1>4 DEF Values!Init

LEMMA NextRefines ==
  ASSUME IInv, CallShape, IInv', CallShape', [Next]_vars
  PROVE  [Values!Next]_(Values!vars)
<1>1. CASE UNCHANGED vars
  BY <1>1 DEF vars, Values!vars, Inputs
<1>. QED
  BY <1>1, EditsRefine, RoundsRefine, CleanRefines DEF Next

(* For every graph and every sequence of calls: a client sees replaceWith  *)
(* and detach as single steps, and clean() frees only what nobody takes.   *)
THEOREM ValuesAreImplemented == Spec => ValuesSpec
<1>1. Spec => []CallShape
  BY InitRefines, ShapeKeeps, Invariance, PTL DEF Spec
<1>. QED
  BY <1>1, InitRefines, NextRefines, Invariance, PTL DEF Spec, ValuesSpec, Values!Spec

(* The same for a tidy client, whose steps are among those of any client.  *)
THEOREM TidyValuesAreImplemented == TidySpec => ValuesSpec
<1>1. [TidyNext]_vars => [Next]_vars
  BY DEF TidyNext, Next
<1>2. TidySpec => Spec
  BY <1>1, PTL DEF TidySpec, Spec
<1>. QED
  BY <1>2, ValuesAreImplemented, PTL
-----------------------------------------------------------------------------
(* Inlining.                                                               *)
Known == DOMAIN label

(* The nodes of L refer to nodes of L and agree on the edges between them. *)
Agree(h, L) ==
  /\ h \in Graph /\ L \subseteq Nodes
  /\ \A n \in L : \A i \in DOMAIN h.operands[n] : h.operands[n][i] \in L \cup {Null}
  /\ \A n, d \in L : h.users[d][n] = Uses(h, n, d)

(* No multiset holds an address outside K. *)
Within(h, K) == \A d \in Nodes, n \in Nodes \ K : h.users[d][n] = 0

Sound(h, L, l, arity) ==
  /\ Agree(h, L)
  /\ L \subseteq DOMAIN l
  /\ Within(h, DOMAIN l)
  /\ \A n \in L : IsFormed(n, h.operands, l, arity)

Arity == ArityOf(given.functions)

KnownTypes ==
  /\ given \in Programs
  /\ Known \subseteq Nodes /\ IsFiniteSet(Known) /\ Known = 1..Cardinality(Known)
  /\ functions \in [Functions -> Frames(Known)]
  /\ script \in Seq([run : {"inline", "clean"}, on : Functions])
  /\ calls \in Seq(Known)
  /\ slot \in Nat \ {0}

FramesHold ==
  \A f \in Functions :
    /\ IsFrame(functions[f], label)
    /\ functions[f].args = given.functions[f].args
    /\ \A h \in Functions \ {f} : OwnedBy(functions[f]) \cap OwnedBy(functions[h]) = {}

CallsHold ==
  /\ phase = "ready" => calls = <<>>
  /\ phase \notin {"ready", "aborted", "undefined"} => script # <<>>
  /\ script # <<>> => \A i \in DOMAIN calls : calls[i] \in ToSet(functions[Caller].nodes) /\ IsKind(calls[i], "call")
  /\ script = <<>> => calls = <<>>

AfterArgs == {"rets", "call", "move"}

Busy == {"args"} \cup AfterArgs

(* The call and the ends, which nothing of the copy enters. *)
Outside == {Call} \cup {functions[f].end : f \in Functions}

CopyHolds ==
  /\ phase \in {"ready", "calls"} => copy = NoFunction
  /\ phase \in Busy =>
       /\ calls # <<>>
       /\ copy \in Frames(Known) /\ IsFrame(copy, label)
       /\ \A f \in Functions : OwnedBy(functions[f]) \cap OwnedBy(copy) = {}
       /\ \A u \in Outside : ToSet(graph.operands[u]) \cap OwnedBy(copy) = {}
       /\ Len(copy.args) = Arity[label[Call].of]

(* No node has one of the arguments before the i-th as operand. *)
ArgsReplaced(i) ==
  \A k \in DOMAIN copy.args : k < i =>
    \A n \in Live : copy.args[k] \notin ToSet(graph.operands[n])

ArgsHold ==
  /\ phase = "args" => ArgsReplaced(slot)
  /\ phase \in AfterArgs => ArgsReplaced(Len(copy.args) + 1)

RetsHold ==
  /\ phase = "args" => Null \notin ToSet(Rets)
  /\ phase \in AfterArgs =>
       /\ {ret.region, ret.value} \subseteq ToSet(functions[Caller].nodes)
       /\ IsKind(ret.region, "region") /\ IsKind(ret.value, "phi")
  /\ phase = "rets" =>
       /\ Len(graph.operands[ret.value]) = Len(Rets) + 1
       /\ \A i \in DOMAIN Rets : i >= slot => Rets[i] # Null

EdgeInv ==
  /\ KnownTypes
  /\ Sound(graph, Live, label, Arity)
  /\ FramesHold
  /\ CallsHold
  /\ CopyHolds
  /\ ArgsHold
  /\ RetsHold

-----------------------------------------------------------------------------
LEMMA AgreeSlots ==
  ASSUME NEW h, NEW L, Agree(h, L), NEW n \in L
  PROVE  /\ n \in Nodes /\ h.operands[n] \in Seq(NodeOrNull)
         /\ h.operands[n] \in Seq(L \cup {Null})
<1>1. h \in Graph /\ L \subseteq Nodes
  BY DEF Agree
<1>2. n \in Nodes /\ h.operands[n] \in Seq(NodeOrNull)
  BY <1>1 DEF Graph
<1>3. \A i \in DOMAIN h.operands[n] : h.operands[n][i] \in L \cup {Null}
  BY DEF Agree
<1>. QED
  BY <1>2, <1>3

LEMMA AgreeUses ==
  ASSUME NEW h, NEW L, Agree(h, L), NEW n \in L, NEW d \in L
  PROVE  /\ h.users[d][n] = Uses(h, n, d)
         /\ Uses(h, n, d) \in Nat
         /\ Uses(h, n, d) = 0 <=> \A i \in DOMAIN h.operands[n] : h.operands[n][i] # d
<1>1. h \in Graph /\ n \in Nodes
  BY DEF Agree
<1>2. h.users[d][n] = Uses(h, n, d)
  BY DEF Agree
<1>3. Uses(h, n, d) \in Nat /\ (Uses(h, n, d) = 0 <=> SlotsOf(h, n, d) = {})
  BY <1>1, UsesType
<1>. QED
  BY <1>2, <1>3 DEF SlotsOf, Slots

(* The slots that held n hold m. *)
Renamed(s, n, m) == [i \in DOMAIN s |-> IF s[i] = n THEN m ELSE s[i]]

LEMMA CountReplaced ==
  ASSUME NEW T, NEW s \in Seq(T), NEW n, NEW m, m # n
  PROVE  /\ Cardinality(Slots(Renamed(s, n, m), n)) = 0
         /\ Cardinality(Slots(Renamed(s, n, m), m)) = Cardinality(Slots(s, m)) + Cardinality(Slots(s, n))
         /\ \A e : e # n /\ e # m => Slots(Renamed(s, n, m), e) = Slots(s, e)
<1>. DEFINE t == Renamed(s, n, m)
<1>0. t = [i \in DOMAIN s |-> IF s[i] = n THEN m ELSE s[i]]
  BY DEF Renamed
<1>1. Slots(t, n) = {} /\ Cardinality({}) = 0
  BY <1>0, FS_EmptySet DEF Slots
<1>2. Slots(t, m) = Slots(s, m) \cup Slots(s, n) /\ Slots(s, m) \cap Slots(s, n) = {}
  BY <1>0 DEF Slots
<1>3. IsFiniteSet(Slots(s, m)) /\ IsFiniteSet(Slots(s, n))
  BY SlotsFinite
<1>4. Cardinality(Slots(s, m)) \in Nat /\ Cardinality(Slots(s, n)) \in Nat
  BY SlotsFinite
<1>5. Cardinality(Slots(s, m) \cup Slots(s, n))
        = Cardinality(Slots(s, m)) + Cardinality(Slots(s, n)) - Cardinality(Slots(s, m) \cap Slots(s, n))
  BY <1>3, FS_Union
<1>6. \A e : e # n /\ e # m => Slots(t, e) = Slots(s, e)
  BY <1>0 DEF Slots
<1>7. Cardinality(Slots(t, m)) = Cardinality(Slots(s, m)) + Cardinality(Slots(s, n))
  <2>. HIDE DEF t
  <2>. QED
    <3>1. Cardinality(Slots(s, m) \cap Slots(s, n)) = 0
      BY <1>1, <1>2
    <3>2. Cardinality(Slots(t, m)) = Cardinality(Slots(s, m) \cup Slots(s, n))
      BY <1>2
    <3>. QED
      BY <1>4, <1>5, <3>1, <3>2
<1>. QED
  BY <1>1, <1>6, <1>7

LEMMA ReplaceKeeps ==
  ASSUME NEW h, NEW L, Agree(h, L), NEW n \in L, NEW m \in L \cup {Null}, m # n
  PROVE  LET r == ReplaceWith(h, n, m)
         IN  /\ Agree(r, L)
             /\ \A u \in L : r.operands[u] = Renamed(h.operands[u], n, m)
             /\ \A K : L \subseteq K /\ Within(h, K) => Within(r, K)
<1>. DEFINE r == ReplaceWith(h, n, m)
            Now(u) == Renamed(h.operands[u], n, m)
<1>a. h \in Graph /\ L \subseteq Nodes
  BY DEF Agree
<1>0. /\ h \in Graph /\ L \subseteq Nodes
      /\ h.operands \in [Nodes -> Seq(NodeOrNull)] /\ h.users \in [Nodes -> [Nodes -> Nat]]
  BY <1>a DEF Graph
<1>1. /\ r = [operands |-> r.operands, users |-> r.users]
      /\ r.operands = [u \in Nodes |-> IF h.users[n][u] = 0 THEN h.operands[u] ELSE Now(u)]
      /\ r.users = [d \in Nodes |-> IF d = n THEN NoUsers
                                    ELSE IF d = m THEN [u \in Nodes |-> h.users[d][u] + h.users[n][u]]
                                    ELSE h.users[d]]
  BY DEF ReplaceWith, Renamed
<1>. HIDE DEF r
<1>2. ASSUME NEW u \in Nodes PROVE Now(u) \in Seq(NodeOrNull)
  <2>1. h.operands[u] \in Seq(NodeOrNull) /\ m \in NodeOrNull
    BY <1>0 DEF NodeOrNull
  <2>. QED
    BY <2>1 DEF Renamed
<1>3. ASSUME NEW u \in L PROVE r.operands[u] = Now(u)
  <2>0. u \in Nodes /\ h.operands[u] \in Seq(NodeOrNull)
    BY AgreeSlots
  <2>1. CASE h.users[n][u] = 0
    <3>1. \A i \in DOMAIN h.operands[u] : h.operands[u][i] # n
      BY <2>1, AgreeUses
    <3>2. h.operands[u] \in Seq(NodeOrNull) /\ u \in Nodes
      BY <2>0
    <3>3. Now(u) = h.operands[u]
      BY <3>1, <3>2 DEF Renamed
    <3>. QED
      BY <1>1, <2>1, <3>2, <3>3
  <2>. QED
    BY <1>1, <2>0, <2>1
<1>4. r \in Graph
  <2>1. r.operands \in [Nodes -> Seq(NodeOrNull)]
    BY <1>0, <1>1, <1>2
  <2>2. ASSUME NEW d \in Nodes PROVE r.users[d] \in [Nodes -> Nat]
    <3>1. NoUsers \in [Nodes -> Nat]
      BY DEF NoUsers
    <3>2. [u \in Nodes |-> h.users[d][u] + h.users[n][u]] \in [Nodes -> Nat]
      <4>1. h.users[d] \in [Nodes -> Nat] /\ h.users[n] \in [Nodes -> Nat]
        BY <1>0
      <4>. QED
        BY <4>1
    <3>. QED
      BY <1>0, <1>1, <3>1, <3>2
  <2>3. r.users \in [Nodes -> [Nodes -> Nat]]
    BY <1>1, <2>2
  <2>. QED
    BY <1>1, <2>1, <2>3 DEF Graph
<1>5. ASSUME NEW u \in L, NEW i \in DOMAIN r.operands[u] PROVE r.operands[u][i] \in L \cup {Null}
  <2>1. h.operands[u] \in Seq(L \cup {Null})
    BY AgreeSlots
  <2>2. r.operands[u] = Renamed(h.operands[u], n, m)
    BY <1>3
  <2>. QED
    BY ONLY <2>1, <2>2, i \in DOMAIN r.operands[u], m \in L \cup {Null} DEF Renamed
<1>6. ASSUME NEW u \in L, NEW d \in L PROVE r.users[d][u] = Uses(r, u, d)
  <2>0. u \in Nodes /\ d \in Nodes /\ n \in Nodes /\ h.operands[u] \in Seq(NodeOrNull)
    BY <1>0, AgreeSlots
  <2>1. /\ h.users[d][u] = Uses(h, u, d) /\ h.users[n][u] = Uses(h, u, n)
    BY AgreeUses
  <2>2. /\ Cardinality(Slots(Now(u), n)) = 0
        /\ Cardinality(Slots(Now(u), m)) = Cardinality(Slots(h.operands[u], m)) + Cardinality(Slots(h.operands[u], n))
        /\ \A e : e # n /\ e # m => Slots(Now(u), e) = Slots(h.operands[u], e)
    BY <2>0, CountReplaced
  <2>3. Uses(r, u, d) = Cardinality(Slots(Now(u), d))
    BY <1>3 DEF Uses, SlotsOf
  <2>. HIDE DEF Now
  <2>4. CASE d = n
    BY <1>1, <2>0, <2>2, <2>3, <2>4 DEF NoUsers
  <2>5. CASE d # n /\ d = m
    BY <1>1, <2>0, <2>1, <2>2, <2>3, <2>5 DEF Uses, SlotsOf
  <2>6. CASE d # n /\ d # m
    BY <1>1, <2>0, <2>1, <2>2, <2>3, <2>6 DEF Uses, SlotsOf
  <2>. QED
    BY <2>4, <2>5, <2>6
<1>7. Agree(r, L)
  BY <1>0, <1>4, <1>5, <1>6 DEF Agree
<1>8. ASSUME NEW K, L \subseteq K, Within(h, K) PROVE Within(r, K)
  <2>1. n \in Nodes /\ n \in K
    BY <1>0, <1>8
  <2>2. ASSUME NEW d \in Nodes, NEW u \in Nodes \ K PROVE r.users[d][u] = 0
    <3>1. h.users[d][u] = 0 /\ h.users[n][u] = 0
      BY <1>8, <2>1 DEF Within
    <3>. QED
      BY <1>1, <3>1 DEF NoUsers
  <2>. QED
    BY <2>2 DEF Within
<1>. QED
  BY <1>3, <1>7, <1>8 DEF r

(* An edit that moves slots and occurrences by the same amounts. *)
LEMMA BalancedKeepsAgree ==
  ASSUME NEW h, NEW L, Agree(h, L), NEW s \in Graph, Balanced(h, s),
         \A u \in L : s.operands[u] \in Seq(L \cup {Null}),
         \A u \in Nodes \ L : s.operands[u] = h.operands[u]
  PROVE  /\ Agree(s, L)
         /\ \A K : L \subseteq K /\ Within(h, K) => Within(s, K)
<1>0. h \in Graph /\ L \subseteq Nodes
  BY DEF Agree
<1>1. ASSUME NEW u \in L, NEW e \in L PROVE s.users[e][u] = Uses(s, u, e)
  <2>1. u \in Nodes /\ e \in Nodes
    BY <1>0
  <2>2. s.users[e][u] + Uses(h, u, e) = h.users[e][u] + Uses(s, u, e)
    BY <2>1 DEF Balanced
  <2>3. s.users[e][u] \in Nat /\ Uses(s, u, e) \in Nat
    BY <2>1, UsersType, UsesType
  <2>4. h.users[e][u] = Uses(h, u, e) /\ Uses(h, u, e) \in Nat
    BY AgreeUses
  <2>. QED
    BY ONLY <2>2, <2>3, <2>4
<1>2. Agree(s, L)
  <2>1. \A u \in L : \A i \in DOMAIN s.operands[u] : s.operands[u][i] \in L \cup {Null}
    OBVIOUS
  <2>. QED
    BY <1>0, <1>1, <2>1 DEF Agree
<1>3. ASSUME NEW K, L \subseteq K, Within(h, K) PROVE Within(s, K)
  <2>1. ASSUME NEW e \in Nodes, NEW u \in Nodes \ K PROVE s.users[e][u] = 0
    <3>1. u \in Nodes \ L
      BY <1>3
    <3>2. Uses(s, u, e) = Uses(h, u, e)
      BY <3>1 DEF Uses, SlotsOf
    <3>3. s.users[e][u] + Uses(h, u, e) = h.users[e][u] + Uses(s, u, e)
      BY DEF Balanced
    <3>4. h.users[e][u] = 0 /\ s.users[e][u] \in Nat /\ Uses(h, u, e) \in Nat
      BY <1>0, <1>3, UsersType, UsesType DEF Within
    <3>. QED
      BY ONLY <3>2, <3>3, <3>4
  <2>. QED
    BY <2>1 DEF Within
<1>. QED
  BY <1>2, <1>3

(* setOperand. *)
LEMMA SetKeeps ==
  ASSUME NEW h, NEW L, Agree(h, L), NEW n \in L, NEW i \in DOMAIN h.operands[n], NEW d \in L \cup {Null}
  PROVE  /\ Agree(SetOperand(h, n, i, d), L)
         /\ \A u \in L : SetOperand(h, n, i, d).operands[u] =
              IF u = n THEN [h.operands[n] EXCEPT ![i] = d] ELSE h.operands[u]
         /\ \A K : L \subseteq K /\ Within(h, K) => Within(SetOperand(h, n, i, d), K)
<1>. DEFINE s == SetOperand(h, n, i, d)
            now == [h.operands[n] EXCEPT ![i] = d]
<1>0. /\ h \in Graph /\ L \subseteq Nodes /\ n \in Nodes
      /\ h.operands \in [Nodes -> Seq(NodeOrNull)]
  BY DEF Agree, Graph
<1>1. h.operands[n] \in Seq(L \cup {Null})
  BY AgreeSlots
<1>2. h.operands[n][i] \in Nodes => h.users[h.operands[n][i]][n] > 0
  <2>. SUFFICES ASSUME h.operands[n][i] \in Nodes PROVE h.users[h.operands[n][i]][n] > 0
    OBVIOUS
  <2>1. h.operands[n][i] \in L
    BY <1>1, NullAssumption
  <2>2. /\ h.users[h.operands[n][i]][n] = Uses(h, n, h.operands[n][i]) /\ Uses(h, n, h.operands[n][i]) \in Nat
        /\ Uses(h, n, h.operands[n][i]) # 0
    BY <2>1, AgreeUses
  <2>. QED
    BY <2>2
<1>3. d \in NodeOrNull
  BY <1>0 DEF NodeOrNull
<1>4. s \in Graph /\ Balanced(h, s)
  BY <1>0, <1>2, <1>3, SetOperandBalance
<1>5. s.operands = [h.operands EXCEPT ![n] = now]
  <2>1. s.operands = [h.operands EXCEPT ![n][i] = d]
    BY DEF SetOperand
  <2>. QED
    BY <1>0, <2>1
<1>6. now \in Seq(L \cup {Null})
  BY <1>1
<1>. HIDE DEF s, now
<1>7. \A u \in Nodes : s.operands[u] = IF u = n THEN now ELSE h.operands[u]
  BY <1>0, <1>5
<1>8. \A u \in L : s.operands[u] \in Seq(L \cup {Null})
  BY <1>0, <1>6, <1>7, AgreeSlots
<1>9. \A u \in Nodes \ L : s.operands[u] = h.operands[u]
  BY <1>7
<1>10. /\ Agree(s, L)
       /\ \A K : L \subseteq K /\ Within(h, K) => Within(s, K)
  BY <1>4, <1>8, <1>9, BalancedKeepsAgree
<1>11. \A u \in L : s.operands[u] = IF u = n THEN now ELSE h.operands[u]
  BY <1>0, <1>7
<1>. QED
  BY <1>10, <1>11 DEF s, now

(* addOperand. *)
LEMMA AddKeeps ==
  ASSUME NEW h, NEW L, Agree(h, L), NEW n \in L, NEW d \in L \cup {Null}
  PROVE  /\ Agree(AddOperand(h, n, d), L)
         /\ \A u \in L : AddOperand(h, n, d).operands[u] =
              IF u = n THEN Append(h.operands[n], d) ELSE h.operands[u]
         /\ \A K : L \subseteq K /\ Within(h, K) => Within(AddOperand(h, n, d), K)
<1>. DEFINE s == AddOperand(h, n, d)
            now == Append(h.operands[n], d)
<1>0. /\ h \in Graph /\ L \subseteq Nodes /\ n \in Nodes
      /\ h.operands \in [Nodes -> Seq(NodeOrNull)]
  BY DEF Agree, Graph
<1>1. d \in NodeOrNull
  BY <1>0 DEF NodeOrNull
<1>2. s \in Graph /\ Balanced(h, s)
  BY <1>0, <1>1, AddOperandBalance
<1>3. s.operands = [h.operands EXCEPT ![n] = now]
  BY DEF AddOperand
<1>4. now \in Seq(L \cup {Null})
  BY AgreeSlots
<1>. HIDE DEF s, now
<1>5. \A u \in Nodes : s.operands[u] = IF u = n THEN now ELSE h.operands[u]
  BY <1>0, <1>3
<1>6. \A u \in L : s.operands[u] \in Seq(L \cup {Null})
  BY <1>0, <1>4, <1>5, AgreeSlots
<1>7. \A u \in Nodes \ L : s.operands[u] = h.operands[u]
  BY <1>5
<1>8. /\ Agree(s, L)
      /\ \A K : L \subseteq K /\ Within(h, K) => Within(s, K)
  BY <1>2, <1>6, <1>7, BalancedKeepsAgree
<1>9. \A u \in L : s.operands[u] = IF u = n THEN now ELSE h.operands[u]
  BY <1>0, <1>5
<1>. QED
  BY <1>8, <1>9 DEF s, now

(* detach. *)
LEMMA DetachKeeps ==
  ASSUME NEW h, NEW L, Agree(h, L), NEW n \in L
  PROVE  /\ Agree(Detach(h, n), L)
         /\ \A u \in L : Detach(h, n).operands[u] =
              IF u = n THEN [i \in DOMAIN h.operands[n] |-> Null] ELSE Renamed(h.operands[u], n, Null)
         /\ \A K : L \subseteq K /\ Within(h, K) => Within(Detach(h, n), K)
<1>. DEFINE s == Emptied(h, n)
            now == [i \in DOMAIN h.operands[n] |-> Null]
<1>0. /\ h \in Graph /\ L \subseteq Nodes /\ n \in Nodes
      /\ h.operands \in [Nodes -> Seq(NodeOrNull)] /\ h.users \in [Nodes -> [Nodes -> Nat]]
  BY DEF Agree, Graph
<1>1. /\ s = [operands |-> s.operands, users |-> s.users]
      /\ s.operands = [h.operands EXCEPT ![n] = now]
      /\ s.users = [d \in Nodes |-> [h.users[d] EXCEPT ![n] = h.users[d][n] - Uses(h, n, d)]]
  BY DEF Emptied
<1>2. h.operands[n] \in Seq(L \cup {Null}) /\ now \in Seq(L \cup {Null}) /\ now \in Seq(NodeOrNull)
  <2>1. h.operands[n] \in Seq(L \cup {Null})
    BY AgreeSlots
  <2>. QED
    BY <2>1 DEF NodeOrNull
<1>. HIDE DEF s
<1>3. ASSUME NEW d \in Nodes PROVE h.users[d][n] - Uses(h, n, d) \in Nat /\ h.users[d] \in [Nodes -> Nat]
  <2>1. CASE d \in L
    BY <1>0, <2>1, AgreeUses
  <2>2. CASE d \notin L
    <3>1. Slots(h.operands[n], d) = {}
      BY <1>2, <2>2, NullAssumption DEF Slots
    <3>2. Uses(h, n, d) = 0
      BY <3>1, FS_EmptySet DEF Uses, SlotsOf
    <3>. QED
      BY <1>0, <3>2
  <2>. QED
    BY <2>1, <2>2
<1>4. s \in Graph
  <2>1. s.operands \in [Nodes -> Seq(NodeOrNull)]
    BY <1>0, <1>1, <1>2
  <2>2. s.users \in [Nodes -> [Nodes -> Nat]]
    <3>1. ASSUME NEW d \in Nodes PROVE s.users[d] \in [Nodes -> Nat]
      <4>1. \A k \in Nat : [h.users[d] EXCEPT ![n] = k] \in [Nodes -> Nat]
        BY <1>0, <1>3
      <4>2. s.users[d] = [h.users[d] EXCEPT ![n] = h.users[d][n] - Uses(h, n, d)]
        BY <1>1
      <4>. QED
        BY <1>3, <4>1, <4>2
    <3>. QED
      BY <1>1, <3>1
  <2>. QED
    BY <1>1, <2>1, <2>2 DEF Graph
<1>5. \A u \in Nodes : s.operands[u] = IF u = n THEN now ELSE h.operands[u]
  BY <1>0, <1>1
<1>6. ASSUME NEW u \in Nodes, NEW d \in Nodes
      PROVE s.users[d][u] = IF u = n THEN h.users[d][n] - Uses(h, n, d) ELSE h.users[d][u]
  BY <1>0, <1>1
<1>. HIDE DEF now
<1>7. ASSUME NEW u \in L, NEW d \in L PROVE s.users[d][u] = Uses(s, u, d)
  <2>1. u \in Nodes /\ d \in Nodes
    BY <1>0
  <2>2. h.users[d][u] = Uses(h, u, d) /\ Uses(h, u, d) \in Nat
    BY AgreeUses
  <2>3. CASE u = n
    <3>1. Slots(now, d) = {}
      BY <2>1, NullAssumption DEF Slots, now
    <3>2. Uses(s, n, d) = 0
      BY <1>5, <2>1, <2>3, <3>1, FS_EmptySet DEF Uses, SlotsOf
    <3>. QED
      BY <1>6, <2>1, <2>2, <2>3, <3>2
  <2>4. CASE u # n
    BY <1>5, <1>6, <2>1, <2>2, <2>4 DEF Uses, SlotsOf
  <2>. QED
    BY <2>3, <2>4
<1>8. \A u \in L : \A i \in DOMAIN s.operands[u] : s.operands[u][i] \in L \cup {Null}
  <2>. SUFFICES ASSUME NEW u \in L, NEW i \in DOMAIN s.operands[u] PROVE s.operands[u][i] \in L \cup {Null}
    OBVIOUS
  <2>1. h.operands[u] \in Seq(L \cup {Null}) /\ u \in Nodes
    BY AgreeSlots
  <2>2. s.operands[u] \in Seq(L \cup {Null})
    BY <1>2, <1>5, <2>1
  <2>. QED
    BY <2>2
<1>9. Agree(s, L)
  BY <1>0, <1>4, <1>7, <1>8 DEF Agree
<1>10. Null \in L \cup {Null} /\ Null # n
  BY <1>0, NullAssumption
<1>11. /\ Agree(ReplaceWith(s, n, Null), L)
       /\ \A u \in L : ReplaceWith(s, n, Null).operands[u] = Renamed(s.operands[u], n, Null)
       /\ \A K : L \subseteq K /\ Within(s, K) => Within(ReplaceWith(s, n, Null), K)
  BY <1>9, <1>10, ReplaceKeeps
<1>12. Detach(h, n) = ReplaceWith(s, n, Null)
  BY DEF Detach, s
<1>13. ASSUME NEW u \in L
       PROVE Renamed(s.operands[u], n, Null) = IF u = n THEN now ELSE Renamed(h.operands[u], n, Null)
  <2>1. u \in Nodes
    BY <1>0
  <2>2. Renamed(now, n, Null) = now
    BY DEF Renamed, now
  <2>. QED
    BY <1>5, <2>1, <2>2
<1>14. ASSUME NEW K, L \subseteq K, Within(h, K) PROVE Within(s, K)
  <2>1. ASSUME NEW d \in Nodes, NEW u \in Nodes \ K PROVE s.users[d][u] = 0
    <3>1. u # n /\ h.users[d][u] = 0
      BY <1>14 DEF Within
    <3>. QED
      BY <1>6, <3>1
  <2>. QED
    BY <2>1 DEF Within
<1>15. \A u \in L : Detach(h, n).operands[u] = IF u = n THEN now ELSE Renamed(h.operands[u], n, Null)
  BY <1>11, <1>12, <1>13
<1>16. \A K : L \subseteq K /\ Within(h, K) => Within(Detach(h, n), K)
  BY <1>11, <1>12, <1>14
<1>. QED
  BY <1>11, <1>12, <1>15, <1>16 DEF now

(* A constructor, for a node that is new. *)
LEMMA ConstructKeeps ==
  ASSUME NEW h, NEW L, Agree(h, L), NEW K, L \subseteq K, Within(h, K),
         NEW n \in Nodes, n \notin K, NEW ops \in Seq(L \cup {Null})
  PROVE  /\ Agree(Construct(h, n, ops), L \cup {n})
         /\ Construct(h, n, ops).operands[n] = ops
         /\ \A u \in L : Construct(h, n, ops).operands[u] = h.operands[u]
         /\ Within(Construct(h, n, ops), K \cup {n})
<1>. DEFINE s == Construct(h, n, ops)
<1>0. /\ h \in Graph /\ L \subseteq Nodes /\ n \notin L
      /\ h.operands \in [Nodes -> Seq(NodeOrNull)] /\ h.users \in [Nodes -> [Nodes -> Nat]]
  BY DEF Agree, Graph
<1>1. /\ s = [operands |-> s.operands, users |-> s.users]
      /\ s.operands = [h.operands EXCEPT ![n] = ops]
      /\ s.users = [d \in Nodes |-> IF d = n THEN NoUsers
                                    ELSE [h.users[d] EXCEPT ![n] = h.users[d][n] + Cardinality(Slots(ops, d))]]
  BY DEF Construct
<1>. HIDE DEF s
<1>2. ops \in Seq(NodeOrNull)
  BY <1>0 DEF NodeOrNull
<1>3. \A d : Cardinality(Slots(ops, d)) \in Nat
  BY <1>2, SlotsFinite
<1>4. s \in Graph
  <2>1. s.operands \in [Nodes -> Seq(NodeOrNull)]
    BY <1>0, <1>1, <1>2
  <2>2. ASSUME NEW d \in Nodes PROVE s.users[d] \in [Nodes -> Nat]
    <3>1. h.users[d] \in [Nodes -> Nat] /\ h.users[d][n] + Cardinality(Slots(ops, d)) \in Nat
      BY <1>0, <1>3
    <3>2. NoUsers \in [Nodes -> Nat]
      BY DEF NoUsers
    <3>. QED
      BY <1>1, <3>1, <3>2
  <2>3. s.users \in [Nodes -> [Nodes -> Nat]]
    BY <1>1, <2>2
  <2>. QED
    BY <1>1, <2>1, <2>3 DEF Graph
<1>5. \A u \in Nodes : s.operands[u] = IF u = n THEN ops ELSE h.operands[u]
  BY <1>0, <1>1
<1>6. ASSUME NEW u \in Nodes, NEW d \in Nodes
      PROVE s.users[d][u] = IF d = n THEN 0
                            ELSE IF u = n THEN h.users[d][n] + Cardinality(Slots(ops, d)) ELSE h.users[d][u]
  BY <1>0, <1>1 DEF NoUsers
<1>7. ASSUME NEW u \in L \cup {n}, NEW d \in L \cup {n} PROVE s.users[d][u] = Uses(s, u, d)
  <2>1. u \in Nodes /\ d \in Nodes
    BY <1>0
  <2>2. CASE u = n /\ d = n
    <3>1. Slots(ops, n) = {}
      BY <1>0, NullAssumption DEF Slots
    <3>. QED
      BY <1>5, <1>6, <2>1, <2>2, <3>1, FS_EmptySet DEF Uses, SlotsOf
  <2>3. CASE u = n /\ d # n
    <3>1. h.users[d][n] = 0
      BY <2>1 DEF Within
    <3>. QED
      BY <1>3, <1>5, <1>6, <2>1, <2>3, <3>1 DEF Uses, SlotsOf
  <2>4. CASE u # n /\ d = n
    <3>1. h.operands[u] \in Seq(L \cup {Null})
      BY <2>4, AgreeSlots
    <3>2. Slots(h.operands[u], n) = {}
      BY <1>0, <3>1, NullAssumption DEF Slots
    <3>. QED
      BY <1>5, <1>6, <2>1, <2>4, <3>2, FS_EmptySet DEF Uses, SlotsOf
  <2>5. CASE u # n /\ d # n
    <3>1. h.users[d][u] = Uses(h, u, d)
      BY <2>5, AgreeUses
    <3>. QED
      BY <1>5, <1>6, <2>1, <2>5, <3>1 DEF Uses, SlotsOf
  <2>. QED
    BY <2>2, <2>3, <2>4, <2>5
<1>8. ASSUME NEW u \in L \cup {n}, NEW i \in DOMAIN s.operands[u] PROVE s.operands[u][i] \in (L \cup {n}) \cup {Null}
  <2>1. CASE u = n
    BY <1>5, <2>1
  <2>2. CASE u # n
    <3>1. h.operands[u] \in Seq(L \cup {Null}) /\ u \in Nodes
      BY <2>2, AgreeSlots
    <3>. QED
      BY <1>5, <2>2, <3>1
  <2>. QED
    BY <2>1, <2>2
<1>9. Agree(s, L \cup {n})
  <2>1. L \cup {n} \subseteq Nodes
    BY <1>0
  <2>2. \A u \in L \cup {n} : \A i \in DOMAIN s.operands[u] : s.operands[u][i] \in (L \cup {n}) \cup {Null}
    BY <1>8
  <2>. QED
    BY <1>4, <1>7, <2>1, <2>2 DEF Agree
<1>10. Within(s, K \cup {n})
  <2>1. ASSUME NEW d \in Nodes, NEW u \in Nodes \ (K \cup {n}) PROVE s.users[d][u] = 0
    <3>1. h.users[d][u] = 0 /\ u # n
      BY DEF Within
    <3>. QED
      BY <1>6, <3>1
  <2>. QED
    BY <2>1 DEF Within
<1>11. s.operands[n] = ops /\ \A u \in L : s.operands[u] = h.operands[u]
  BY <1>0, <1>5
<1>. QED
  BY <1>9, <1>10, <1>11 DEF s

(* ~Node, for nodes that those which stay do not have as operands. *)
LEMMA DestroyKeeps ==
  ASSUME NEW h, NEW L, Agree(h, L), NEW S, NEW M, M \subseteq L, M \cap S = {},
         \A u \in M : \A i \in DOMAIN h.operands[u] : h.operands[u][i] \in M \cup {Null}
  PROVE  /\ Agree(Destroy(h, S), M)
         /\ \A u \in M : Destroy(h, S).operands[u] = h.operands[u]
         /\ \A K : Within(h, K) => Within(Destroy(h, S), K)
<1>. DEFINE s == Destroy(h, S)
<1>0. /\ h \in Graph /\ L \subseteq Nodes
      /\ h.operands \in [Nodes -> Seq(NodeOrNull)] /\ h.users \in [Nodes -> [Nodes -> Nat]]
  BY DEF Agree, Graph
<1>1. /\ s = [operands |-> s.operands, users |-> s.users]
      /\ s.operands = [n \in Nodes |-> IF n \in S THEN <<>> ELSE h.operands[n]]
      /\ s.users = [d \in Nodes |-> IF d \in S THEN NoUsers ELSE h.users[d]]
  BY DEF Destroy
<1>. HIDE DEF s
<1>2. s \in Graph
  <2>1. s.operands \in [Nodes -> Seq(NodeOrNull)]
    BY <1>0, <1>1
  <2>2. s.users \in [Nodes -> [Nodes -> Nat]]
    BY <1>0, <1>1 DEF NoUsers
  <2>. QED
    BY <1>1, <2>1, <2>2 DEF Graph
<1>3. \A u \in M : u \in L /\ s.operands[u] = h.operands[u] /\ s.users[u] = h.users[u]
  BY <1>0, <1>1
<1>4. ASSUME NEW u \in M, NEW d \in M PROVE s.users[d][u] = Uses(s, u, d)
  BY <1>3, AgreeUses DEF Uses, SlotsOf
<1>5. Agree(s, M)
  <2>1. \A u \in M : \A i \in DOMAIN s.operands[u] : s.operands[u][i] \in M \cup {Null}
    BY <1>3
  <2>. QED
    BY <1>0, <1>2, <1>4, <2>1 DEF Agree
<1>6. ASSUME NEW K, Within(h, K) PROVE Within(s, K)
  BY <1>1, <1>6 DEF Within, NoUsers
<1>. QED
  BY <1>3, <1>5, <1>6 DEF s
-----------------------------------------------------------------------------
(* A slot is as it was, emptied, or filled with what may stand anywhere.   *)
Plain(l, x) == l[x].kind \notin {"end", "ret"}

SlotsChange(old, new, u, l) ==
  /\ DOMAIN new = DOMAIN old /\ Len(new) = Len(old)
  /\ \A i \in DOMAIN new : new[i] = old[i] \/ new[i] = Null \/ (l[u].kind # "end" /\ Plain(l, new[i]))

LEMMA FormedKeeps ==
  ASSUME NEW u, NEW o, NEW q, NEW l, NEW arity, IsFormed(u, o, l, arity), SlotsChange(o[u], q[u], u, l)
  PROVE  IsFormed(u, q, l, arity)
<1>. DEFINE old == o[u]
            new == q[u]
<1>1. /\ \A i \in DOMAIN old : old[i] # Null =>
           /\ l[old[i]].kind # "end"
           /\ l[old[i]].kind = "ret" => l[u].kind = "end"
           /\ l[u].kind = "end" => l[old[i]].kind \in EndInputs
           /\ l[u].kind = "end" => \A j \in DOMAIN old : old[j] = old[i] => j = i
      /\ l[u].kind = "ret" => Len(old) = 2
      /\ l[u].kind = "call" => l[u].of \in Functions /\ Len(old) = arity[l[u].of] + 1
  BY DEF IsFormed
<1>2. /\ DOMAIN new = DOMAIN old /\ Len(new) = Len(old)
      /\ \A i \in DOMAIN new : new[i] = old[i] \/ new[i] = Null \/ (l[u].kind # "end" /\ l[new[i]].kind \notin {"end", "ret"})
  BY DEF SlotsChange, Plain
<1>. HIDE DEF old, new
<1>3. /\ \A i \in DOMAIN new : new[i] # Null =>
           /\ l[new[i]].kind # "end"
           /\ l[new[i]].kind = "ret" => l[u].kind = "end"
           /\ l[u].kind = "end" => l[new[i]].kind \in EndInputs
           /\ l[u].kind = "end" => \A j \in DOMAIN new : new[j] = new[i] => j = i
  BY <1>1, <1>2
<1>4. /\ l[u].kind = "ret" => Len(new) = 2
      /\ l[u].kind = "call" => l[u].of \in Functions /\ Len(new) = arity[l[u].of] + 1
  BY <1>1, <1>2
<1>. QED
  BY <1>3, <1>4 DEF IsFormed, new

LEMMA SoundKeeps ==
  ASSUME NEW h, NEW L, NEW l, NEW arity, Sound(h, L, l, arity),
         NEW r, Agree(r, L), Within(r, DOMAIN l),
         \A u \in L : SlotsChange(h.operands[u], r.operands[u], u, l)
  PROVE  Sound(r, L, l, arity)
<1>1. L \subseteq DOMAIN l /\ \A u \in L : IsFormed(u, h.operands, l, arity)
  BY DEF Sound
<1>2. \A u \in L : IsFormed(u, r.operands, l, arity)
  BY <1>1, FormedKeeps
<1>. QED
  BY <1>1, <1>2 DEF Sound

(* Node::replaceWith with nullptr, or with a node that is none of those    *)
(* that enter the end, of one that does not enter the end.                 *)
LEMMA SoundReplace ==
  ASSUME NEW h, NEW L, NEW l, NEW arity, Sound(h, L, l, arity),
         NEW n \in L, NEW m \in L \cup {Null}, m # n,
         m # Null => Plain(l, m) /\ l[n].kind \notin EndInputs
  PROVE  /\ Sound(ReplaceWith(h, n, m), L, l, arity)
         /\ \A u \in L : ReplaceWith(h, n, m).operands[u] = Renamed(h.operands[u], n, m)
<1>. DEFINE r == ReplaceWith(h, n, m)
<1>1. Agree(h, L) /\ L \subseteq DOMAIN l /\ Within(h, DOMAIN l)
  BY DEF Sound
<1>2. /\ Agree(r, L)
      /\ \A u \in L : r.operands[u] = Renamed(h.operands[u], n, m)
      /\ Within(r, DOMAIN l)
  BY <1>1, ReplaceKeeps
<1>. HIDE DEF r
<1>3. ASSUME NEW u \in L PROVE SlotsChange(h.operands[u], r.operands[u], u, l)
  <2>1. h.operands[u] \in Seq(L \cup {Null}) /\ n # Null
    BY <1>1, AgreeSlots, NullAssumption DEF Agree
  <2>2. r.operands[u] = Renamed(h.operands[u], n, m)
    BY <1>2
  <2>3. DOMAIN r.operands[u] = DOMAIN h.operands[u] /\ Len(r.operands[u]) = Len(h.operands[u])
    BY <2>1, <2>2 DEF Renamed
  <2>4. ASSUME NEW i \in DOMAIN h.operands[u], h.operands[u][i] = n, m # Null
        PROVE l[u].kind # "end" /\ Plain(l, m)
    <3>1. IsFormed(u, h.operands, l, arity)
      BY DEF Sound
    <3>2. l[u].kind = "end" => l[n].kind \in EndInputs
      BY <2>1, <2>4, <3>1 DEF IsFormed
    <3>. QED
      BY <2>4, <3>2
  <2>. QED
    BY <2>2, <2>3, <2>4 DEF Renamed, SlotsChange
<1>4. Sound(r, L, l, arity)
  BY <1>2, <1>3, SoundKeeps
<1>. QED
  BY <1>2, <1>4 DEF r

LEMMA SoundDetach ==
  ASSUME NEW h, NEW L, NEW l, NEW arity, Sound(h, L, l, arity), NEW n \in L
  PROVE  /\ Sound(Detach(h, n), L, l, arity)
         /\ \A u \in L : Detach(h, n).operands[u] =
              IF u = n THEN [i \in DOMAIN h.operands[n] |-> Null] ELSE Renamed(h.operands[u], n, Null)
<1>. DEFINE r == Detach(h, n)
<1>1. Agree(h, L) /\ L \subseteq DOMAIN l /\ Within(h, DOMAIN l)
  BY DEF Sound
<1>2. /\ Agree(r, L)
      /\ \A u \in L : r.operands[u] =
           IF u = n THEN [i \in DOMAIN h.operands[n] |-> Null] ELSE Renamed(h.operands[u], n, Null)
      /\ Within(r, DOMAIN l)
  BY <1>1, DetachKeeps
<1>. HIDE DEF r
<1>3. ASSUME NEW u \in L PROVE SlotsChange(h.operands[u], r.operands[u], u, l)
  <2>1. h.operands[u] \in Seq(L \cup {Null})
    BY <1>1, AgreeSlots
  <2>2. r.operands[u] = IF u = n THEN [i \in DOMAIN h.operands[n] |-> Null] ELSE Renamed(h.operands[u], n, Null)
    BY <1>2
  <2>3. DOMAIN r.operands[u] = DOMAIN h.operands[u] /\ Len(r.operands[u]) = Len(h.operands[u])
    BY <2>1, <2>2 DEF Renamed
  <2>. QED
    BY <2>2, <2>3 DEF Renamed, SlotsChange
<1>4. Sound(r, L, l, arity)
  BY <1>2, <1>3, SoundKeeps
<1>. QED
  BY <1>2, <1>4 DEF r

LEMMA SoundSet ==
  ASSUME NEW h, NEW L, NEW l, NEW arity, Sound(h, L, l, arity),
         NEW n \in L, NEW i \in DOMAIN h.operands[n], NEW d \in L \cup {Null},
         d # Null => l[n].kind # "end" /\ Plain(l, d)
  PROVE  /\ Sound(SetOperand(h, n, i, d), L, l, arity)
         /\ \A u \in L : SetOperand(h, n, i, d).operands[u] =
              IF u = n THEN [h.operands[n] EXCEPT ![i] = d] ELSE h.operands[u]
<1>. DEFINE r == SetOperand(h, n, i, d)
<1>1. Agree(h, L) /\ L \subseteq DOMAIN l /\ Within(h, DOMAIN l)
  BY DEF Sound
<1>2. /\ Agree(r, L)
      /\ \A u \in L : r.operands[u] = IF u = n THEN [h.operands[n] EXCEPT ![i] = d] ELSE h.operands[u]
      /\ Within(r, DOMAIN l)
  <2>1. /\ Agree(r, L)
        /\ \A u \in L : r.operands[u] = IF u = n THEN [h.operands[n] EXCEPT ![i] = d] ELSE h.operands[u]
        /\ \A K : L \subseteq K /\ Within(h, K) => Within(r, K)
    BY <1>1, SetKeeps
  <2>. HIDE DEF r
  <2>. QED
    BY <1>1, <2>1
<1>. HIDE DEF r
<1>3. ASSUME NEW u \in L PROVE SlotsChange(h.operands[u], r.operands[u], u, l)
  <2>1. h.operands[u] \in Seq(L \cup {Null})
    BY <1>1, AgreeSlots
  <2>2. r.operands[u] = IF u = n THEN [h.operands[n] EXCEPT ![i] = d] ELSE h.operands[u]
    BY <1>2
  <2>3. DOMAIN r.operands[u] = DOMAIN h.operands[u] /\ Len(r.operands[u]) = Len(h.operands[u])
    BY <2>1, <2>2
  <2>. QED
    BY <2>2, <2>3 DEF SlotsChange
<1>4. Sound(r, L, l, arity)
  BY <1>2, <1>3, SoundKeeps
<1>. QED
  BY <1>2, <1>4 DEF r

(* addOperand, of a node whose slots are not counted. *)
LEMMA SoundAdd ==
  ASSUME NEW h, NEW L, NEW l, NEW arity, Sound(h, L, l, arity),
         NEW n \in L, l[n].kind \notin {"end", "ret", "call"}, NEW d \in L, Plain(l, d)
  PROVE  /\ Sound(AddOperand(h, n, d), L, l, arity)
         /\ \A u \in L : AddOperand(h, n, d).operands[u] =
              IF u = n THEN Append(h.operands[n], d) ELSE h.operands[u]
<1>. DEFINE r == AddOperand(h, n, d)
<1>1. Agree(h, L) /\ L \subseteq DOMAIN l /\ Within(h, DOMAIN l)
  BY DEF Sound
<1>2. /\ Agree(r, L)
      /\ \A u \in L : r.operands[u] = IF u = n THEN Append(h.operands[n], d) ELSE h.operands[u]
      /\ Within(r, DOMAIN l)
  BY <1>1, AddKeeps
<1>. HIDE DEF r
<1>3. ASSUME NEW u \in L PROVE IsFormed(u, r.operands, l, arity)
  <2>1. IsFormed(u, h.operands, l, arity) /\ h.operands[n] \in Seq(L \cup {Null})
    BY <1>1, AgreeSlots DEF Sound
  <2>2. CASE u # n
    BY <1>2, <2>1, <2>2 DEF IsFormed
  <2>3. CASE u = n
    <3>1. r.operands[n] = Append(h.operands[n], d)
      BY <1>2
    <3>2. \A i \in DOMAIN r.operands[n] : (i \in DOMAIN h.operands[n] /\ r.operands[n][i] = h.operands[n][i]) \/ r.operands[n][i] = d
      BY <2>1, <3>1
    <3>3. \A i \in DOMAIN r.operands[n] : r.operands[n][i] # Null => Plain(l, r.operands[n][i])
      BY <2>1, <2>3, <3>2 DEF IsFormed, Plain
    <3>. QED
      BY <2>3, <3>3 DEF IsFormed, Plain
  <2>. QED
    BY <2>2, <2>3
<1>4. Sound(r, L, l, arity)
  BY <1>1, <1>2, <1>3 DEF Sound
<1>. QED
  BY <1>2, <1>4 DEF r

LabelsKept(l, m) == DOMAIN l \subseteq DOMAIN m /\ \A n \in DOMAIN l : m[n] = l[n]

(* n is new, and m has its label. *)
CanConstruct(h, L, l, arity, n, ops, m) ==
  /\ Sound(h, L, l, arity)
  /\ n \in Nodes /\ n \notin DOMAIN l /\ ops \in Seq(L \cup {Null})
  /\ DOMAIN m = DOMAIN l \cup {n} /\ LabelsKept(l, m) /\ m[n].kind \notin {"end", "ret", "call"}
  /\ \A i \in DOMAIN ops : ops[i] # Null => Plain(l, ops[i])

(* It was built, as r. *)
IsConstructed(h, L, arity, n, ops, m, r) ==
  /\ Sound(r, L \cup {n}, m, arity)
  /\ r.operands[n] = ops
  /\ \A u \in L : r.operands[u] = h.operands[u]

LEMMA SoundConstruct ==
  ASSUME NEW h, NEW L, NEW l, NEW arity, NEW n, NEW ops, NEW m, CanConstruct(h, L, l, arity, n, ops, m)
  PROVE  IsConstructed(h, L, arity, n, ops, m, Construct(h, n, ops))
<1>. DEFINE r == Construct(h, n, ops)
<1>0. /\ Sound(h, L, l, arity)
      /\ n \in Nodes /\ n \notin DOMAIN l /\ ops \in Seq(L \cup {Null})
      /\ DOMAIN m = DOMAIN l \cup {n} /\ m[n].kind \notin {"end", "ret", "call"}
      /\ \A u \in DOMAIN l : m[u] = l[u]
      /\ \A i \in DOMAIN ops : ops[i] # Null => Plain(l, ops[i])
  BY DEF CanConstruct, LabelsKept
<1>1. Agree(h, L) /\ L \subseteq DOMAIN l /\ Within(h, DOMAIN l)
  BY <1>0 DEF Sound
<1>2. /\ Agree(r, L \cup {n})
      /\ r.operands[n] = ops
      /\ \A u \in L : r.operands[u] = h.operands[u]
      /\ Within(r, DOMAIN m)
  <2>. DEFINE K == DOMAIN l
  <2>1. L \subseteq K /\ Within(h, K) /\ n \notin K /\ DOMAIN m = K \cup {n}
    BY <1>0, <1>1
  <2>. HIDE DEF K
  <2>2. /\ Agree(r, L \cup {n})
        /\ r.operands[n] = ops
        /\ \A u \in L : r.operands[u] = h.operands[u]
        /\ Within(r, K \cup {n})
    BY <1>0, <1>1, <2>1, ConstructKeeps
  <2>. QED
    BY <2>1, <2>2
<1>. HIDE DEF r
<1>3. ASSUME NEW u \in L PROVE IsFormed(u, r.operands, m, arity)
  <2>1. IsFormed(u, h.operands, l, arity) /\ h.operands[u] \in Seq(L \cup {Null}) /\ u \in DOMAIN l
    BY <1>0, <1>1, AgreeSlots DEF Sound
  <2>2. \A i \in DOMAIN h.operands[u] : h.operands[u][i] # Null => m[h.operands[u][i]] = l[h.operands[u][i]]
    BY <1>0, <1>1, <2>1
  <2>3. r.operands[u] = h.operands[u] /\ m[u] = l[u]
    BY <1>0, <1>2, <2>1
  <2>. QED
    BY <2>1, <2>2, <2>3 DEF IsFormed
<1>4. IsFormed(n, r.operands, m, arity)
  <2>1. \A i \in DOMAIN ops : ops[i] # Null => m[ops[i]] = l[ops[i]]
    BY <1>0, <1>1
  <2>. QED
    BY <1>0, <1>2, <2>1 DEF IsFormed, Plain
<1>5. Sound(r, L \cup {n}, m, arity)
  BY <1>0, <1>1, <1>2, <1>3, <1>4 DEF Sound
<1>. QED
  BY <1>2, <1>5 DEF r, IsConstructed

LEMMA SoundDestroy ==
  ASSUME NEW h, NEW L, NEW l, NEW arity, Sound(h, L, l, arity), NEW S, NEW M, M \subseteq L, M \cap S = {},
         \A u \in M : \A i \in DOMAIN h.operands[u] : h.operands[u][i] \in M \cup {Null}
  PROVE  /\ Sound(Destroy(h, S), M, l, arity)
         /\ \A u \in M : Destroy(h, S).operands[u] = h.operands[u]
<1>1. Agree(h, L) /\ L \subseteq DOMAIN l /\ Within(h, DOMAIN l)
  BY DEF Sound
<1>2. /\ Agree(Destroy(h, S), M)
      /\ \A u \in M : Destroy(h, S).operands[u] = h.operands[u]
      /\ Within(Destroy(h, S), DOMAIN l)
  BY <1>1, DestroyKeeps
<1>3. \A u \in M : IsFormed(u, Destroy(h, S).operands, l, arity)
  BY <1>2 DEF Sound, IsFormed
<1>. QED
  BY <1>1, <1>2, <1>3 DEF Sound
-----------------------------------------------------------------------------
LEMMA AppendFacts ==
  ASSUME NEW T, NEW q \in Seq(T), NEW e \in T
  PROVE  /\ Append(q, e) \in Seq(T)
         /\ ToSet(Append(q, e)) = ToSet(q) \cup {e}
         /\ IsInjective(q) /\ e \notin ToSet(q) => IsInjective(Append(q, e))
<1>1. /\ DOMAIN Append(q, e) = DOMAIN q \cup {Len(q) + 1} /\ Append(q, e)[Len(q) + 1] = e
      /\ \A k \in DOMAIN q : Append(q, e)[k] = q[k]
      /\ Append(q, e) \in Seq(T)
  OBVIOUS
<1>2. ToSet(Append(q, e)) = ToSet(q) \cup {e}
  BY <1>1 DEF ToSet
<1>3. IsInjective(q) /\ e \notin ToSet(q) => IsInjective(Append(q, e))
  BY <1>1 DEF ToSet, IsInjective
<1>. QED
  BY <1>1, <1>2, <1>3

LEMMA OnlyFacts ==
  ASSUME NEW T, NEW s \in Seq(T), NEW S
  PROVE  /\ Only(s, S) \in Seq(T)
         /\ ToSet(Only(s, S)) = ToSet(s) \cap S
         /\ IsInjective(s) => IsInjective(Only(s, S))
<1>. DEFINE IsIt(kept) == kept = [i \in 0..Len(s) |-> IF i = 0 THEN <<>>
                                     ELSE IF s[i] \in S THEN Append(kept[i - 1], s[i]) ELSE kept[i - 1]]
            kept0 == CHOOSE kept : IsIt(kept)
            step == [k \in Nat |-> [q \in Seq(T) |->
                       IF k + 1 \in DOMAIN s THEN (IF s[k + 1] \in S THEN Append(q, s[k + 1]) ELSE q) ELSE q]]
<1>1. Only(s, S) = kept0[Len(s)]
  BY DEF Only
<1>2. step \in Steps(Seq(T))
  <2>1. ASSUME NEW k \in Nat, NEW q \in Seq(T)
        PROVE  (IF k + 1 \in DOMAIN s THEN (IF s[k + 1] \in S THEN Append(q, s[k + 1]) ELSE q) ELSE q) \in Seq(T)
    OBVIOUS
  <2>. QED
    BY <2>1 DEF Steps
<1>3. \A k \in Nat : \A q \in Seq(T) : k + 1 \in DOMAIN s =>
        step[k][q] = IF s[k + 1] \in S THEN Append(q, s[k + 1]) ELSE q
  OBVIOUS
<1>. HIDE DEF step
<1>4. <<>> \in Seq(T) /\ Len(s) \in Nat /\ DOMAIN s = 1..Len(s)
  OBVIOUS
<1>5. PICK f \in [Nat -> Seq(T)] : Follows(f, <<>>, step)
  BY <1>2, <1>4, RecursionExists
<1>. DEFINE w == [i \in 0..Len(s) |-> f[i]]
<1>6. IsIt(w)
  <2>1. ASSUME NEW i \in 0..Len(s)
        PROVE  f[i] = IF i = 0 THEN <<>> ELSE IF s[i] \in S THEN Append(w[i - 1], s[i]) ELSE w[i - 1]
    <3>1. CASE i = 0
      BY <1>5, <3>1 DEF Follows
    <3>2. CASE i # 0
      <4>1. i - 1 \in Nat /\ i - 1 \in 0..Len(s) /\ (i - 1) + 1 = i /\ i \in DOMAIN s
        BY <1>4, <3>2
      <4>2. f[i] = step[i - 1][f[i - 1]] /\ f[i - 1] \in Seq(T)
        BY <1>5, <4>1 DEF Follows
      <4>3. w[i - 1] = f[i - 1]
        BY <4>1
      <4>. QED
        BY <1>3, <3>2, <4>1, <4>2, <4>3
    <3>. QED
      BY <3>1, <3>2
  <2>. QED
    BY <2>1
<1>7. IsIt(kept0)
  BY <1>6
<1>. HIDE DEF kept0, w
<1>. DEFINE Upto(i) == {s[k] : k \in 1..i} \cap S
            Kept(i) == kept0[i] \in Seq(T) /\ ToSet(kept0[i]) = Upto(i) /\ (IsInjective(s) => IsInjective(kept0[i]))
            Good == {i \in Nat : i <= Len(s) => Kept(i)}
<1>8. 0 \in Good
  <2>1. kept0[0] = <<>>
    BY <1>4, <1>7
  <2>2. ToSet(<<>>) = {} /\ Upto(0) = {} /\ IsInjective(<<>>)
    BY DEF ToSet, IsInjective
  <2>. QED
    BY <1>4, <2>1, <2>2
<1>9. ASSUME NEW i \in Nat, i \in Good PROVE i + 1 \in Good
  <2>. SUFFICES ASSUME i + 1 <= Len(s)
                PROVE Kept(i + 1)
    OBVIOUS
  <2>1. i <= Len(s) /\ i + 1 \in 0..Len(s) /\ i + 1 # 0 /\ (i + 1) - 1 = i /\ i + 1 \in DOMAIN s /\ s[i + 1] \in T
    BY <1>4
  <2>2. kept0[i] \in Seq(T) /\ ToSet(kept0[i]) = Upto(i) /\ (IsInjective(s) => IsInjective(kept0[i]))
    BY <1>9, <2>1
  <2>3. kept0[i + 1] = IF s[i + 1] \in S THEN Append(kept0[i], s[i + 1]) ELSE kept0[i]
    BY <1>7, <2>1
  <2>4. Upto(i + 1) = IF s[i + 1] \in S THEN Upto(i) \cup {s[i + 1]} ELSE Upto(i)
    <3>1. /\ \A k \in 1..(i + 1) : k \in 1..i \/ k = i + 1
          /\ \A k \in 1..i : k \in 1..(i + 1)
          /\ i + 1 \in 1..(i + 1)
      BY ONLY i \in Nat
    <3>. QED
      BY <3>1
  <2>0. IsInjective(s) => s[i + 1] \notin Upto(i)
    <3>1. \A k \in 1..i : k # i + 1 /\ k \in DOMAIN s
      BY <1>4, <2>1
    <3>. QED
      BY <2>1, <3>1 DEF IsInjective
  <2>. HIDE DEF Upto
  <2>5. CASE s[i + 1] \in S
    <3>1. /\ Append(kept0[i], s[i + 1]) \in Seq(T)
          /\ ToSet(Append(kept0[i], s[i + 1])) = ToSet(kept0[i]) \cup {s[i + 1]}
          /\ IsInjective(kept0[i]) /\ s[i + 1] \notin ToSet(kept0[i]) => IsInjective(Append(kept0[i], s[i + 1]))
      <4>. DEFINE q == kept0[i]
                  e == s[i + 1]
      <4>1. q \in Seq(T) /\ e \in T
        BY <2>1, <2>2
      <4>. HIDE DEF q, e
      <4>2. /\ Append(q, e) \in Seq(T) /\ ToSet(Append(q, e)) = ToSet(q) \cup {e}
            /\ IsInjective(q) /\ e \notin ToSet(q) => IsInjective(Append(q, e))
        BY <4>1, AppendFacts
      <4>. QED
        BY <4>2 DEF q, e
    <3>2. kept0[i + 1] = Append(kept0[i], s[i + 1]) /\ Upto(i + 1) = Upto(i) \cup {s[i + 1]}
      BY <2>3, <2>4, <2>5
    <3>. QED
      BY <2>0, <2>2, <3>1, <3>2
  <2>6. CASE s[i + 1] \notin S
    BY <2>2, <2>3, <2>4, <2>6
  <2>. QED
    BY <2>5, <2>6
<1>10. \A i \in Nat : i \in Good
  <2>. HIDE DEF Good
  <2>. QED
    BY <1>8, <1>9, Induction
<1>11. Kept(Len(s))
  <2>1. Len(s) \in Good /\ Len(s) <= Len(s)
    <3>. HIDE DEF Good
    <3>. QED
      BY <1>4, <1>10
  <2>. HIDE DEF Upto
  <2>. QED
    BY <2>1
<1>12. Upto(Len(s)) = ToSet(s) \cap S
  BY <1>4 DEF ToSet
<1>. QED
  BY <1>1, <1>11, <1>12
-----------------------------------------------------------------------------
LEMMA OwnedFacts ==
  ASSUME NEW S, NEW f \in Frames(S)
  PROVE  /\ OwnedBy(f) \subseteq S /\ f.start \in OwnedBy(f) /\ f.end \in OwnedBy(f)
         /\ ToSet(f.nodes) \subseteq OwnedBy(f)
         /\ f.nodes \in Seq(S) /\ f.args \in Seq(S)
<1>1. f.start \in S /\ f.end \in S /\ f.nodes \in Seq(S) /\ f.args \in Seq(S)
  BY DEF Frames
<1>2. ToSet(f.nodes) \subseteq S
  BY <1>1 DEF ToSet
<1>. QED
  BY <1>1, <1>2 DEF OwnedBy

LiveOf(fs, c) == (OwnedBy(c) \ {Null}) \cup UNION {OwnedBy(fs[f]) : f \in Functions}

LEMMA LiveOfFacts ==
  ASSUME NEW fs, NEW c
  PROVE  /\ \A f \in Functions : OwnedBy(fs[f]) \subseteq LiveOf(fs, c)
         /\ \A n \in LiveOf(fs, c) : (n \in OwnedBy(c) /\ n # Null) \/ \E f \in Functions : n \in OwnedBy(fs[f])
         /\ c = NoFunction => \A n \in LiveOf(fs, c) : \E f \in Functions : n \in OwnedBy(fs[f])
         /\ Null \notin OwnedBy(c) => OwnedBy(c) \subseteq LiveOf(fs, c)
<1>1. c = NoFunction => OwnedBy(c) = {Null}
  BY DEF NoFunction, OwnedBy, ToSet
<1>. QED
  BY <1>1 DEF LiveOf

LEMMA LiveIs == Live = LiveOf(functions, copy)
BY DEF Live, LiveOf

LEMMA LiveFacts ==
  /\ \A f \in Functions : OwnedBy(functions[f]) \subseteq Live
  /\ copy = NoFunction => \A n \in Live : \E f \in Functions : n \in OwnedBy(functions[f])
  /\ \A n \in Live : (n \in OwnedBy(copy) /\ n # Null) \/ \E f \in Functions : n \in OwnedBy(functions[f])
  /\ Null \notin OwnedBy(copy) => OwnedBy(copy) \subseteq Live
BY LiveIs, LiveOfFacts

LEMMA InlineInitKeeps == InlineInit => EdgeInv
<1>. SUFFICES ASSUME InlineInit PROVE EdgeInv
  OBVIOUS
<1>. DEFINE created == DOMAIN given.label
<1>1. IsModule(given) /\ given \in Programs
  BY ModulesAssumption DEF InlineInit
<1>2. /\ created \subseteq Nodes /\ IsFiniteSet(created) /\ created = 1..Cardinality(created)
      /\ given.operands \in [created -> Seq(created)]
      /\ given.functions \in [Functions -> Frames(created)]
      /\ given.script \in Seq([run : {"inline", "clean"}, on : Functions])
      /\ \A f \in Functions :
           /\ IsFrame(given.functions[f], given.label)
           /\ \A k \in Functions \ {f} : OwnedBy(given.functions[f]) \cap OwnedBy(given.functions[k]) = {}
           /\ \A n \in OwnedBy(given.functions[f]) :
                /\ ToSet(given.operands[n]) \subseteq OwnedBy(given.functions[f])
                /\ IsFormed(n, given.operands, given.label, Arity)
  BY <1>1 DEF IsModule, Arity
<1>3. /\ graph = EdgesOf(given.operands) /\ label = given.label /\ functions = given.functions
      /\ script = given.script /\ phase = "ready" /\ calls = <<>> /\ copy = NoFunction /\ slot = 1
  BY DEF InlineInit
<1>4. KnownTypes
  BY <1>1, <1>2, <1>3 DEF KnownTypes, Known
<1>. DEFINE At(n) == IF n \in DOMAIN given.operands THEN given.operands[n] ELSE <<>>
<1>5. \A n \in Nodes : At(n) \in Seq(created) /\ At(n) \in Seq(NodeOrNull)
  <2>. SUFFICES ASSUME NEW n \in Nodes PROVE At(n) \in Seq(created) /\ At(n) \in Seq(NodeOrNull)
    OBVIOUS
  <2>1. DOMAIN given.operands = created /\ \A m \in created : given.operands[m] \in Seq(created)
    BY <1>2
  <2>2. At(n) \in Seq(created)
    <3>1. <<>> \in Seq(created)
      OBVIOUS
    <3>. QED
      BY <2>1, <3>1
  <2>3. created \subseteq NodeOrNull
    BY <1>2 DEF NodeOrNull
  <2>. HIDE DEF At, created
  <2>. QED
    BY <2>2, <2>3
<1>6. /\ graph = [operands |-> graph.operands, users |-> graph.users]
      /\ graph.operands = [n \in Nodes |-> At(n)]
      /\ graph.users = [d \in Nodes |-> [u \in Nodes |-> Cardinality(Slots(At(u), d))]]
  BY <1>3 DEF EdgesOf
<1>. HIDE DEF At
<1>7. \A u \in Nodes, d \in Nodes : Cardinality(Slots(At(u), d)) \in Nat
  BY <1>5, SlotsFinite
<1>8. graph \in Graph
  <2>1. graph.operands \in [Nodes -> Seq(NodeOrNull)]
    BY <1>5, <1>6
  <2>2. graph.users \in [Nodes -> [Nodes -> Nat]]
    BY <1>6, <1>7
  <2>. QED
    BY <1>6, <2>1, <2>2 DEF Graph
<1>9. ASSUME NEW n \in Live
      PROVE  \E f \in Functions : n \in OwnedBy(given.functions[f]) /\ n \in created /\ n \in Nodes
                                  /\ graph.operands[n] = given.operands[n]
  <2>1. PICK f \in Functions : n \in OwnedBy(functions[f])
    BY <1>3, LiveFacts
  <2>2. n \in OwnedBy(given.functions[f]) /\ given.functions[f] \in Frames(created)
    BY <1>2, <1>3, <2>1
  <2>3. n \in created
    BY <2>2, OwnedFacts
  <2>4. n \in Nodes /\ n \in DOMAIN given.operands
    BY <1>2, <2>3
  <2>. QED
    BY <1>6, <2>2, <2>3, <2>4 DEF At
<1>10. Agree(graph, Live)
  <2>1. Live \subseteq Nodes
    BY <1>9
  <2>2. ASSUME NEW n \in Live, NEW i \in DOMAIN graph.operands[n] PROVE graph.operands[n][i] \in Live \cup {Null}
    <3>1. PICK f \in Functions : n \in OwnedBy(given.functions[f]) /\ graph.operands[n] = given.operands[n]
      BY <1>9
    <3>2. ToSet(given.operands[n]) \subseteq OwnedBy(given.functions[f])
      BY <1>2, <3>1
    <3>3. graph.operands[n][i] \in OwnedBy(functions[f])
      BY <1>3, <3>1, <3>2 DEF ToSet
    <3>. QED
      BY <3>3, LiveFacts
  <2>3. \A n, d \in Live : graph.users[d][n] = Uses(graph, n, d)
    BY <1>6, <2>1 DEF Uses, SlotsOf
  <2>. QED
    BY <1>8, <2>1, <2>2, <2>3 DEF Agree
<1>11. Within(graph, DOMAIN label)
  <2>1. ASSUME NEW d \in Nodes, NEW n \in Nodes \ DOMAIN label PROVE graph.users[d][n] = 0
    <3>1. At(n) = <<>>
      BY <1>2, <1>3 DEF At
    <3>2. Slots(<<>>, d) = {}
      BY DEF Slots
    <3>3. Cardinality(Slots(At(n), d)) = 0
      BY <3>1, <3>2, FS_EmptySet
    <3>4. graph.users[d][n] = Cardinality(Slots(At(n), d))
      BY <1>6
    <3>. QED
      BY <3>3, <3>4
  <2>. QED
    BY <2>1 DEF Within
<1>12. Sound(graph, Live, label, Arity)
  <2>1. Live \subseteq DOMAIN label
    BY <1>3, <1>9
  <2>2. ASSUME NEW n \in Live PROVE IsFormed(n, graph.operands, label, Arity)
    <3>1. PICK f \in Functions : n \in OwnedBy(given.functions[f]) /\ graph.operands[n] = given.operands[n]
      BY <1>9
    <3>2. IsFormed(n, given.operands, given.label, Arity)
      BY <1>2, <3>1
    <3>. QED
      BY <1>3, <3>1, <3>2 DEF IsFormed
  <2>. QED
    BY <1>10, <1>11, <2>1, <2>2 DEF Sound
<1>13. FramesHold
  BY <1>2, <1>3 DEF FramesHold
<1>14. CallsHold /\ CopyHolds /\ ArgsHold /\ RetsHold
  BY <1>3 DEF CallsHold, CopyHolds, ArgsHold, RetsHold, Busy, AfterArgs
<1>. QED
  BY <1>4, <1>12, <1>13, <1>14 DEF EdgeInv

LEMMA FirstIn ==
  ASSUME NEW T, NEW s \in Seq(T), s # <<>>
  PROVE  1 \in DOMAIN s /\ s[1] \in T
<1>1. Len(s) # 0
  OBVIOUS
<1>. QED
  BY <1>1

LEMMA CallerIn ==
  ASSUME KnownTypes, script # <<>>
  PROVE  Caller \in Functions
<1>1. script \in Seq([run : {"inline", "clean"}, on : Functions])
  BY DEF KnownTypes
<1>2. script[1] \in [run : {"inline", "clean"}, on : Functions]
  BY <1>1, FirstIn
<1>. QED
  BY <1>2 DEF Caller

(* What the run of inlineStaticCall can rely on. *)
LEMMA BusyFacts ==
  ASSUME EdgeInv, phase \in Busy
  PROVE  /\ Caller \in Functions /\ Call \in ToSet(functions[Caller].nodes) /\ IsKind(Call, "call")
         /\ Call \in Live /\ Call \notin OwnedBy(copy) /\ Call # Null
         /\ copy \in Frames(Known) /\ OwnedBy(copy) \subseteq Live /\ Null \notin Known
         /\ \A f \in Functions : functions[f] \in Frames(Known) /\ OwnedBy(functions[f]) \subseteq Live
         /\ graph.operands[Call] \in Seq(Live \cup {Null})
         /\ Len(graph.operands[Call]) = Len(copy.args) + 1
         /\ \A i \in DOMAIN graph.operands[Call] : graph.operands[Call][i] # Null => Plain(label, graph.operands[Call][i])
         /\ IsKind(copy.end, "end") /\ Rets \in Seq(Live \cup {Null})
         /\ \A i \in DOMAIN Rets : Rets[i] # Null => label[Rets[i]].kind \in EndInputs
         /\ \A i, j \in DOMAIN Rets : Rets[i] # Null /\ Rets[i] = Rets[j] => i = j
<1>1. /\ KnownTypes /\ Sound(graph, Live, label, Arity) /\ FramesHold /\ CallsHold /\ CopyHolds
  BY DEF EdgeInv
<1>2. /\ script # <<>> /\ calls # <<>>
      /\ copy \in Frames(Known) /\ IsFrame(copy, label)
      /\ \A f \in Functions : OwnedBy(functions[f]) \cap OwnedBy(copy) = {}
      /\ Len(copy.args) = Arity[label[Call].of]
  BY <1>1 DEF CallsHold, CopyHolds, Busy, AfterArgs
<1>3. Caller \in Functions
  BY <1>1, <1>2, CallerIn
<1>4. Call \in ToSet(functions[Caller].nodes) /\ IsKind(Call, "call")
  <2>1. calls \in Seq(Known)
    BY <1>1 DEF KnownTypes
  <2>2. 1 \in DOMAIN calls
    BY <1>2, <2>1, FirstIn
  <2>. QED
    BY <1>1, <1>2, <2>2 DEF CallsHold, Call
<1>5. \A f \in Functions : functions[f] \in Frames(Known) /\ OwnedBy(functions[f]) \subseteq Live
  BY <1>1, LiveFacts DEF KnownTypes
<1>6. Call \in OwnedBy(functions[Caller]) /\ Call \in Live /\ Call \notin OwnedBy(copy)
  <2>1. Call \in OwnedBy(functions[Caller])
    BY <1>4 DEF OwnedBy
  <2>. QED
    BY <1>2, <1>3, <1>5, <2>1
<1>7. Null \notin Known
  BY <1>1, NullAssumption DEF KnownTypes
<1>8. OwnedBy(copy) \subseteq Live
  BY <1>2, <1>7, OwnedFacts, LiveFacts
<1>9. Agree(graph, Live) /\ Live \subseteq Known /\ \A n \in Live : IsFormed(n, graph.operands, label, Arity)
  BY <1>1 DEF Sound, Known
<1>10. graph.operands[Call] \in Seq(Live \cup {Null})
  BY <1>6, <1>9, AgreeSlots
<1>11. /\ Len(graph.operands[Call]) = Arity[label[Call].of] + 1
       /\ \A i \in DOMAIN graph.operands[Call] : graph.operands[Call][i] # Null => Plain(label, graph.operands[Call][i])
  BY <1>4, <1>6, <1>9 DEF IsFormed, IsKind, Plain
<1>12. copy.end \in Live /\ IsKind(copy.end, "end")
  BY <1>2, <1>8, OwnedFacts DEF IsFrame, IsKind
<1>13. Rets \in Seq(Live \cup {Null})
  BY <1>9, <1>12, AgreeSlots DEF Rets
<1>14. /\ \A i \in DOMAIN Rets : Rets[i] # Null => label[Rets[i]].kind \in EndInputs
       /\ \A i, j \in DOMAIN Rets : Rets[i] # Null /\ Rets[i] = Rets[j] => i = j
  BY <1>9, <1>12 DEF IsFormed, IsKind, Rets
<1>15. Call # Null
  BY <1>6, <1>7, <1>9
<1>. QED
  BY <1>2, <1>3, <1>4, <1>5, <1>6, <1>7, <1>8, <1>10, <1>11, <1>12, <1>13, <1>14, <1>15
-----------------------------------------------------------------------------
(* Each function has its frame, and no node has two owners. *)
FramesAre(fs, S, l) ==
  /\ fs \in [Functions -> Frames(S)]
  /\ \A f \in Functions : IsFrame(fs[f], l)
  /\ \A f, h \in Functions : f # h => OwnedBy(fs[f]) \cap OwnedBy(fs[h]) = {}

(* The nodes of Q were added to c. *)
Grows(gs, fs, c, Q) ==
  \A f \in Functions :
    /\ gs[f].args = fs[f].args /\ gs[f].end = fs[f].end
    /\ OwnedBy(gs[f]) = IF f = c THEN OwnedBy(fs[f]) \cup Q ELSE OwnedBy(fs[f])
    /\ ToSet(gs[f].nodes) = IF f = c THEN ToSet(fs[f].nodes) \cup Q ELSE ToSet(fs[f].nodes)

Extended(fs, c, q) == [fs EXCEPT ![c].nodes = @ \o q]

LEMMA ConcatFacts ==
  ASSUME NEW T, NEW s \in Seq(T), NEW q \in Seq(T)
  PROVE  /\ s \o q \in Seq(T)
         /\ ToSet(s \o q) = ToSet(s) \cup ToSet(q)
         /\ IsInjective(s) /\ IsInjective(q) /\ ToSet(s) \cap ToSet(q) = {} => IsInjective(s \o q)
<1>. DEFINE r == s \o q
<1>1. /\ r \in Seq(T) /\ DOMAIN r = 1..(Len(s) + Len(q)) /\ DOMAIN s = 1..Len(s) /\ DOMAIN q = 1..Len(q)
      /\ Len(s) \in Nat /\ Len(q) \in Nat
      /\ \A i \in DOMAIN s : r[i] = s[i]
      /\ \A i \in DOMAIN r : i \notin DOMAIN s => r[i] = q[i - Len(s)]
  OBVIOUS
<1>2. /\ \A i \in DOMAIN s : i \in DOMAIN r
      /\ \A i \in DOMAIN r : i \notin DOMAIN s => i - Len(s) \in DOMAIN q
      /\ \A k \in DOMAIN q : Len(s) + k \in DOMAIN r /\ Len(s) + k \notin DOMAIN s /\ (Len(s) + k) - Len(s) = k
  BY <1>1
<1>. HIDE DEF r
<1>3. ToSet(r) = ToSet(s) \cup ToSet(q)
  <2>1. ASSUME NEW x \in ToSet(q) PROVE x \in ToSet(r)
    <3>1. PICK k \in DOMAIN q : q[k] = x
      BY DEF ToSet
    <3>2. r[Len(s) + k] = x
      BY <1>1, <1>2, <3>1
    <3>. QED
      BY <1>2, <3>2 DEF ToSet
  <2>2. ASSUME NEW x \in ToSet(r) PROVE x \in ToSet(s) \cup ToSet(q)
    BY <1>1, <1>2 DEF ToSet
  <2>3. ASSUME NEW x \in ToSet(s) PROVE x \in ToSet(r)
    BY <1>1, <1>2 DEF ToSet
  <2>. QED
    BY <2>1, <2>2, <2>3
<1>4. ASSUME IsInjective(s), IsInjective(q), ToSet(s) \cap ToSet(q) = {} PROVE IsInjective(r)
  <2>. SUFFICES ASSUME NEW i \in DOMAIN r, NEW j \in DOMAIN r, r[i] = r[j] PROVE i = j
    BY DEF IsInjective
  <2>0. i \in Int /\ j \in Int
    BY <1>1
  <2>1. CASE i \in DOMAIN s /\ j \in DOMAIN s
    BY <1>1, <1>4, <2>1 DEF IsInjective
  <2>2. CASE i \notin DOMAIN s /\ j \notin DOMAIN s
    <3>1. i - Len(s) = j - Len(s)
      BY <1>1, <1>2, <1>4, <2>2 DEF IsInjective
    <3>2. Len(s) \in Int
      BY <1>1
    <3>. QED
      BY ONLY <2>0, <3>1, <3>2
  <2>3. ASSUME NEW a \in DOMAIN s, NEW b \in DOMAIN r, b \notin DOMAIN s, r[a] = r[b] PROVE FALSE
    <3>1. r[a] \in ToSet(s)
      BY <1>1 DEF ToSet
    <3>2. r[b] \in ToSet(q)
      BY <1>1, <1>2, <2>3 DEF ToSet
    <3>. QED
      BY <1>4, <2>3, <3>1, <3>2
  <2>. QED
    BY <2>1, <2>2, <2>3
<1>. QED
  BY <1>1, <1>3, <1>4 DEF r

LEMMA FrameGrows ==
  ASSUME NEW S, NEW T, S \subseteq T, NEW f \in Frames(S), NEW l, NEW m, S \subseteq DOMAIN l,
         LabelsKept(l, m), IsFrame(f, l)
  PROVE  f \in Frames(T) /\ IsFrame(f, m)
<1>1. /\ f = [start |-> f.start, end |-> f.end, args |-> f.args, nodes |-> f.nodes]
      /\ f.start \in S /\ f.end \in S /\ f.args \in Seq(S) /\ f.nodes \in Seq(S)
  BY DEF Frames
<1>2. f \in Frames(T)
  BY <1>1 DEF Frames
<1>3. /\ ToSet(f.nodes) \subseteq S /\ ToSet(f.args) \subseteq S
  BY <1>1 DEF ToSet
<1>4. IsFrame(f, m)
  BY <1>1, <1>3 DEF IsFrame, LabelsKept
<1>. QED
  BY <1>2, <1>4

WithNodes(f, q) == [f EXCEPT !.nodes = @ \o q]

LEMMA FrameExtends ==
  ASSUME NEW T, NEW f \in Frames(T), NEW m, IsFrame(f, m), NEW q \in Seq(T), IsInjective(q),
         ToSet(q) \cap OwnedBy(f) = {}, \A n \in ToSet(q) : m[n].kind \notin {"start", "end", "arg"},
         NEW r, r = WithNodes(f, q)
  PROVE  /\ r \in Frames(T) /\ IsFrame(r, m)
         /\ r.args = f.args /\ r.end = f.end
         /\ OwnedBy(r) = OwnedBy(f) \cup ToSet(q)
         /\ ToSet(r.nodes) = ToSet(f.nodes) \cup ToSet(q)
<1>1. /\ f = [start |-> f.start, end |-> f.end, args |-> f.args, nodes |-> f.nodes]
      /\ f.start \in T /\ f.end \in T /\ f.args \in Seq(T) /\ f.nodes \in Seq(T)
  BY DEF Frames
<1>2. /\ r = [start |-> f.start, end |-> f.end, args |-> f.args, nodes |-> f.nodes \o q]
      /\ r.start = f.start /\ r.end = f.end /\ r.args = f.args /\ r.nodes = f.nodes \o q
  BY <1>1 DEF WithNodes
<1>3. /\ f.nodes \o q \in Seq(T)
      /\ ToSet(f.nodes \o q) = ToSet(f.nodes) \cup ToSet(q)
      /\ IsInjective(f.nodes) /\ IsInjective(q) /\ ToSet(f.nodes) \cap ToSet(q) = {} => IsInjective(f.nodes \o q)
  BY <1>1, ConcatFacts
<1>4. r \in Frames(T)
  BY <1>1, <1>2, <1>3 DEF Frames
<1>5. ToSet(r.nodes) = ToSet(f.nodes) \cup ToSet(q) /\ OwnedBy(r) = OwnedBy(f) \cup ToSet(q)
  BY <1>2, <1>3 DEF OwnedBy
<1>6. f.start \notin ToSet(q) /\ f.end \notin ToSet(q) /\ ToSet(f.nodes) \cap ToSet(q) = {}
  BY DEF OwnedBy
<1>7. IsInjective(r.nodes)
  BY <1>2, <1>3, <1>6 DEF IsFrame
<1>8. IsFrame(r, m)
  BY <1>2, <1>5, <1>6, <1>7 DEF IsFrame
<1>. QED
  BY <1>2, <1>4, <1>5, <1>8

(* The nodes of q are new, and may be added to c. *)
CanExtend(fs, S, l, T, m, c, q) ==
  /\ FramesAre(fs, S, l) /\ S \subseteq T /\ S \subseteq DOMAIN l /\ LabelsKept(l, m)
  /\ c \in Functions /\ q \in Seq(T) /\ IsInjective(q)
  /\ \A f \in Functions : ToSet(q) \cap OwnedBy(fs[f]) = {}
  /\ \A n \in ToSet(q) : m[n].kind \notin {"start", "end", "arg"}

LEMMA FramesExtend ==
  ASSUME NEW fs, NEW S, NEW l, NEW T, NEW m, NEW c, NEW q, CanExtend(fs, S, l, T, m, c, q)
  PROVE  /\ FramesAre(Extended(fs, c, q), T, m)
         /\ Grows(Extended(fs, c, q), fs, c, ToSet(q))
<1>. DEFINE gs == Extended(fs, c, q)
            new == [fs[c] EXCEPT !.nodes = @ \o q]
<1>0. /\ FramesAre(fs, S, l) /\ S \subseteq T /\ S \subseteq DOMAIN l /\ LabelsKept(l, m)
      /\ c \in Functions /\ q \in Seq(T) /\ IsInjective(q)
      /\ \A f \in Functions : ToSet(q) \cap OwnedBy(fs[f]) = {}
      /\ \A n \in ToSet(q) : m[n].kind \notin {"start", "end", "arg"}
  BY DEF CanExtend
<1>1. fs \in [Functions -> Frames(S)] /\ \A f \in Functions : fs[f] \in Frames(T) /\ IsFrame(fs[f], m)
  BY <1>0, FrameGrows DEF FramesAre
<1>2. gs = [fs EXCEPT ![c] = new]
  BY DEF Extended
<1>3. DOMAIN gs = Functions /\ gs = [f \in Functions |-> gs[f]] /\ gs[c] = new /\ \A f \in Functions : f # c => gs[f] = fs[f]
  BY <1>0, <1>1, <1>2
<1>4. /\ new \in Frames(T) /\ IsFrame(new, m)
      /\ new.args = fs[c].args /\ new.end = fs[c].end
      /\ OwnedBy(new) = OwnedBy(fs[c]) \cup ToSet(q)
      /\ ToSet(new.nodes) = ToSet(fs[c].nodes) \cup ToSet(q)
  <2>1. PICK f : f = fs[c]
    OBVIOUS
  <2>2. PICK r : r = new
    OBVIOUS
  <2>3. ToSet(q) \cap OwnedBy(f) = {} /\ f \in Frames(T) /\ IsFrame(f, m) /\ r = WithNodes(f, q)
    BY <1>0, <1>1, <2>1, <2>2 DEF WithNodes
  <2>4. /\ r \in Frames(T) /\ IsFrame(r, m)
        /\ r.args = f.args /\ r.end = f.end
        /\ OwnedBy(r) = OwnedBy(f) \cup ToSet(q)
        /\ ToSet(r.nodes) = ToSet(f.nodes) \cup ToSet(q)
    BY <1>0, <2>3, FrameExtends
  <2>. HIDE DEF new
  <2>. QED
    BY <2>1, <2>2, <2>4
<1>. HIDE DEF gs, new
<1>5. gs \in [Functions -> Frames(T)]
  BY <1>1, <1>3, <1>4
<1>6. \A f \in Functions : IsFrame(gs[f], m)
  BY <1>1, <1>3, <1>4
<1>7. \A f \in Functions : OwnedBy(gs[f]) = IF f = c THEN OwnedBy(fs[f]) \cup ToSet(q) ELSE OwnedBy(fs[f])
  BY <1>0, <1>3, <1>4
<1>8. \A f, h \in Functions : f # h => OwnedBy(gs[f]) \cap OwnedBy(gs[h]) = {}
  BY <1>0, <1>7 DEF FramesAre
<1>9. Grows(gs, fs, c, ToSet(q))
  BY <1>3, <1>4, <1>7 DEF Grows
<1>. QED
  BY <1>5, <1>6, <1>8, <1>9 DEF FramesAre, gs
-----------------------------------------------------------------------------
LEMMA FreshFacts ==
  ASSUME KnownTypes, NEW k \in Nat \ {0}, HasRoom(k)
  PROVE  /\ \A i \in 1..k : Fresh(i) \in Nodes /\ Fresh(i) \notin Known
         /\ \A i, j \in Nat : Fresh(i) = Fresh(j) => i = j
         /\ \A K : K = Known \cup {Fresh(i) : i \in 1..k} => K \subseteq Nodes /\ IsFiniteSet(K) /\ K = 1..Cardinality(K)
<1>. DEFINE b == Cardinality(Known)
            C == Cardinality(Nodes)
<1>1. b \in Nat /\ Known = 1..b /\ C \in Nat /\ Nodes = 1..C
  BY AddressesAssumption, FS_CardinalityType DEF KnownTypes
<1>2. b + k \in 1..C /\ \A i : Fresh(i) = b + i
  BY <1>1 DEF HasRoom, Fresh, Known
<1>. HIDE DEF b, C
<1>3. \A i \in 1..k : Fresh(i) \in Nodes /\ Fresh(i) \notin Known
  BY <1>1, <1>2
<1>4. \A i, j \in Nat : Fresh(i) = Fresh(j) => i = j
  BY <1>1, <1>2
<1>5. ASSUME NEW K, K = Known \cup {Fresh(i) : i \in 1..k}
      PROVE  K \subseteq Nodes /\ IsFiniteSet(K) /\ K = 1..Cardinality(K)
  <2>1. K = 1..(b + k)
    <3>1. \A n \in 1..(b + k) : n \in 1..b \/ (n - b \in 1..k /\ n = b + (n - b))
      BY <1>1
    <3>2. \A n \in 1..b : n \in 1..(b + k)
      BY <1>1
    <3>3. \A i \in 1..k : b + i \in 1..(b + k)
      BY <1>1
    <3>. QED
      BY <1>1, <1>2, <1>5, <3>1, <3>2, <3>3
  <2>2. b + k \in Nat /\ 1 \in Int
    BY <1>1
  <2>3. IsFiniteSet(1..(b + k)) /\ Cardinality(1..(b + k)) = IF 1 > b + k THEN 0 ELSE (b + k) - 1 + 1
    <3>. DEFINE c == b + k
    <3>1. c \in Int /\ 1 \in Int
      BY <2>2
    <3>. HIDE DEF c
    <3>2. IsFiniteSet(1..c) /\ Cardinality(1..c) = IF 1 > c THEN 0 ELSE c - 1 + 1
      BY ONLY <3>1, FS_Interval
    <3>. QED
      BY <3>2 DEF c
  <2>4. Cardinality(K) = b + k
    BY <1>1, <2>1, <2>3
  <2>5. 1..(b + k) \subseteq 1..C
    BY <1>1, <1>2
  <2>. QED
    BY <1>1, <2>1, <2>3, <2>4, <2>5
<1>. QED
  BY <1>3, <1>4, <1>5

LEMMA KnownFrames ==
  ASSUME EdgeInv
  PROVE  /\ FramesAre(functions, Known, label) /\ Known \subseteq Nodes /\ Null \notin Known
         /\ \A f \in Functions : functions[f].args = given.functions[f].args
<1>1. KnownTypes /\ FramesHold
  BY DEF EdgeInv
<1>2. Known \subseteq Nodes /\ Null \notin Known
  BY <1>1, NullAssumption DEF KnownTypes
<1>3. \A f, h \in Functions : f # h => OwnedBy(functions[f]) \cap OwnedBy(functions[h]) = {}
  BY <1>1 DEF FramesHold
<1>. QED
  BY <1>1, <1>2, <1>3 DEF FramesAre, KnownTypes, FramesHold

(* Operands that nodes of L have in r, and did not have in h, are none of X. *)
NothingNew(h, r, L, M, X) ==
  \A u \in M : \A i \in DOMAIN r.operands[u] :
    r.operands[u][i] \in X => u \in L /\ r.operands[u][i] \in ToSet(h.operands[u])

(* Operands in X: those of the nodes of O stay or go, the others are some   *)
(* that a node had.                                                        *)
NothingComes(h, r, L, M, O, X) ==
  /\ \A u \in O : \A i \in DOMAIN r.operands[u] : r.operands[u][i] \in X => r.operands[u][i] \in ToSet(h.operands[u])
  /\ \A u \in M : \A i \in DOMAIN r.operands[u] :
       r.operands[u][i] \in X => \E v \in L : r.operands[u][i] \in ToSet(h.operands[v])

LEMMA OutsideIsLive ==
  ASSUME EdgeInv, phase \in Busy
  PROVE  Outside \subseteq Live
<1>1. \A f \in Functions : functions[f].end \in Live
  BY LiveFacts DEF OwnedBy
<1>. QED
  BY <1>1, BusyFacts DEF Outside

LEMMA NothingNewComes ==
  ASSUME EdgeInv, phase \in Busy, NEW r, NEW M, Live \subseteq M, NothingNew(graph, r, Live, M, OwnedBy(copy))
  PROVE  NothingComes(graph, r, Live, M, Outside, OwnedBy(copy))
BY OutsideIsLive DEF NothingNew, NothingComes

(* What the run of inlineStaticCall leaves alone as long as it is busy with *)
(* a call: only its new nodes Q, added to the caller, are to be looked at.  *)
LEMMA BusyStep ==
  ASSUME EdgeInv, phase \in Busy, phase' \in Busy, UNCHANGED <<script, calls, copy, given>>,
         slot' \in Nat \ {0}, Known' \subseteq Nodes, IsFiniteSet(Known'), Known' = 1..Cardinality(Known'),
         LabelsKept(label, label'), NEW Q, Q \cap OwnedBy(copy) = {},
         FramesAre(functions', Known', label'), Grows(functions', functions, Caller, Q),
         Sound(graph', Live \cup Q, label', Arity),
         NothingComes(graph, graph', Live, Live \cup Q, Outside, OwnedBy(copy))
  PROVE  /\ KnownTypes' /\ Sound(graph', Live', label', Arity') /\ FramesHold' /\ CallsHold' /\ CopyHolds'
         /\ \A i : ArgsReplaced(i) => ArgsReplaced(i)'
         /\ Live' = Live \cup Q /\ Caller' = Caller /\ Call' = Call
<1>1. /\ KnownTypes /\ Sound(graph, Live, label, Arity) /\ FramesHold /\ CallsHold /\ CopyHolds
  BY DEF EdgeInv
<1>2. /\ script' = script /\ calls' = calls /\ copy' = copy /\ given' = given /\ Caller' = Caller /\ Call' = Call
  BY DEF Caller, Call
<1>3. /\ Caller \in Functions /\ Call \in ToSet(functions[Caller].nodes) /\ IsKind(Call, "call")
      /\ Call \in Live /\ Call \notin OwnedBy(copy) /\ Call # Null
      /\ copy \in Frames(Known) /\ OwnedBy(copy) \subseteq Live /\ Null \notin Known
  BY BusyFacts
<1>4. Known \subseteq Known'
  BY DEF LabelsKept, Known
<1>5. KnownTypes'
  <2>1. calls \in Seq(Known) /\ script \in Seq([run : {"inline", "clean"}, on : Functions]) /\ given \in Programs
    BY <1>1 DEF KnownTypes
  <2>2. calls' \in Seq(Known')
    BY <1>2, <1>4, <2>1
  <2>. QED
    BY <1>2, <2>1, <2>2 DEF KnownTypes, FramesAre
<1>6. Live' = Live \cup Q
  <2>1. /\ \A f \in Functions : OwnedBy(functions'[f]) = IF f = Caller THEN OwnedBy(functions[f]) \cup Q ELSE OwnedBy(functions[f])
    BY DEF Grows
  <2>2. UNION {OwnedBy(functions'[f]) : f \in Functions} = (UNION {OwnedBy(functions[f]) : f \in Functions}) \cup Q
    BY <1>3, <2>1
  <2>3. Live' = (OwnedBy(copy) \ {Null}) \cup UNION {OwnedBy(functions'[f]) : f \in Functions}
    BY <1>2 DEF Live
  <2>. QED
    BY <2>2, <2>3 DEF Live
<1>7. Sound(graph', Live', label', Arity')
  BY <1>2, <1>6 DEF Arity
<1>8. FramesHold'
  <2>1. \A f \in Functions : functions'[f].args = functions[f].args
    BY DEF Grows
  <2>. QED
    BY <1>1, <1>2, <2>1 DEF FramesHold, FramesAre
<1>9. CallsHold'
  <2>1. phase \notin {"ready", "aborted", "undefined"} /\ phase' \notin {"ready", "aborted", "undefined"}
    BY DEF Busy, AfterArgs
  <2>2. script # <<>> /\ \A i \in DOMAIN calls : calls[i] \in ToSet(functions[Caller].nodes) /\ IsKind(calls[i], "call")
    BY <1>1, <2>1 DEF CallsHold
  <2>3. ToSet(functions[Caller].nodes) \subseteq ToSet(functions'[Caller].nodes)
    BY <1>3 DEF Grows
  <2>4. \A i \in DOMAIN calls : calls[i] \in Known
    BY <1>1 DEF KnownTypes
  <2>5. \A i \in DOMAIN calls : label'[calls[i]].kind = "call"
    BY <2>2, <2>4 DEF LabelsKept, IsKind, Known
  <2>. QED
    BY <1>2, <2>1, <2>2, <2>3, <2>5 DEF CallsHold, IsKind
<1>10. CopyHolds'
  <2>0. phase' \notin {"ready", "calls"}
    BY DEF Busy, AfterArgs
  <2>1. /\ calls # <<>>
        /\ IsFrame(copy, label)
        /\ \A f \in Functions : OwnedBy(functions[f]) \cap OwnedBy(copy) = {}
        /\ \A u \in Outside : ToSet(graph.operands[u]) \cap OwnedBy(copy) = {}
        /\ Len(copy.args) = Arity[label[Call].of]
    BY <1>1 DEF CopyHolds
  <2>2. copy \in Frames(Known') /\ IsFrame(copy, label')
    BY <1>3, <1>4, <2>1, FrameGrows DEF Known
  <2>3. \A f \in Functions : OwnedBy(functions'[f]) \cap OwnedBy(copy) = {}
    BY <2>1 DEF Grows
  <2>4. Outside' = Outside
    <3>1. \A f \in Functions : functions'[f].end = functions[f].end
      BY DEF Grows
    <3>2. {functions'[f].end : f \in Functions} = {functions[f].end : f \in Functions}
      BY <3>1
    <3>3. Outside' = {Call'} \cup {functions'[f].end : f \in Functions}
      BY DEF Outside
    <3>. QED
      BY <1>2, <3>2, <3>3 DEF Outside
  <2>6. \A u \in Outside : ToSet(graph'.operands[u]) \cap OwnedBy(copy) = {}
    <3>. SUFFICES ASSUME NEW u \in Outside, NEW i \in DOMAIN graph'.operands[u], graph'.operands[u][i] \in OwnedBy(copy)
                  PROVE  FALSE
      BY DEF ToSet
    <3>1. graph'.operands[u][i] \in ToSet(graph.operands[u])
      BY DEF NothingComes
    <3>. QED
      BY <2>1, <3>1
  <2>7. label'[Call] = label[Call]
    BY <1>1, <1>3 DEF LabelsKept, Sound
  <2>. QED
    BY <1>2, <2>0, <2>1, <2>2, <2>3, <2>4, <2>6, <2>7 DEF CopyHolds, Arity
<1>11. ASSUME NEW i, ArgsReplaced(i) PROVE ArgsReplaced(i)'
  <2>1. \A k \in DOMAIN copy.args : copy.args[k] \in OwnedBy(copy)
    <3>1. IsFrame(copy, label)
      BY <1>1 DEF CopyHolds
    <3>. QED
      BY <3>1 DEF IsFrame, ToSet, OwnedBy
  <2>2. ASSUME NEW k \in DOMAIN copy.args, k < i, NEW n \in Live \cup Q, copy.args[k] \in ToSet(graph'.operands[n])
        PROVE  FALSE
    <3>1. PICK j \in DOMAIN graph'.operands[n] : graph'.operands[n][j] = copy.args[k]
      BY <2>2 DEF ToSet
    <3>2. PICK v \in Live : copy.args[k] \in ToSet(graph.operands[v])
      BY <2>1, <3>1 DEF NothingComes
    <3>. QED
      BY <1>11, <2>2, <3>2 DEF ArgsReplaced
  <2>. QED
    BY <1>2, <1>6, <2>2 DEF ArgsReplaced
<1>. QED
  BY <1>2, <1>5, <1>6, <1>7, <1>8, <1>9, <1>10, <1>11
-----------------------------------------------------------------------------
(* A step that edits no node. *)
LEMMA QuietStep ==
  ASSUME EdgeInv, UNCHANGED <<graph, label, functions, copy, given>>,
         script' \in Seq([run : {"inline", "clean"}, on : Functions]), calls' \in Seq(Known), slot' = slot
  PROVE  KnownTypes' /\ Sound(graph', Live', label', Arity') /\ FramesHold'
<1>1. KnownTypes /\ Sound(graph, Live, label, Arity) /\ FramesHold
  BY DEF EdgeInv
<1>. QED
  BY <1>1 DEF KnownTypes, Known, Live, Arity, FramesHold

LEMMA NotBusy ==
  ASSUME phase' \notin Busy
  PROVE  ArgsHold' /\ RetsHold'
BY DEF ArgsHold, RetsHold, Busy, AfterArgs

LEMMA StartInliningKeeps == EdgeInv /\ StartInlining => EdgeInv'
<1>. SUFFICES ASSUME EdgeInv, StartInlining PROVE EdgeInv'
  OBVIOUS
<1>. DEFINE nodes == functions[Caller].nodes
            S == {n \in Live : IsKind(n, "call")}
<1>1. /\ phase = "ready" /\ script # <<>> /\ phase' = "calls" /\ calls' = Only(nodes, S) /\ slot' = slot
      /\ UNCHANGED <<graph, label, functions, script, copy, given>>
  BY DEF StartInlining, Ready
<1>2. KnownTypes /\ CopyHolds
  BY DEF EdgeInv
<1>3. Caller \in Functions
  BY <1>1, <1>2, CallerIn
<1>4. nodes \in Seq(Known)
  BY <1>2, <1>3, OwnedFacts DEF KnownTypes
<1>. HIDE DEF nodes, S
<1>5. Only(nodes, S) \in Seq(Known) /\ ToSet(Only(nodes, S)) = ToSet(nodes) \cap S
  BY <1>4, OnlyFacts
<1>6. KnownTypes' /\ Sound(graph', Live', label', Arity') /\ FramesHold'
  <2>1. script' \in Seq([run : {"inline", "clean"}, on : Functions]) /\ calls' \in Seq(Known)
    BY <1>1, <1>2, <1>5 DEF KnownTypes
  <2>. QED
    BY <1>1, <2>1, QuietStep
<1>7. CallsHold'
  <2>1. \A i \in DOMAIN calls' : calls'[i] \in ToSet(nodes) /\ calls'[i] \in S
    BY <1>1, <1>5 DEF ToSet
  <2>2. Caller' = Caller /\ functions' = functions /\ label' = label
    BY <1>1 DEF Caller
  <2>3. \A i \in DOMAIN calls' : calls'[i] \in ToSet(functions'[Caller'].nodes) /\ label'[calls'[i]].kind = "call"
    BY <2>1, <2>2 DEF nodes, S, IsKind
  <2>. QED
    BY <1>1, <2>3 DEF CallsHold, IsKind
<1>8. CopyHolds'
  BY <1>1, <1>2 DEF CopyHolds, Busy, AfterArgs
<1>9. ArgsHold' /\ RetsHold'
  BY <1>1, NotBusy DEF Busy, AfterArgs
<1>. QED
  BY <1>6, <1>7, <1>8, <1>9 DEF EdgeInv

LEMMA TailIn ==
  ASSUME NEW T, NEW s \in Seq(T), s # <<>>
  PROVE  /\ Tail(s) \in Seq(T)
         /\ \A i \in DOMAIN Tail(s) : i + 1 \in DOMAIN s /\ Tail(s)[i] = s[i + 1]
<1>1. Len(s) # 0
  OBVIOUS
<1>. QED
  BY <1>1

LEMMA InliningDoneKeeps == EdgeInv /\ InliningDone => EdgeInv'
<1>. SUFFICES ASSUME EdgeInv, InliningDone PROVE EdgeInv'
  OBVIOUS
<1>1. /\ phase = "calls" /\ calls = <<>> /\ phase' = "ready" /\ script' = Tail(script) /\ calls' = calls /\ slot' = slot
      /\ UNCHANGED <<graph, label, functions, copy, given>>
  BY DEF InliningDone
<1>2. KnownTypes /\ CopyHolds /\ CallsHold
  BY DEF EdgeInv
<1>3. KnownTypes' /\ Sound(graph', Live', label', Arity') /\ FramesHold'
  <2>1. script # <<>>
    BY <1>1, <1>2 DEF CallsHold
  <2>2. script' \in Seq([run : {"inline", "clean"}, on : Functions])
    BY <1>1, <1>2, <2>1, TailIn DEF KnownTypes
  <2>. QED
    BY <1>1, <1>2, <2>2, QuietStep DEF KnownTypes
<1>4. CallsHold' /\ CopyHolds'
  BY <1>1, <1>2 DEF CallsHold, CopyHolds, Busy, AfterArgs
<1>5. ArgsHold' /\ RetsHold'
  BY <1>1, NotBusy DEF Busy, AfterArgs
<1>. QED
  BY <1>3, <1>4, <1>5 DEF EdgeInv

LEMMA UnchangedKeeps == EdgeInv /\ UNCHANGED inlineVars => EdgeInv'
BY DEF inlineVars, EdgeInv, KnownTypes, Known, Live, Arity, FramesHold, CallsHold, CopyHolds, ArgsHold, RetsHold,
       ArgsReplaced, Outside, Rets, Caller, Call, IsKind

LEMMA StopKeeps == EdgeInv /\ (Stop \/ Stopped) => EdgeInv'
<1>1. ASSUME EdgeInv, Stop PROVE EdgeInv'
  <2>1. phase' \in {"aborted", "undefined"} /\ UNCHANGED <<graph, label, functions, script, calls, copy, slot, ret, given>>
    BY <1>1 DEF Stop
  <2>2. KnownTypes /\ CallsHold
    BY <1>1 DEF EdgeInv
  <2>3. KnownTypes' /\ Sound(graph', Live', label', Arity') /\ FramesHold'
    BY <1>1, <2>1, <2>2, QuietStep DEF KnownTypes
  <2>4. CallsHold' /\ CopyHolds'
    BY <2>1, <2>2 DEF CallsHold, CopyHolds, Busy, AfterArgs, Caller, IsKind
  <2>5. ArgsHold' /\ RetsHold'
    BY <2>1, NotBusy DEF Busy, AfterArgs
  <2>. QED
    BY <2>3, <2>4, <2>5 DEF EdgeInv
<1>. QED
  BY <1>1, UnchangedKeeps DEF Stopped

LEMMA CleanFunctionKeeps == EdgeInv /\ CleanFunction => EdgeInv'
<1>. SUFFICES ASSUME EdgeInv, CleanFunction PROVE EdgeInv'
  OBVIOUS
<1>. DEFINE old == functions[Caller]
            freed == {n \in ToSet(old.nodes) : ~IsKind(n, "arg") /\ UsersOf(graph, n) = {}}
            S == ToSet(old.nodes) \ freed
            kept == Only(old.nodes, S)
            new == [old EXCEPT !.nodes = kept]
            M == Live \ freed
<1>1. /\ phase = "ready" /\ script # <<>> /\ script' = Tail(script) /\ phase' = phase /\ calls' = calls /\ slot' = slot
      /\ graph' = Destroy(graph, freed)
      /\ UNCHANGED <<label, copy, given>>
  BY DEF CleanFunction, Ready
<1>2. functions' = [functions EXCEPT ![Caller] = new]
  BY DEF CleanFunction
<1>3. KnownTypes /\ Sound(graph, Live, label, Arity) /\ FramesHold /\ CopyHolds /\ CallsHold
  BY DEF EdgeInv
<1>4. Caller \in Functions
  BY <1>1, <1>3, CallerIn
<1>5. /\ old \in Frames(Known) /\ IsFrame(old, label)
      /\ functions \in [Functions -> Frames(Known)]
  BY <1>3, <1>4 DEF KnownTypes, FramesHold
<1>6. /\ old = [start |-> old.start, end |-> old.end, args |-> old.args, nodes |-> old.nodes]
      /\ old.start \in Known /\ old.end \in Known /\ old.args \in Seq(Known) /\ old.nodes \in Seq(Known)
  BY <1>5 DEF Frames
<1>7. /\ new = [start |-> old.start, end |-> old.end, args |-> old.args, nodes |-> kept]
      /\ new.start = old.start /\ new.end = old.end /\ new.args = old.args /\ new.nodes = kept
  <2>. HIDE DEF old, kept
  <2>. QED
    BY <1>6
<1>8. freed \subseteq ToSet(old.nodes)
  OBVIOUS
<1>9. \A n \in freed : label[n].kind # "arg" /\ \A u \in Nodes : ~(graph.users[n][u] > 0)
  BY DEF UsersOf, IsKind
<1>. HIDE DEF freed, old, kept, new
<1>10. kept \in Seq(Known) /\ ToSet(kept) = ToSet(old.nodes) \ freed /\ IsInjective(kept)
  <2>1. IsInjective(old.nodes)
    BY <1>5 DEF IsFrame
  <2>2. old.nodes \in Seq(Known)
    BY <1>6
  <2>. DEFINE nodes == old.nodes
  <2>. HIDE DEF nodes, S
  <2>3. /\ Only(nodes, S) \in Seq(Known) /\ ToSet(Only(nodes, S)) = ToSet(nodes) \cap S
        /\ IsInjective(nodes) => IsInjective(Only(nodes, S))
    BY <2>2, OnlyFacts DEF nodes
  <2>. QED
    BY <2>1, <2>3 DEF kept, nodes, S
<1>11. new \in Frames(Known)
  BY <1>6, <1>7, <1>10 DEF Frames
<1>12. IsFrame(new, label)
  BY <1>5, <1>7, <1>9, <1>10 DEF IsFrame
<1>13. OwnedBy(new) = OwnedBy(old) \ freed
  <2>1. old.start \notin freed /\ old.end \notin freed
    BY <1>5, <1>8 DEF IsFrame
  <2>. QED
    BY <1>7, <1>10, <2>1 DEF OwnedBy
<1>14. functions' \in [Functions -> Frames(Known)] /\ functions'[Caller] = new /\ \A f \in Functions : f # Caller => functions'[f] = functions[f]
  BY <1>2, <1>4, <1>5, <1>11
<1>15. \A f \in Functions : OwnedBy(functions'[f]) = OwnedBy(functions[f]) \ freed
  <2>. SUFFICES ASSUME NEW f \in Functions, f # Caller PROVE OwnedBy(functions[f]) \cap freed = {}
    BY <1>13, <1>14 DEF old
  <2>1. OwnedBy(functions[f]) \cap OwnedBy(functions[Caller]) = {}
    BY <1>3, <1>4 DEF FramesHold
  <2>. QED
    BY <1>8, <2>1 DEF OwnedBy, old
<1>16. copy = NoFunction /\ copy' = NoFunction
  BY <1>1, <1>3 DEF CopyHolds
<1>17. Live' = M
  <2>1. OwnedBy(copy) \ {Null} = {}
    BY <1>16 DEF NoFunction, OwnedBy, ToSet
  <2>2. Live = UNION {OwnedBy(functions[f]) : f \in Functions}
    BY <2>1 DEF Live
  <2>3. Live' = UNION {OwnedBy(functions'[f]) : f \in Functions}
    BY <1>16, <2>1 DEF Live
  <2>. QED
    BY <1>15, <2>2, <2>3
<1>18. freed \subseteq Live
  BY <1>4, <1>8, LiveFacts DEF OwnedBy, old
<1>19. Sound(graph', M, label, Arity)
  <2>1. Agree(graph, Live) /\ Live \subseteq Nodes
    BY <1>3 DEF Sound, Agree
  <2>2. ASSUME NEW u \in M, NEW i \in DOMAIN graph.operands[u] PROVE graph.operands[u][i] \in M \cup {Null}
    <3>. SUFFICES ASSUME graph.operands[u][i] \in freed PROVE FALSE
      BY <2>1 DEF Agree
    <3>. DEFINE d == graph.operands[u][i]
    <3>1. d \in Live /\ u \in Live /\ u \in Nodes /\ d \in freed
      BY <1>18, <2>1
    <3>2. graph.users[d][u] = Uses(graph, u, d) /\ Uses(graph, u, d) \in Nat /\ Uses(graph, u, d) # 0
      BY <2>1, <3>1, AgreeUses
    <3>. QED
      BY <1>9, <3>1, <3>2
  <2>3. M \subseteq Live /\ M \cap freed = {}
    OBVIOUS
  <2>. HIDE DEF M
  <2>4. Sound(Destroy(graph, freed), M, label, Arity)
    BY <1>3, <2>2, <2>3, SoundDestroy
  <2>. QED
    BY <1>1, <2>4
<1>20. Sound(graph', Live', label', Arity')
  BY <1>1, <1>17, <1>19 DEF Arity
<1>21. KnownTypes'
  <2>1. script' \in Seq([run : {"inline", "clean"}, on : Functions])
    BY <1>1, <1>3, TailIn DEF KnownTypes
  <2>. QED
    BY <1>1, <1>3, <1>14, <2>1 DEF KnownTypes, Known
<1>22. FramesHold'
  <2>1. \A f \in Functions : IsFrame(functions'[f], label) /\ functions'[f].args = functions[f].args
    BY <1>3, <1>7, <1>12, <1>14 DEF FramesHold, old
  <2>. QED
    BY <1>1, <1>3, <1>15, <2>1 DEF FramesHold
<1>23. CallsHold' /\ CopyHolds'
  BY <1>1, <1>3, <1>16 DEF CallsHold, CopyHolds, Busy, AfterArgs
<1>24. ArgsHold' /\ RetsHold'
  BY <1>1, NotBusy DEF Busy, AfterArgs
<1>. QED
  BY <1>20, <1>21, <1>22, <1>23, <1>24 DEF EdgeInv
-----------------------------------------------------------------------------
LEMMA RenamedFacts ==
  ASSUME NEW T, NEW s \in Seq(T), NEW n, NEW m
  PROVE  /\ DOMAIN Renamed(s, n, m) = DOMAIN s /\ Len(Renamed(s, n, m)) = Len(s)
         /\ \A i \in DOMAIN s : Renamed(s, n, m)[i] = IF s[i] = n THEN m ELSE s[i]
         /\ \A x \in ToSet(Renamed(s, n, m)) : x = m \/ (x # n /\ x \in ToSet(s))
<1>1. /\ DOMAIN Renamed(s, n, m) = DOMAIN s /\ Len(Renamed(s, n, m)) = Len(s)
      /\ \A i \in DOMAIN s : Renamed(s, n, m)[i] = IF s[i] = n THEN m ELSE s[i]
  BY DEF Renamed
<1>2. \A x \in ToSet(Renamed(s, n, m)) : x = m \/ (x # n /\ x \in ToSet(s))
  BY <1>1 DEF ToSet
<1>. QED
  BY <1>1, <1>2

(* One replaceWith, by a node that is not of the copy. *)
LEMMA ReplaceInBusy ==
  ASSUME EdgeInv, phase \in Busy, phase' \in Busy, UNCHANGED <<functions, label, script, calls, copy, given>>,
         slot' \in Nat \ {0}, NEW n \in Live, NEW m \in Live \cup {Null}, m \notin OwnedBy(copy), m # n,
         m # Null => Plain(label, m) /\ label[n].kind \notin EndInputs,
         graph' = ReplaceWith(graph, n, m)
  PROVE  /\ KnownTypes' /\ Sound(graph', Live', label', Arity') /\ FramesHold' /\ CallsHold' /\ CopyHolds'
         /\ \A i : ArgsReplaced(i) => ArgsReplaced(i)'
         /\ Live' = Live
         /\ \A u \in Live : graph.operands[u] \in Seq(Live \cup {Null}) /\ graph'.operands[u] = Renamed(graph.operands[u], n, m)
<1>1. KnownTypes /\ Sound(graph, Live, label, Arity)
  BY DEF EdgeInv
<1>2. /\ Sound(graph', Live, label, Arity)
      /\ \A u \in Live : graph'.operands[u] = Renamed(graph.operands[u], n, m)
  BY <1>1, SoundReplace
<1>3. \A u \in Live : graph.operands[u] \in Seq(Live \cup {Null})
  BY <1>1, AgreeSlots DEF Sound
<1>4. NothingNew(graph, graph', Live, Live, OwnedBy(copy))
  <2>. SUFFICES ASSUME NEW u \in Live, NEW i \in DOMAIN graph'.operands[u], graph'.operands[u][i] \in OwnedBy(copy)
                PROVE  graph'.operands[u][i] \in ToSet(graph.operands[u])
    BY DEF NothingNew
  <2>1. graph'.operands[u][i] \in ToSet(Renamed(graph.operands[u], n, m))
    BY <1>2 DEF ToSet
  <2>. QED
    BY <1>3, <2>1, RenamedFacts
<1>5. Known' = Known /\ LabelsKept(label, label')
  BY DEF Known, LabelsKept
<1>6. FramesAre(functions', Known', label') /\ Known' \subseteq Nodes /\ IsFiniteSet(Known') /\ Known' = 1..Cardinality(Known')
  BY <1>1, <1>5, KnownFrames DEF KnownTypes
<1>7. Grows(functions', functions, Caller, {})
  BY DEF Grows
<1>8. /\ Live \cup {} = Live /\ {} \cap OwnedBy(copy) = {} /\ label' = label
  OBVIOUS
<1>9. /\ KnownTypes' /\ Sound(graph', Live', label', Arity') /\ FramesHold' /\ CallsHold' /\ CopyHolds'
      /\ \A i : ArgsReplaced(i) => ArgsReplaced(i)'
      /\ Live' = Live
  <2>1. NothingComes(graph, graph', Live, Live, Outside, OwnedBy(copy))
    BY <1>4, NothingNewComes
  <2>. QED
    BY <1>2, <1>5, <1>6, <1>7, <1>8, <2>1, BusyStep
<1>. QED
  BY <1>2, <1>3, <1>9

LEMMA ReplaceArgKeeps == EdgeInv /\ ReplaceArg => EdgeInv'
<1>. SUFFICES ASSUME EdgeInv, ReplaceArg PROVE EdgeInv'
  OBVIOUS
<1>. DEFINE n == copy.args[slot]
            m == graph.operands[Call][slot]
<1>1. /\ phase = "args" /\ slot <= Len(copy.args) /\ phase' = phase /\ slot' = slot + 1
      /\ graph' = ReplaceWith(graph, n, m)
      /\ UNCHANGED <<label, functions, script, calls, copy, ret, given>>
  BY DEF ReplaceArg
<1>2. KnownTypes /\ Sound(graph, Live, label, Arity) /\ CopyHolds /\ ArgsHold /\ RetsHold
  BY DEF EdgeInv
<1>3. phase \in Busy /\ phase' \in Busy
  BY <1>1 DEF Busy
<1>4. slot \in Nat \ {0} /\ slot' \in Nat \ {0} /\ slot - 1 \in Nat
  BY <1>1, <1>2 DEF KnownTypes
<1>5. copy \in Frames(Known) /\ IsFrame(copy, label) /\ copy.args \in Seq(Known)
  BY <1>2, <1>3, OwnedFacts DEF CopyHolds
<1>6. slot \in DOMAIN copy.args
  BY <1>1, <1>4, <1>5
<1>7. n \in OwnedBy(copy) /\ label[n].kind = "arg" /\ n \in Live
  <2>1. n \in ToSet(copy.args)
    BY <1>6 DEF ToSet
  <2>2. n \in ToSet(copy.nodes) /\ label[n].kind = "arg"
    BY <1>5, <2>1 DEF IsFrame
  <2>. QED
    BY <1>3, <2>2, BusyFacts DEF OwnedBy
<1>8. /\ graph.operands[Call] \in Seq(Live \cup {Null}) /\ Len(graph.operands[Call]) = Len(copy.args) + 1
      /\ \A i \in DOMAIN graph.operands[Call] : graph.operands[Call][i] # Null => Plain(label, graph.operands[Call][i])
      /\ Call \in Live /\ IsKind(copy.end, "end") /\ copy.end \in Live /\ Rets \in Seq(Live \cup {Null})
      /\ \A i \in DOMAIN Rets : Rets[i] # Null => label[Rets[i]].kind \in EndInputs
  BY <1>3, BusyFacts DEF OwnedBy
<1>9. slot \in DOMAIN graph.operands[Call]
  <2>. DEFINE s == graph.operands[Call]
              T == Live \cup {Null}
  <2>1. s \in Seq(T) /\ Len(s) = Len(copy.args) + 1 /\ Len(copy.args) \in Nat
    BY <1>5, <1>8
  <2>. HIDE DEF s, T
  <2>2. slot \in DOMAIN s
    BY <1>1, <1>4, <2>1
  <2>. QED
    BY <2>2 DEF s
<1>10. m \in Live \cup {Null} /\ m \notin OwnedBy(copy) /\ m # n
  <2>1. ToSet(graph.operands[Call]) \cap OwnedBy(copy) = {}
    BY <1>2, <1>3 DEF CopyHolds, Outside
  <2>2. m \in ToSet(graph.operands[Call])
    BY <1>9 DEF ToSet
  <2>. QED
    BY <1>7, <1>8, <1>9, <2>1, <2>2
<1>11. m # Null => Plain(label, m) /\ label[n].kind \notin EndInputs
  BY <1>7, <1>8, <1>9 DEF EndInputs
<1>. HIDE DEF n, m
<1>12. /\ KnownTypes' /\ Sound(graph', Live', label', Arity') /\ FramesHold' /\ CallsHold' /\ CopyHolds'
       /\ \A i : ArgsReplaced(i) => ArgsReplaced(i)'
       /\ Live' = Live
       /\ \A u \in Live : graph.operands[u] \in Seq(Live \cup {Null}) /\ graph'.operands[u] = Renamed(graph.operands[u], n, m)
  BY <1>1, <1>3, <1>4, <1>7, <1>10, <1>11, ReplaceInBusy
<1>13. ArgsHold'
  <2>1. PICK c : c = slot
    OBVIOUS
  <2>2. ArgsReplaced(c)
    BY <1>1, <1>2, <2>1 DEF ArgsHold
  <2>3. ArgsReplaced(c)'
    BY <1>12, <2>2
  <2>4. copy' = copy
    BY <1>1
  <2>5. ASSUME NEW k \in DOMAIN copy.args, k < c + 1, NEW u \in Live PROVE copy.args[k] \notin ToSet(graph'.operands[u])
    <3>1. CASE k < c
      BY <1>12, <2>3, <2>4, <3>1 DEF ArgsReplaced
    <3>2. CASE k = c
      <4>1. graph'.operands[u] = Renamed(graph.operands[u], n, m) /\ graph.operands[u] \in Seq(Live \cup {Null})
        BY <1>12
      <4>2. \A x \in ToSet(Renamed(graph.operands[u], n, m)) : x = m \/ (x # n /\ x \in ToSet(graph.operands[u]))
        BY <4>1, RenamedFacts
      <4>3. copy.args[k] = n
        BY <2>1, <3>2 DEF n
      <4>. QED
        BY <1>10, <4>1, <4>2, <4>3
    <3>3. k \in Nat /\ c \in Nat
      BY <1>4, <1>5, <2>1
    <3>. QED
      BY <2>5, <3>1, <3>2, <3>3
  <2>6. \A k \in DOMAIN copy'.args : k < slot' => \A u \in Live' : copy'.args[k] \notin ToSet(graph'.operands[u])
    BY <1>1, <1>12, <2>1, <2>4, <2>5
  <2>. QED
    BY <1>1, <2>6 DEF ArgsHold, ArgsReplaced, AfterArgs
<1>14. RetsHold'
  <2>1. Rets' = Renamed(Rets, n, m)
    BY <1>1, <1>8, <1>12 DEF Rets
  <2>2. Null \notin ToSet(Rets)
    BY <1>1, <1>2 DEF RetsHold
  <2>3. \A i \in DOMAIN Rets : Rets[i] # n
    BY <1>7, <1>8, <2>2 DEF ToSet, EndInputs
  <2>4. Rets' = Rets
    <3>1. Renamed(Rets, n, m) = [i \in DOMAIN Rets |-> Rets[i]]
      BY <2>3 DEF Renamed
    <3>. QED
      BY <1>8, <2>1, <3>1
  <2>. QED
    BY <1>1, <2>2, <2>4 DEF RetsHold, AfterArgs
<1>. QED
  BY <1>12, <1>13, <1>14 DEF EdgeInv

LEMMA ReplaceCallKeeps == EdgeInv /\ ReplaceCall => EdgeInv'
<1>. SUFFICES ASSUME EdgeInv, ReplaceCall PROVE EdgeInv'
  OBVIOUS
<1>. DEFINE n == Call
            m == ret.value
<1>1. /\ phase = "call" /\ phase' = "move" /\ slot' = slot
      /\ graph' = ReplaceWith(graph, n, m)
      /\ UNCHANGED <<label, functions, script, calls, copy, ret, given>>
  BY DEF ReplaceCall
<1>2. KnownTypes /\ ArgsHold /\ RetsHold /\ CopyHolds
  BY DEF EdgeInv
<1>3. phase \in Busy /\ phase' \in Busy /\ slot' \in Nat \ {0}
  BY <1>1, <1>2 DEF Busy, AfterArgs, KnownTypes
<1>4. /\ n \in Live /\ IsKind(n, "call") /\ Null \notin Known /\ OwnedBy(copy) \subseteq Live
      /\ Caller \in Functions /\ OwnedBy(functions[Caller]) \subseteq Live
  BY <1>3, BusyFacts
<1>5. m \in OwnedBy(functions[Caller]) /\ IsKind(m, "phi")
  BY <1>1, <1>2 DEF RetsHold, AfterArgs, OwnedBy
<1>6. m \in Live \cup {Null} /\ m \notin OwnedBy(copy) /\ m # n /\ Plain(label, m) /\ label[n].kind \notin EndInputs
  <2>1. OwnedBy(functions[Caller]) \cap OwnedBy(copy) = {}
    BY <1>2, <1>3, <1>4 DEF CopyHolds
  <2>. QED
    BY <1>4, <1>5, <2>1 DEF IsKind, Plain, EndInputs
<1>. HIDE DEF n, m
<1>7. /\ KnownTypes' /\ Sound(graph', Live', label', Arity') /\ FramesHold' /\ CallsHold' /\ CopyHolds'
      /\ \A i : ArgsReplaced(i) => ArgsReplaced(i)'
  BY <1>1, <1>3, <1>4, <1>6, ReplaceInBusy
<1>8. ArgsHold'
  <2>1. PICK c : c = Len(copy.args) + 1
    OBVIOUS
  <2>2. ArgsReplaced(c)
    BY <1>1, <1>2, <2>1 DEF ArgsHold, AfterArgs
  <2>3. ArgsReplaced(c)' /\ copy' = copy
    BY <1>1, <1>7, <2>2
  <2>. QED
    BY <1>1, <2>1, <2>3 DEF ArgsHold
<1>9. RetsHold'
  BY <1>1, <1>2 DEF RetsHold, AfterArgs, IsKind, Caller
<1>. QED
  BY <1>7, <1>8, <1>9 DEF EdgeInv

LEMMA OneNode ==
  ASSUME NEW T, NEW n \in T
  PROVE  <<n>> \in Seq(T) /\ IsInjective(<<n>>) /\ ToSet(<<n>>) = {n}
<1>1. <<n>> \in Seq(T) /\ DOMAIN <<n>> = {1} /\ <<n>>[1] = n
  OBVIOUS
<1>. QED
  BY <1>1 DEF IsInjective, ToSet

LEMMA TwoNodes ==
  ASSUME NEW T, NEW n \in T, NEW m \in T, n # m
  PROVE  <<n, m>> \in Seq(T) /\ IsInjective(<<n, m>>) /\ ToSet(<<n, m>>) = {n, m}
<1>1. <<n, m>> \in Seq(T) /\ DOMAIN <<n, m>> = {1, 2} /\ <<n, m>>[1] = n /\ <<n, m>>[2] = m
  OBVIOUS
<1>. QED
  BY <1>1 DEF IsInjective, ToSet

(* The nodes of q, which are new, were labelled and added to the caller. *)
LEMMA GrowInBusy ==
  ASSUME EdgeInv, phase \in Busy, phase' \in Busy, UNCHANGED <<script, calls, copy, given>>, slot' \in Nat \ {0},
         NEW k \in Nat \ {0}, HasRoom(k), NEW Q, Q = {Fresh(i) : i \in 1..k}, Known' = Known \cup Q,
         LabelsKept(label, label'), \A n \in Q : label'[n].kind \notin {"start", "end", "arg"},
         NEW q \in Seq(Q), ToSet(q) = Q, IsInjective(q), functions' = Extended(functions, Caller, q),
         Sound(graph', Live \cup Q, label', Arity),
         NothingComes(graph, graph', Live, Live \cup Q, Outside, OwnedBy(copy))
  PROVE  /\ KnownTypes' /\ Sound(graph', Live', label', Arity') /\ FramesHold' /\ CallsHold' /\ CopyHolds'
         /\ \A i : ArgsReplaced(i) => ArgsReplaced(i)'
         /\ Live' = Live \cup Q /\ Caller' = Caller /\ Call' = Call
         /\ ToSet(functions'[Caller].nodes) = ToSet(functions[Caller].nodes) \cup Q
<1>1. KnownTypes /\ FramesAre(functions, Known, label)
  BY KnownFrames DEF EdgeInv
<1>2. /\ \A n \in Q : n \notin Known
      /\ Known' \subseteq Nodes /\ IsFiniteSet(Known') /\ Known' = 1..Cardinality(Known')
  <2>1. PICK K : K = Known \cup Q
    OBVIOUS
  <2>2. \A i \in 1..k : Fresh(i) \notin Known
    BY <1>1, FreshFacts
  <2>3. K = Known \cup {Fresh(i) : i \in 1..k}
    BY <2>1
  <2>4. K \subseteq Nodes /\ IsFiniteSet(K) /\ K = 1..Cardinality(K)
    BY <1>1, <2>3, FreshFacts
  <2>. QED
    BY <2>1, <2>2, <2>4
<1>3. /\ Caller \in Functions /\ copy \in Frames(Known)
      /\ \A f \in Functions : functions[f] \in Frames(Known)
  BY BusyFacts
<1>4. Q \cap OwnedBy(copy) = {} /\ \A f \in Functions : ToSet(q) \cap OwnedBy(functions[f]) = {}
  BY <1>2, <1>3, OwnedFacts
<1>5. FramesAre(functions', Known', label') /\ Grows(functions', functions, Caller, Q)
  <2>1. q \in Seq(Known') /\ Known \subseteq Known' /\ Known \subseteq DOMAIN label
    BY DEF Known
  <2>2. PICK T : T = Known'
    OBVIOUS
  <2>3. PICK m : m = label'
    OBVIOUS
  <2>4. CanExtend(functions, Known, label, T, m, Caller, q)
    BY <1>1, <1>3, <1>4, <2>1, <2>2, <2>3 DEF CanExtend
  <2>5. /\ FramesAre(Extended(functions, Caller, q), T, m)
        /\ Grows(Extended(functions, Caller, q), functions, Caller, ToSet(q))
    BY <2>4, FramesExtend
  <2>. QED
    BY <2>2, <2>3, <2>5
<1>6. ToSet(functions'[Caller].nodes) = ToSet(functions[Caller].nodes) \cup Q
  BY <1>3, <1>5 DEF Grows
<1>. QED
  BY <1>2, <1>4, <1>5, <1>6, BusyStep

LEMMA CreateRetKeeps == EdgeInv /\ CreateRet => EdgeInv'
<1>. SUFFICES ASSUME EdgeInv, CreateRet PROVE EdgeInv'
  OBVIOUS
<1>. DEFINE r == Fresh(1)
            v == Fresh(2)
            Q == {r, v}
            nulls == [i \in DOMAIN Rets |-> Null]
            slots == <<r>> \o nulls
            l == Labelled(label, r, "region")
            h == Construct(graph, r, <<>>)
            L == Live \cup {r}
<1>1. /\ phase = "args" /\ slot > Len(copy.args) /\ HasRoom(2) /\ phase' = "rets" /\ slot' = 1
      /\ ret'.region = r /\ ret'.value = v
      /\ label' = Labelled(l, v, "phi")
      /\ graph' = Construct(h, v, slots)
      /\ functions' = Extended(functions, Caller, <<r, v>>)
      /\ UNCHANGED <<script, calls, copy, given>>
  BY DEF CreateRet, Extended
<1>2. KnownTypes /\ Sound(graph, Live, label, Arity) /\ ArgsHold /\ RetsHold
  BY DEF EdgeInv
<1>3. phase \in Busy /\ phase' \in Busy /\ slot' \in Nat \ {0}
  BY <1>1 DEF Busy, AfterArgs
<1>4. /\ r \in Nodes /\ v \in Nodes /\ r \notin Known /\ v \notin Known /\ r # v
      /\ Q = {Fresh(i) : i \in 1..2}
  <2>1. 2 \in Nat \ {0} /\ 1 \in 1..2 /\ 2 \in 1..2 /\ 1 # 2 /\ 1 \in Nat /\ 2 \in Nat /\ \A i \in 1..2 : i = 1 \/ i = 2
    OBVIOUS
  <2>2. /\ \A i \in 1..2 : Fresh(i) \in Nodes /\ Fresh(i) \notin Known
        /\ \A i, j \in Nat : Fresh(i) = Fresh(j) => i = j
    BY <1>1, <1>2, <2>1, FreshFacts
  <2>. QED
    BY <2>1, <2>2
<1>5. /\ Null \notin Known /\ OwnedBy(copy) \subseteq Live /\ Live \subseteq Known /\ copy.end \in Live
      /\ Rets \in Seq(Live \cup {Null}) /\ copy \in Frames(Known)
  BY <1>2, <1>3, BusyFacts, OwnedFacts DEF Sound, Known
<1>. HIDE DEF r, v
<1>6. slots \in Seq(L \cup {Null}) /\ Len(slots) = Len(Rets) + 1 /\ ToSet(slots) \subseteq {r, Null}
  <2>1. /\ nulls \in Seq({r, Null}) /\ <<r>> \in Seq({r, Null})
        /\ Len(nulls) = Len(Rets) /\ Len(nulls) \in Nat
    BY <1>5
  <2>. HIDE DEF nulls
  <2>2. slots \in Seq({r, Null}) /\ Len(slots) = Len(Rets) + 1
    BY <2>1
  <2>. HIDE DEF slots
  <2>3. ToSet(slots) \subseteq {r, Null}
    BY <2>2 DEF ToSet
  <2>4. {r, Null} \subseteq L \cup {Null}
    OBVIOUS
  <2>. QED
    BY <2>2, <2>3, <2>4
<1>7. /\ DOMAIN l = Known \cup {r} /\ LabelsKept(label, l) /\ l[r].kind = "region"
      /\ DOMAIN label' = DOMAIN l \cup {v} /\ LabelsKept(l, label') /\ label'[v].kind = "phi"
  <2>1. DOMAIN l = Known \cup {r} /\ LabelsKept(label, l) /\ l[r].kind = "region"
    BY <1>4 DEF Known, Labelled, LabelsKept
  <2>2. v \notin DOMAIN l
    BY <1>4, <2>1
  <2>. HIDE DEF l
  <2>. QED
    BY <1>1, <2>1, <2>2 DEF Labelled, LabelsKept
<1>. HIDE DEF slots, l
<1>8. /\ Sound(h, L, l, Arity) /\ h.operands[r] = <<>>
      /\ \A u \in Live : h.operands[u] = graph.operands[u]
  <2>1. <<>> \in Seq(Live \cup {Null}) /\ \A i \in DOMAIN <<>> : <<>>[i] # Null => Plain(label, <<>>[i])
    OBVIOUS
  <2>2. CanConstruct(graph, Live, label, Arity, r, <<>>, l)
    BY <1>2, <1>4, <1>7, <2>1 DEF CanConstruct, Known
  <2>. QED
    <3>1. IsConstructed(graph, Live, Arity, r, <<>>, l, Construct(graph, r, <<>>))
      BY <2>2, SoundConstruct
    <3>. QED
      BY <3>1 DEF IsConstructed
<1>. HIDE DEF h, L
<1>9. /\ Sound(graph', L \cup {v}, label', Arity) /\ graph'.operands[v] = slots
      /\ \A u \in L : graph'.operands[u] = h.operands[u]
  <2>1. PICK m : m = label'
    OBVIOUS
  <2>2. \A i \in DOMAIN slots : slots[i] # Null => Plain(l, slots[i])
    BY <1>6, <1>7 DEF Plain, ToSet
  <2>3. CanConstruct(h, L, l, Arity, v, slots, m)
    BY <1>4, <1>6, <1>7, <1>8, <2>1, <2>2 DEF CanConstruct
  <2>. QED
    <3>1. IsConstructed(h, L, Arity, v, slots, m, Construct(h, v, slots))
      BY <2>3, SoundConstruct
    <3>. QED
      BY <1>1, <2>1, <3>1 DEF IsConstructed
<1>10. Sound(graph', Live \cup Q, label', Arity)
  <2>1. L \cup {v} = Live \cup Q
    BY DEF L
  <2>. QED
    BY <1>9, <2>1
<1>11. /\ \A u \in Live : graph'.operands[u] = graph.operands[u]
       /\ graph'.operands[r] = <<>> /\ graph'.operands[v] = slots
  BY <1>8, <1>9 DEF L
<1>12. NothingNew(graph, graph', Live, Live \cup Q, OwnedBy(copy))
  <2>. SUFFICES ASSUME NEW u \in Live \cup Q, NEW i \in DOMAIN graph'.operands[u], graph'.operands[u][i] \in OwnedBy(copy)
                PROVE  u \in Live /\ graph'.operands[u][i] \in ToSet(graph.operands[u])
    BY DEF NothingNew
  <2>1. CASE u \in Live
    BY <1>11, <2>1 DEF ToSet
  <2>2. u # r
    BY <1>11
  <2>3. CASE u = v
    <3>1. slots[i] \in {r, Null} /\ slots[i] \in OwnedBy(copy)
      BY <1>6, <1>11, <2>3 DEF ToSet
    <3>. QED
      BY <1>4, <1>5, <3>1
  <2>. QED
    BY <2>1, <2>2, <2>3
<1>13. /\ KnownTypes' /\ Sound(graph', Live', label', Arity') /\ FramesHold' /\ CallsHold' /\ CopyHolds'
       /\ \A i : ArgsReplaced(i) => ArgsReplaced(i)'
       /\ Live' = Live \cup Q /\ Caller' = Caller /\ Call' = Call
       /\ ToSet(functions'[Caller].nodes) = ToSet(functions[Caller].nodes) \cup Q
  <2>1. <<r, v>> \in Seq(Q) /\ ToSet(<<r, v>>) = Q /\ IsInjective(<<r, v>>)
    BY <1>4, TwoNodes
  <2>2. Known' = Known \cup Q
    BY <1>7 DEF Known
  <2>3. LabelsKept(label, label') /\ \A n \in Q : label'[n].kind \notin {"start", "end", "arg"}
    BY <1>7 DEF LabelsKept
  <2>4. 2 \in Nat \ {0}
    OBVIOUS
  <2>5. NothingComes(graph, graph', Live, Live \cup Q, Outside, OwnedBy(copy))
    BY <1>3, <1>12, NothingNewComes
  <2>. HIDE DEF Q
  <2>. QED
    BY <1>1, <1>3, <1>4, <1>10, <2>1, <2>2, <2>3, <2>4, <2>5, GrowInBusy
<1>14. ArgsHold'
  <2>1. PICK c : c = slot
    OBVIOUS
  <2>2. ArgsReplaced(c)
    BY <1>1, <1>2, <2>1 DEF ArgsHold
  <2>3. ArgsReplaced(c)' /\ copy' = copy
    BY <1>1, <1>13, <2>2
  <2>4. \A k \in DOMAIN copy.args : k < Len(copy.args) + 1 => k < c
    <3>1. copy.args \in Seq(Known) /\ c \in Nat /\ c > Len(copy.args)
      BY <1>1, <1>2, <1>5, <2>1, OwnedFacts DEF KnownTypes
    <3>2. \A k \in DOMAIN copy.args : k <= Len(copy.args) /\ k \in Nat /\ Len(copy.args) \in Nat
      BY <3>1
    <3>. QED
      BY <3>1, <3>2
  <2>5. ArgsReplaced(Len(copy.args) + 1)'
    BY <2>3, <2>4 DEF ArgsReplaced
  <2>. QED
    BY <1>1, <2>5 DEF ArgsHold
<1>15. RetsHold'
  <2>1. Rets' = Rets /\ Null \notin ToSet(Rets)
    BY <1>1, <1>2, <1>5, <1>11 DEF Rets, RetsHold
  <2>2. {ret'.region, ret'.value} \subseteq ToSet(functions'[Caller].nodes) /\ graph'.operands[ret'.value] = slots
    BY <1>1, <1>11, <1>13
  <2>3. label'[ret'.region].kind = "region" /\ label'[ret'.value].kind = "phi"
    BY <1>1, <1>7 DEF LabelsKept
  <2>4. Len(slots) = Len(Rets) + 1 /\ \A i \in DOMAIN Rets : Rets[i] # Null
    BY <1>6, <2>1 DEF ToSet
  <2>. QED
    BY <1>1, <1>13, <2>1, <2>2, <2>3, <2>4 DEF RetsHold, IsKind
<1>. QED
  BY <1>13, <1>14, <1>15 DEF EdgeInv

LEMMA MinIn ==
  ASSUME NEW S \in SUBSET Nat, S # {}
  PROVE  Min(S) \in S
<1>1. \E x \in S : \A y \in S : x <= y
  BY LeastNumber
<1>. QED
  BY <1>1 DEF Min

LEMMA FinalJmpKeeps == EdgeInv /\ FinalJmp => EdgeInv'
<1>. SUFFICES ASSUME EdgeInv, FinalJmp PROVE EdgeInv'
  OBVIOUS
<1>. DEFINE jmp == Fresh(1)
            Q == {jmp}
            ops == <<ret.region>>
            h == Construct(graph, jmp, ops)
            L == Live \cup Q
<1>1. /\ phase = "rets" /\ HasRoom(1) /\ phase' = "call" /\ slot' = slot
      /\ label' = Labelled(label, jmp, "jmp")
      /\ functions' = Extended(functions, Caller, <<jmp>>)
      /\ UNCHANGED <<script, calls, copy, ret, given>>
  BY DEF FinalJmp, Added, Extended
<1>2. PICK w \in Continuations : graph' = SetOperand(h, w, Min(SlotsOf(graph, w, Call)), jmp)
  BY DEF FinalJmp
<1>. DEFINE i == Min(SlotsOf(graph, w, Call))
<1>3. KnownTypes /\ Sound(graph, Live, label, Arity) /\ ArgsHold /\ RetsHold /\ CopyHolds
  BY DEF EdgeInv
<1>4. phase \in Busy /\ phase' \in Busy /\ slot' \in Nat \ {0}
  BY <1>1, <1>3 DEF Busy, AfterArgs, KnownTypes
<1>5. jmp \in Nodes /\ jmp \notin Known /\ Q = {Fresh(k) : k \in 1..1}
  <2>1. 1 \in Nat \ {0} /\ 1 \in 1..1 /\ \A k \in 1..1 : k = 1
    OBVIOUS
  <2>2. \A k \in 1..1 : Fresh(k) \in Nodes /\ Fresh(k) \notin Known
    BY <1>1, <1>3, <2>1, FreshFacts
  <2>. QED
    BY <2>1, <2>2
<1>6. /\ Null \notin Known /\ OwnedBy(copy) \subseteq Live /\ Live \subseteq Known
      /\ Call \in Live /\ Caller \in Functions /\ OwnedBy(functions[Caller]) \subseteq Live
  BY <1>3, <1>4, BusyFacts DEF Sound, Known
<1>7. ret.region \in Live /\ ret.region \notin OwnedBy(copy) /\ label[ret.region].kind = "region"
  <2>1. ret.region \in OwnedBy(functions[Caller]) /\ label[ret.region].kind = "region"
    BY <1>1, <1>3 DEF RetsHold, AfterArgs, OwnedBy, IsKind
  <2>2. OwnedBy(functions[Caller]) \cap OwnedBy(copy) = {}
    BY <1>3, <1>4, <1>6 DEF CopyHolds
  <2>. QED
    BY <1>6, <2>1, <2>2
<1>. HIDE DEF jmp
<1>8. w \in Live /\ label[w].kind = "region" /\ i \in DOMAIN graph.operands[w]
  <2>1. w \in UsersOf(graph, Call) /\ w \in Live /\ label[w].kind = "region"
    BY DEF Continuations, IsKind
  <2>2. graph.users[Call][w] > 0
    BY <2>1 DEF UsersOf
  <2>3. /\ graph.users[Call][w] = Uses(graph, w, Call)
        /\ Uses(graph, w, Call) = 0 <=> \A k \in DOMAIN graph.operands[w] : graph.operands[w][k] # Call
    BY <1>3, <1>6, <2>1, AgreeUses DEF Sound
  <2>4. graph.operands[w] \in Seq(Live \cup {Null})
    BY <1>3, <2>1, AgreeSlots DEF Sound
  <2>5. SlotsOf(graph, w, Call) # {} /\ SlotsOf(graph, w, Call) \in SUBSET Nat
    BY <2>2, <2>3, <2>4 DEF SlotsOf, Slots
  <2>6. i \in SlotsOf(graph, w, Call)
    BY <2>5, MinIn
  <2>. QED
    BY <2>1, <2>6 DEF SlotsOf, Slots
<1>. HIDE DEF i
<1>9. /\ DOMAIN label' = Known \cup Q /\ LabelsKept(label, label') /\ label'[jmp].kind = "jmp"
  BY <1>1, <1>5 DEF Labelled, LabelsKept, Known
<1>10. ops \in Seq(Live \cup {Null}) /\ ToSet(ops) = {ret.region} /\ \A k \in DOMAIN ops : ops[k] # Null => Plain(label, ops[k])
  <2>1. ops \in Seq(Live \cup {Null}) /\ ToSet(ops) = {ret.region}
    BY <1>7, OneNode
  <2>2. \A k \in DOMAIN ops : ops[k] = ret.region
    OBVIOUS
  <2>. QED
    BY <1>7, <2>1, <2>2 DEF Plain
<1>. HIDE DEF ops
<1>11. PICK m : m = label'
  OBVIOUS
<1>12. /\ Sound(h, L, m, Arity) /\ h.operands[jmp] = ops
       /\ \A u \in Live : h.operands[u] = graph.operands[u]
  <2>1. CanConstruct(graph, Live, label, Arity, jmp, ops, m)
    BY <1>3, <1>5, <1>9, <1>10, <1>11 DEF CanConstruct, Known
  <2>2. IsConstructed(graph, Live, Arity, jmp, ops, m, h)
    BY <2>1, SoundConstruct
  <2>. QED
    BY <2>2 DEF IsConstructed
<1>. HIDE DEF h
<1>13. /\ Sound(graph', L, m, Arity)
       /\ \A u \in L : graph'.operands[u] = IF u = w THEN [h.operands[w] EXCEPT ![i] = jmp] ELSE h.operands[u]
  <2>1. w \in L /\ i \in DOMAIN h.operands[w] /\ jmp \in L \cup {Null}
    BY <1>8, <1>12
  <2>2. m[w].kind # "end" /\ Plain(m, jmp)
    BY <1>6, <1>8, <1>9, <1>11 DEF LabelsKept, Plain, Known
  <2>. HIDE DEF L
  <2>3. /\ Sound(SetOperand(h, w, i, jmp), L, m, Arity)
        /\ \A u \in L : SetOperand(h, w, i, jmp).operands[u] =
              IF u = w THEN [h.operands[w] EXCEPT ![i] = jmp] ELSE h.operands[u]
    BY <1>12, <2>1, <2>2, SoundSet
  <2>. QED
    BY <1>2, <2>3 DEF i
<1>14. NothingNew(graph, graph', Live, L, OwnedBy(copy))
  <2>. SUFFICES ASSUME NEW u \in L, NEW k \in DOMAIN graph'.operands[u], graph'.operands[u][k] \in OwnedBy(copy)
                PROVE  u \in Live /\ graph'.operands[u][k] \in ToSet(graph.operands[u])
    BY DEF NothingNew
  <2>0. jmp \notin OwnedBy(copy)
    BY <1>5, <1>6
  <2>1. k \in DOMAIN h.operands[u] /\ (graph'.operands[u][k] = h.operands[u][k] \/ graph'.operands[u][k] = jmp)
    BY <1>13
  <2>2. CASE u \in Live
    BY <1>12, <2>0, <2>1, <2>2 DEF ToSet
  <2>3. u # jmp
    <3>1. u = jmp => h.operands[u][k] \in ToSet(ops)
      BY <1>12, <2>1 DEF ToSet
    <3>. QED
      BY <1>7, <1>10, <2>0, <2>1, <3>1
  <2>. QED
    BY <2>2, <2>3
<1>15. /\ KnownTypes' /\ Sound(graph', Live', label', Arity') /\ FramesHold' /\ CallsHold' /\ CopyHolds'
       /\ \A k : ArgsReplaced(k) => ArgsReplaced(k)'
       /\ Live' = Live \cup Q /\ Caller' = Caller /\ Call' = Call
       /\ ToSet(functions'[Caller].nodes) = ToSet(functions[Caller].nodes) \cup Q
  <2>1. <<jmp>> \in Seq(Q) /\ ToSet(<<jmp>>) = Q /\ IsInjective(<<jmp>>)
    BY OneNode
  <2>2. Known' = Known \cup Q
    BY <1>9 DEF Known
  <2>3. LabelsKept(label, label') /\ \A n \in Q : label'[n].kind \notin {"start", "end", "arg"}
    BY <1>9
  <2>4. 1 \in Nat \ {0}
    OBVIOUS
  <2>5. Sound(graph', Live \cup Q, label', Arity) /\ NothingComes(graph, graph', Live, Live \cup Q, Outside, OwnedBy(copy))
    BY <1>4, <1>11, <1>13, <1>14, NothingNewComes
  <2>. HIDE DEF Q
  <2>. QED
    BY <1>1, <1>4, <1>5, <2>1, <2>2, <2>3, <2>4, <2>5, GrowInBusy
<1>16. ArgsHold'
  <2>1. PICK c : c = Len(copy.args) + 1
    OBVIOUS
  <2>2. ArgsReplaced(c)
    BY <1>1, <1>3, <2>1 DEF ArgsHold, AfterArgs
  <2>3. ArgsReplaced(c)' /\ copy' = copy
    BY <1>1, <1>15, <2>2
  <2>. QED
    BY <1>1, <2>1, <2>3 DEF ArgsHold
<1>17. RetsHold'
  <2>1. /\ {ret.region, ret.value} \subseteq ToSet(functions[Caller].nodes)
        /\ label[ret.region].kind = "region" /\ label[ret.value].kind = "phi"
    BY <1>1, <1>3 DEF RetsHold, AfterArgs, IsKind
  <2>2. {ret.region, ret.value} \subseteq Known
    BY <1>6, <2>1 DEF OwnedBy
  <2>3. label'[ret.region].kind = "region" /\ label'[ret.value].kind = "phi"
    BY <1>9, <2>1, <2>2 DEF LabelsKept, Known
  <2>4. {ret.region, ret.value} \subseteq ToSet(functions'[Caller].nodes)
    BY <1>15, <2>1
  <2>. QED
    BY <1>1, <1>15, <2>3, <2>4 DEF RetsHold, IsKind
<1>. QED
  BY <1>15, <1>16, <1>17 DEF EdgeInv

LEMMA ConvertRetKeeps == EdgeInv /\ ConvertRet => EdgeInv'
<1>. SUFFICES ASSUME EdgeInv, ConvertRet PROVE EdgeInv'
  OBVIOUS
<1>. DEFINE old == Rets[slot]
            region == ret.region
            value == ret.value
            a == graph.operands[old][1]
            b == graph.operands[old][2]
            jmp == Fresh(1)
            Q == {jmp}
            L == Live \cup Q
            i == SlotOf(slot)
            valued == SetOperand(graph, value, i, b)
            left == Construct(valued, jmp, <<a>>)
            joined == Joined(left, jmp)
<1>1. /\ phase = "rets" /\ slot <= Len(Rets) /\ IsKind(old, "ret") /\ HasRoom(1)
      /\ phase' = phase /\ slot' = slot + 1
      /\ label' = Labelled(label, jmp, "jmp")
      /\ functions' = Extended(functions, Caller, <<jmp>>)
      /\ graph' = Detach(joined, old)
      /\ UNCHANGED <<script, calls, copy, ret, given>>
  BY DEF ConvertRet, Added, Extended
<1>2. joined = AddOperand(left, region, jmp) /\ i = slot + 1
  BY DEF Joined, SlotOf
<1>3. KnownTypes /\ Sound(graph, Live, label, Arity) /\ ArgsHold /\ RetsHold /\ CopyHolds
  BY DEF EdgeInv
<1>4. phase \in Busy /\ phase' \in Busy /\ slot \in Nat \ {0} /\ slot' \in Nat \ {0}
  BY <1>1, <1>3 DEF Busy, AfterArgs, KnownTypes
<1>5. jmp \in Nodes /\ jmp \notin Known /\ Q = {Fresh(k) : k \in 1..1}
  <2>1. 1 \in Nat \ {0} /\ 1 \in 1..1 /\ \A k \in 1..1 : k = 1
    OBVIOUS
  <2>2. \A k \in 1..1 : Fresh(k) \in Nodes /\ Fresh(k) \notin Known
    BY <1>1, <1>3, <2>1, FreshFacts
  <2>. QED
    BY <2>1, <2>2
<1>6. /\ Null \notin Known /\ OwnedBy(copy) \subseteq Live /\ Live \subseteq Known
      /\ Call \in Live /\ Caller \in Functions /\ OwnedBy(functions[Caller]) \subseteq Live
      /\ IsKind(Call, "call") /\ IsKind(copy.end, "end") /\ copy.end \in Live
      /\ Rets \in Seq(Live \cup {Null})
      /\ \A k, j \in DOMAIN Rets : Rets[k] # Null /\ Rets[k] = Rets[j] => k = j
  BY <1>3, <1>4, BusyFacts DEF Sound, Known, OwnedBy
<1>7. /\ region \in Live /\ value \in Live /\ label[region].kind = "region" /\ label[value].kind = "phi"
      /\ {region, value} \subseteq ToSet(functions[Caller].nodes)
  <2>1. {region, value} \subseteq ToSet(functions[Caller].nodes) /\ label[region].kind = "region" /\ label[value].kind = "phi"
    BY <1>1, <1>3 DEF RetsHold, AfterArgs, IsKind
  <2>2. {region, value} \subseteq OwnedBy(functions[Caller])
    BY <2>1 DEF OwnedBy
  <2>. QED
    BY <1>6, <2>1, <2>2
<1>8. /\ Len(graph.operands[value]) = Len(Rets) + 1
      /\ \A k \in DOMAIN Rets : k >= slot => Rets[k] # Null
  BY <1>1, <1>3 DEF RetsHold
<1>9. slot \in DOMAIN Rets /\ old \in Live /\ label[old].kind = "ret"
  <2>1. Len(Rets) \in Nat /\ DOMAIN Rets = 1..Len(Rets)
    BY <1>6
  <2>2. slot \in DOMAIN Rets
    BY <1>1, <1>4, <2>1
  <2>3. old # Null /\ old \in Live \cup {Null}
    BY <1>4, <1>6, <1>8, <2>2
  <2>. QED
    BY <1>1, <2>2, <2>3 DEF IsKind
<1>. HIDE DEF old, region, value, jmp, a, b, i
<1>10. /\ a \in Live \cup {Null} /\ b \in Live \cup {Null}
       /\ a \in ToSet(graph.operands[old]) /\ b \in ToSet(graph.operands[old])
       /\ a # Null => Plain(label, a)
       /\ b # Null => Plain(label, b)
  <2>. DEFINE s == graph.operands[old]
  <2>1. s \in Seq(Live \cup {Null})
    BY <1>3, <1>9, AgreeSlots DEF Sound
  <2>2. Len(s) = 2 /\ \A k \in DOMAIN s : s[k] # Null => Plain(label, s[k])
    <3>1. IsFormed(old, graph.operands, label, Arity)
      BY <1>3, <1>9 DEF Sound
    <3>. QED
      BY <1>9, <3>1 DEF IsFormed, Plain
  <2>3. a = s[1] /\ b = s[2]
    BY DEF a, b
  <2>. HIDE DEF s
  <2>4. 1 \in DOMAIN s /\ 2 \in DOMAIN s /\ s[1] \in Live \cup {Null} /\ s[2] \in Live \cup {Null}
    BY <2>1, <2>2
  <2>. QED
    BY <2>2, <2>3, <2>4 DEF ToSet, s
<1>11. i \in DOMAIN graph.operands[value]
  <2>. DEFINE s == graph.operands[value]
  <2>1. s \in Seq(Live \cup {Null}) /\ Len(s) = Len(Rets) + 1 /\ Len(Rets) \in Nat
    BY <1>3, <1>6, <1>7, <1>8, AgreeSlots DEF Sound
  <2>. HIDE DEF s
  <2>2. slot + 1 \in DOMAIN s
    BY <1>1, <1>4, <2>1
  <2>. QED
    BY <1>2, <2>2 DEF s
<1>12. /\ DOMAIN label' = Known \cup Q /\ LabelsKept(label, label') /\ label'[jmp].kind = "jmp"
  BY <1>1, <1>5 DEF Labelled, LabelsKept, Known
<1>13. PICK m : m = label'
  OBVIOUS
<1>14. /\ Sound(valued, Live, label, Arity)
       /\ \A u \in Live : valued.operands[u] =
            IF u = value THEN [graph.operands[value] EXCEPT ![i] = b] ELSE graph.operands[u]
  <2>1. b # Null => label[value].kind # "end" /\ Plain(label, b)
    BY <1>7, <1>10
  <2>. QED
    BY <1>3, <1>7, <1>10, <1>11, <2>1, SoundSet
<1>. HIDE DEF valued
<1>15. /\ Sound(left, L, m, Arity) /\ left.operands[jmp] = <<a>>
       /\ \A u \in Live : left.operands[u] = valued.operands[u]
  <2>1. <<a>> \in Seq(Live \cup {Null}) /\ \A k \in DOMAIN <<a>> : <<a>>[k] = a
    BY <1>10
  <2>2. CanConstruct(valued, Live, label, Arity, jmp, <<a>>, m)
    BY <1>5, <1>10, <1>12, <1>13, <1>14, <2>1 DEF CanConstruct, Known
  <2>3. IsConstructed(valued, Live, Arity, jmp, <<a>>, m, left)
    BY <2>2, SoundConstruct
  <2>. QED
    BY <2>3 DEF IsConstructed
<1>. HIDE DEF left
<1>16. /\ Sound(joined, L, m, Arity)
       /\ \A u \in L : joined.operands[u] =
            IF u = region THEN Append(left.operands[region], jmp) ELSE left.operands[u]
  <2>1. m[region].kind \notin {"end", "ret", "call"} /\ region \in L /\ jmp \in L /\ Plain(m, jmp)
    BY <1>6, <1>7, <1>12, <1>13 DEF LabelsKept, Plain, Known
  <2>2. /\ Sound(AddOperand(left, region, jmp), L, m, Arity)
        /\ \A u \in L : AddOperand(left, region, jmp).operands[u] =
            IF u = region THEN Append(left.operands[region], jmp) ELSE left.operands[u]
    <3>. HIDE DEF L
    <3>. QED
      BY <1>15, <2>1, SoundAdd
  <2>. QED
    BY <1>2, <2>2
<1>. HIDE DEF joined
<1>17. /\ Sound(graph', L, m, Arity)
       /\ \A u \in L : graph'.operands[u] =
            IF u = old THEN [k \in DOMAIN joined.operands[old] |-> Null] ELSE Renamed(joined.operands[u], old, Null)
  <2>1. old \in L
    BY <1>9
  <2>. HIDE DEF L
  <2>. QED
    BY <1>1, <1>16, <2>1, SoundDetach
<1>18. \A u \in L : joined.operands[u] \in Seq(L \cup {Null}) /\ left.operands[u] \in Seq(L \cup {Null})
  BY <1>15, <1>16, AgreeSlots DEF Sound
<1>19. \A u \in Live : u \notin {old, region, value} =>
         graph.operands[u] \in Seq(Live \cup {Null}) /\ graph'.operands[u] = Renamed(graph.operands[u], old, Null)
  <2>1. \A u \in Live : graph.operands[u] \in Seq(Live \cup {Null})
    BY <1>3, AgreeSlots DEF Sound
  <2>2. \A u \in Live : u \in L
    OBVIOUS
  <2>. HIDE DEF L
  <2>. QED
    BY <1>14, <1>15, <1>16, <1>17, <2>1, <2>2
<1>20. ASSUME NEW u \in L, NEW x \in ToSet(graph'.operands[u])
       PROVE  x \in {Null, jmp, a, b} \/ (u \in Live /\ x \in ToSet(graph.operands[u]))
  <2>1. ASSUME x # Null PROVE x \in ToSet(joined.operands[u])
    <3>1. u # old
      BY <1>17, <2>1 DEF ToSet
    <3>2. graph'.operands[u] = Renamed(joined.operands[u], old, Null) /\ joined.operands[u] \in Seq(L \cup {Null})
      BY <1>17, <1>18, <3>1
    <3>. QED
      BY <2>1, <3>2, RenamedFacts
  <2>2. ASSUME x \in ToSet(joined.operands[u]), x # jmp PROVE x \in ToSet(left.operands[u])
    <3>1. CASE u = region
      <4>1. left.operands[region] \in Seq(L \cup {Null}) /\ jmp \in L \cup {Null} /\ joined.operands[u] = Append(left.operands[region], jmp)
        BY <1>16, <1>18, <3>1
      <4>2. ToSet(joined.operands[u]) = ToSet(left.operands[region]) \cup {jmp}
        <5>. DEFINE s == left.operands[region]
                    T == L \cup {Null}
        <5>1. s \in Seq(T) /\ jmp \in T
          BY <4>1
        <5>. HIDE DEF s, T
        <5>2. ToSet(Append(s, jmp)) = ToSet(s) \cup {jmp}
          BY <5>1, AppendFacts
        <5>. QED
          BY <4>1, <5>2 DEF s
      <4>. QED
        BY <2>2, <3>1, <4>2
    <3>2. CASE u # region
      BY <1>16, <2>2, <3>2
    <3>. QED
      BY <3>1, <3>2
  <2>3. ASSUME x \in ToSet(left.operands[u]), x # a PROVE u \in Live /\ x \in ToSet(valued.operands[u])
    <3>1. u # jmp
      <4>1. u = jmp => x \in ToSet(<<a>>)
        BY <1>15, <2>3
      <4>2. ToSet(<<a>>) = {a}
        BY OneNode
      <4>. QED
        BY <2>3, <4>1, <4>2
    <3>. QED
      BY <1>15, <2>3, <3>1
  <2>4. ASSUME u \in Live, x \in ToSet(valued.operands[u]), x # b PROVE x \in ToSet(graph.operands[u])
    <3>1. CASE u = value
      <4>1. valued.operands[u] = [graph.operands[u] EXCEPT ![i] = b]
        BY <1>14, <2>4, <3>1
      <4>2. PICK k \in DOMAIN valued.operands[u] : x = valued.operands[u][k]
        BY <2>4 DEF ToSet
      <4>3. k \in DOMAIN graph.operands[u] /\ x = graph.operands[u][k]
        BY <2>4, <4>1, <4>2
      <4>. QED
        BY <4>3 DEF ToSet
    <3>2. CASE u # value
      BY <1>14, <2>4, <3>2
    <3>. QED
      BY <3>1, <3>2
  <2>. QED
    BY <2>1, <2>2, <2>3, <2>4
<1>21. NothingComes(graph, graph', Live, L, Outside, OwnedBy(copy))
  <2>1. ASSUME NEW u \in Outside PROVE u \in Live /\ u \notin {old, region, value}
    <3>1. u \in Live
      BY <1>4, OutsideIsLive
    <3>2. label[u].kind \in {"call", "end"}
      <4>1. \A f \in Functions : label[functions[f].end].kind = "end"
        BY DEF EdgeInv, FramesHold, IsFrame
      <4>. QED
        BY <1>6, <4>1 DEF Outside, IsKind
    <3>. QED
      BY <1>7, <1>9, <3>1, <3>2
  <2>2. ASSUME NEW u \in Outside, NEW k \in DOMAIN graph'.operands[u], graph'.operands[u][k] \in OwnedBy(copy)
        PROVE  graph'.operands[u][k] \in ToSet(graph.operands[u])
    <3>1. graph.operands[u] \in Seq(Live \cup {Null}) /\ graph'.operands[u] = Renamed(graph.operands[u], old, Null)
      BY <1>19, <2>1
    <3>2. graph'.operands[u][k] \in ToSet(Renamed(graph.operands[u], old, Null)) /\ graph'.operands[u][k] # Null
      BY <1>6, <2>2, <3>1 DEF ToSet
    <3>. QED
      BY <3>1, <3>2, RenamedFacts
  <2>3. ASSUME NEW u \in L, NEW k \in DOMAIN graph'.operands[u], graph'.operands[u][k] \in OwnedBy(copy)
        PROVE  \E v \in Live : graph'.operands[u][k] \in ToSet(graph.operands[v])
    <3>1. graph'.operands[u][k] \in ToSet(graph'.operands[u])
      BY DEF ToSet
    <3>2. graph'.operands[u][k] # Null /\ graph'.operands[u][k] # jmp
      BY <1>5, <1>6, <2>3
    <3>. QED
      BY <1>9, <1>10, <1>20, <3>1, <3>2
  <2>. QED
    BY <2>2, <2>3 DEF NothingComes
<1>22. /\ KnownTypes' /\ Sound(graph', Live', label', Arity') /\ FramesHold' /\ CallsHold' /\ CopyHolds'
       /\ \A k : ArgsReplaced(k) => ArgsReplaced(k)'
       /\ Live' = Live \cup Q /\ Caller' = Caller /\ Call' = Call
       /\ ToSet(functions'[Caller].nodes) = ToSet(functions[Caller].nodes) \cup Q
  <2>1. <<jmp>> \in Seq(Q) /\ ToSet(<<jmp>>) = Q /\ IsInjective(<<jmp>>)
    BY OneNode
  <2>2. Known' = Known \cup Q
    BY <1>12 DEF Known
  <2>3. LabelsKept(label, label') /\ \A n \in Q : label'[n].kind \notin {"start", "end", "arg"}
    BY <1>12
  <2>4. 1 \in Nat \ {0}
    OBVIOUS
  <2>5. Sound(graph', Live \cup Q, label', Arity) /\ NothingComes(graph, graph', Live, Live \cup Q, Outside, OwnedBy(copy))
    BY <1>13, <1>17, <1>21
  <2>. HIDE DEF Q
  <2>. QED
    BY <1>1, <1>4, <1>5, <2>1, <2>2, <2>3, <2>4, <2>5, GrowInBusy
<1>23. ArgsHold'
  <2>1. PICK c : c = Len(copy.args) + 1
    OBVIOUS
  <2>2. ArgsReplaced(c)
    BY <1>1, <1>3, <2>1 DEF ArgsHold, AfterArgs
  <2>3. ArgsReplaced(c)' /\ copy' = copy
    BY <1>1, <1>22, <2>2
  <2>. QED
    BY <1>1, <2>1, <2>3 DEF ArgsHold
<1>24. RetsHold'
  <2>1. ret'.region = region /\ ret'.value = value
    BY <1>1 DEF region, value
  <2>2. label'[region].kind = "region" /\ label'[value].kind = "phi" /\ {region, value} \subseteq ToSet(functions'[Caller].nodes)
    BY <1>6, <1>7, <1>12, <1>22 DEF LabelsKept, Known
  <2>3. Rets' = Renamed(Rets, old, Null)
    <3>1. copy.end \in Live /\ copy.end \notin {old, region, value}
      BY <1>6, <1>7, <1>9 DEF IsKind
    <3>2. graph'.operands[copy.end] = Renamed(graph.operands[copy.end], old, Null)
      BY <1>19, <3>1
    <3>. QED
      BY <1>1, <3>2 DEF Rets
  <2>4. /\ DOMAIN Rets' = DOMAIN Rets /\ Len(Rets') = Len(Rets)
        /\ \A k \in DOMAIN Rets : Rets'[k] = IF Rets[k] = old THEN Null ELSE Rets[k]
    BY <1>6, <2>3, RenamedFacts
  <2>5. \A k \in DOMAIN Rets' : k >= slot' => Rets'[k] # Null
    <3>. SUFFICES ASSUME NEW k \in DOMAIN Rets, k >= slot + 1 PROVE Rets[k] # Null /\ Rets[k] # old
      BY <1>1, <2>4
    <3>1. k \in Nat /\ k >= slot /\ k # slot
      BY <1>4, <1>6
    <3>2. Rets[k] # Null
      BY <1>8, <3>1
    <3>. QED
      BY <1>6, <1>9, <3>1, <3>2 DEF old
  <2>6. Len(graph'.operands[value]) = Len(Rets) + 1
    <3>1. value # old /\ value # region /\ value \in L
      BY <1>7, <1>9
    <3>2. graph'.operands[value] = Renamed(joined.operands[value], old, Null) /\ joined.operands[value] \in Seq(L \cup {Null})
      BY <1>17, <1>18, <3>1
    <3>3. joined.operands[value] = [graph.operands[value] EXCEPT ![i] = b]
      BY <1>7, <1>14, <1>15, <1>16, <3>1
    <3>4. graph.operands[value] \in Seq(Live \cup {Null})
      BY <1>3, <1>7, AgreeSlots DEF Sound
    <3>5. Len([graph.operands[value] EXCEPT ![i] = b]) = Len(graph.operands[value])
      BY <3>4
    <3>6. Len(graph'.operands[value]) = Len(joined.operands[value])
      BY <3>2, RenamedFacts
    <3>. QED
      BY <1>8, <3>3, <3>5, <3>6
  <2>. QED
    BY <1>1, <1>22, <2>1, <2>2, <2>4, <2>5, <2>6 DEF RetsHold, IsKind
<1>. QED
  BY <1>22, <1>23, <1>24 DEF EdgeInv

LEMMA MoveNodesKeeps == EdgeInv /\ MoveNodes => EdgeInv'
<1>. SUFFICES ASSUME EdgeInv, MoveNodes PROVE EdgeInv'
  OBVIOUS
<1>. DEFINE S == {n \in Live : Moved(n)}
            moved == Only(copy.nodes, S)
            gone == OwnedBy(copy) \ ToSet(moved)
            start == copy.start
            input == CVInput
            h == ReplaceWith(graph, start, input)
            r == Detach(h, Call)
<1>1. /\ phase = "move" /\ phase' = "calls" /\ slot' = 1 /\ copy' = NoFunction /\ calls' = Tail(calls)
      /\ functions' = Extended(functions, Caller, moved)
      /\ graph' = Destroy(r, gone)
      /\ UNCHANGED <<label, script, given>>
  BY DEF MoveNodes, Extended, StartReplaced, CallDetached
<1>2. KnownTypes /\ Sound(graph, Live, label, Arity) /\ ArgsHold /\ CopyHolds /\ CallsHold
  BY DEF EdgeInv
<1>3. phase \in Busy
  BY <1>1 DEF Busy, AfterArgs
<1>4. /\ Null \notin Known /\ OwnedBy(copy) \subseteq Live /\ Live \subseteq Known
      /\ Call \in Live /\ Call \notin OwnedBy(copy) /\ Caller \in Functions
      /\ copy \in Frames(Known)
      /\ \A f \in Functions : functions[f] \in Frames(Known) /\ OwnedBy(functions[f]) \subseteq Live
      /\ graph.operands[Call] \in Seq(Live \cup {Null})
      /\ Len(graph.operands[Call]) = Len(copy.args) + 1
      /\ \A i \in DOMAIN graph.operands[Call] : graph.operands[Call][i] # Null => Plain(label, graph.operands[Call][i])
  BY <1>2, <1>3, BusyFacts DEF Sound, Known
<1>5. /\ IsFrame(copy, label)
      /\ \A f \in Functions : OwnedBy(functions[f]) \cap OwnedBy(copy) = {}
      /\ \A u \in Outside : ToSet(graph.operands[u]) \cap OwnedBy(copy) = {}
      /\ calls # <<>>
  BY <1>2, <1>3 DEF CopyHolds
<1>6. /\ start \in OwnedBy(copy) /\ label[start].kind = "start" /\ label[copy.end].kind = "end"
      /\ copy.nodes \in Seq(Known) /\ copy.args \in Seq(Known) /\ IsInjective(copy.nodes)
  BY <1>4, <1>5, OwnedFacts DEF IsFrame
<1>7. input \in Live \cup {Null} /\ input \notin OwnedBy(copy) /\ (input # Null => Plain(label, input))
  <2>. DEFINE s == graph.operands[Call]
  <2>1. s \in Seq(Live \cup {Null}) /\ Len(s) = Len(copy.args) + 1 /\ Len(copy.args) \in Nat
    BY <1>4, <1>6
  <2>2. input = s[Len(s)]
    BY DEF CVInput, Last
  <2>3. ToSet(s) \cap OwnedBy(copy) = {}
    BY <1>5 DEF Outside
  <2>4. \A i \in DOMAIN s : s[i] # Null => Plain(label, s[i])
    BY <1>4
  <2>. HIDE DEF s, input
  <2>5. Len(s) \in DOMAIN s
    BY <2>1
  <2>. QED
    BY <2>1, <2>2, <2>3, <2>4, <2>5 DEF ToSet
<1>8. moved \in Seq(Known) /\ ToSet(moved) = ToSet(copy.nodes) \cap S /\ IsInjective(moved)
  <2>. DEFINE nodes == copy.nodes
  <2>1. nodes \in Seq(Known) /\ IsInjective(nodes)
    BY <1>6
  <2>. HIDE DEF nodes, S
  <2>2. /\ Only(nodes, S) \in Seq(Known) /\ ToSet(Only(nodes, S)) = ToSet(nodes) \cap S
        /\ IsInjective(nodes) => IsInjective(Only(nodes, S))
    BY <2>1, OnlyFacts
  <2>. QED
    BY <2>1, <2>2 DEF nodes
<1>9. ASSUME NEW x \in OwnedBy(copy), x \notin ToSet(moved)
      PROVE  x = start \/ label[x].kind = "end" \/ label[x].kind = "ret" \/ (x \in ToSet(copy.args) /\ label[x].kind = "arg")
  <2>1. x \in Live
    BY <1>4
  <2>2. CASE x \in ToSet(copy.nodes)
    <3>1. ~Moved(x)
      BY <1>8, <1>9, <2>1, <2>2
    <3>. QED
      BY <1>5, <2>2, <3>1 DEF Moved, IsKind, IsFrame
  <2>3. CASE x \in {copy.start, copy.end}
    BY <1>6, <2>3
  <2>. QED
    BY <2>2, <2>3 DEF OwnedBy
<1>10. /\ \A n \in ToSet(moved) : n \in OwnedBy(copy) /\ label[n].kind \notin {"start", "end", "arg"}
  BY <1>5, <1>8 DEF OwnedBy, IsFrame, Moved, IsKind
<1>. HIDE DEF moved, S, start, input
<1>11. FramesAre(functions', Known, label) /\ Grows(functions', functions, Caller, ToSet(moved))
  <2>1. CanExtend(functions, Known, label, Known, label, Caller, moved)
    BY <1>4, <1>5, <1>8, <1>10, KnownFrames DEF CanExtend, LabelsKept, Known
  <2>2. /\ FramesAre(Extended(functions, Caller, moved), Known, label)
        /\ Grows(Extended(functions, Caller, moved), functions, Caller, ToSet(moved))
    BY <2>1, FramesExtend
  <2>. QED
    BY <1>1, <2>2
<1>12. /\ Sound(h, Live, label, Arity)
       /\ \A u \in Live : h.operands[u] = Renamed(graph.operands[u], start, input)
  <2>1. start \in Live /\ input # start /\ label[start].kind \notin EndInputs
    BY <1>4, <1>6, <1>7 DEF EndInputs
  <2>. QED
    BY <1>2, <1>7, <2>1, SoundReplace
<1>. HIDE DEF h
<1>13. /\ Sound(r, Live, label, Arity)
       /\ \A u \in Live : r.operands[u] =
            IF u = Call THEN [i \in DOMAIN h.operands[Call] |-> Null] ELSE Renamed(h.operands[u], Call, Null)
  BY <1>4, <1>12, SoundDetach
<1>. HIDE DEF r, gone
<1>14. ASSUME NEW u \in Live, NEW x \in ToSet(r.operands[u]), x \in OwnedBy(copy)
       PROVE  x # start /\ x \in ToSet(graph.operands[u])
  <2>1. x # Null
    BY <1>4, <1>14
  <2>2. u # Call
    BY <1>13, <2>1 DEF ToSet
  <2>3. h.operands[u] \in Seq(Live \cup {Null}) /\ graph.operands[u] \in Seq(Live \cup {Null})
    BY <1>2, <1>12, AgreeSlots DEF Sound
  <2>4. x \in ToSet(h.operands[u])
    <3>1. x \in ToSet(Renamed(h.operands[u], Call, Null))
      BY <1>13, <2>2
    <3>. QED
      BY <2>1, <2>3, <3>1, RenamedFacts
  <2>5. x \in ToSet(Renamed(graph.operands[u], start, input))
    BY <1>12, <2>4
  <2>6. x = input \/ (x # start /\ x \in ToSet(graph.operands[u]))
    BY <2>3, <2>5, RenamedFacts
  <2>. QED
    BY <1>7, <1>14, <2>6
<1>. DEFINE M == UNION {OwnedBy(functions'[f]) : f \in Functions}
<1>15. M \subseteq Live /\ M \cap gone = {} /\ \A x \in Live : x \in M \/ x \in gone
  <2>1. \A f \in Functions : OwnedBy(functions'[f]) = IF f = Caller THEN OwnedBy(functions[f]) \cup ToSet(moved) ELSE OwnedBy(functions[f])
    BY <1>11 DEF Grows
  <2>2. \A x \in Live : x \in OwnedBy(copy) \/ \E f \in Functions : x \in OwnedBy(functions[f])
    BY LiveFacts
  <2>3. M \subseteq Live
    BY <1>4, <1>10, <2>1
  <2>4. M \cap gone = {}
    BY <1>5, <2>1 DEF gone
  <2>5. ASSUME NEW x \in Live, x \notin gone PROVE x \in M
    <3>1. CASE x \in ToSet(moved)
      BY <1>4, <2>1, <3>1
    <3>2. CASE x \notin ToSet(moved)
      <4>1. PICK f \in Functions : x \in OwnedBy(functions[f])
        BY <2>2, <2>5, <3>2 DEF gone
      <4>2. x \in OwnedBy(functions'[f])
        BY <2>1, <4>1
      <4>. QED
        BY <4>2
    <3>. QED
      BY <3>1, <3>2
  <2>. QED
    BY <2>3, <2>4, <2>5
<1>16. Live' = M
  <2>1. OwnedBy(NoFunction) \ {Null} = {}
    BY DEF NoFunction, OwnedBy, ToSet
  <2>. QED
    BY <1>1, <2>1 DEF Live
<1>17. \A u \in M : label[u].kind = "end" => u \in Outside
  <2>. SUFFICES ASSUME NEW f \in Functions, NEW u \in OwnedBy(functions'[f]), label[u].kind = "end" PROVE u \in Outside
    OBVIOUS
  <2>1. IsFrame(functions'[f], label) /\ functions'[f].end = functions[f].end
    BY <1>11 DEF FramesAre, Grows
  <2>2. u = functions'[f].end
    BY <2>1 DEF OwnedBy, IsFrame
  <2>. QED
    BY <2>1, <2>2 DEF Outside
<1>18. ASSUME NEW u \in M, NEW i \in DOMAIN r.operands[u] PROVE r.operands[u][i] \in M \cup {Null}
  <2>. DEFINE x == r.operands[u][i]
  <2>1. u \in Live /\ x \in Live \cup {Null} /\ x \in ToSet(r.operands[u])
    <3>1. u \in Live
      BY <1>15
    <3>2. x \in Live \cup {Null}
      BY <1>13, <3>1 DEF Sound, Agree
    <3>. QED
      BY <3>1, <3>2 DEF ToSet
  <2>. HIDE DEF x
  <2>. SUFFICES ASSUME x \in gone PROVE FALSE
    BY <1>15, <2>1 DEF x
  <2>2. x \in OwnedBy(copy) /\ x \notin ToSet(moved) /\ x # Null
    BY <1>4 DEF gone
  <2>3. x # start /\ x \in ToSet(graph.operands[u])
    BY <1>14, <2>1, <2>2
  <2>4. IsFormed(u, graph.operands, label, Arity)
    BY <1>2, <2>1 DEF Sound
  <2>5. label[x].kind # "end" /\ (label[x].kind = "ret" => label[u].kind = "end")
    BY <2>2, <2>3, <2>4 DEF IsFormed, ToSet
  <2>6. label[x].kind # "ret"
    <3>. SUFFICES ASSUME label[x].kind = "ret" PROVE FALSE
      OBVIOUS
    <3>1. u \in Outside
      BY <1>17, <2>5
    <3>. QED
      BY <1>5, <2>2, <2>3, <3>1
  <2>7. x \notin ToSet(copy.args)
    <3>1. ArgsReplaced(Len(copy.args) + 1)
      BY <1>1, <1>2 DEF ArgsHold, AfterArgs
    <3>2. \A k \in DOMAIN copy.args : k < Len(copy.args) + 1
      BY <1>6
    <3>. QED
      BY <2>1, <2>3, <3>1, <3>2 DEF ArgsReplaced, ToSet
  <2>. QED
    BY <1>9, <2>2, <2>3, <2>5, <2>6, <2>7
<1>. HIDE DEF M
<1>19. Sound(graph', Live', label', Arity')
  <2>1. Sound(Destroy(r, gone), M, label, Arity)
    BY <1>13, <1>15, <1>18, SoundDestroy
  <2>. QED
    BY <1>1, <1>16, <2>1 DEF Arity
<1>20. KnownTypes'
  <2>1. calls' \in Seq(Known) /\ functions' \in [Functions -> Frames(Known)]
    BY <1>1, <1>2, <1>5, <1>11, TailIn DEF KnownTypes, FramesAre
  <2>. QED
    BY <1>1, <1>2, <2>1 DEF KnownTypes, Known
<1>21. FramesHold'
  <2>1. \A f \in Functions : functions'[f].args = functions[f].args
    BY <1>11 DEF Grows
  <2>2. \A f \in Functions : functions[f].args = given.functions[f].args
    BY KnownFrames
  <2>. QED
    BY <1>1, <1>11, <2>1, <2>2 DEF FramesHold, FramesAre
<1>22. CallsHold'
  <2>1. script # <<>> /\ \A i \in DOMAIN calls : calls[i] \in ToSet(functions[Caller].nodes) /\ IsKind(calls[i], "call")
    BY <1>1, <1>2 DEF CallsHold
  <2>2. \A i \in DOMAIN calls' : i + 1 \in DOMAIN calls /\ calls'[i] = calls[i + 1]
    BY <1>1, <1>2, <1>5, TailIn DEF KnownTypes
  <2>3. Caller' = Caller /\ ToSet(functions[Caller].nodes) \subseteq ToSet(functions'[Caller].nodes)
    BY <1>1, <1>4, <1>11 DEF Caller, Grows
  <2>4. \A i \in DOMAIN calls' : calls'[i] \in ToSet(functions'[Caller'].nodes) /\ label'[calls'[i]].kind = "call"
    BY <1>1, <2>1, <2>2, <2>3 DEF IsKind
  <2>. QED
    BY <1>1, <2>1, <2>4 DEF CallsHold, IsKind
<1>23. CopyHolds' /\ ArgsHold' /\ RetsHold'
  BY <1>1, NotBusy DEF CopyHolds, Busy, AfterArgs
<1>. QED
  BY <1>19, <1>20, <1>21, <1>22, <1>23 DEF EdgeInv
-----------------------------------------------------------------------------
(* VMap pairs the nodes of f with its clones, which are new. *)
IsCloned(f) ==
  /\ \A n \in OwnedBy(f) : VMap(f, n) \in Clones(f) /\ Original(f, VMap(f, n)) = n
  /\ \A c \in Clones(f) : Original(f, c) \in OwnedBy(f) /\ VMap(f, Original(f, c)) = c
  /\ \A c \in Clones(f) : c \in Nodes /\ c \notin Known

LEMMA NodesOfFacts ==
  ASSUME NEW f \in Frames(Known), IsFrame(f, label)
  PROVE  /\ NodesOf(f) \in Seq(Known) /\ IsInjective(NodesOf(f)) /\ ToSet(NodesOf(f)) = OwnedBy(f)
         /\ Len(NodesOf(f)) \in Nat \ {0} /\ DOMAIN NodesOf(f) = 1..Len(NodesOf(f))
<1>. DEFINE first == <<f.start, f.end>>
            nodes == f.nodes
            s == first \o nodes
<1>1. /\ f.start \in Known /\ f.end \in Known /\ f.nodes \in Seq(Known)
      /\ f.start # f.end /\ {f.start, f.end} \cap ToSet(f.nodes) = {} /\ IsInjective(f.nodes)
  BY OwnedFacts DEF IsFrame
<1>2. first \in Seq(Known) /\ IsInjective(first) /\ ToSet(first) = {f.start, f.end} /\ Len(first) = 2
  BY <1>1, TwoNodes
<1>3. nodes \in Seq(Known) /\ IsInjective(nodes) /\ ToSet(first) \cap ToSet(nodes) = {}
  BY <1>1, <1>2
<1>4. OwnedBy(f) = {f.start, f.end} \cup ToSet(nodes)
  BY DEF OwnedBy
<1>5. NodesOf(f) = s
  BY DEF NodesOf
<1>. HIDE DEF first, nodes
<1>6. /\ s \in Seq(Known) /\ ToSet(s) = ToSet(first) \cup ToSet(nodes)
      /\ IsInjective(first) /\ IsInjective(nodes) /\ ToSet(first) \cap ToSet(nodes) = {} => IsInjective(s)
  BY <1>2, <1>3, ConcatFacts
<1>7. Len(s) = Len(first) + Len(nodes) /\ Len(nodes) \in Nat
  <2>1. first \in Seq(Known) /\ nodes \in Seq(Known)
    BY <1>2, <1>3
  <2>. QED
    BY ONLY <2>1
<1>. HIDE DEF s
<1>8. Len(s) \in Nat \ {0} /\ DOMAIN s = 1..Len(s)
  BY <1>2, <1>6, <1>7
<1>. QED
  BY <1>2, <1>3, <1>4, <1>5, <1>6, <1>8

LEMMA CloneFacts ==
  ASSUME KnownTypes, NEW f \in Frames(Known), IsFrame(f, label), HasRoom(Len(NodesOf(f)))
  PROVE  /\ IsCloned(f)
         /\ \A K : K = Known \cup Clones(f) => K \subseteq Nodes /\ IsFiniteSet(K) /\ K = 1..Cardinality(K)
<1>. DEFINE s == NodesOf(f)
            N == Len(s)
            C == Clones(f)
<1>1. /\ s \in Seq(Known) /\ IsInjective(s) /\ ToSet(s) = OwnedBy(f)
      /\ N \in Nat \ {0} /\ DOMAIN s = 1..N
  BY NodesOfFacts
<1>2. C = {Fresh(i) : i \in DOMAIN s}
  BY DEF Clones
<1>3. \A i \in DOMAIN s : Original(f, Fresh(i)) = s[i]
  <2>1. Cardinality(Known) \in Nat
    BY FS_CardinalityType DEF KnownTypes
  <2>2. \A i \in Nat : Fresh(i) - Fresh(0) = i
    BY <2>1 DEF Fresh, Known
  <2>3. \A i \in DOMAIN s : i \in Nat
    BY <1>1
  <2>. QED
    BY <2>2, <2>3 DEF Original
<1>4. \A n \in OwnedBy(f) : \E i \in DOMAIN s : s[i] = n /\ VMap(f, n) = Fresh(i)
  <2>. SUFFICES ASSUME NEW n \in OwnedBy(f) PROVE \E i \in DOMAIN s : s[i] = n /\ VMap(f, n) = Fresh(i)
    OBVIOUS
  <2>1. \E i \in DOMAIN s : s[i] = n
    BY <1>1 DEF ToSet
  <2>. QED
    BY <2>1 DEF VMap
<1>5. HasRoom(N)
  OBVIOUS
<1>. HIDE DEF s, N, C
<1>6. /\ \A i \in 1..N : Fresh(i) \in Nodes /\ Fresh(i) \notin Known
      /\ \A K : K = Known \cup {Fresh(i) : i \in 1..N} => K \subseteq Nodes /\ IsFiniteSet(K) /\ K = 1..Cardinality(K)
  BY <1>1, <1>5, FreshFacts
<1>7. ASSUME NEW n \in OwnedBy(f) PROVE VMap(f, n) \in C /\ Original(f, VMap(f, n)) = n
  BY <1>2, <1>3, <1>4
<1>8. ASSUME NEW c \in C PROVE Original(f, c) \in OwnedBy(f) /\ VMap(f, Original(f, c)) = c
  <2>1. PICK i \in DOMAIN s : c = Fresh(i)
    BY <1>2
  <2>2. Original(f, c) = s[i] /\ s[i] \in OwnedBy(f)
    BY <1>1, <1>3, <2>1 DEF ToSet
  <2>3. PICK j \in DOMAIN s : s[j] = s[i] /\ VMap(f, s[i]) = Fresh(j)
    BY <1>4, <2>2
  <2>4. j = i
    BY <1>1, <2>3 DEF IsInjective
  <2>. QED
    BY <2>1, <2>2, <2>3, <2>4
<1>9. IsCloned(f)
  BY <1>1, <1>2, <1>6, <1>7, <1>8 DEF IsCloned, C
<1>10. C = {Fresh(i) : i \in 1..N}
  BY <1>1, <1>2
<1>. QED
  BY <1>6, <1>9, <1>10 DEF C

(* Function::copy: the clones refer to each other as the nodes of f do. *)
LEMMA ClonesAgree ==
  ASSUME Sound(graph, Live, label, Arity), Null \notin Known, NEW f, OwnedBy(f) \subseteq Live, IsCloned(f), CanCopy(f)
  PROVE  /\ Agree(CloneEdges(f), Live \cup Clones(f))
         /\ Within(CloneEdges(f), Known \cup Clones(f))
         /\ \A u \in Live : CloneEdges(f).operands[u] = graph.operands[u]
         /\ \A c \in Clones(f) :
              /\ \A i \in DOMAIN graph.operands[Original(f, c)] : graph.operands[Original(f, c)][i] \in OwnedBy(f)
              /\ CloneEdges(f).operands[c] =
                   [i \in DOMAIN graph.operands[Original(f, c)] |-> VMap(f, graph.operands[Original(f, c)][i])]
<1>. DEFINE r == CloneEdges(f)
            C == Clones(f)
            O(c) == Original(f, c)
            V(n) == VMap(f, n)
            of(c) == graph.operands[O(c)]
            slots(c) == [i \in DOMAIN of(c) |-> V(of(c)[i])]
<1>1. Agree(graph, Live) /\ Live \subseteq Known /\ Within(graph, Known)
  BY DEF Sound, Known
<1>2. /\ graph \in Graph /\ Live \subseteq Nodes
      /\ graph.operands \in [Nodes -> Seq(NodeOrNull)] /\ graph.users \in [Nodes -> [Nodes -> Nat]]
  BY <1>1 DEF Agree, Graph
<1>3. /\ \A n \in OwnedBy(f) : V(n) \in C /\ O(V(n)) = n
      /\ \A c \in C : O(c) \in OwnedBy(f) /\ V(O(c)) = c
      /\ \A c \in C : c \in Nodes /\ c \notin Known
  BY DEF IsCloned
<1>4. \A c \in C : of(c) \in Seq(OwnedBy(f))
  <2>. SUFFICES ASSUME NEW c \in C PROVE of(c) \in Seq(OwnedBy(f))
    OBVIOUS
  <2>1. O(c) \in OwnedBy(f) /\ O(c) \in Nodes
    BY <1>2, <1>3
  <2>2. ToSet(of(c)) \subseteq OwnedBy(f)
    BY <2>1 DEF CanCopy
  <2>3. of(c) \in Seq(NodeOrNull)
    BY <1>2, <2>1
  <2>. DEFINE s == of(c)
  <2>. HIDE DEF s
  <2>4. \A i \in DOMAIN s : s[i] \in OwnedBy(f)
    BY <2>2 DEF s, ToSet
  <2>5. s \in Seq(NodeOrNull)
    BY <2>3 DEF s
  <2>6. s \in Seq(OwnedBy(f))
    BY <2>4, <2>5
  <2>. QED
    BY <2>6 DEF s
<1>5. /\ r = [operands |-> r.operands, users |-> r.users]
      /\ r.operands = [c \in Nodes |-> IF c \notin C THEN graph.operands[c] ELSE slots(c)]
      /\ r.users = [c \in Nodes |-> IF c \notin C THEN graph.users[c]
                                    ELSE [u \in Nodes |-> IF u \notin C THEN 0 ELSE graph.users[O(c)][O(u)]]]
  BY DEF CloneEdges
<1>. HIDE DEF r, C, V, O
<1>6. \A c \in C : slots(c) \in Seq(C)
  BY <1>3, <1>4
<1>7. \A u \in Nodes : r.operands[u] = IF u \notin C THEN graph.operands[u] ELSE slots(u)
  BY <1>5
<1>8. \A d, u \in Nodes : r.users[d][u] = IF d \notin C THEN graph.users[d][u]
                                         ELSE IF u \notin C THEN 0 ELSE graph.users[O(d)][O(u)]
  BY <1>5
<1>9. C \subseteq Nodes /\ C \cap Live = {} /\ Null \notin C
  BY <1>1, <1>3, NullAssumption
<1>10. \A c \in C : O(c) \in Live /\ O(c) \in Nodes
  BY <1>2, <1>3
<1>11. r \in Graph
  <2>1. r.operands \in [Nodes -> Seq(NodeOrNull)]
    <3>1. ASSUME NEW u \in Nodes PROVE r.operands[u] \in Seq(NodeOrNull)
      <4>1. CASE u \in C
        <5>1. slots(u) \in Seq(C) /\ C \subseteq NodeOrNull
          BY <1>6, <1>9, <4>1 DEF NodeOrNull
        <5>. HIDE DEF slots
        <5>. QED
          BY <1>7, <4>1, <5>1
      <4>2. CASE u \notin C
        BY <1>2, <1>7, <4>2
      <4>. QED
        BY <4>1, <4>2
    <3>. QED
      BY <1>5, <3>1
  <2>2. ASSUME NEW d \in Nodes PROVE r.users[d] \in [Nodes -> Nat]
    <3>1. CASE d \in C
      <4>1. \A u \in Nodes : (IF u \notin C THEN 0 ELSE graph.users[O(d)][O(u)]) \in Nat
        <5>. SUFFICES ASSUME NEW u \in C PROVE graph.users[O(d)][O(u)] \in Nat
          OBVIOUS
        <5>1. O(d) \in Nodes /\ O(u) \in Nodes
          BY <1>10, <3>1
        <5>. QED
          BY <1>2, <5>1
      <4>2. r.users[d] = [u \in Nodes |-> IF u \notin C THEN 0 ELSE graph.users[O(d)][O(u)]]
        BY <1>5, <3>1
      <4>. QED
        BY <4>1, <4>2
    <3>2. CASE d \notin C
      BY <1>2, <1>5, <3>2
    <3>. QED
      BY <3>1, <3>2
  <2>3. r.users \in [Nodes -> [Nodes -> Nat]]
    BY <1>5, <2>2
  <2>. QED
    BY <1>5, <2>1, <2>3 DEF Graph
<1>12. ASSUME NEW u \in Live \cup C, NEW d \in Live \cup C PROVE r.users[d][u] = Uses(r, u, d)
  <2>0. u \in Nodes /\ d \in Nodes
    BY <1>2, <1>9
  <2>1. CASE u \in Live /\ d \in Live
    <3>1. graph.users[d][u] = Uses(graph, u, d) /\ u \notin C /\ d \notin C
      BY <1>1, <1>9, <2>1, AgreeUses
    <3>. QED
      BY <1>7, <1>8, <2>0, <3>1 DEF Uses, SlotsOf
  <2>2. CASE u \in Live /\ d \in C
    <3>1. graph.operands[u] \in Seq(Live \cup {Null}) /\ u \notin C
      BY <1>1, <1>9, <2>2, AgreeSlots
    <3>2. Slots(graph.operands[u], d) = {}
      BY <1>9, <2>2, <3>1 DEF Slots
    <3>3. Uses(r, u, d) = 0
      BY <1>7, <2>0, <3>1, <3>2, FS_EmptySet DEF Uses, SlotsOf
    <3>. QED
      BY <1>8, <2>0, <2>2, <3>1, <3>3
  <2>3. CASE u \in C /\ d \in Live
    <3>1. graph.users[d][u] = 0 /\ d \notin C
      BY <1>1, <1>3, <1>9, <2>0, <2>3 DEF Within
    <3>2. Slots(slots(u), d) = {}
      <4>. DEFINE s == slots(u)
      <4>1. s \in Seq(C)
        BY <1>6, <2>3
      <4>. HIDE DEF s
      <4>2. Slots(s, d) = {}
        BY <3>1, <4>1 DEF Slots
      <4>. QED
        BY <4>2 DEF s
    <3>. HIDE DEF slots
    <3>3. Uses(r, u, d) = 0
      BY <1>7, <2>0, <2>3, <3>2, FS_EmptySet DEF Uses, SlotsOf
    <3>. QED
      BY <1>8, <2>0, <3>1, <3>3
  <2>4. CASE u \in C /\ d \in C
    <3>1. graph.users[O(d)][O(u)] = Uses(graph, O(u), O(d))
      BY <1>1, <1>10, <2>4, AgreeUses
    <3>2. \A i \in DOMAIN of(u) : V(of(u)[i]) = d <=> of(u)[i] = O(d)
      <4>1. \A i \in DOMAIN of(u) : of(u)[i] \in OwnedBy(f)
        <5>. DEFINE s == of(u)
        <5>1. s \in Seq(OwnedBy(f))
          BY <1>4, <2>4
        <5>. HIDE DEF s
        <5>2. \A i \in DOMAIN s : s[i] \in OwnedBy(f)
          BY <5>1
        <5>. QED
          BY <5>2 DEF s
      <4>. QED
        BY <1>3, <2>4, <4>1
    <3>3. Slots(slots(u), d) = Slots(of(u), O(d))
      BY <3>2 DEF Slots
    <3>. HIDE DEF slots
    <3>4. Uses(r, u, d) = Uses(graph, O(u), O(d))
      BY <1>7, <2>0, <2>4, <3>3 DEF Uses, SlotsOf
    <3>. QED
      BY <1>8, <2>0, <2>4, <3>1, <3>4
  <2>. QED
    BY <2>1, <2>2, <2>3, <2>4
<1>13. ASSUME NEW u \in Live \cup C, NEW i \in DOMAIN r.operands[u] PROVE r.operands[u][i] \in (Live \cup C) \cup {Null}
  <2>1. CASE u \in Live
    <3>1. graph.operands[u] \in Seq(Live \cup {Null}) /\ r.operands[u] = graph.operands[u]
      BY <1>1, <1>2, <1>7, <1>9, <2>1, AgreeSlots
    <3>. QED
      BY <3>1
  <2>2. CASE u \in C
    <3>. DEFINE s == r.operands[u]
    <3>1. s \in Seq(C)
      BY <1>6, <1>7, <1>9, <2>2
    <3>2. i \in DOMAIN s
      OBVIOUS
    <3>. HIDE DEF s
    <3>3. s[i] \in C
      BY <3>1, <3>2
    <3>. QED
      BY <3>3 DEF s
  <2>. QED
    BY <2>1, <2>2
<1>14. Agree(r, Live \cup C)
  BY <1>2, <1>9, <1>11, <1>12, <1>13 DEF Agree
<1>15. Within(r, Known \cup C)
  <2>1. ASSUME NEW d \in Nodes, NEW n \in Nodes \ (Known \cup C) PROVE r.users[d][n] = 0
    <3>1. graph.users[d][n] = 0 /\ n \notin C
      BY <1>1 DEF Within
    <3>. QED
      BY <1>8, <3>1
  <2>. QED
    BY <2>1 DEF Within
<1>16. \A u \in Live : r.operands[u] = graph.operands[u]
  BY <1>2, <1>7, <1>9
<1>17. \A c \in C : (\A i \in DOMAIN of(c) : of(c)[i] \in OwnedBy(f)) /\ r.operands[c] = slots(c)
  <2>. SUFFICES ASSUME NEW c \in C PROVE (\A i \in DOMAIN of(c) : of(c)[i] \in OwnedBy(f)) /\ r.operands[c] = slots(c)
    OBVIOUS
  <2>1. of(c) \in Seq(OwnedBy(f)) /\ r.operands[c] = slots(c)
    BY <1>4, <1>7, <1>9
  <2>. HIDE DEF slots
  <2>. QED
    BY <2>1
<1>. QED
  BY <1>14, <1>15, <1>16, <1>17 DEF r, C, O, V

(* What CopyCallee copies. *)
LEMMA CalleeFacts ==
  ASSUME EdgeInv, phase = "calls", calls # <<>>
  PROVE  /\ Caller \in Functions /\ Call \in ToSet(functions[Caller].nodes) /\ IsKind(Call, "call") /\ Call \in Live
         /\ label[Call].of \in Functions /\ Callee \in Frames(Known) /\ IsFrame(Callee, label)
         /\ OwnedBy(Callee) \subseteq Live /\ Len(Callee.args) = Arity[label[Call].of]
         /\ copy = NoFunction /\ script # <<>>
<1>1. KnownTypes /\ Sound(graph, Live, label, Arity) /\ CallsHold /\ CopyHolds /\ FramesHold
  BY DEF EdgeInv
<1>2. script # <<>> /\ copy = NoFunction
  BY <1>1 DEF CallsHold, CopyHolds
<1>3. Caller \in Functions
  BY <1>1, <1>2, CallerIn
<1>4. Call \in ToSet(functions[Caller].nodes) /\ IsKind(Call, "call")
  <2>1. 1 \in DOMAIN calls
    BY <1>1, FirstIn DEF KnownTypes
  <2>. QED
    BY <1>1, <1>2, <2>1 DEF CallsHold, Call
<1>5. Call \in Live
  BY <1>3, <1>4, LiveFacts DEF OwnedBy
<1>6. label[Call].of \in Functions
  <2>1. IsFormed(Call, graph.operands, label, Arity)
    BY <1>1, <1>5 DEF Sound
  <2>. QED
    BY <1>4, <2>1 DEF IsFormed, IsKind
<1>7. Callee \in Frames(Known) /\ IsFrame(Callee, label) /\ OwnedBy(Callee) \subseteq Live
  BY <1>1, <1>6, LiveFacts DEF KnownTypes, FramesHold, Callee
<1>8. Len(Callee.args) = Arity[label[Call].of]
  BY <1>1, <1>6 DEF FramesHold, Callee, Arity, ArityOf
<1>. QED
  BY <1>2, <1>3, <1>4, <1>5, <1>6, <1>7, <1>8

(* The copy has a frame, as the callee has. *)
CloneOf(f) ==
  [start |-> VMap(f, f.start), end |-> VMap(f, f.end),
   args |-> [i \in DOMAIN f.args |-> VMap(f, f.args[i])],
   nodes |-> [i \in DOMAIN f.nodes |-> VMap(f, f.nodes[i])]]

LEMMA MappedFacts ==
  ASSUME NEW f, IsCloned(f), NEW s \in Seq(OwnedBy(f)), NEW t, t = [i \in DOMAIN s |-> VMap(f, s[i])]
  PROVE  /\ t \in Seq(Clones(f)) /\ Len(t) = Len(s)
         /\ \A c \in Clones(f) : c \in ToSet(t) <=> Original(f, c) \in ToSet(s)
         /\ IsInjective(s) => IsInjective(t)
<1>1. \A n \in OwnedBy(f) : VMap(f, n) \in Clones(f) /\ Original(f, VMap(f, n)) = n
  BY DEF IsCloned
<1>2. \A c \in Clones(f) : VMap(f, Original(f, c)) = c
  BY DEF IsCloned
<1>3. \A i \in DOMAIN s : s[i] \in OwnedBy(f)
  OBVIOUS
<1>4. /\ t \in Seq(Clones(f)) /\ Len(t) = Len(s) /\ DOMAIN t = DOMAIN s
      /\ \A i \in DOMAIN s : t[i] = VMap(f, s[i]) /\ Original(f, t[i]) = s[i]
  BY <1>1, <1>3
<1>5. \A c \in Clones(f) : c \in ToSet(t) <=> Original(f, c) \in ToSet(s)
  BY <1>1, <1>2, <1>3, <1>4 DEF ToSet
<1>6. IsInjective(s) => IsInjective(t)
  BY <1>4 DEF IsInjective
<1>. QED
  BY <1>4, <1>5, <1>6

LEMMA CloneFrame ==
  ASSUME NEW S, NEW f \in Frames(S), IsFrame(f, label), IsCloned(f), NEW m,
         \A c \in Clones(f) : m[c] = label[Original(f, c)]
  PROVE  /\ CloneOf(f) \in Frames(Clones(f)) /\ IsFrame(CloneOf(f), m)
         /\ OwnedBy(CloneOf(f)) = Clones(f) /\ Len(CloneOf(f).args) = Len(f.args)
<1>. DEFINE k == CloneOf(f)
            C == Clones(f)
            O(c) == Original(f, c)
<1>1. /\ f.start \in OwnedBy(f) /\ f.end \in OwnedBy(f) /\ ToSet(f.nodes) \subseteq OwnedBy(f)
      /\ f.nodes \in Seq(S) /\ f.args \in Seq(S)
      /\ f.start # f.end /\ {f.start, f.end} \cap ToSet(f.nodes) = {} /\ IsInjective(f.nodes)
      /\ label[f.start].kind = "start" /\ label[f.end].kind = "end"
      /\ \A n \in ToSet(f.nodes) : label[n].kind \notin {"start", "end"} /\ (label[n].kind = "arg" => n \in ToSet(f.args))
      /\ \A n \in ToSet(f.args) : n \in ToSet(f.nodes) /\ label[n].kind = "arg"
  BY OwnedFacts DEF IsFrame
<1>2. f.nodes \in Seq(OwnedBy(f)) /\ f.args \in Seq(OwnedBy(f))
  <2>1. \A s \in Seq(S) : ToSet(s) \subseteq OwnedBy(f) => s \in Seq(OwnedBy(f))
    BY DEF ToSet
  <2>2. ToSet(f.args) \subseteq OwnedBy(f)
    BY <1>1
  <2>. QED
    BY <1>1, <2>1, <2>2
<1>3. /\ k = [start |-> k.start, end |-> k.end, args |-> k.args, nodes |-> k.nodes]
      /\ k.start = VMap(f, f.start) /\ k.end = VMap(f, f.end)
      /\ k.args = [i \in DOMAIN f.args |-> VMap(f, f.args[i])]
      /\ k.nodes = [i \in DOMAIN f.nodes |-> VMap(f, f.nodes[i])]
  BY DEF CloneOf
<1>. HIDE DEF k
<1>4. /\ k.nodes \in Seq(C) /\ Len(k.nodes) = Len(f.nodes)
      /\ \A c \in C : c \in ToSet(k.nodes) <=> O(c) \in ToSet(f.nodes)
      /\ IsInjective(k.nodes)
  BY <1>1, <1>2, <1>3, MappedFacts
<1>5. /\ k.args \in Seq(C) /\ Len(k.args) = Len(f.args)
      /\ \A c \in C : c \in ToSet(k.args) <=> O(c) \in ToSet(f.args)
  BY <1>1, <1>2, <1>3, MappedFacts
<1>6. /\ \A n \in OwnedBy(f) : VMap(f, n) \in C /\ O(VMap(f, n)) = n
      /\ \A c \in C : O(c) \in OwnedBy(f) /\ VMap(f, O(c)) = c
  BY DEF IsCloned
<1>7. k.start \in C /\ k.end \in C /\ O(k.start) = f.start /\ O(k.end) = f.end
  BY <1>1, <1>3, <1>6
<1>8. k \in Frames(C)
  BY <1>3, <1>4, <1>5, <1>7 DEF Frames
<1>9. ToSet(k.nodes) \subseteq C /\ ToSet(k.args) \subseteq C
  BY <1>4, <1>5 DEF ToSet
<1>. HIDE DEF C, O
<1>10. \A c \in C : m[c] = label[O(c)]
  BY DEF C, O
<1>11. IsFrame(k, m)
  BY <1>1, <1>4, <1>5, <1>7, <1>9, <1>10 DEF IsFrame
<1>12. OwnedBy(k) = C
  <2>1. ASSUME NEW c \in C PROVE c \in OwnedBy(k)
    <3>1. O(c) = f.start \/ O(c) = f.end \/ O(c) \in ToSet(f.nodes)
      BY <1>6 DEF OwnedBy
    <3>. QED
      BY <1>3, <1>4, <1>6, <3>1 DEF OwnedBy
  <2>. QED
    BY <1>7, <1>9, <2>1 DEF OwnedBy
<1>. QED
  BY <1>5, <1>8, <1>11, <1>12 DEF k, C

LEMMA FormedStays ==
  ASSUME NEW u, NEW o, NEW q, NEW l, NEW m, NEW arity, IsFormed(u, o, l, arity), LabelsKept(l, m),
         u \in DOMAIN l, q[u] = o[u], \A i \in DOMAIN o[u] : o[u][i] \in DOMAIN l \cup {Null}
  PROVE  IsFormed(u, q, m, arity)
<1>1. m[u] = l[u] /\ \A i \in DOMAIN o[u] : o[u][i] # Null => m[o[u][i]] = l[o[u][i]]
  BY DEF LabelsKept
<1>. QED
  BY <1>1 DEF IsFormed

LEMMA FormedCloned ==
  ASSUME NEW f, IsCloned(f), NEW c \in Clones(f), NEW o, NEW q, NEW l, NEW m, NEW arity,
         IsFormed(Original(f, c), o, l, arity), Null \notin OwnedBy(f),
         NEW old \in Seq(OwnedBy(f)), old = o[Original(f, c)], q[c] = [i \in DOMAIN old |-> VMap(f, old[i])],
         \A k \in Clones(f) : m[k] = l[Original(f, k)]
  PROVE  IsFormed(c, q, m, arity)
<1>. DEFINE new == q[c]
            u == Original(f, c)
<1>1. /\ \A i \in DOMAIN old :
           /\ l[old[i]].kind # "end"
           /\ l[old[i]].kind = "ret" => l[u].kind = "end"
           /\ l[u].kind = "end" => l[old[i]].kind \in EndInputs
           /\ l[u].kind = "end" => \A j \in DOMAIN old : old[j] = old[i] => j = i
      /\ l[u].kind = "ret" => Len(old) = 2
      /\ l[u].kind = "call" => l[u].of \in Functions /\ Len(old) = arity[l[u].of] + 1
  BY DEF IsFormed
<1>2. /\ \A n \in OwnedBy(f) : VMap(f, n) \in Clones(f) /\ Original(f, VMap(f, n)) = n
      /\ \A i \in DOMAIN old : old[i] \in OwnedBy(f)
  BY DEF IsCloned
<1>3. DOMAIN new = DOMAIN old /\ Len(new) = Len(old) /\ \A i \in DOMAIN old : new[i] = VMap(f, old[i])
  OBVIOUS
<1>4. m[c] = l[u] /\ \A i \in DOMAIN old : m[new[i]] = l[old[i]] /\ Original(f, new[i]) = old[i]
  BY <1>2, <1>3
<1>. HIDE DEF new, u
<1>5. /\ \A i \in DOMAIN new :
           /\ m[new[i]].kind # "end"
           /\ m[new[i]].kind = "ret" => m[c].kind = "end"
           /\ m[c].kind = "end" => m[new[i]].kind \in EndInputs
           /\ m[c].kind = "end" => \A j \in DOMAIN new : new[j] = new[i] => j = i
  BY <1>1, <1>3, <1>4
<1>6. /\ m[c].kind = "ret" => Len(new) = 2
      /\ m[c].kind = "call" => m[c].of \in Functions /\ Len(new) = arity[m[c].of] + 1
  BY <1>1, <1>3, <1>4
<1>. QED
  BY <1>5, <1>6 DEF IsFormed, new

LEMMA SoundCloned ==
  ASSUME Sound(graph, Live, label, Arity), Null \notin Known, NEW f, OwnedBy(f) \subseteq Live, IsCloned(f), CanCopy(f),
         NEW m, DOMAIN m = Known \cup Clones(f), LabelsKept(label, m),
         \A c \in Clones(f) : m[c] = label[Original(f, c)]
  PROVE  Sound(CloneEdges(f), Live \cup Clones(f), m, Arity)
<1>. DEFINE r == CloneEdges(f)
            C == Clones(f)
<1>1. Agree(graph, Live) /\ Live \subseteq Known /\ \A u \in Live : IsFormed(u, graph.operands, label, Arity)
  BY DEF Sound, Known
<1>2. /\ Agree(r, Live \cup C) /\ Within(r, Known \cup C)
      /\ \A u \in Live : r.operands[u] = graph.operands[u]
      /\ \A c \in C :
           /\ \A i \in DOMAIN graph.operands[Original(f, c)] : graph.operands[Original(f, c)][i] \in OwnedBy(f)
           /\ r.operands[c] = [i \in DOMAIN graph.operands[Original(f, c)] |-> VMap(f, graph.operands[Original(f, c)][i])]
  BY ClonesAgree
<1>. HIDE DEF r
<1>3. ASSUME NEW u \in Live PROVE IsFormed(u, r.operands, m, Arity)
  <2>1. graph.operands[u] \in Seq(Live \cup {Null})
    BY <1>1, AgreeSlots
  <2>2. \A i \in DOMAIN graph.operands[u] : graph.operands[u][i] \in Known \cup {Null}
    BY <1>1, <2>1
  <2>3. IsFormed(u, graph.operands, label, Arity) /\ r.operands[u] = graph.operands[u] /\ u \in Known
    BY <1>1, <1>2
  <2>. QED
    BY <2>2, <2>3, FormedStays DEF Known
<1>4. ASSUME NEW c \in C PROVE IsFormed(c, r.operands, m, Arity)
  <2>1. Original(f, c) \in OwnedBy(f) /\ Original(f, c) \in Live
    BY DEF IsCloned
  <2>2. PICK old : old = graph.operands[Original(f, c)]
    OBVIOUS
  <2>3. old \in Seq(Live \cup {Null})
    BY <1>1, <2>1, <2>2, AgreeSlots
  <2>4. /\ \A i \in DOMAIN old : old[i] \in OwnedBy(f)
        /\ r.operands[c] = [i \in DOMAIN old |-> VMap(f, old[i])]
    BY <1>2, <2>2
  <2>5. old \in Seq(OwnedBy(f))
    BY ONLY <2>3, <2>4
  <2>6. IsFormed(Original(f, c), graph.operands, label, Arity) /\ Null \notin OwnedBy(f)
    BY <1>1, <2>1
  <2>. QED
    BY <2>2, <2>4, <2>5, <2>6, FormedCloned
<1>5. Live \cup C \subseteq DOMAIN m
  BY <1>1
<1>. QED
  BY <1>2, <1>3, <1>4, <1>5 DEF Sound, r

LEMMA CopyCalleeKeeps == EdgeInv /\ CopyCallee => EdgeInv'
<1>. SUFFICES ASSUME EdgeInv, CopyCallee PROVE EdgeInv'
  OBVIOUS
<1>. DEFINE C == Clones(Callee)
<1>1. /\ phase = "calls" /\ calls # <<>> /\ phase' = "args" /\ slot' = 1
      /\ CanCopy(Callee) /\ HasRoom(Len(NodesOf(Callee)))
      /\ graph' = CloneEdges(Callee)
      /\ label' = [c \in Known \cup C |-> IF c \in Known THEN label[c] ELSE label[Original(Callee, c)]]
      /\ copy' = CloneOf(Callee)
      /\ UNCHANGED <<functions, script, calls, given>>
  BY DEF CopyCallee, Known, CloneOf
<1>2. KnownTypes /\ Sound(graph, Live, label, Arity) /\ FramesHold /\ CallsHold
  BY DEF EdgeInv
<1>3. /\ Caller \in Functions /\ Call \in ToSet(functions[Caller].nodes) /\ IsKind(Call, "call") /\ Call \in Live
      /\ label[Call].of \in Functions /\ Callee \in Frames(Known) /\ IsFrame(Callee, label)
      /\ OwnedBy(Callee) \subseteq Live /\ Len(Callee.args) = Arity[label[Call].of]
      /\ copy = NoFunction /\ script # <<>>
  BY <1>1, CalleeFacts
<1>4. /\ IsCloned(Callee)
      /\ \A K : K = Known \cup C => K \subseteq Nodes /\ IsFiniteSet(K) /\ K = 1..Cardinality(K)
  BY <1>1, <1>2, <1>3, CloneFacts
<1>5. /\ \A c \in C : c \notin Known
      /\ Live \subseteq Known /\ Null \notin Known /\ Null \notin C
  BY <1>2, <1>4, NullAssumption DEF IsCloned, Sound, Known, KnownTypes
<1>6. /\ Known' = Known \cup C /\ DOMAIN label' = Known \cup C /\ LabelsKept(label, label')
      /\ \A c \in C : label'[c] = label[Original(Callee, c)]
  BY <1>1, <1>5 DEF Known, LabelsKept
<1>7. /\ copy' \in Frames(C) /\ IsFrame(copy', label') /\ OwnedBy(copy') = C
      /\ Len(copy'.args) = Arity[label[Call].of]
  <2>1. PICK m : m = label'
    OBVIOUS
  <2>2. /\ CloneOf(Callee) \in Frames(C) /\ IsFrame(CloneOf(Callee), m)
        /\ OwnedBy(CloneOf(Callee)) = C /\ Len(CloneOf(Callee).args) = Len(Callee.args)
    BY <1>3, <1>4, <1>6, <2>1, CloneFrame
  <2>. QED
    BY <1>1, <1>3, <2>1, <2>2
<1>8. Live' = Live \cup C /\ Arity' = Arity /\ Caller' = Caller /\ Call' = Call
  <2>1. Live = UNION {OwnedBy(functions[f]) : f \in Functions}
    BY <1>3 DEF Live, NoFunction, OwnedBy, ToSet
  <2>2. Live' = (C \ {Null}) \cup UNION {OwnedBy(functions[f]) : f \in Functions}
    BY <1>1, <1>7 DEF Live
  <2>. QED
    BY <1>1, <1>5, <2>1, <2>2 DEF Arity, Caller, Call
<1>9. Sound(graph', Live', label', Arity')
  <2>1. PICK m : m = label'
    OBVIOUS
  <2>2. Sound(CloneEdges(Callee), Live \cup C, m, Arity)
    BY <1>1, <1>2, <1>3, <1>4, <1>5, <1>6, <2>1, SoundCloned
  <2>. QED
    BY <1>1, <1>8, <2>1, <2>2
<1>10. /\ \A f \in Functions : functions[f] \in Frames(Known') /\ IsFrame(functions[f], label')
       /\ copy' \in Frames(Known') /\ IsFrame(copy', label')
  <2>1. PICK m : m = label'
    OBVIOUS
  <2>2. PICK T : T = Known'
    OBVIOUS
  <2>3. Known \subseteq T /\ Known \subseteq DOMAIN label /\ LabelsKept(label, m) /\ C \subseteq T
    BY <1>6, <2>1, <2>2 DEF Known
  <2>4. ASSUME NEW f \in Functions PROVE functions[f] \in Frames(T) /\ IsFrame(functions[f], m)
    <3>1. functions[f] \in Frames(Known) /\ IsFrame(functions[f], label)
      BY <1>2 DEF KnownTypes, FramesHold
    <3>. QED
      BY <2>3, <3>1, FrameGrows
  <2>5. copy' \in Frames(T)
    BY <1>7, <2>3 DEF Frames
  <2>. QED
    BY <1>7, <2>1, <2>2, <2>4, <2>5
<1>11. KnownTypes'
  <2>1. functions' \in [Functions -> Frames(Known')]
    BY <1>1, <1>2, <1>10 DEF KnownTypes
  <2>2. calls' \in Seq(Known')
    <3>1. calls \in Seq(Known) /\ Known \subseteq Known'
      BY <1>2, <1>6 DEF KnownTypes
    <3>. QED
      BY <1>1, <3>1
  <2>3. Known' \subseteq Nodes /\ IsFiniteSet(Known') /\ Known' = 1..Cardinality(Known')
    BY <1>4, <1>6
  <2>4. given' \in Programs /\ script' \in Seq([run : {"inline", "clean"}, on : Functions]) /\ slot' \in Nat \ {0}
    BY <1>1, <1>2 DEF KnownTypes
  <2>. QED
    BY <2>1, <2>2, <2>3, <2>4 DEF KnownTypes
<1>12. FramesHold'
  BY <1>1, <1>2, <1>10 DEF FramesHold
<1>13. CallsHold'
  <2>1. \A i \in DOMAIN calls : calls[i] \in ToSet(functions[Caller].nodes) /\ IsKind(calls[i], "call") /\ calls[i] \in Known
    BY <1>2, <1>3 DEF CallsHold, KnownTypes
  <2>2. \A i \in DOMAIN calls' : calls'[i] \in ToSet(functions'[Caller'].nodes) /\ label'[calls'[i]].kind = "call"
    BY <1>1, <1>6, <1>8, <2>1 DEF IsKind, LabelsKept, Known
  <2>. QED
    BY <1>1, <1>3, <2>2 DEF CallsHold, IsKind
<1>14. CopyHolds'
  <2>1. calls' # <<>> /\ phase' = "args"
    BY <1>1
  <2>2. \A f \in Functions : OwnedBy(functions'[f]) \cap OwnedBy(copy') = {}
    BY <1>1, <1>5, <1>7, LiveFacts
  <2>3. Outside' = Outside /\ Outside \subseteq Live
    <3>1. \A f \in Functions : functions[f].end \in Live
      BY LiveFacts DEF OwnedBy
    <3>. QED
      BY <1>1, <1>3, <1>8, <3>1 DEF Outside
  <2>4. \A u \in Outside' : ToSet(graph'.operands[u]) \cap OwnedBy(copy') = {}
    <3>. SUFFICES ASSUME NEW u \in Outside PROVE ToSet(graph'.operands[u]) \cap C = {}
      BY <1>7, <2>3
    <3>1. graph'.operands[u] = graph.operands[u]
      BY <1>1, <1>2, <1>3, <1>4, <1>5, <2>3, ClonesAgree
    <3>2. graph.operands[u] \in Seq(Live \cup {Null})
      BY <1>2, <2>3, AgreeSlots DEF Sound
    <3>3. ToSet(graph.operands[u]) \subseteq Live \cup {Null}
      BY <3>2 DEF ToSet
    <3>. QED
      BY <1>5, <3>1, <3>3
  <2>5. Len(copy'.args) = Arity'[label'[Call'].of]
    BY <1>3, <1>5, <1>6, <1>7, <1>8 DEF LabelsKept, Known
  <2>. QED
    BY <1>10, <2>1, <2>2, <2>4, <2>5 DEF CopyHolds
<1>15. ArgsHold'
  <2>1. \A k \in DOMAIN copy'.args : ~(k < 1)
    <3>1. copy'.args \in Seq(C)
      BY <1>7, OwnedFacts
    <3>. QED
      BY <3>1
  <2>. QED
    BY <1>1, <2>1 DEF ArgsHold, ArgsReplaced, AfterArgs
<1>16. RetsHold'
  <2>1. copy'.end = VMap(Callee, Callee.end)
    BY <1>1 DEF CloneOf
  <2>2. copy'.end \in C /\ Callee.end \in OwnedBy(Callee)
    BY <1>4, <2>1 DEF OwnedBy, IsCloned
  <2>3. PICK c \in C : c = copy'.end
    BY <2>2
  <2>4. PICK f : f = Callee
    OBVIOUS
  <2>5. c \in Clones(f) /\ OwnedBy(f) \subseteq Live /\ IsCloned(f) /\ CanCopy(f)
    BY <1>1, <1>3, <1>4, <2>3, <2>4
  <2>6. /\ \A i \in DOMAIN graph.operands[Original(f, c)] : graph.operands[Original(f, c)][i] \in OwnedBy(f)
        /\ CloneEdges(f).operands[c] =
             [i \in DOMAIN graph.operands[Original(f, c)] |-> VMap(f, graph.operands[Original(f, c)][i])]
    BY <1>2, <1>5, <2>5, ClonesAgree
  <2>7. PICK old : /\ \A i \in DOMAIN old : old[i] \in OwnedBy(Callee)
                   /\ CloneEdges(Callee).operands[c] = [i \in DOMAIN old |-> VMap(Callee, old[i])]
    BY <2>4, <2>6
  <2>8. \A i \in DOMAIN old : VMap(Callee, old[i]) \in C
    BY <1>4, <2>7 DEF IsCloned
  <2>9. Null \notin ToSet(Rets')
    BY <1>1, <1>5, <2>3, <2>7, <2>8 DEF ToSet, Rets
  <2>. QED
    BY <1>1, <2>9 DEF RetsHold, AfterArgs
<1>. QED
  BY <1>9, <1>11, <1>12, <1>13, <1>14, <1>15, <1>16 DEF EdgeInv

LEMMA InlineNextKeeps == EdgeInv /\ [InlineNext]_inlineVars => EdgeInv'
<1>1. ASSUME EdgeInv, UNCHANGED inlineVars PROVE EdgeInv'
  BY <1>1, UnchangedKeeps
<1>. QED
  BY <1>1, CleanFunctionKeeps, StartInliningKeeps, InliningDoneKeeps, CopyCalleeKeeps, ReplaceArgKeeps, CreateRetKeeps,
     ConvertRetKeeps, FinalJmpKeeps, ReplaceCallKeeps, MoveNodesKeeps, StopKeeps DEF InlineNext

(* EdgeInv is an inductive invariant of the runs of Inlining and clean. *)
THEOREM EdgesStaySound == InlineSpec => []EdgeInv
<1>1. InlineInit => EdgeInv
  BY InlineInitKeeps
<1>2. EdgeInv /\ [InlineNext]_inlineVars => EdgeInv'
  BY InlineNextKeeps
<1>. QED
  BY <1>1, <1>2, PTL DEF InlineSpec

(* After every step of Inlining::run and of Function::clean, whatever of a  *)
(* copy was moved or destroyed, the nodes that are left refer to nodes that *)
(* are left, and the operands and the users of two of them agree.           *)
THEOREM EdgesStayAgreed == InlineSpec => []EdgesAgree
<1>1. EdgeInv => EdgesAgree
  <2>. SUFFICES ASSUME EdgeInv PROVE EdgesAgree
    OBVIOUS
  <2>1. Agree(graph, Live)
    BY DEF EdgeInv, Sound
  <2>2. ASSUME NEW n \in Live PROVE ToSet(graph.operands[n]) \subseteq Live \cup {Null}
    <3>1. \A i \in DOMAIN graph.operands[n] : graph.operands[n][i] \in Live \cup {Null}
      BY <2>1 DEF Agree
    <3>. QED
      BY <3>1 DEF ToSet
  <2>. QED
    BY <2>1, <2>2 DEF EdgesAgree, Agree
<1>2. InlineSpec => []EdgeInv
  BY EdgesStaySound
<1>. QED
  BY <1>1, <1>2, PTL
=============================================================================

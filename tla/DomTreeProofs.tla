--------------------------- MODULE DomTreeProofs ---------------------------
(***************************************************************************)
(* The walk and the dominator tree of every function.                      *)
(***************************************************************************)
EXTENDS DomTree, Recursion, FiniteSetTheorems, SequenceTheorems, TLAPS

(* What is reached in at most k steps. *)
IsWithin(W, f, D) ==
  W = [k \in Nat |->
         IF k = 0 THEN {Start} \ D
         ELSE W[k - 1] \cup {r \in Regions \ D : \E u \in W[k - 1] : GoesTo(f, u, r)}]

LEMMA WithinSteps ==
  ASSUME NEW f, NEW D, NEW W, IsWithin(W, f, D)
  PROVE  /\ W[0] = {Start} \ D
         /\ \A k \in Nat : W[k + 1] = W[k] \cup {r \in Regions \ D : \E u \in W[k] : GoesTo(f, u, r)}
<1>1. ASSUME NEW k \in Nat
      PROVE  W[k] = IF k = 0 THEN {Start} \ D
                    ELSE W[k - 1] \cup {r \in Regions \ D : \E u \in W[k - 1] : GoesTo(f, u, r)}
  BY DEF IsWithin
<1>2. W[0] = {Start} \ D
  BY <1>1
<1>3. ASSUME NEW k \in Nat
      PROVE  W[k + 1] = W[k] \cup {r \in Regions \ D : \E u \in W[k] : GoesTo(f, u, r)}
  <2>1. k + 1 \in Nat /\ k + 1 # 0 /\ (k + 1) - 1 = k
    OBVIOUS
  <2>2. W[k + 1] = IF k + 1 = 0 THEN {Start} \ D
                   ELSE W[(k + 1) - 1] \cup {r \in Regions \ D : \E u \in W[(k + 1) - 1] : GoesTo(f, u, r)}
    BY <1>1, <2>1
  <2>. QED
    BY <2>1, <2>2
<1>. QED
  BY <1>2, <1>3

LEMMA ReachedUnfolds ==
  ASSUME NEW f, NEW D
  PROVE  \E W \in [Nat -> SUBSET Regions] :
           /\ IsWithin(W, f, D)
           /\ ReachedWithout(f, D) = W[Cardinality(Regions)]
<1>. DEFINE IsIt(W) == W = [k \in Nat |->
                        IF k = 0 THEN {Start} \ D
                        ELSE LET before == W[k - 1]
                             IN  before \cup {r \in Regions \ D : \E u \in before : GoesTo(f, u, r)}]
            W0 == CHOOSE W : IsIt(W)
            T == SUBSET Regions
            x == {Start} \ D
            more == [B \in T |-> B \cup {r \in Regions \ D : \E u \in B : GoesTo(f, u, r)}]
<1>1. ReachedWithout(f, D) = W0[Cardinality(Regions)]
  BY Zenon DEF ReachedWithout
<1>2. x \in T /\ more \in [T -> T]
  BY RegionsAssumption
<1>3. PICK W \in [Nat -> T] : W[0] = x /\ \A k \in Nat : W[k + 1] = more[W[k]]
  <2>. HIDE DEF T, x, more
  <2>. QED
    BY <1>2, IterationExists
<1>4. IsWithin(W, f, D)
  <2>1. \A k \in Nat \ {0} : k - 1 \in Nat /\ (k - 1) + 1 = k
    OBVIOUS
  <2>2. \A k \in Nat \ {0} : W[k] = more[W[k - 1]] /\ W[k - 1] \in T
    <3>. HIDE DEF more, T
    <3>. QED
      BY <1>3, <2>1
  <2>3. \A k \in Nat : W[k] = IF k = 0 THEN {Start} \ D
          ELSE W[k - 1] \cup {r \in Regions \ D : \E u \in W[k - 1] : GoesTo(f, u, r)}
    BY <1>3, <2>2
  <2>. QED
    BY <2>3 DEF IsWithin
<1>5. IsIt(W)
  BY <1>4 DEF IsWithin
<1>6. IsIt(W0)
  BY <1>5
<1>. HIDE DEF W0
<1>7. IsWithin(W0, f, D)
  BY <1>6 DEF IsWithin
<1>8. W0 = W
  <2>. DEFINE Good == {k \in Nat : W0[k] = W[k]}
  <2>1. 0 \in Good
    <3>1. W[0] = {Start} \ D /\ W0[0] = {Start} \ D
      BY <1>4, <1>7, WithinSteps
    <3>. QED
      BY <3>1
  <2>2. ASSUME NEW k \in Nat, k \in Good PROVE k + 1 \in Good
    <3>1. /\ W[k + 1] = W[k] \cup {r \in Regions \ D : \E u \in W[k] : GoesTo(f, u, r)}
          /\ W0[k + 1] = W0[k] \cup {r \in Regions \ D : \E u \in W0[k] : GoesTo(f, u, r)}
      BY <1>4, <1>7, WithinSteps
    <3>2. W0[k] = W[k]
      BY <2>2
    <3>3. W0[k + 1] = W[k + 1]
      BY <3>1, <3>2
    <3>. QED
      BY <3>3
  <2>3. \A k \in Nat : k \in Good
    <3>. HIDE DEF Good
    <3>. QED
      BY <2>1, <2>2, Induction
  <2>4. W0 = [k \in Nat |-> W0[k]] /\ W = [k \in Nat |-> W[k]]
    BY <1>7 DEF IsWithin
  <2>. QED
    BY <2>3, <2>4
<1>. QED
  BY <1>1, <1>4, <1>8

(* The set is complete: no step leads out of it but into D.                *)
LEMMA ReachedIsClosed ==
  ASSUME NEW f, NEW D, NEW u \in ReachedWithout(f, D), NEW r \in Regions \ D, GoesTo(f, u, r)
  PROVE  r \in ReachedWithout(f, D)
<1>1. PICK W \in [Nat -> SUBSET Regions] :
        IsWithin(W, f, D) /\ ReachedWithout(f, D) = W[Cardinality(Regions)]
  BY ReachedUnfolds
<1>. DEFINE K == Cardinality(Regions)
            Stable(k) == W[k + 1] = W[k]
            Good == {k \in Nat : Stable(k) \/ Cardinality(W[k]) >= k}
<1>2. \A k \in Nat : W[k + 1] = W[k] \cup {s \in Regions \ D : \E v \in W[k] : GoesTo(f, v, s)}
  BY <1>1, WithinSteps
<1>3. \A k \in Nat : W[k] \subseteq Regions /\ IsFiniteSet(W[k]) /\ Cardinality(W[k]) \in Nat
  BY RegionsAssumption, FS_Subset, FS_CardinalityType
<1>4. K \in Nat /\ Stable(K)
  <2>1. 0 \in Good
    BY <1>3
  <2>2. ASSUME NEW k \in Nat, k \in Good PROVE k + 1 \in Good
    <3>1. CASE Stable(k)
      <4>1. W[(k + 1) + 1] = W[k + 1] \cup {s \in Regions \ D : \E v \in W[k + 1] : GoesTo(f, v, s)}
        BY <1>2
      <4>2. W[k + 1] = W[k] \cup {s \in Regions \ D : \E v \in W[k] : GoesTo(f, v, s)}
        BY <1>2
      <4>3. W[k + 1] = W[k]
        BY <3>1
      <4>4. W[(k + 1) + 1] = W[k + 1]
        BY <4>1, <4>2, <4>3
      <4>. QED
        BY <4>4
    <3>2. CASE ~Stable(k)
      <4>1. W[k] \subseteq W[k + 1] /\ W[k] # W[k + 1]
        BY <1>2, <3>2
      <4>2. Cardinality(W[k]) < Cardinality(W[k + 1])
        BY <1>3, <4>1, FS_Subset
      <4>. QED
        BY <1>3, <2>2, <3>2, <4>2
    <3>. QED
      BY <3>1, <3>2
  <2>3. \A k \in Nat : k \in Good
    <3>. HIDE DEF Good
    <3>. QED
      BY <2>1, <2>2, Induction
  <2>4. K \in Nat
    BY RegionsAssumption, FS_CardinalityType
  <2>5. CASE Cardinality(W[K]) >= K
    <3>1. W[K] = Regions
      <4>1. W[K] \subseteq Regions /\ Cardinality(W[K]) <= K /\ Cardinality(W[K]) \in Nat
        BY <1>3, <2>4, RegionsAssumption, FS_Subset
      <4>2. Cardinality(W[K]) = K
        BY <2>4, <2>5, <4>1
      <4>. QED
        BY <4>1, <4>2, RegionsAssumption, FS_Subset
    <3>. QED
      BY <1>2, <2>4, <3>1
  <2>. QED
    BY <2>3, <2>4, <2>5
<1>. QED
  BY <1>1, <1>2, <1>4

LEMMA ReachedBasics ==
  ASSUME NEW f, NEW D
  PROVE  /\ ReachedWithout(f, D) \subseteq Regions \ D
         /\ Start \notin D => Start \in ReachedWithout(f, D)
<1>1. PICK W \in [Nat -> SUBSET Regions] :
        IsWithin(W, f, D) /\ ReachedWithout(f, D) = W[Cardinality(Regions)]
  BY ReachedUnfolds
<1>2. /\ W[0] = {Start} \ D
      /\ \A k \in Nat : W[k + 1] = W[k] \cup {s \in Regions \ D : \E v \in W[k] : GoesTo(f, v, s)}
  BY <1>1, WithinSteps
<1>. DEFINE Good == {k \in Nat : /\ W[k] \subseteq Regions \ D
                                 /\ Start \notin D => Start \in W[k]}
<1>3. 0 \in Good
  BY <1>2, RegionsAssumption
<1>4. ASSUME NEW k \in Nat, k \in Good PROVE k + 1 \in Good
  BY <1>2, <1>4
<1>5. \A k \in Nat : k \in Good
  <2>. HIDE DEF Good
  <2>. QED
    BY <1>3, <1>4, Induction
<1>6. Cardinality(Regions) \in Nat
  BY RegionsAssumption, FS_CardinalityType
<1>. QED
  BY <1>1, <1>5, <1>6

(* It is the least such set. *)
LEMMA ReachedIsLeast ==
  ASSUME NEW f, NEW D, NEW S, Start \notin D => Start \in S,
         \A u \in S, r \in Regions \ D : GoesTo(f, u, r) => r \in S
  PROVE  ReachedWithout(f, D) \subseteq S
<1>1. PICK W \in [Nat -> SUBSET Regions] :
        IsWithin(W, f, D) /\ ReachedWithout(f, D) = W[Cardinality(Regions)]
  BY ReachedUnfolds
<1>2. /\ W[0] = {Start} \ D
      /\ \A k \in Nat : W[k + 1] = W[k] \cup {s \in Regions \ D : \E v \in W[k] : GoesTo(f, v, s)}
  BY <1>1, WithinSteps
<1>. DEFINE Good == {k \in Nat : W[k] \subseteq S}
<1>3. 0 \in Good
  BY <1>2
<1>4. ASSUME NEW k \in Nat, k \in Good PROVE k + 1 \in Good
  BY <1>2, <1>4
<1>5. \A k \in Nat : k \in Good
  <2>. HIDE DEF Good
  <2>. QED
    BY <1>3, <1>4, Induction
<1>6. Cardinality(Regions) \in Nat
  BY RegionsAssumption, FS_CardinalityType
<1>. QED
  BY <1>1, <1>5, <1>6

(* A region on every path to a region on every path is on every path.      *)
LEMMA DominationIsTransitive ==
  ASSUME NEW f, NEW a, NEW b, NEW c, TrulyDominates(f, a, b), TrulyDominates(f, b, c)
  PROVE  TrulyDominates(f, a, c)
<1>. DEFINE S == ReachedWithout(f, {a}) \cap ReachedWithout(f, {b})
<1>1. b \notin ReachedWithout(f, {a}) /\ c \notin ReachedWithout(f, {b})
  BY DEF TrulyDominates
<1>2. Start \notin {a} => Start \in S
  BY <1>1, ReachedBasics
<1>3. ASSUME NEW u \in S, NEW r \in Regions \ {a}, GoesTo(f, u, r) PROVE r \in S
  <2>1. r \in ReachedWithout(f, {a})
    BY <1>3, ReachedIsClosed
  <2>2. r \in Regions \ {b}
    BY <1>1, <2>1
  <2>. QED
    BY <1>3, <2>1, <2>2, ReachedIsClosed
<1>4. ReachedWithout(f, {a}) \subseteq S
  <2>. HIDE DEF S
  <2>. QED
    BY <1>2, <1>3, ReachedIsLeast
<1>. QED
  BY <1>1, <1>4 DEF TrulyDominates
-----------------------------------------------------------------------------
(* Following a table whose entries point no higher than their own place.   *)
Falls(f) == f \in Seq(Nat) /\ \A j \in 1..Len(f) : f[j] <= j - 1

IsUpwards(up, f, i) == up = [k \in Nat |-> IF k = 0 THEN i ELSE f[up[k - 1] + 1]]

(* The places of a table, counted from 0, and the table as a step on them. *)
Places(f) == 0..(Len(f) - 1)

Step(f) == [j \in Places(f) |-> f[j + 1]]

LEMMA FallsType ==
  ASSUME NEW f, Falls(f)
  PROVE  /\ f \in Seq(Nat) /\ Len(f) \in Nat
         /\ \A j \in Places(f) : f[j + 1] \in Places(f) /\ f[j + 1] <= j /\ j \in Nat
<1>1. f \in Seq(Nat) /\ Len(f) \in Nat /\ \A j \in 1..Len(f) : f[j] \in Nat /\ f[j] <= j - 1
  BY DEF Falls
<1>2. \A j \in Places(f) : j + 1 \in 1..Len(f) /\ (j + 1) - 1 = j
  BY <1>1 DEF Places
<1>. QED
  BY <1>1, <1>2 DEF Places

LEMMA UpwardsSteps ==
  ASSUME NEW f, NEW i, NEW up, IsUpwards(up, f, i)
  PROVE  up[0] = i /\ \A k \in Nat : up[k + 1] = f[up[k] + 1]
<1>1. ASSUME NEW k \in Nat PROVE up[k] = IF k = 0 THEN i ELSE f[up[k - 1] + 1]
  BY DEF IsUpwards
<1>2. up[0] = i
  BY <1>1
<1>3. ASSUME NEW k \in Nat PROVE up[k + 1] = f[up[k] + 1]
  <2>1. k + 1 \in Nat /\ k + 1 # 0 /\ (k + 1) - 1 = k
    OBVIOUS
  <2>2. up[k + 1] = IF k + 1 = 0 THEN i ELSE f[up[(k + 1) - 1] + 1]
    BY <1>1, <2>1
  <2>. QED
    BY <2>1, <2>2
<1>. QED
  BY <1>2, <1>3

LEMMA AncestryUnfolds ==
  ASSUME NEW f, Falls(f), NEW i \in Places(f)
  PROVE  \E up \in [Nat -> Places(f)] :
           IsUpwards(up, f, i) /\ Ancestry(f, i) = {up[k] : k \in 0..Len(f)}
<1>. DEFINE IsIt(up) == up = [k \in Nat |-> IF k = 0 THEN i ELSE f[up[k - 1] + 1]]
            up0 == CHOOSE up : IsIt(up)
<1>1. Ancestry(f, i) = {up0[k] : k \in 0..Len(f)}
  BY Zenon DEF Ancestry
<1>2. Step(f) \in [Places(f) -> Places(f)]
  BY FallsType DEF Step
<1>3. PICK u \in [Nat -> Places(f)] : u[0] = i /\ \A k \in Nat : u[k + 1] = Step(f)[u[k]]
  BY <1>2, IterationExists
<1>4. IsUpwards(u, f, i)
  <2>1. ASSUME NEW k \in Nat PROVE u[k] = IF k = 0 THEN i ELSE f[u[k - 1] + 1]
    <3>1. CASE k = 0
      BY <1>3, <3>1
    <3>2. CASE k # 0
      <4>1. k - 1 \in Nat /\ (k - 1) + 1 = k
        BY <3>2
      <4>2. u[(k - 1) + 1] = Step(f)[u[k - 1]] /\ u[k - 1] \in Places(f)
        BY <1>3, <4>1
      <4>3. u[k] = Step(f)[u[k - 1]]
        BY <4>1, <4>2
      <4>. QED
        BY <3>2, <4>2, <4>3 DEF Step
    <3>. QED
      BY <3>1, <3>2
  <2>2. u = [k \in Nat |-> u[k]]
    OBVIOUS
  <2>. QED
    BY <2>1, <2>2 DEF IsUpwards
<1>5. IsIt(u)
  BY <1>4 DEF IsUpwards
<1>6. IsIt(up0)
  BY <1>5
<1>. HIDE DEF up0
<1>7. IsUpwards(up0, f, i)
  BY <1>6 DEF IsUpwards
<1>8. up0 \in [Nat -> Places(f)]
  <2>. DEFINE Good == {k \in Nat : up0[k] \in Places(f)}
  <2>1. 0 \in Good
    <3>1. up0[0] = i
      BY <1>7, UpwardsSteps
    <3>. QED
      BY <3>1
  <2>2. ASSUME NEW k \in Nat, k \in Good PROVE k + 1 \in Good
    <3>1. up0[k] \in Places(f) /\ up0[k + 1] = f[up0[k] + 1]
      BY <1>7, <2>2, UpwardsSteps
    <3>2. f[up0[k] + 1] \in Places(f)
      BY <3>1, FallsType
    <3>. QED
      BY <3>1, <3>2
  <2>3. \A k \in Nat : k \in Good
    <3>. HIDE DEF Good
    <3>. QED
      BY <2>1, <2>2, Induction
  <2>4. up0 = [k \in Nat |-> up0[k]]
    BY <1>7 DEF IsUpwards
  <2>. QED
    BY <2>3, <2>4
<1>. QED
  BY <1>1, <1>7, <1>8

(* What is met upwards from i, step by step. *)
IsMet(up, f, i) ==
  /\ up[0] = i
  /\ \A k \in Nat : up[k] \in Places(f) /\ up[k + 1] = f[up[k] + 1]
  /\ \A j : j \in Ancestry(f, i) <=> \E k \in 0..Len(f) : j = up[k]

LEMMA AncestryIsMet ==
  ASSUME NEW f, Falls(f), NEW i \in Places(f)
  PROVE  \E up : IsMet(up, f, i)
<1>1. PICK up \in [Nat -> Places(f)] :
        IsUpwards(up, f, i) /\ Ancestry(f, i) = {up[k] : k \in 0..Len(f)}
  BY AncestryUnfolds
<1>2. up[0] = i
  BY <1>1, UpwardsSteps
<1>3. ASSUME NEW k \in Nat PROVE up[k] \in Places(f) /\ up[k + 1] = f[up[k] + 1]
  <2>1. \A m \in Nat : up[m + 1] = f[up[m] + 1]
    <3>1. IsUpwards(up, f, i)
      BY <1>1
    <3>. QED
      BY ONLY <3>1, UpwardsSteps
  <2>2. up[k] \in Places(f)
    OBVIOUS
  <2>. QED
    BY <2>1, <2>2
<1>4. \A j : j \in Ancestry(f, i) <=> \E k \in 0..Len(f) : j = up[k]
  BY <1>1
<1>. QED
  BY <1>2, <1>3, <1>4 DEF IsMet

LEMMA AncestryIsClosed ==
  ASSUME NEW f, Falls(f), NEW i \in Places(f)
  PROVE  /\ i \in Ancestry(f, i)
         /\ \A j \in Ancestry(f, i) :
              /\ j \in Places(f) /\ j <= i
              /\ f[j + 1] \in Ancestry(f, i)
<1>1. PICK up : IsMet(up, f, i)
  BY AncestryIsMet
<1>2. up[0] = i /\ \A k \in Nat : up[k] \in Places(f) /\ up[k + 1] = f[up[k] + 1]
  BY <1>1 DEF IsMet
<1>3. \A j : j \in Ancestry(f, i) <=> \E k \in 0..Len(f) : j = up[k]
  BY <1>1 DEF IsMet
<1>4. Len(f) \in Nat /\ i \in Nat /\ i < Len(f)
  BY FallsType DEF Places
<1>5. ASSUME NEW k \in Nat PROVE up[k] \in Nat /\ up[k] < Len(f) /\ up[k + 1] \in Nat /\ up[k + 1] <= up[k]
  <2>1. up[k] \in Places(f) /\ up[k + 1] = f[up[k] + 1]
    BY <1>2
  <2>2. up[k + 1] \in Places(f) /\ up[k + 1] <= up[k]
    BY <2>1, FallsType
  <2>3. \A j \in Places(f) : j \in Nat /\ j < Len(f)
    BY <1>4 DEF Places
  <2>. QED
    BY <2>1, <2>2, <2>3
<1>. DEFINE Good == {k \in Nat : up[k] <= i /\ (up[k + 1] = up[k] \/ up[k] + k <= i)}
<1>6. \A k \in Nat : k \in Good
  <2>1. 0 \in Good
    <3>1. up[0] <= i /\ up[0] + 0 <= i
      BY <1>2, <1>4
    <3>. QED
      BY <3>1
  <2>2. ASSUME NEW k \in Nat, k \in Good PROVE k + 1 \in Good
    <3>1. CASE up[k + 1] = up[k]
      <4>1. up[(k + 1) + 1] = f[up[k + 1] + 1] /\ up[k + 1] = f[up[k] + 1]
        BY <1>2
      <4>2. up[(k + 1) + 1] = up[k + 1]
        BY <3>1, <4>1
      <4>. QED
        BY <2>2, <3>1, <4>2
    <3>2. CASE up[k + 1] # up[k]
      <4>0. up[k] \in Nat /\ up[k + 1] \in Nat /\ up[k + 1] <= up[k]
        BY <1>5
      <4>1. up[k] + k <= i /\ up[k + 1] < up[k] /\ up[k] \in Nat /\ up[k + 1] \in Nat
        BY <2>2, <3>2, <4>0
      <4>2. up[k + 1] <= i /\ up[k + 1] + (k + 1) <= i
        BY <1>4, <4>1
      <4>. QED
        BY <4>2
    <3>. QED
      BY <3>1, <3>2
  <2>. HIDE DEF Good
  <2>. QED
    BY <2>1, <2>2, Induction
<1>7. up[Len(f) + 1] = up[Len(f)]
  <2>1. Len(f) \in Good /\ up[Len(f)] \in Nat
    BY <1>4, <1>5, <1>6
  <2>. QED
    BY <1>4, <2>1
<1>8. i \in Ancestry(f, i)
  <2>1. 0 \in 0..Len(f)
    BY <1>4
  <2>. QED
    BY <1>2, <1>3, <2>1
<1>9. ASSUME NEW j \in Ancestry(f, i) PROVE j \in Places(f) /\ j <= i /\ f[j + 1] \in Ancestry(f, i)
  <2>1. PICK k \in 0..Len(f) : j = up[k]
    BY <1>3
  <2>2. k \in Nat /\ k \in Good
    BY <1>4, <1>6
  <2>3. f[j + 1] = up[k + 1]
    BY <1>2, <2>1, <2>2
  <2>4. CASE k = Len(f)
    BY <1>2, <1>7, <2>1, <2>2, <2>3, <2>4
  <2>5. CASE k # Len(f)
    <3>1. k + 1 \in 0..Len(f)
      BY <1>4, <2>5
    <3>. QED
      BY <1>2, <1>3, <2>1, <2>2, <2>3, <3>1
  <2>. QED
    BY <2>4, <2>5
<1>. QED
  BY <1>8, <1>9

LEMMA AncestryIsLeast ==
  ASSUME NEW f, Falls(f), NEW i \in Places(f), NEW S, i \in S,
         \A j \in S : j \in Places(f) => f[j + 1] \in S
  PROVE  Ancestry(f, i) \subseteq S
<1>1. PICK up : IsMet(up, f, i)
  BY AncestryIsMet
<1>2. up[0] = i /\ \A k \in Nat : up[k] \in Places(f) /\ up[k + 1] = f[up[k] + 1]
  BY <1>1 DEF IsMet
<1>3. \A j : j \in Ancestry(f, i) <=> \E k \in 0..Len(f) : j = up[k]
  BY <1>1 DEF IsMet
<1>. DEFINE Good == {k \in Nat : up[k] \in S}
<1>4. 0 \in Good
  BY <1>2
<1>5. ASSUME NEW k \in Nat, k \in Good PROVE k + 1 \in Good
  BY <1>2, <1>5
<1>6. \A k \in Nat : k \in Good
  <2>. HIDE DEF Good
  <2>. QED
    BY <1>4, <1>5, Induction
<1>7. Len(f) \in Nat
  BY FallsType
<1>. QED
  BY <1>3, <1>6, <1>7

LEMMA AncestryIsTransitive ==
  ASSUME NEW f, Falls(f), NEW i \in Places(f), NEW j \in Ancestry(f, i)
  PROVE  Ancestry(f, j) \subseteq Ancestry(f, i)
BY AncestryIsClosed, AncestryIsLeast

(* Who has the entry of i among its ancestors also has i or comes from it. *)
LEMMA AncestryStep ==
  ASSUME NEW f, Falls(f), NEW i \in Places(f)
  PROVE  Ancestry(f, i) = {i} \cup Ancestry(f, f[i + 1])
<1>1. f[i + 1] \in Ancestry(f, i) /\ i \in Ancestry(f, i)
  BY AncestryIsClosed
<1>2. f[i + 1] \in Places(f)
  BY <1>1, AncestryIsClosed
<1>3. Ancestry(f, f[i + 1]) \subseteq Ancestry(f, i)
  BY <1>1, AncestryIsTransitive
<1>. DEFINE S == {i} \cup Ancestry(f, f[i + 1])
<1>4. i \in S /\ \A j \in S : f[j + 1] \in S
  BY <1>2, AncestryIsClosed
<1>5. Ancestry(f, i) \subseteq S
  <2>. HIDE DEF S
  <2>. QED
    BY <1>4, AncestryIsLeast
<1>. QED
  BY <1>1, <1>3, <1>5

(* A longer table adds nothing to the ancestors of what it had.            *)
LEMMA AncestryOfPrefix ==
  ASSUME NEW f, NEW h, Falls(f), Falls(h), Len(f) <= Len(h),
         \A j \in 1..Len(f) : h[j] = f[j], NEW i \in Places(f)
  PROVE  Ancestry(h, i) = Ancestry(f, i)
<1>0. Len(f) \in Nat /\ Len(h) \in Nat /\ i \in Places(h)
  BY FallsType DEF Places
<1>1. Ancestry(h, i) \subseteq Ancestry(f, i)
  <2>1. \A j \in Ancestry(f, i) : j \in Places(f) /\ f[j + 1] \in Ancestry(f, i)
    BY AncestryIsClosed
  <2>2. \A j \in Ancestry(f, i) : j + 1 \in 1..Len(f)
    BY <1>0, <2>1 DEF Places
  <2>3. \A j \in Ancestry(f, i) : h[j + 1] \in Ancestry(f, i)
    BY <2>1, <2>2
  <2>. QED
    BY <1>0, <2>3, AncestryIsClosed, AncestryIsLeast
<1>2. Ancestry(f, i) \subseteq Ancestry(h, i)
  <2>. DEFINE S == Ancestry(h, i)
  <2>1. i \in S /\ \A j \in S : h[j + 1] \in S
    BY <1>0, AncestryIsClosed
  <2>2. \A j \in S : j \in Places(f) => f[j + 1] \in S
    <3>1. \A j \in Places(f) : j + 1 \in 1..Len(f)
      BY <1>0 DEF Places
    <3>. QED
      BY <2>1, <3>1
  <2>. HIDE DEF S
  <2>3. Ancestry(f, i) \subseteq S
    BY <2>1, <2>2, AncestryIsLeast
  <2>. QED
    BY <2>3 DEF S
<1>. QED
  BY <1>1, <1>2
-----------------------------------------------------------------------------
(* The walk.                                                               *)

(* The regions that are left, the others that are visited, and the topmost *)
(* entry of each of those, from which it was visited.                      *)
Left == {rpo[i] : i \in DOMAIN rpo}

Open == Visited \ Left

On(p) == work[p].region

Holds(p) ==
  /\ p \in DOMAIN work /\ On(p) \in Open
  /\ \A q \in DOMAIN work : q > p => On(q) # On(p)

OpenIsHeld == \A r \in Open : \E p \in DOMAIN work : Holds(p) /\ On(p) = r

EntriesAreEdges ==
  \A j \in DOMAIN work :
    IF j = 1 THEN work[j] = [from |-> 0, region |-> Start]
    ELSE \E p \in DOMAIN work :
           Holds(p) /\ p < j /\ number[On(p)] = work[j].from /\ GoesTo(flow, On(p), On(j))

EntriesAreLater ==
  \A p, j \in DOMAIN work : Holds(p) /\ p < j => number[On(p)] <= work[j].from

HeldAreOneLine ==
  \A p, q \in DOMAIN work : Holds(p) /\ Holds(q) /\ p < q =>
    number[On(p)] < number[On(q)] /\ IsTreeAncestor(On(p), On(q))

LeftIsComplete ==
  \A u \in Left : \A r \in Regions : GoesTo(flow, u, r) => r \in Visited

HeldIsComplete ==
  \A p \in DOMAIN work : Holds(p) =>
    \A r \in Regions : GoesTo(flow, On(p), r) =>
      r \in Visited \/ \E j \in DOMAIN work : j > p /\ On(j) = r

ForwardIsDown ==
  \A u, r \in Visited :
    GoesTo(flow, u, r) /\ number[u] < number[r] => IsTreeAncestor(u, r)

LeavesLater ==
  \A u \in Left : \A r \in Visited : GoesTo(flow, u, r) =>
    IsTreeAncestor(r, u) \/ (r \in Left /\ FirstLeft(r) < FirstLeft(u))

MetIsReached == Visited \cup {On(j) : j \in DOMAIN work} \subseteq ReachedWithout(flow, {})

StartIsMet == order = <<>> => work # <<>>

WalkInv ==
  /\ TypeOK /\ NumbersAgree
  /\ OpenIsHeld /\ EntriesAreEdges /\ EntriesAreLater /\ HeldAreOneLine
  /\ LeftIsComplete /\ HeldIsComplete /\ ForwardIsDown /\ LeavesLater
  /\ MetIsReached /\ StartIsMet

LEMMA FlowFacts ==
  ASSUME NEW f \in Flows, NEW u \in Regions
  PROVE  /\ \A i \in DOMAIN f[u].to : f[u].to[i] \in Targets /\ i \in {1, 2}
         /\ \A r : GoesTo(f, u, r) => r \in Targets /\ \E i \in {1, 2} \cap DOMAIN f[u].to : f[u].to[i] = r
         /\ f[u].kind \in {"jmp", "ret", "stop", "if", "none"}
<1>1. f[u] \in Terminators \cup {EndTerminator}
  BY DEF Flows
<1>2. End \in Targets
  BY RegionsAssumption DEF Targets
<1>3. CASE f[u] \in [kind : {"jmp"}, to : {<<r>> : r \in Targets}]
  <2>1. PICK r \in Targets : f[u].to = <<r>>
    BY <1>3
  <2>2. f[u].kind = "jmp"
    BY <1>3
  <2>. QED
    BY <2>1, <2>2 DEF GoesTo
<1>4. CASE f[u] = [kind |-> "ret", to |-> <<End>>]
  BY <1>2, <1>4 DEF GoesTo
<1>5. CASE f[u] \in [kind : {"if"}, to : Targets \X Targets]
  <2>1. f[u].to \in Targets \X Targets /\ f[u].kind = "if"
    BY <1>5
  <2>2. f[u].to = <<f[u].to[1], f[u].to[2]>> /\ f[u].to[1] \in Targets /\ f[u].to[2] \in Targets
    BY <2>1
  <2>3. DOMAIN f[u].to = {1, 2}
    <3>1. DOMAIN f[u].to = 1..2
      BY <2>2
    <3>. QED
      BY <3>1
  <2>. QED
    BY <2>1, <2>2, <2>3 DEF GoesTo
<1>6. CASE f[u] = EndTerminator
  BY <1>6 DEF EndTerminator, GoesTo
<1>7. CASE f[u] = [kind |-> "stop", to |-> <<>>]
  BY <1>7 DEF GoesTo
<1>. QED
  BY <1>1, <1>3, <1>4, <1>5, <1>6, <1>7 DEF Terminators

Entry == [from : Nat, region : Regions]

LEMMA PushedFacts ==
  ASSUME TypeOK, Top.region \in Regions, NEW i \in {1, 2}
  PROVE  /\ Pushed(i) \in Seq(Entry)
         /\ \A j \in 1..Len(Pushed(i)) :
              /\ Pushed(i)[j].from = Len(order)
              /\ Pushed(i)[j].region \notin Visited \cup {Top.region}
              /\ GoesTo(flow, Top.region, Pushed(i)[j].region)
         /\ \A r : i \in DOMAIN flow[Top.region].to /\ flow[Top.region].to[i] = r
                     /\ r \notin Visited \cup {Top.region} =>
              Len(Pushed(i)) = 1 /\ Pushed(i)[1].region = r
<1>. DEFINE to == flow[Top.region].to
<1>1. i \in DOMAIN to => to[i] \in Regions /\ GoesTo(flow, Top.region, to[i])
  BY FlowFacts DEF TypeOK, Targets, GoesTo
<1>2. Len(order) \in Nat
  BY DEF TypeOK
<1>3. CASE i \in DOMAIN to /\ to[i] \notin Visited \cup {Top.region}
  <2>1. Pushed(i) = <<[from |-> Len(order), region |-> to[i]]>>
    BY <1>3 DEF Pushed, NewEntry, NewNumber, Successors
  <2>. DEFINE e == [from |-> Len(order), region |-> to[i]]
  <2>2. e \in Entry /\ e.from = Len(order) /\ e.region = to[i]
    BY <1>1, <1>2, <1>3 DEF Entry
  <2>. HIDE DEF e
  <2>3. Pushed(i) = <<e>>
    BY <2>1 DEF e
  <2>4. Len(Pushed(i)) = 1 /\ Pushed(i)[1] = e /\ Pushed(i) \in Seq(Entry)
    BY <2>2, <2>3
  <2>. QED
    BY <1>1, <1>3, <2>2, <2>4
<1>4. CASE ~(i \in DOMAIN to /\ to[i] \notin Visited \cup {Top.region})
  <2>1. Pushed(i) = <<>>
    BY <1>4 DEF Pushed, Successors
  <2>. QED
    BY <1>4, <2>1
<1>. QED
  BY <1>3, <1>4

LEMMA TopFacts ==
  ASSUME TypeOK, work # <<>>
  PROVE  /\ Len(work) \in Nat /\ Len(work) \in DOMAIN work /\ DOMAIN work = 1..Len(work)
         /\ On(Len(work)) = Top.region /\ Top.region \in Regions /\ Top.from \in Nat
         /\ work \in Seq(Entry)
<1>1. work \in Seq(Entry)
  BY DEF TypeOK, Entry
<1>2. Len(work) \in Nat /\ DOMAIN work = 1..Len(work) /\ Len(work) \in 1..Len(work)
  BY <1>1
<1>3. work[Len(work)] \in Entry
  BY <1>1, <1>2
<1>. QED
  BY <1>1, <1>2, <1>3 DEF On, Top, Entry

LEMMA VisitPushes ==
  ASSUME TypeOK, Visit
  PROVE  /\ work' \in Seq(Entry) /\ Len(work') \in Nat /\ DOMAIN work' = 1..Len(work')
         /\ Len(work') >= Len(work)
         /\ \A j \in 1..Len(work) : work'[j] = work[j]
         /\ \A j \in 1..Len(work') : j > Len(work) =>
              /\ work'[j].from = Len(order)
              /\ work'[j].region \notin Visited \cup {Top.region}
              /\ GoesTo(flow, Top.region, work'[j].region)
         /\ \A r : GoesTo(flow, Top.region, r) /\ r \notin Visited \cup {Top.region} =>
              \E j \in 1..Len(work') : j > Len(work) /\ work'[j].region = r
<1>1. /\ Len(work) \in Nat /\ Top.region \in Regions /\ work \in Seq(Entry)
      /\ work' = work \o Pushed(1) \o Pushed(2)
  BY TopFacts DEF Visit
<1>. DEFINE a == Pushed(1)
            b == Pushed(2)
            n == Len(work)
<1>2. a \in Seq(Entry) /\ b \in Seq(Entry)
  BY <1>1, PushedFacts
<1>3. /\ \A j \in 1..Len(a) : /\ a[j].from = Len(order) /\ a[j].region \notin Visited \cup {Top.region}
                              /\ GoesTo(flow, Top.region, a[j].region)
      /\ \A j \in 1..Len(b) : /\ b[j].from = Len(order) /\ b[j].region \notin Visited \cup {Top.region}
                              /\ GoesTo(flow, Top.region, b[j].region)
  BY <1>1, PushedFacts
<1>4. \A r : GoesTo(flow, Top.region, r) /\ r \notin Visited \cup {Top.region} =>
        (Len(a) = 1 /\ a[1].region = r) \/ (Len(b) = 1 /\ b[1].region = r)
  <2>. SUFFICES ASSUME NEW r, GoesTo(flow, Top.region, r), r \notin Visited \cup {Top.region}
                PROVE  (Len(a) = 1 /\ a[1].region = r) \/ (Len(b) = 1 /\ b[1].region = r)
    OBVIOUS
  <2>0. flow \in Flows
    BY DEF TypeOK
  <2>1. PICK i \in {1, 2} \cap DOMAIN flow[Top.region].to : flow[Top.region].to[i] = r
    BY <1>1, <2>0, FlowFacts
  <2>2. CASE i = 1
    BY <1>1, <2>1, <2>2, PushedFacts
  <2>3. CASE i = 2
    BY <1>1, <2>1, <2>3, PushedFacts
  <2>. QED
    BY <2>1, <2>2, <2>3
<1>. HIDE DEF a, b
<1>. DEFINE c == work \o a
<1>5. work' = c \o b
  BY <1>1 DEF a, b
<1>6. /\ c \in Seq(Entry) /\ Len(a) \in Nat /\ Len(c) = n + Len(a)
      /\ \A j \in 1..Len(c) : c[j] = IF j <= n THEN work[j] ELSE a[j - n]
  <2>1. Len(a) \in Nat
    BY <1>2
  <2>2. /\ c \in Seq(Entry) /\ Len(c) = n + Len(a)
        /\ \A j \in 1..(n + Len(a)) : c[j] = IF j <= n THEN work[j] ELSE a[j - n]
    BY ONLY <1>1, <1>2, ConcatProperties
  <2>. HIDE DEF c
  <2>. QED
    BY <2>1, <2>2
<1>. HIDE DEF c
<1>7. /\ work' \in Seq(Entry) /\ Len(b) \in Nat /\ Len(work') = Len(c) + Len(b)
      /\ \A j \in 1..Len(work') : work'[j] = IF j <= Len(c) THEN c[j] ELSE b[j - Len(c)]
  <2>1. Len(b) \in Nat
    BY <1>2
  <2>2. /\ c \o b \in Seq(Entry) /\ Len(c \o b) = Len(c) + Len(b)
        /\ \A j \in 1..(Len(c) + Len(b)) : (c \o b)[j] = IF j <= Len(c) THEN c[j] ELSE b[j - Len(c)]
    <3>1. c \in Seq(Entry) /\ b \in Seq(Entry)
      BY <1>2, <1>6
    <3>. QED
      BY ONLY <3>1, ConcatProperties
  <2>. QED
    BY <1>5, <2>1, <2>2
<1>8. /\ Len(work') \in Nat /\ Len(work') >= n
      /\ \A j \in 1..n : work'[j] = work[j]
  BY <1>1, <1>6, <1>7
<1>9. /\ Len(a) = 1 => n + 1 \in 1..Len(work') /\ n + 1 > n /\ work'[n + 1] = a[1]
      /\ Len(b) = 1 => Len(c) + 1 \in 1..Len(work') /\ Len(c) + 1 > n /\ work'[Len(c) + 1] = b[1]
  <2>1. ASSUME Len(a) = 1 PROVE n + 1 \in 1..Len(work') /\ n + 1 > n /\ work'[n + 1] = a[1]
    <3>1. n + 1 \in 1..Len(c) /\ n + 1 \in 1..Len(work') /\ n + 1 > n /\ (n + 1) - n = 1 /\ n + 1 <= Len(c)
      BY <1>1, <1>6, <1>7, <2>1
    <3>. QED
      BY <1>6, <1>7, <3>1
  <2>2. ASSUME Len(b) = 1 PROVE Len(c) + 1 \in 1..Len(work') /\ Len(c) + 1 > n /\ work'[Len(c) + 1] = b[1]
    <3>1. /\ Len(c) + 1 \in 1..Len(work') /\ Len(c) + 1 > n /\ (Len(c) + 1) - Len(c) = 1
          /\ ~(Len(c) + 1 <= Len(c))
      BY <1>1, <1>6, <1>7, <2>2
    <3>. QED
      BY <1>7, <3>1
  <2>. QED
    BY <2>1, <2>2
<1>10. ASSUME NEW j \in 1..Len(work'), j > n
       PROVE  /\ work'[j].from = Len(order) /\ work'[j].region \notin Visited \cup {Top.region}
              /\ GoesTo(flow, Top.region, work'[j].region)
  <2>1. CASE j <= Len(c)
    <3>1. j \in 1..Len(c) /\ ~(j <= n) /\ j - n \in 1..Len(a)
      BY <1>1, <1>6, <1>10, <2>1
    <3>2. work'[j] = a[j - n]
      BY <1>6, <1>7, <2>1, <3>1
    <3>. QED
      BY <1>3, <3>1, <3>2
  <2>2. CASE ~(j <= Len(c))
    <3>1. j - Len(c) \in 1..Len(b)
      BY <1>1, <1>6, <1>7, <2>2
    <3>2. work'[j] = b[j - Len(c)]
      BY <1>7, <2>2
    <3>. QED
      BY <1>3, <3>1, <3>2
  <2>. QED
    BY <2>1, <2>2
<1>11. ASSUME NEW r, GoesTo(flow, Top.region, r), r \notin Visited \cup {Top.region}
       PROVE  \E j \in 1..Len(work') : j > n /\ work'[j].region = r
  <2>1. CASE Len(a) = 1 /\ a[1].region = r
    BY <1>9, <2>1
  <2>2. CASE Len(b) = 1 /\ b[1].region = r
    BY <1>9, <2>2
  <2>. QED
    BY <1>4, <1>11, <2>1, <2>2
<1>. QED
  BY <1>1, <1>7, <1>8, <1>10, <1>11

LEMMA VisitFacts ==
  ASSUME TypeOK, Visit
  PROVE  /\ Top.region \in Regions \ Visited /\ work # <<>>
         /\ flow' = flow /\ rpo' = rpo
         /\ Visited' = Visited \cup {Top.region} /\ number' \in [Visited' -> Nat]
         /\ number'[Top.region] = Len(order)
         /\ \A r \in Visited : number'[r] = number[r]
         /\ Len(order) \in Nat
         /\ order' \in Seq(Regions) /\ Len(order') = Len(order) + 1
         /\ order'[Len(order) + 1] = Top.region
         /\ \A i \in 1..Len(order) : order'[i] = order[i]
         /\ parent' \in Seq(Nat) /\ Len(parent') = Len(parent) + 1
         /\ parent'[Len(parent) + 1] = Top.from
         /\ \A i \in 1..Len(parent) : parent'[i] = parent[i]
<1>1. work # <<>> /\ Top.region \notin Visited /\ flow' = flow /\ rpo' = rpo
  BY DEF Visit
<1>2. Top.region \in Regions /\ Top.from \in Nat
  BY <1>1, TopFacts
<1>3. number' = [r \in Visited \cup {Top.region} |-> IF r \in Visited THEN number[r] ELSE Len(order)]
  BY DEF Visit, NewNumber
<1>4. number \in [Visited -> Nat] /\ Len(order) \in Nat /\ order \in Seq(Regions) /\ parent \in Seq(Nat)
  BY DEF TypeOK
<1>5. /\ Visited' = Visited \cup {Top.region} /\ number' \in [Visited' -> Nat]
      /\ number'[Top.region] = Len(order)
      /\ \A r \in Visited : number'[r] = number[r]
  BY <1>1, <1>3, <1>4 DEF Visited
<1>6. order' = Append(order, Top.region) /\ parent' = Append(parent, Top.from)
  BY DEF Visit
<1>7. /\ order' \in Seq(Regions) /\ Len(order') = Len(order) + 1
      /\ order'[Len(order) + 1] = Top.region
      /\ \A i \in 1..Len(order) : order'[i] = order[i]
  <2>. HIDE DEF Top
  <2>. QED
    BY <1>2, <1>4, <1>6, AppendProperties
<1>8. /\ parent' \in Seq(Nat) /\ Len(parent') = Len(parent) + 1
      /\ parent'[Len(parent) + 1] = Top.from
      /\ \A i \in 1..Len(parent) : parent'[i] = parent[i]
  BY <1>2, <1>4, <1>6, AppendProperties
<1>. QED
  BY <1>1, <1>2, <1>4, <1>5, <1>7, <1>8

LEMMA ParentsFall ==
  ASSUME TypeOK, NumbersAgree
  PROVE  /\ Falls(parent) /\ Places(parent) = 0..(Len(order) - 1) /\ Len(order) \in Nat
         /\ \A r \in Visited : number[r] \in Places(parent) /\ number[r] \in Nat
<1>1. Len(parent) = Len(order) /\ parent \in Seq(Nat) /\ Len(order) \in Nat /\ DOMAIN order = 1..Len(order)
  BY DEF TypeOK, NumbersAgree
<1>2. \A i \in 1..Len(order) : parent[i] <= i - 1
  BY <1>1 DEF NumbersAgree, Numbers
<1>3. \A r \in Visited : number[r] \in Nat /\ number[r] < Len(order)
  BY DEF TypeOK, NumbersAgree
<1>. QED
  BY <1>1, <1>2, <1>3 DEF Falls, Places

LEMMA HoldsFacts ==
  ASSUME TypeOK, NEW p, Holds(p)
  PROVE  p \in 1..Len(work) /\ p \in Nat /\ On(p) \in Visited /\ On(p) \in Open
BY DEF TypeOK, Holds, Open

(* Where the new region comes from: the start, or a region that is open.   *)
LEMMA VisitComesFrom ==
  ASSUME TypeOK, NumbersAgree, EntriesAreEdges, Visit
  PROVE  \/ Len(work) = 1 /\ Len(order) = 0 /\ Top.region = Start /\ Top.from = 0
         \/ /\ Len(work) > 1 /\ Len(order) > 0
            /\ \E p : /\ Holds(p) /\ p < Len(work) /\ number[On(p)] = Top.from
                      /\ GoesTo(flow, On(p), Top.region)
<1>1. /\ Top.region \notin Visited /\ Len(work) \in Nat /\ Len(work) \in DOMAIN work
      /\ On(Len(work)) = Top.region /\ work[Len(work)].from = Top.from
      /\ DOMAIN work = 1..Len(work)
  BY TopFacts, VisitFacts DEF Top
<1>2. CASE Len(work) = 1
  <2>1. work[Len(work)] = [from |-> 0, region |-> Start]
    BY <1>1, <1>2 DEF EntriesAreEdges
  <2>2. Top.region = Start /\ Top.from = 0
    BY <1>1, <2>1 DEF On
  <2>3. Len(order) = 0
    <3>1. Len(order) \in Nat /\ DOMAIN order = 1..Len(order)
      BY DEF TypeOK
    <3>2. 1 \in DOMAIN order => order[1] = Start /\ order[1] \in Visited
      BY DEF NumbersAgree, Numbers
    <3>. QED
      BY <1>1, <2>2, <3>1, <3>2
  <2>. QED
    BY <1>2, <2>2, <2>3
<1>3. CASE Len(work) # 1
  <2>1. PICK p \in DOMAIN work : /\ Holds(p) /\ p < Len(work) /\ number[On(p)] = work[Len(work)].from
                                 /\ GoesTo(flow, On(p), On(Len(work)))
    BY <1>1, <1>3 DEF EntriesAreEdges
  <2>2. Len(order) > 0
    <3>1. On(p) \in Visited
      BY <2>1, HoldsFacts
    <3>. QED
      BY <3>1, ParentsFall DEF NumbersAgree
  <2>3. Len(work) > 1
    BY <1>1, <1>3
  <2>. QED
    BY <1>1, <2>1, <2>2, <2>3
<1>. QED
  BY <1>2, <1>3

LEMMA VisitNumbers ==
  ASSUME TypeOK, NumbersAgree, EntriesAreEdges, Visit
  PROVE  TypeOK' /\ NumbersAgree'
<1>. DEFINE M == Len(order)
            t == Top.region
<1>1. TypeOK'
  <2>1. flow' \in Flows /\ order' \in Seq(Regions) /\ parent' \in Seq(Nat) /\ Visited' \subseteq Regions
        /\ number' \in [Visited' -> Nat]
    BY VisitFacts DEF TypeOK
  <2>2. work' \in Seq([from : Nat, region : Regions])
    BY VisitPushes DEF Entry
  <2>3. rpo' \in Seq(Visited')
    <3>1. rpo \in Seq(Visited) /\ rpo' = rpo /\ Visited \subseteq Visited'
      BY VisitFacts DEF TypeOK
    <3>. QED
      BY <3>1
  <2>. QED
    BY <2>1, <2>2, <2>3 DEF TypeOK
<1>2. /\ M \in Nat /\ Len(parent) = M /\ Len(order') = M + 1 /\ Len(parent') = M + 1
      /\ order' \in Seq(Regions) /\ t \notin Visited /\ Visited' = Visited \cup {t}
      /\ order'[M + 1] = t /\ number'[t] = M /\ parent'[M + 1] = Top.from
      /\ \A r \in Visited : number'[r] = number[r]
      /\ \A i \in 1..M : order'[i] = order[i] /\ parent'[i] = parent[i]
      /\ flow' = flow
  BY VisitFacts DEF NumbersAgree
<1>3. /\ \A i \in 1..M : order[i] \in Visited /\ number[order[i]] = i - 1
      /\ \A r \in Visited : number[r] \in Nat /\ number[r] < M /\ order[number[r] + 1] = r
      /\ \A i \in 1..M : IF i = 1 THEN order[i] = Start /\ parent[i] = 0
                         ELSE parent[i] \in Nat /\ parent[i] < i - 1 /\ GoesTo(flow, order[parent[i] + 1], order[i])
  <2>1. DOMAIN order = 1..M /\ parent \in Seq(Nat) /\ \A i \in 1..M : parent[i] \in Nat
    BY <1>2 DEF TypeOK
  <2>. QED
    BY <2>1, ParentsFall DEF NumbersAgree, Numbers
<1>4. DOMAIN order' = 1..(M + 1)
  BY <1>2
<1>5. \A i \in 1..(M + 1) : order'[i] \in Visited' /\ number'[order'[i]] = i - 1
  <2>1. \A i \in 1..(M + 1) : i \in 1..M \/ i = M + 1
    BY <1>2
  <2>. QED
    BY <1>2, <1>3, <2>1
<1>6. \A r \in Visited' : number'[r] < M + 1 /\ order'[number'[r] + 1] = r
  <2>1. \A r \in Visited : number[r] + 1 \in 1..M /\ number[r] < M + 1
    BY <1>2, <1>3
  <2>. QED
    BY <1>2, <1>3, <2>1
<1>7. ASSUME NEW i \in 1..(M + 1)
      PROVE  IF i = 1 THEN order'[i] = Start /\ parent'[i] = 0
             ELSE parent'[i] < i - 1 /\ GoesTo(flow', order'[parent'[i] + 1], order'[i])
  <2>1. CASE i \in 1..M
    <3>1. CASE i = 1
      BY <1>2, <1>3, <2>1, <3>1
    <3>2. CASE i # 1
      <4>1. parent[i] \in Nat /\ parent[i] < i - 1 /\ GoesTo(flow, order[parent[i] + 1], order[i])
        BY <1>3, <2>1, <3>2
      <4>2. parent[i] + 1 \in 1..M
        BY <1>2, <2>1, <4>1
      <4>. QED
        BY <1>2, <2>1, <3>2, <4>1, <4>2
    <3>. QED
      BY <3>1, <3>2
  <2>2. CASE i = M + 1
    <3>1. CASE M = 0 /\ t = Start /\ Top.from = 0
      BY <1>2, <2>2, <3>1
    <3>2. CASE M > 0 /\ \E p : Holds(p) /\ number[On(p)] = Top.from /\ GoesTo(flow, On(p), t)
      <4>1. PICK p : Holds(p) /\ number[On(p)] = Top.from /\ GoesTo(flow, On(p), t)
        BY <3>2
      <4>2. On(p) \in Visited
        BY <4>1, HoldsFacts
      <4>3. Top.from \in Nat /\ Top.from < M /\ order[Top.from + 1] = On(p)
        BY <1>3, <4>1, <4>2
      <4>4. Top.from + 1 \in 1..M /\ i # 1 /\ Top.from < i - 1
        BY <1>2, <2>2, <3>2, <4>3
      <4>. QED
        BY <1>2, <2>2, <4>1, <4>3, <4>4
    <3>. QED
      BY <3>1, <3>2, VisitComesFrom
  <2>. QED
    BY <1>2, <2>1, <2>2
<1>8. Len(parent') = Len(order')
  BY <1>2
<1>9. NumbersAgree'
  BY <1>2, <1>4, <1>5, <1>6, <1>7, <1>8 DEF NumbersAgree, Numbers
<1>. QED
  BY <1>1, <1>9

(* The regions that hold an entry are those that did, and the new one.     *)
LEMMA VisitHolds ==
  ASSUME TypeOK, Visit
  PROVE  /\ Left' = Left /\ Open' = Open \cup {Top.region} /\ Top.region \notin Left
         /\ \A j \in 1..Len(work) : On(j)' = On(j)
         /\ \A p : Holds(p)' <=> Holds(p) \/ p = Len(work)
<1>1. /\ rpo' = rpo /\ Visited' = Visited \cup {Top.region} /\ Top.region \notin Visited
      /\ Len(work) \in Nat /\ work # <<>>
  BY VisitFacts, TopFacts
<1>2. Left \subseteq Visited
  BY DEF TypeOK, Left
<1>3. Left' = Left
  BY <1>1 DEF Left
<1>4. Open' = Open \cup {Top.region}
  BY <1>1, <1>2, <1>3 DEF Open
<1>5. /\ DOMAIN work = 1..Len(work) /\ DOMAIN work' = 1..Len(work') /\ Len(work') \in Nat
      /\ Len(work') >= Len(work) /\ Len(work) \in 1..Len(work)
  BY <1>1, VisitPushes, TopFacts
<1>6. \A j \in 1..Len(work) : On(j)' = On(j)
  BY VisitPushes DEF On
<1>7. \A j \in 1..Len(work') : j > Len(work) => On(j)' \notin Visited'
  BY <1>1, VisitPushes DEF On
<1>8. On(Len(work)) = Top.region
  BY <1>1, TopFacts
<1>9. ASSUME NEW p, Holds(p)' PROVE Holds(p) \/ p = Len(work)
  <2>1. p \in 1..Len(work') /\ On(p)' \in Visited' /\ On(p)' \in Open'
    BY <1>5, <1>9 DEF Holds, Open
  <2>2. p \in 1..Len(work)
    BY <1>5, <1>7, <2>1
  <2>3. CASE On(p) = Top.region
    BY <1>5, <1>6, <1>8, <1>9, <2>2, <2>3 DEF Holds
  <2>4. CASE On(p) # Top.region
    <3>1. On(p) \in Open
      BY <1>4, <1>6, <2>1, <2>2, <2>4
    <3>2. \A q \in 1..Len(work) : q > p => On(q) # On(p)
      BY <1>5, <1>6, <1>9, <2>2 DEF Holds
    <3>3. p \in DOMAIN work /\ \A q \in DOMAIN work : q > p => On(q) # On(p)
      BY <1>5, <2>2, <3>2
    <3>. QED
      BY <3>1, <3>3 DEF Holds
  <2>. QED
    BY <2>3, <2>4
<1>10. ASSUME NEW p, Holds(p) \/ p = Len(work) PROVE Holds(p)'
  <2>1. p \in 1..Len(work) /\ \A q \in 1..Len(work) : q > p => On(q) # On(p)
    BY <1>5, <1>10 DEF Holds
  <2>2. On(p) \in Open \cup {Top.region}
    BY <1>8, <1>10 DEF Holds
  <2>3. On(p)' = On(p) /\ On(p) \in Visited'
    BY <1>1, <1>6, <2>1, <2>2 DEF Open
  <2>4. \A q \in 1..Len(work') : q > p => On(q)' # On(p)'
    BY <1>5, <1>6, <1>7, <2>1, <2>3
  <2>. QED
    BY <1>4, <1>5, <2>1, <2>2, <2>3, <2>4 DEF Holds
<1>. QED
  BY <1>1, <1>2, <1>3, <1>4, <1>6, <1>9, <1>10

(* The tree grows by a leaf. *)
LEMMA VisitGrows ==
  ASSUME TypeOK, NumbersAgree, EntriesAreEdges, Visit
  PROVE  /\ \A u, r \in Visited : IsTreeAncestor(u, r)' <=> IsTreeAncestor(u, r)
         /\ Falls(parent') /\ Len(order) \in Places(parent')
         /\ \A p, q : Holds(p) /\ Holds(q) /\ IsTreeAncestor(On(p), On(q)) /\ number[On(q)] = Top.from =>
              number[On(p)] \in Ancestry(parent', Len(order))
<1>1. /\ Falls(parent) /\ \A r \in Visited : number[r] \in Places(parent) /\ number'[r] = number[r]
      /\ Places(parent) = 0..(Len(order) - 1) /\ Len(order) \in Nat
  BY ParentsFall, VisitFacts
<1>2. /\ Falls(parent') /\ Places(parent') = 0..Len(order)
  <2>1. TypeOK' /\ NumbersAgree'
    BY VisitNumbers
  <2>2. /\ Len(order') = Len(order) + 1 /\ parent' \in Seq(Nat) /\ Len(parent') = Len(order) + 1
        /\ DOMAIN order' = 1..(Len(order) + 1)
    BY <2>1, VisitFacts DEF NumbersAgree
  <2>3. ASSUME NEW i \in 1..(Len(order) + 1) PROVE parent'[i] <= i - 1
    <3>1. IF i = 1 THEN parent'[i] = 0 ELSE parent'[i] < i - 1
      BY <2>1, <2>2 DEF NumbersAgree, Numbers
    <3>2. parent'[i] \in Nat /\ i \in Nat
      BY <1>1, <2>2
    <3>. QED
      BY <3>1, <3>2
  <2>. QED
    BY <1>1, <2>2, <2>3 DEF Falls, Places
<1>3. /\ Len(parent) <= Len(parent') /\ \A j \in 1..Len(parent) : parent'[j] = parent[j]
      /\ Len(parent) = Len(order) /\ parent'[Len(order) + 1] = Top.from
      /\ number'[Top.region] = Len(order)
  BY <1>1, VisitFacts DEF NumbersAgree
<1>4. \A i \in Places(parent) : Ancestry(parent', i) = Ancestry(parent, i)
  BY <1>1, <1>2, <1>3, AncestryOfPrefix
<1>5. \A u, r \in Visited : IsTreeAncestor(u, r)' <=> IsTreeAncestor(u, r)
  BY <1>1, <1>4 DEF IsTreeAncestor
<1>6. ASSUME NEW p, NEW q, Holds(p), Holds(q), IsTreeAncestor(On(p), On(q)), number[On(q)] = Top.from
      PROVE  number[On(p)] \in Ancestry(parent', Len(order))
  <2>1. On(p) \in Visited /\ On(q) \in Visited /\ p \in 1..Len(work)
    BY <1>6, HoldsFacts
  <2>2. number[On(p)] \in Ancestry(parent', Top.from)
    BY <1>1, <1>4, <1>6, <2>1 DEF IsTreeAncestor
  <2>3. Len(order) \in Places(parent')
    BY <1>1, <1>2
  <2>4. Ancestry(parent', Len(order)) = {Len(order)} \cup Ancestry(parent', Top.from)
    BY <1>2, <1>3, <2>3, AncestryStep
  <2>. QED
    BY <2>2, <2>4
<1>. QED
  BY <1>1, <1>2, <1>5, <1>6

LEMMA VisitKeeps ==
  ASSUME WalkInv, Visit
  PROVE  WalkInv'
<1>p. PICK n, M, t : n = Len(work) /\ M = Len(order) /\ t = Top.region
  OBVIOUS
<1>0. /\ TypeOK /\ NumbersAgree /\ OpenIsHeld /\ EntriesAreEdges /\ EntriesAreLater /\ HeldAreOneLine
      /\ LeftIsComplete /\ HeldIsComplete /\ ForwardIsDown /\ LeavesLater
      /\ MetIsReached /\ StartIsMet
  BY DEF WalkInv
<1>1. TypeOK' /\ NumbersAgree'
  BY <1>0, VisitNumbers
<1>2. /\ t \in Regions /\ t \notin Visited /\ work # <<>> /\ flow' = flow /\ rpo' = rpo
      /\ Visited' = Visited \cup {t} /\ number'[t] = M /\ M \in Nat
      /\ \A r \in Visited : number'[r] = number[r] /\ number[r] < M /\ number[r] \in Nat
  BY <1>0, <1>p, VisitFacts DEF NumbersAgree, TypeOK
<1>3. /\ n \in Nat /\ n \in 1..n /\ DOMAIN work = 1..n /\ DOMAIN work' = 1..Len(work')
      /\ Len(work') \in Nat /\ Len(work') >= n /\ On(n) = t
  BY <1>0, <1>2, <1>p, TopFacts, VisitPushes
<1>4. /\ Left' = Left /\ Open' = Open \cup {t}
      /\ \A j \in 1..n : On(j)' = On(j) /\ work'[j] = work[j]
      /\ \A p : Holds(p)' <=> Holds(p) \/ p = n
      /\ \A p : Holds(p) => p \in 1..n /\ On(p) \in Visited
  BY <1>0, <1>p, HoldsFacts, VisitHolds, VisitPushes
<1>5. /\ \A j \in 1..Len(work') : j > n => work'[j].from = M /\ GoesTo(flow, t, On(j)')
      /\ \A r : GoesTo(flow, t, r) /\ r \notin Visited' => \E j \in 1..Len(work') : j > n /\ On(j)' = r
  BY <1>0, <1>2, <1>p, VisitPushes DEF On
<1>6. OpenIsHeld'
  BY <1>0, <1>3, <1>4 DEF OpenIsHeld
<1>7. EntriesAreEdges'
  <2>. SUFFICES ASSUME NEW j \in 1..Len(work')
                PROVE  IF j = 1 THEN work'[j] = [from |-> 0, region |-> Start]
                       ELSE \E p \in 1..Len(work') : /\ Holds(p)' /\ p < j /\ number'[On(p)'] = work'[j].from
                                                     /\ GoesTo(flow', On(p)', On(j)')
    BY <1>3 DEF EntriesAreEdges
  <2>1. CASE j = 1
    BY <1>0, <1>3, <1>4, <2>1 DEF EntriesAreEdges
  <2>2. CASE j # 1 /\ j <= n
    <3>1. j \in 1..n
      BY <1>3, <2>2
    <3>2. PICK p \in 1..n : Holds(p) /\ p < j /\ number[On(p)] = work[j].from /\ GoesTo(flow, On(p), On(j))
      BY <1>0, <1>3, <2>2, <3>1 DEF EntriesAreEdges
    <3>3. p \in 1..Len(work') /\ Holds(p)' /\ On(p)' = On(p) /\ On(j)' = On(j) /\ work'[j] = work[j]
      BY <1>3, <1>4, <3>1, <3>2
    <3>4. number'[On(p)] = number[On(p)]
      BY <1>2, <1>4, <3>2
    <3>. QED
      BY <1>2, <2>2, <3>2, <3>3, <3>4
  <2>3. CASE j > n
    <3>1. n \in 1..Len(work') /\ Holds(n)' /\ On(n)' = t /\ n < j /\ j # 1
      BY <1>3, <1>4, <2>3
    <3>2. work'[j].from = M /\ GoesTo(flow, t, On(j)')
      BY <1>5, <2>3
    <3>3. number'[On(n)'] = work'[j].from /\ GoesTo(flow', On(n)', On(j)')
      BY <1>2, <3>1, <3>2
    <3>. QED
      BY <3>1, <3>3
  <2>. QED
    BY <1>3, <2>1, <2>2, <2>3
<1>8. EntriesAreLater'
  <2>. SUFFICES ASSUME NEW p \in 1..Len(work'), NEW j \in 1..Len(work'), Holds(p)', p < j
                PROVE  number'[On(p)'] <= work'[j].from
    BY <1>3 DEF EntriesAreLater
  <2>0. p \in 1..n
    BY <1>3, <1>4
  <2>1. CASE j > n
    <3>1. number'[On(p)'] \in Nat /\ number'[On(p)'] <= M
      BY <1>2, <1>3, <1>4, <2>0
    <3>. QED
      BY <1>5, <2>1, <3>1
  <2>2. CASE j <= n
    <3>1. j \in 1..n /\ Holds(p) /\ work'[j] = work[j]
      BY <1>3, <1>4, <2>0, <2>2
    <3>2. number[On(p)] <= work[j].from
      BY <1>0, <1>3, <2>0, <3>1 DEF EntriesAreLater
    <3>3. number'[On(p)'] = number[On(p)]
      BY <1>2, <1>4, <2>0, <3>1
    <3>. QED
      BY <3>1, <3>2, <3>3
  <2>. QED
    BY <1>3, <2>1, <2>2
<1>9. \A p : Holds(p) => number[On(p)] < M /\ number[On(p)] \in Ancestry(parent', M)
  <2>. SUFFICES ASSUME NEW p, Holds(p) PROVE number[On(p)] < M /\ number[On(p)] \in Ancestry(parent', M)
    OBVIOUS
  <2>1. On(p) \in Visited /\ p \in 1..n /\ p # n
    BY <1>2, <1>3, <1>4
  <2>2. PICK q : Holds(q) /\ q < n /\ number[On(q)] = Top.from
    <3>1. M > 0
      BY <1>2, <2>1
    <3>. QED
      BY <1>0, <1>p, <3>1, VisitComesFrom
  <2>3. q \in 1..n /\ q \in DOMAIN work /\ p \in DOMAIN work /\ On(q) \in Visited
    BY <1>3, <1>4, <2>1, <2>2
  <2>4. number[On(p)] <= Top.from
    <3>1. p < n
      BY <1>3, <2>1
    <3>. QED
      <4>1. p \in DOMAIN work /\ n \in DOMAIN work
        BY <1>3, <2>1
      <4>2. number[On(p)] <= work[n].from
        BY <1>0, <3>1, <4>1 DEF EntriesAreLater
      <4>. QED
        BY <1>p, <4>2 DEF Top
  <2>5. IsTreeAncestor(On(p), On(q))
    <3>1. CASE p = q
      <4>1. number[On(p)] \in Ancestry(parent, number[On(p)])
        BY <1>0, <2>1, ParentsFall, AncestryIsClosed
      <4>. QED
        BY <3>1, <4>1 DEF IsTreeAncestor
    <3>2. CASE p < q
      BY <1>0, <2>2, <2>3, <3>2 DEF HeldAreOneLine
    <3>3. CASE q < p
      <4>1. number[On(q)] < number[On(p)]
        BY <1>0, <2>2, <2>3, <3>3 DEF HeldAreOneLine
      <4>2. number[On(p)] \in Nat /\ number[On(q)] \in Nat /\ number[On(p)] <= number[On(q)]
        BY <1>2, <2>1, <2>2, <2>3, <2>4
      <4>. QED
        BY <4>1, <4>2
    <3>4. p \in Nat /\ q \in Nat
      BY <1>3, <2>1, <2>3
    <3>. QED
      BY <3>1, <3>2, <3>3, <3>4
  <2>. QED
    BY <1>0, <1>2, <1>p, <2>1, <2>2, <2>5, VisitGrows
<1>10. HeldAreOneLine'
  <2>. SUFFICES ASSUME NEW p \in 1..Len(work'), NEW q \in 1..Len(work'), Holds(p)', Holds(q)', p < q
                PROVE  number'[On(p)'] < number'[On(q)'] /\ number'[On(p)'] \in Ancestry(parent', number'[On(q)'])
    BY <1>3 DEF HeldAreOneLine, IsTreeAncestor
  <2>0. p \in 1..n /\ q \in 1..n /\ Holds(p) /\ On(p)' = On(p) /\ On(q)' = On(q) /\ On(p) \in Visited
    BY <1>3, <1>4
  <2>1. CASE q = n
    BY <1>2, <1>3, <1>9, <2>0, <2>1
  <2>2. CASE q # n
    <3>1. Holds(q) /\ On(q) \in Visited
      BY <1>4, <2>2
    <3>2. number[On(p)] < number[On(q)] /\ IsTreeAncestor(On(p), On(q))
      BY <1>0, <1>3, <2>0, <3>1 DEF HeldAreOneLine
    <3>3. number'[On(p)] \in Ancestry(parent', number'[On(q)])
      <4>1. \A u, r \in Visited : IsTreeAncestor(u, r) => number'[u] \in Ancestry(parent', number'[r])
        BY <1>0, VisitGrows DEF IsTreeAncestor
      <4>. QED
        BY <2>0, <3>1, <3>2, <4>1
    <3>. QED
      BY <1>2, <2>0, <3>1, <3>2, <3>3
  <2>. QED
    BY <2>1, <2>2
<1>11. LeftIsComplete'
  BY <1>0, <1>2, <1>4 DEF LeftIsComplete
<1>12. HeldIsComplete'
  <2>. SUFFICES ASSUME NEW p \in 1..Len(work'), Holds(p)', NEW r \in Regions, GoesTo(flow, On(p)', r), r \notin Visited'
                PROVE  \E j \in 1..Len(work') : j > p /\ On(j)' = r
    BY <1>2, <1>3 DEF HeldIsComplete
  <2>1. CASE p = n
    BY <1>3, <1>4, <1>5, <2>1
  <2>2. CASE p # n
    <3>1. Holds(p) /\ p \in 1..n /\ On(p)' = On(p)
      BY <1>4, <2>2
    <3>2. PICK j \in 1..n : j > p /\ On(j) = r
      BY <1>0, <1>2, <1>3, <3>1 DEF HeldIsComplete
    <3>3. j \in 1..Len(work') /\ On(j)' = r
      BY <1>3, <1>4, <3>2
    <3>. QED
      BY <3>2, <3>3
  <2>. QED
    BY <2>1, <2>2
<1>13. ForwardIsDown'
  <2>. SUFFICES ASSUME NEW u \in Visited', NEW r \in Visited', GoesTo(flow, u, r), number'[u] < number'[r]
                PROVE  IsTreeAncestor(u, r)'
    BY <1>2 DEF ForwardIsDown, IsTreeAncestor
  <2>1. u \in Visited
    BY <1>2
  <2>2. CASE r = t
    <3>1. u \in Open
      BY <1>0, <1>2, <2>1, <2>2 DEF LeftIsComplete, Open
    <3>2. PICK p : Holds(p) /\ On(p) = u
      BY <1>0, <3>1 DEF OpenIsHeld
    <3>3. number'[u] \in Ancestry(parent', M)
      BY <1>2, <1>9, <2>1, <3>2
    <3>. QED
      BY <1>2, <2>2, <3>3 DEF IsTreeAncestor
  <2>3. CASE r # t
    <3>1. r \in Visited /\ IsTreeAncestor(u, r)
      BY <1>0, <1>2, <2>1, <2>3 DEF ForwardIsDown
    <3>. QED
      BY <1>0, <2>1, <3>1, VisitGrows
  <2>. QED
    BY <2>2, <2>3
<1>14. LeavesLater'
  <2>. SUFFICES ASSUME NEW u \in Left, NEW r \in Visited', GoesTo(flow, u, r), ~IsTreeAncestor(r, u)'
                PROVE  r \in Left /\ FirstLeft(r)' < FirstLeft(u)'
    BY <1>2, <1>4 DEF LeavesLater
  <2>1. u \in Visited /\ r \in Visited
    BY <1>0, <1>1, <1>2 DEF LeftIsComplete, TypeOK, Left
  <2>2. ~IsTreeAncestor(r, u)
    BY <1>0, <2>1, VisitGrows
  <2>3. r \in Left /\ FirstLeft(r) < FirstLeft(u)
    BY <1>0, <2>1, <2>2 DEF LeavesLater
  <2>. QED
    BY <1>2, <2>3 DEF FirstLeft
<1>15. MetIsReached'
  <2>1. t \in ReachedWithout(flow, {})
    BY <1>0, <1>3 DEF MetIsReached
  <2>2. ASSUME NEW j \in 1..Len(work') PROVE On(j)' \in ReachedWithout(flow, {})
    <3>1. CASE j <= n
      BY <1>0, <1>3, <1>4, <3>1 DEF MetIsReached
    <3>2. CASE j > n
      <4>1. GoesTo(flow, t, On(j)')
        BY <1>5, <3>2
      <4>2. On(j)' \in Regions \ {}
        BY <1>0, <1>2, <4>1, FlowFacts DEF TypeOK, Targets
      <4>. QED
        BY <2>1, <4>1, <4>2, ReachedIsClosed
    <3>. QED
      BY <1>3, <3>1, <3>2
  <2>. QED
    BY <1>0, <1>2, <1>3, <2>1, <2>2 DEF MetIsReached
<1>16. StartIsMet'
  BY <1>2, <1>3 DEF StartIsMet
<1>. QED
  BY <1>1, <1>6, <1>7, <1>8, <1>10, <1>11, <1>12, <1>13, <1>14, <1>15, <1>16 DEF WalkInv

(* The first place of a value in a sequence. *)
IsFirst(s, i, r) == i \in 1..Len(s) /\ s[i] = r /\ \A j \in 1..(i - 1) : s[j] # r

LEMMA FirstIsUnique ==
  ASSUME NEW s, Len(s) \in Nat, DOMAIN s = 1..Len(s), NEW r, NEW i, IsFirst(s, i, r)
  PROVE  (CHOOSE k \in DOMAIN s : s[k] = r /\ \A j \in 1..(k - 1) : s[j] # r) = i
<1>. DEFINE k0 == CHOOSE k \in DOMAIN s : s[k] = r /\ \A j \in 1..(k - 1) : s[j] # r
<1>1. i \in DOMAIN s /\ s[i] = r /\ \A j \in 1..(i - 1) : s[j] # r
  BY DEF IsFirst
<1>2. k0 \in DOMAIN s /\ s[k0] = r /\ \A j \in 1..(k0 - 1) : s[j] # r
  BY <1>1
<1>. HIDE DEF k0
<1>3. i \in Nat /\ k0 \in Nat /\ i >= 1 /\ k0 >= 1
  BY <1>1, <1>2
<1>4. ~(i < k0) /\ ~(k0 < i)
  BY <1>1, <1>2, <1>3
<1>5. k0 = i
  BY <1>3, <1>4
<1>. QED
  BY <1>5 DEF k0

LEMMA FirstExists ==
  ASSUME NEW s, Len(s) \in Nat, DOMAIN s = 1..Len(s), NEW r, NEW k \in DOMAIN s, s[k] = r
  PROVE  \E i : IsFirst(s, i, r)
<1>. DEFINE S == {i \in 1..Len(s) : s[i] = r}
<1>1. PICK m \in S : \A i \in S : m <= i
  <2>1. S \subseteq Nat /\ S # {}
    OBVIOUS
  <2>. HIDE DEF S
  <2>. QED
    BY <2>1, LeastNumber
<1>2. \A j \in 1..(m - 1) : s[j] # r
  BY <1>1
<1>. QED
  BY <1>1, <1>2 DEF IsFirst

LEMMA FirstLeftIs ==
  ASSUME TypeOK, NEW r \in Left
  PROVE  IsFirst(rpo, FirstLeft(r), r)
<1>1. Len(rpo) \in Nat /\ DOMAIN rpo = 1..Len(rpo)
  BY DEF TypeOK
<1>2. PICK k \in DOMAIN rpo : rpo[k] = r
  BY DEF Left
<1>3. PICK i : IsFirst(rpo, i, r)
  BY <1>1, <1>2, FirstExists
<1>4. FirstLeft(r) = i
  BY <1>1, <1>3, FirstIsUnique DEF FirstLeft
<1>. QED
  BY <1>3, <1>4

LEMMA LeaveFacts ==
  ASSUME TypeOK, Leave
  PROVE  /\ work # <<>> /\ Top.region \in Visited
         /\ flow' = flow /\ order' = order /\ parent' = parent /\ number' = number
         /\ work' \in Seq(Entry) /\ Len(work') = Len(work) - 1
         /\ \A j \in 1..(Len(work) - 1) : work'[j] = work[j]
         /\ rpo' \in Seq(Visited) /\ Len(rpo) \in Nat /\ Len(rpo') = Len(rpo) + 1
         /\ rpo'[Len(rpo) + 1] = Top.region
         /\ \A j \in 1..Len(rpo) : rpo'[j] = rpo[j]
         /\ Left' = Left \cup {Top.region}
<1>1. /\ work # <<>> /\ Top.region \in Visited
      /\ flow' = flow /\ order' = order /\ parent' = parent /\ number' = number
      /\ work' = SubSeq(work, 1, Len(work) - 1) /\ rpo' = Append(rpo, Top.region)
  BY DEF Leave
<1>2. work \in Seq(Entry) /\ Len(work) \in Nat /\ Len(work) >= 1 /\ \A j \in 1..Len(work) : work[j] \in Entry
  BY <1>1, TopFacts
<1>3. /\ work' \in Seq(Entry) /\ Len(work') = Len(work) - 1
      /\ \A j \in 1..(Len(work) - 1) : work'[j] = work[j]
  <2>. DEFINE n == Len(work) - 1
  <2>1. n \in Nat /\ \A j \in 1..n : work[j] \in Entry
    BY <1>2
  <2>2. /\ SubSeq(work, 1, n) \in Seq(Entry) /\ Len(SubSeq(work, 1, n)) = n
        /\ \A j \in 1..n : SubSeq(work, 1, n)[j] = work[j]
    <3>1. /\ SubSeq(work, 1, n) \in Seq(Entry)
          /\ Len(SubSeq(work, 1, n)) = IF 1 <= n THEN n - 1 + 1 ELSE 0
          /\ \A j \in 1..(n - 1 + 1) : SubSeq(work, 1, n)[j] = work[1 + j - 1]
      <4>. HIDE DEF n
      <4>. QED
        BY <2>1, SubSeqProperties
    <3>. HIDE DEF n
    <3>2. n - 1 + 1 = n /\ (~(1 <= n) => n = 0) /\ \A j \in 1..n : 1 + j - 1 = j
      BY <2>1
    <3>. QED
      BY <3>1, <3>2
  <2>. QED
    BY <1>1, <2>2
<1>4. rpo \in Seq(Visited) /\ Len(rpo) \in Nat /\ DOMAIN rpo = 1..Len(rpo)
  BY DEF TypeOK
<1>5. /\ rpo' \in Seq(Visited) /\ Len(rpo') = Len(rpo) + 1
      /\ rpo'[Len(rpo) + 1] = Top.region
      /\ \A j \in 1..Len(rpo) : rpo'[j] = rpo[j]
  BY <1>1, <1>4, AppendProperties
<1>6. Left' = Left \cup {Top.region}
  <2>1. DOMAIN rpo' = 1..(Len(rpo) + 1)
    BY <1>4, <1>5
  <2>2. \A j \in 1..(Len(rpo) + 1) : j \in 1..Len(rpo) \/ j = Len(rpo) + 1
    BY <1>4
  <2>3. Len(rpo) + 1 \in 1..(Len(rpo) + 1) /\ \A j \in 1..Len(rpo) : j \in 1..(Len(rpo) + 1)
    BY <1>4
  <2>. QED
    BY <1>4, <1>5, <2>1, <2>2, <2>3 DEF Left
<1>. QED
  BY <1>1, <1>3, <1>4, <1>5, <1>6

(* Whoever was left keeps the place at which that was; a region that is    *)
(* left now comes after all of them.                                       *)
LEMMA LeaveOrders ==
  ASSUME TypeOK, Leave
  PROVE  /\ \A r \in Left : FirstLeft(r)' = FirstLeft(r)
         /\ \A r : r = Top.region /\ r \notin Left =>
              \A s \in Left : FirstLeft(s)' < FirstLeft(r)'
<1>1. /\ Len(rpo) \in Nat /\ Len(rpo') = Len(rpo) + 1 /\ DOMAIN rpo' = 1..Len(rpo') /\ Len(rpo') \in Nat
      /\ rpo'[Len(rpo) + 1] = Top.region
      /\ \A j \in 1..Len(rpo) : rpo'[j] = rpo[j]
      /\ DOMAIN rpo = 1..Len(rpo)
  BY LeaveFacts DEF TypeOK
<1>2. ASSUME NEW r \in Left PROVE FirstLeft(r)' = FirstLeft(r) /\ FirstLeft(r) \in 1..Len(rpo)
  <2>1. PICK i : i = FirstLeft(r)
    OBVIOUS
  <2>2. IsFirst(rpo, i, r)
    BY <2>1, FirstLeftIs
  <2>3. i \in 1..Len(rpo) /\ \A j \in 1..(i - 1) : j \in 1..Len(rpo)
    BY <1>1, <2>2 DEF IsFirst
  <2>4. IsFirst(rpo', i, r)
    BY <1>1, <2>2, <2>3 DEF IsFirst
  <2>5. FirstLeft(r)' = i
    BY <1>1, <2>4, FirstIsUnique DEF FirstLeft
  <2>. QED
    BY <2>1, <2>3, <2>5
<1>3. ASSUME NEW r, r = Top.region, r \notin Left PROVE FirstLeft(r)' = Len(rpo) + 1
  <2>1. \A j \in 1..Len(rpo) : rpo'[j] # r
    BY <1>1, <1>3 DEF Left
  <2>2. PICK i : i = Len(rpo) + 1
    OBVIOUS
  <2>3. i \in 1..Len(rpo') /\ \A j \in 1..(i - 1) : j \in 1..Len(rpo)
    BY <1>1, <2>2
  <2>4. IsFirst(rpo', i, r)
    BY <1>1, <1>3, <2>1, <2>2, <2>3 DEF IsFirst
  <2>5. FirstLeft(r)' = i
    BY <1>1, <2>4, FirstIsUnique DEF FirstLeft
  <2>. QED
    BY <2>2, <2>5
<1>4. ASSUME NEW r, r = Top.region, r \notin Left, NEW s \in Left PROVE FirstLeft(s)' < FirstLeft(r)'
  <2>1. FirstLeft(s)' \in 1..Len(rpo)
    BY <1>2
  <2>. QED
    BY <1>1, <1>3, <1>4, <2>1
<1>. QED
  BY <1>2, <1>4

LEMMA LeaveHolds ==
  ASSUME TypeOK, Leave
  PROVE  /\ Open' = Open \ {Top.region}
         /\ \A j \in 1..(Len(work) - 1) : On(j)' = On(j)
         /\ \A p : Holds(p)' <=> Holds(p) /\ p # Len(work)
<1>p. PICK n : n = Len(work)
  OBVIOUS
<1>1. /\ work # <<>> /\ Visited' = Visited /\ Left' = Left \cup {Top.region}
      /\ Len(work') = n - 1 /\ DOMAIN work' = 1..Len(work')
      /\ \A j \in 1..(n - 1) : work'[j] = work[j]
  BY <1>p, LeaveFacts DEF Visited
<1>2. n \in Nat /\ DOMAIN work = 1..n /\ n \in 1..n /\ On(n) = Top.region
  BY <1>1, <1>p, TopFacts
<1>3. Open' = Open \ {Top.region}
  BY <1>1 DEF Open
<1>4. \A j \in 1..(n - 1) : On(j)' = On(j)
  BY <1>1 DEF On
<1>5. ASSUME NEW p, Holds(p)' PROVE Holds(p) /\ p # n
  <2>1. /\ p \in 1..(n - 1) /\ On(p) \in Open \ {Top.region}
        /\ \A q \in 1..(n - 1) : q > p => On(q) # On(p)
    BY <1>1, <1>3, <1>4, <1>5 DEF Holds
  <2>2. \A q \in 1..n : q \in 1..(n - 1) \/ q = n
    BY <1>2
  <2>3. p \in 1..n /\ p # n
    BY <1>2, <2>1
  <2>4. \A q \in 1..n : q > p => On(q) # On(p)
    BY <1>2, <2>1, <2>2
  <2>. QED
    BY <1>2, <2>1, <2>3, <2>4 DEF Holds
<1>6. ASSUME NEW p, Holds(p), p # n PROVE Holds(p)'
  <2>1. p \in 1..n /\ On(p) \in Open /\ \A q \in 1..n : q > p => On(q) # On(p)
    BY <1>2, <1>6 DEF Holds
  <2>2. p \in 1..(n - 1) /\ n > p
    BY <1>2, <1>6, <2>1
  <2>3. On(p) # Top.region
    BY <1>2, <2>1, <2>2
  <2>4. \A q \in 1..(n - 1) : q \in 1..n
    BY <1>2
  <2>5. On(p)' \in Open' /\ \A q \in 1..(n - 1) : q > p => On(q)' # On(p)'
    BY <1>3, <1>4, <2>1, <2>2, <2>3, <2>4
  <2>. QED
    BY <1>1, <2>2, <2>5 DEF Holds
<1>. QED
  BY <1>3, <1>4, <1>5, <1>6, <1>p

LEMMA LeaveKeeps ==
  ASSUME WalkInv, Leave
  PROVE  WalkInv'
<1>p. PICK n, t : n = Len(work) /\ t = Top.region
  OBVIOUS
<1>0. /\ TypeOK /\ NumbersAgree /\ OpenIsHeld /\ EntriesAreEdges /\ EntriesAreLater /\ HeldAreOneLine
      /\ LeftIsComplete /\ HeldIsComplete /\ ForwardIsDown /\ LeavesLater
      /\ MetIsReached /\ StartIsMet
  BY DEF WalkInv
<1>1. /\ work # <<>> /\ t \in Visited /\ flow' = flow /\ order' = order /\ parent' = parent /\ number' = number
      /\ Visited' = Visited /\ rpo' \in Seq(Visited) /\ Left' = Left \cup {t}
      /\ \A u, r : IsTreeAncestor(u, r)' <=> IsTreeAncestor(u, r)
  BY <1>0, <1>p, LeaveFacts DEF Visited, IsTreeAncestor
<1>2. /\ n \in Nat /\ n \in 1..n /\ DOMAIN work = 1..n /\ DOMAIN work' = 1..(n - 1) /\ On(n) = t
      /\ work' \in Seq(Entry) /\ \A j \in 1..(n - 1) : work'[j] = work[j] /\ j \in 1..n
      /\ \A j \in 1..n : j = n \/ j \in 1..(n - 1)
  <2>1. n \in Nat /\ n \in 1..n /\ DOMAIN work = 1..n /\ On(n) = t
    BY <1>0, <1>1, <1>p, TopFacts
  <2>2. work' \in Seq(Entry) /\ Len(work') = n - 1 /\ \A j \in 1..(n - 1) : work'[j] = work[j]
    BY <1>0, <1>p, LeaveFacts
  <2>. QED
    BY <2>1, <2>2
<1>3. /\ Open' = Open \ {t} /\ \A j \in 1..(n - 1) : On(j)' = On(j)
      /\ \A p : Holds(p)' <=> Holds(p) /\ p # n
      /\ \A p : Holds(p) => p \in 1..n /\ On(p) \in Visited
  BY <1>0, <1>p, HoldsFacts, LeaveHolds
<1>4. \A p : Holds(p)' => p \in 1..(n - 1) /\ Holds(p) /\ On(p)' = On(p)
  BY <1>2, <1>3
<1>5. TypeOK' /\ NumbersAgree'
  <2>1. NumbersAgree'
    BY <1>0, <1>1 DEF NumbersAgree, Numbers
  <2>2. TypeOK'
    BY <1>0, <1>1, <1>2 DEF TypeOK, Entry
  <2>. QED
    BY <2>1, <2>2
<1>6. OpenIsHeld'
  <2>. SUFFICES ASSUME NEW r \in Open \ {t} PROVE \E p \in 1..(n - 1) : Holds(p)' /\ On(p)' = r
    BY <1>2, <1>3 DEF OpenIsHeld
  <2>1. PICK p \in 1..n : Holds(p) /\ On(p) = r
    BY <1>0, <1>2 DEF OpenIsHeld
  <2>2. p \in 1..(n - 1) /\ Holds(p)' /\ On(p)' = On(p)
    BY <1>2, <1>3, <2>1
  <2>. QED
    BY <2>1, <2>2
<1>7. EntriesAreEdges'
  <2>. SUFFICES ASSUME NEW j \in 1..(n - 1)
                PROVE  IF j = 1 THEN work'[j] = [from |-> 0, region |-> Start]
                       ELSE \E p \in 1..(n - 1) : /\ Holds(p)' /\ p < j /\ number'[On(p)'] = work'[j].from
                                                  /\ GoesTo(flow', On(p)', On(j)')
    BY <1>2 DEF EntriesAreEdges
  <2>0. j \in 1..n /\ work'[j] = work[j] /\ On(j)' = On(j)
    BY <1>2, <1>3
  <2>1. CASE j = 1
    BY <1>0, <1>2, <2>0, <2>1 DEF EntriesAreEdges
  <2>2. CASE j # 1
    <3>1. PICK p \in 1..n : Holds(p) /\ p < j /\ number[On(p)] = work[j].from /\ GoesTo(flow, On(p), On(j))
      BY <1>0, <1>2, <2>0, <2>2 DEF EntriesAreEdges
    <3>2. p \in 1..(n - 1) /\ p # n
      BY <1>2, <3>1
    <3>3. Holds(p)' /\ On(p)' = On(p)
      BY <1>3, <3>1, <3>2
    <3>. QED
      BY <1>1, <2>0, <2>2, <3>1, <3>2, <3>3
  <2>. QED
    BY <2>1, <2>2
<1>8. EntriesAreLater'
  <2>. SUFFICES ASSUME NEW p \in 1..(n - 1), NEW j \in 1..(n - 1), Holds(p)', p < j
                PROVE  number'[On(p)'] <= work'[j].from
    BY <1>2 DEF EntriesAreLater
  <2>1. number[On(p)] <= work[j].from
    BY <1>0, <1>2, <1>4 DEF EntriesAreLater
  <2>. QED
    BY <1>1, <1>2, <1>3, <2>1
<1>9. HeldAreOneLine'
  <2>. SUFFICES ASSUME NEW p \in 1..(n - 1), NEW q \in 1..(n - 1), Holds(p)', Holds(q)', p < q
                PROVE  number'[On(p)'] < number'[On(q)'] /\ number'[On(p)'] \in Ancestry(parent', number'[On(q)'])
    BY <1>2 DEF HeldAreOneLine, IsTreeAncestor
  <2>1. number[On(p)] < number[On(q)] /\ number[On(p)] \in Ancestry(parent, number[On(q)])
    BY <1>0, <1>2, <1>4 DEF HeldAreOneLine, IsTreeAncestor
  <2>. QED
    BY <1>1, <1>3, <2>1
<1>10. \A r \in Regions : t \in Open /\ GoesTo(flow, t, r) => r \in Visited
  <2>. SUFFICES ASSUME t \in Open, NEW r \in Regions, GoesTo(flow, t, r) PROVE r \in Visited
    OBVIOUS
  <2>1. Holds(n)
    BY <1>2 DEF Holds
  <2>2. r \in Visited \/ \E j \in 1..n : j > n /\ On(j) = r
    BY <1>0, <1>2, <2>1 DEF HeldIsComplete
  <2>. QED
    BY <1>2, <2>2
<1>11. t \in Open \/ t \in Left
  BY <1>1 DEF Open
<1>12. LeftIsComplete'
  BY <1>0, <1>1, <1>10, <1>11 DEF LeftIsComplete
<1>13. HeldIsComplete'
  <2>. SUFFICES ASSUME NEW p \in 1..(n - 1), Holds(p)', NEW r \in Regions, GoesTo(flow, On(p)', r), r \notin Visited
                PROVE  \E j \in 1..(n - 1) : j > p /\ On(j)' = r
    BY <1>1, <1>2 DEF HeldIsComplete
  <2>1. PICK j \in 1..n : j > p /\ On(j) = r
    BY <1>0, <1>2, <1>4 DEF HeldIsComplete
  <2>2. j \in 1..(n - 1)
    BY <1>1, <1>2, <2>1
  <2>. QED
    BY <1>3, <2>1, <2>2
<1>14. ForwardIsDown'
  BY <1>0, <1>1 DEF ForwardIsDown
<1>15. LeavesLater'
  <2>. SUFFICES ASSUME NEW u \in Left \cup {t}, NEW r \in Visited, GoesTo(flow, u, r), ~IsTreeAncestor(r, u)
                PROVE  r \in Left \cup {t} /\ FirstLeft(r)' < FirstLeft(u)'
    BY <1>1 DEF LeavesLater
  <2>1. /\ \A s \in Left : FirstLeft(s)' = FirstLeft(s)
        /\ t \notin Left => \A s \in Left : FirstLeft(s)' < FirstLeft(t)'
    BY <1>0, <1>p, LeaveOrders
  <2>2. CASE u \in Left
    <3>1. r \in Left /\ FirstLeft(r) < FirstLeft(u)
      BY <1>0, <2>2 DEF LeavesLater
    <3>. QED
      BY <2>1, <2>2, <3>1
  <2>3. CASE u \notin Left
    <3>1. u = t /\ t \in Open /\ Holds(n)
      BY <1>2, <1>11, <2>3 DEF Holds
    <3>2. r # t
      <4>1. number[t] \in Ancestry(parent, number[t])
        BY <1>0, <1>1, ParentsFall, AncestryIsClosed
      <4>. QED
        BY <3>1, <4>1 DEF IsTreeAncestor
    <3>3. r \notin Open
      <4>. SUFFICES ASSUME r \in Open PROVE FALSE
        OBVIOUS
      <4>1. PICK p \in 1..n : Holds(p) /\ On(p) = r
        BY <1>0, <1>2 DEF OpenIsHeld
      <4>2. p < n
        BY <1>2, <3>2, <4>1
      <4>3. IsTreeAncestor(On(p), On(n))
        BY <1>0, <1>2, <3>1, <4>1, <4>2 DEF HeldAreOneLine
      <4>. QED
        BY <1>2, <3>1, <4>1, <4>3
    <3>4. r \in Left
      BY <3>3 DEF Open
    <3>. QED
      BY <2>1, <2>3, <3>1, <3>4
  <2>. QED
    BY <2>2, <2>3
<1>16. MetIsReached'
  BY <1>0, <1>1, <1>2, <1>3 DEF MetIsReached
<1>17. StartIsMet'
  <2>1. order # <<>>
    <3>1. number[t] \in 0..(Len(order) - 1) /\ Len(order) \in Nat
      BY <1>0, <1>1, ParentsFall
    <3>. QED
      BY <3>1
  <2>. QED
    BY <1>1, <2>1 DEF StartIsMet
<1>. QED
  BY <1>5, <1>6, <1>7, <1>8, <1>9, <1>12, <1>13, <1>14, <1>15, <1>16, <1>17 DEF WalkInv

LEMMA WalkStarts ==
  ASSUME Init
  PROVE  WalkInv
<1>1. /\ flow \in Flows /\ order = <<>> /\ parent = <<>> /\ Visited = {} /\ rpo = <<>>
      /\ number \in [Visited -> Nat]
      /\ work = <<[from |-> 0, region |-> Start]>>
  BY DEF Init, Visited
<1>2. Start \in Regions
  BY RegionsAssumption
<1>3. work \in Seq([from : Nat, region : Regions]) /\ DOMAIN work = {1} /\ work # <<>>
      /\ work[1] = [from |-> 0, region |-> Start] /\ On(1) = Start
  <2>. DEFINE e == [from |-> 0, region |-> Start]
  <2>1. e \in [from : Nat, region : Regions] /\ e.region = Start
    BY <1>2
  <2>. HIDE DEF e
  <2>2. work = <<e>>
    BY <1>1 DEF e
  <2>3. work \in Seq([from : Nat, region : Regions]) /\ DOMAIN work = 1..1 /\ work # <<>> /\ work[1] = e
    BY <2>1, <2>2
  <2>4. 1..1 = {1}
    OBVIOUS
  <2>. QED
    BY <2>1, <2>3, <2>4 DEF On, e
<1>4. Left = {} /\ Open = {} /\ \A p : ~Holds(p)
  BY <1>1 DEF Left, Open, Holds
<1>5. TypeOK
  BY <1>1, <1>3 DEF TypeOK
<1>6. NumbersAgree
  BY <1>1 DEF NumbersAgree, Numbers
<1>7. OpenIsHeld /\ EntriesAreEdges /\ EntriesAreLater /\ HeldAreOneLine
  BY <1>3, <1>4 DEF OpenIsHeld, EntriesAreEdges, EntriesAreLater, HeldAreOneLine
<1>8. LeftIsComplete /\ HeldIsComplete /\ ForwardIsDown /\ LeavesLater
  BY <1>1, <1>4 DEF LeftIsComplete, HeldIsComplete, ForwardIsDown, LeavesLater
<1>9. MetIsReached
  <2>1. Start \in ReachedWithout(flow, {})
    BY ReachedBasics
  <2>. QED
    BY <1>1, <1>3, <2>1 DEF MetIsReached
<1>10. StartIsMet
  BY <1>3 DEF StartIsMet
<1>. QED
  BY <1>5, <1>6, <1>7, <1>8, <1>9, <1>10 DEF WalkInv

LEMMA WalkStutters ==
  ASSUME WalkInv, UNCHANGED walk
  PROVE  WalkInv'
<1>1. /\ flow' = flow /\ order' = order /\ parent' = parent /\ number' = number
      /\ work' = work /\ rpo' = rpo /\ Visited' = Visited
  BY DEF walk, Visited
<1>2. Left' = Left /\ Open' = Open
  BY <1>1 DEF Left, Open
<1>3. /\ \A p : On(p)' = On(p) /\ (Holds(p)' <=> Holds(p)) /\ FirstLeft(p)' = FirstLeft(p)
      /\ \A u, r : IsTreeAncestor(u, r)' <=> IsTreeAncestor(u, r)
  BY <1>1, <1>2 DEF On, Holds, FirstLeft, IsTreeAncestor
<1>4. TypeOK' /\ NumbersAgree'
  BY <1>1 DEF WalkInv, TypeOK, NumbersAgree, Numbers
<1>5. OpenIsHeld' /\ EntriesAreEdges' /\ EntriesAreLater'
  BY <1>1, <1>2, <1>3 DEF WalkInv, OpenIsHeld, EntriesAreEdges, EntriesAreLater
<1>6. HeldAreOneLine'
  <2>1. HeldAreOneLine
    BY DEF WalkInv
  <2>. QED
    BY <1>1, <1>3, <2>1 DEF HeldAreOneLine, IsTreeAncestor
<1>7. LeftIsComplete' /\ HeldIsComplete' /\ ForwardIsDown' /\ LeavesLater'
  BY <1>1, <1>2, <1>3 DEF WalkInv, LeftIsComplete, HeldIsComplete, ForwardIsDown, LeavesLater
<1>8. MetIsReached' /\ StartIsMet'
  BY <1>1, <1>3 DEF WalkInv, MetIsReached, StartIsMet
<1>. QED
  BY <1>4, <1>5, <1>6, <1>7, <1>8 DEF WalkInv

(* What holds once the walk is over.                                       *)
LEMMA WalkedFacts ==
  ASSUME WalkInv, Walked
  PROVE  /\ TypeOK /\ NumbersAgree
         /\ Visited = ReachedWithout(flow, {}) /\ Left = Visited
         /\ Start \in Visited /\ number[Start] = 0 /\ N \in Nat /\ N >= 1
         /\ \A u \in Visited : \A r : GoesTo(flow, u, r) => r \in Visited
         /\ \A u, r \in Visited : GoesTo(flow, u, r) =>
              /\ number[u] < number[r] => IsTreeAncestor(u, r)
              /\ IsTreeAncestor(r, u) \/ FirstLeft(r) < FirstLeft(u)
<1>1. TypeOK /\ NumbersAgree /\ OpenIsHeld /\ LeftIsComplete /\ ForwardIsDown /\ LeavesLater
      /\ MetIsReached /\ StartIsMet /\ work = <<>>
  BY DEF WalkInv, Walked
<1>2. flow \in Flows /\ Visited \subseteq Regions /\ order \in Seq(Regions) /\ Left \subseteq Visited
  BY <1>1 DEF TypeOK, Left
<1>3. Left = Visited
  <2>1. Open = {}
    BY <1>1 DEF OpenIsHeld
  <2>. QED
    BY <1>2, <2>1 DEF Open
<1>4. N \in Nat /\ N >= 1 /\ DOMAIN order = 1..N
  <2>1. order # <<>>
    BY <1>1 DEF StartIsMet
  <2>. QED
    BY <1>2, <2>1 DEF N
<1>5. Start \in Visited /\ number[Start] = 0
  <2>1. 1 \in DOMAIN order
    BY <1>4
  <2>2. order[1] = Start /\ order[1] \in Visited /\ number[order[1]] = 1 - 1
    BY <1>1, <2>1 DEF NumbersAgree, Numbers
  <2>. QED
    BY <2>2
<1>6. \A u \in Visited : \A r : GoesTo(flow, u, r) => r \in Visited
  <2>. SUFFICES ASSUME NEW u \in Visited, NEW r, GoesTo(flow, u, r) PROVE r \in Visited
    OBVIOUS
  <2>1. r \in Regions
    BY <1>2, FlowFacts DEF Targets
  <2>. QED
    BY <1>1, <1>3, <2>1 DEF LeftIsComplete
<1>7. Visited = ReachedWithout(flow, {})
  <2>1. Visited \subseteq ReachedWithout(flow, {})
    BY <1>1 DEF MetIsReached
  <2>2. ReachedWithout(flow, {}) \subseteq Visited
    BY <1>5, <1>6, ReachedIsLeast
  <2>. QED
    BY <2>1, <2>2
<1>8. \A u, r \in Visited : GoesTo(flow, u, r) =>
        /\ number[u] < number[r] => IsTreeAncestor(u, r)
        /\ IsTreeAncestor(r, u) \/ FirstLeft(r) < FirstLeft(u)
  BY <1>1, <1>3 DEF ForwardIsDown, LeavesLater
<1>. QED
  BY <1>1, <1>3, <1>4, <1>5, <1>6, <1>7, <1>8
-----------------------------------------------------------------------------
(* More about tables that fall: their ancestries are lines.                *)

LEMMA AncestryOfFixed ==
  ASSUME NEW f, Falls(f), NEW i \in Places(f), f[i + 1] = i
  PROVE  Ancestry(f, i) = {i}
<1>1. Ancestry(f, i) \subseteq {i}
  BY AncestryIsLeast
<1>. QED
  BY <1>1, AncestryIsClosed

LEMMA AncestryIsLinear ==
  ASSUME NEW f, Falls(f), NEW i \in Places(f), NEW a \in Ancestry(f, i), NEW b \in Ancestry(f, i), a <= b
  PROVE  a \in Ancestry(f, b)
<1>. DEFINE Good == {k \in Nat : k \in Places(f) =>
                       \A x, y \in Ancestry(f, k) : x <= y => x \in Ancestry(f, y)}
<1>1. ASSUME NEW k \in Nat, \A m \in Nat : m < k => m \in Good PROVE k \in Good
  <2>. SUFFICES ASSUME k \in Places(f), NEW x \in Ancestry(f, k), NEW y \in Ancestry(f, k), x <= y
                PROVE  x \in Ancestry(f, y)
    OBVIOUS
  <2>1. Ancestry(f, k) = {k} \cup Ancestry(f, f[k + 1])
    BY AncestryStep
  <2>2. f[k + 1] \in Places(f) /\ f[k + 1] \in Nat /\ f[k + 1] <= k
    BY FallsType
  <2>3. CASE f[k + 1] = k
    BY <2>3, AncestryOfFixed
  <2>4. CASE y = k
    BY <2>4
  <2>5. CASE f[k + 1] # k /\ y # k
    <3>1. y \in Ancestry(f, f[k + 1]) /\ f[k + 1] < k
      BY <2>1, <2>2, <2>5
    <3>2. y <= f[k + 1] /\ y \in Nat
      BY <2>2, <3>1, AncestryIsClosed, FallsType
    <3>3. x # k
      BY <2>2, <3>1, <3>2
    <3>4. x \in Ancestry(f, f[k + 1])
      BY <2>1, <3>3
    <3>5. f[k + 1] \in Good
      BY <1>1, <2>2, <3>1
    <3>. QED
      BY <2>2, <3>1, <3>4, <3>5
  <2>. QED
    BY <2>3, <2>4, <2>5
<1>2. \A k \in Nat : k \in Good
  <2>. HIDE DEF Good
  <2>. QED
    BY <1>1, StrongInduction
<1>3. i \in Nat
  BY FallsType
<1>. QED
  BY <1>2, <1>3

LEMMA RootIsAncestor ==
  ASSUME NEW f, Falls(f), \A j \in Places(f) : j # 0 => f[j + 1] # j, NEW i \in Places(f)
  PROVE  0 \in Ancestry(f, i)
<1>. DEFINE Good == {k \in Nat : k \in Places(f) => 0 \in Ancestry(f, k)}
<1>1. ASSUME NEW k \in Nat, \A m \in Nat : m < k => m \in Good PROVE k \in Good
  <2>. SUFFICES ASSUME k \in Places(f) PROVE 0 \in Ancestry(f, k)
    OBVIOUS
  <2>1. Ancestry(f, k) = {k} \cup Ancestry(f, f[k + 1])
    BY AncestryStep
  <2>2. f[k + 1] \in Places(f) /\ f[k + 1] \in Nat /\ f[k + 1] <= k
    BY FallsType
  <2>3. CASE k = 0
    BY <2>1, <2>3
  <2>4. CASE k # 0
    <3>1. f[k + 1] < k
      BY <2>2, <2>4
    <3>. QED
      BY <1>1, <2>1, <2>2, <3>1
  <2>. QED
    BY <2>3, <2>4
<1>2. \A k \in Nat : k \in Good
  <2>. HIDE DEF Good
  <2>. QED
    BY <1>1, StrongInduction
<1>3. i \in Nat
  BY FallsType
<1>. QED
  BY <1>2, <1>3

LEMMA AncestryHasChild ==
  ASSUME NEW f, Falls(f), NEW i \in Places(f), NEW a \in Ancestry(f, i), a # i
  PROVE  \E j \in Places(f) : j # a /\ f[j + 1] = a
<1>. DEFINE S == {i} \cup {b \in Places(f) : \E j \in Places(f) : j # b /\ f[j + 1] = b}
<1>1. \A j \in S : j \in Places(f) => f[j + 1] \in S
  <2>. SUFFICES ASSUME NEW j \in S PROVE f[j + 1] \in S
    OBVIOUS
  <2>1. j \in Places(f) /\ f[j + 1] \in Places(f)
    BY FallsType
  <2>2. CASE f[j + 1] = j
    BY <2>2
  <2>3. CASE f[j + 1] # j
    BY <2>1, <2>3
  <2>. QED
    BY <2>2, <2>3
<1>2. Ancestry(f, i) \subseteq S
  <2>1. i \in S
    OBVIOUS
  <2>. HIDE DEF S
  <2>. QED
    BY <1>1, <2>1, AncestryIsLeast
<1>. QED
  BY <1>2

-----------------------------------------------------------------------------
(* The tree.  What Climb finds: the closest ancestor below v.              *)
IsClosest(m, k, v) ==
  /\ m \in Ancestry(parent, k) /\ m \in Nat /\ m < v
  /\ \A a \in Ancestry(parent, k) : a < v => a <= m

LEMMA TreeFacts ==
  ASSUME WalkInv
  PROVE  /\ TypeOK /\ NumbersAgree /\ Falls(parent) /\ Places(parent) = 0..(N - 1) /\ N \in Nat
         /\ \A r \in Visited : number[r] \in 0..(N - 1) /\ order[number[r] + 1] = r
         /\ \A k \in 0..(N - 1) : order[k + 1] \in Visited /\ number[order[k + 1]] = k
         /\ \A k \in 1..(N - 1) : /\ parent[k + 1] \in 0..(N - 1) /\ parent[k + 1] < k
                                  /\ GoesTo(flow, order[parent[k + 1] + 1], order[k + 1])
         /\ N > 0 => order[1] = Start
<1>1. TypeOK /\ NumbersAgree
  BY DEF WalkInv
<1>2. Falls(parent) /\ Places(parent) = 0..(N - 1) /\ N \in Nat /\ \A r \in Visited : number[r] \in Places(parent)
  BY <1>1, ParentsFall DEF N
<1>3. \A r \in Visited : order[number[r] + 1] = r
  BY <1>1 DEF NumbersAgree
<1>4. DOMAIN order = 1..N /\ \A k \in 0..(N - 1) : k + 1 \in 1..N /\ (k + 1) - 1 = k
  BY <1>1, <1>2 DEF TypeOK, N
<1>5. \A k \in 0..(N - 1) : order[k + 1] \in Visited /\ number[order[k + 1]] = k
  BY <1>1, <1>4 DEF NumbersAgree, Numbers
<1>6. \A k \in 1..(N - 1) : /\ parent[k + 1] < k
                            /\ GoesTo(flow, order[parent[k + 1] + 1], order[k + 1])
  <2>1. \A k \in 1..(N - 1) : k + 1 \in 1..N /\ k + 1 # 1 /\ (k + 1) - 1 = k
    BY <1>2
  <2>. QED
    BY <1>1, <1>4, <2>1 DEF NumbersAgree, Numbers
<1>7. \A k \in 1..(N - 1) : parent[k + 1] \in 0..(N - 1)
  <2>1. \A k \in 1..(N - 1) : k \in Places(parent)
    BY <1>2
  <2>. QED
    BY <1>2, <2>1, FallsType
<1>8. N > 0 => order[1] = Start
  BY <1>1, <1>2, <1>4 DEF NumbersAgree, Numbers
<1>. QED
  BY <1>1, <1>2, <1>3, <1>5, <1>6, <1>7, <1>8

LEMMA ClosestExists ==
  ASSUME WalkInv, NEW v \in Nat, v > 0, NEW k \in Places(parent)
  PROVE  \E m : IsClosest(m, k, v)
<1>1. Falls(parent) /\ \A j \in Places(parent) : j # 0 => parent[j + 1] # j
  <2>1. \A j \in 0..(N - 1) : j # 0 => j \in 1..(N - 1)
    BY TreeFacts
  <2>2. \A j \in Places(parent) : j \in 0..(N - 1) /\ j \in Nat
    BY TreeFacts
  <2>3. \A j \in 1..(N - 1) : parent[j + 1] < j /\ parent[j + 1] \in Nat
    BY TreeFacts
  <2>. QED
    BY <2>1, <2>2, <2>3, TreeFacts
<1>. DEFINE Below == {a \in Ancestry(parent, k) : a < v}
            Bound == {b \in Nat : \A a \in Below : a <= b}
<1>2. 0 \in Below /\ \A a \in Below : a \in Nat
  BY <1>1, RootIsAncestor, AncestryIsClosed, FallsType
<1>3. v \in Bound
  BY <1>2
<1>4. PICK m \in Bound : \A b \in Bound : m <= b
  <2>1. Bound \subseteq Nat /\ Bound # {}
    BY <1>3
  <2>. HIDE DEF Bound
  <2>. QED
    BY <2>1, LeastNumber
<1>5. m \in Below
  <2>. SUFFICES ASSUME m \notin Below PROVE FALSE
    OBVIOUS
  <2>1. \A a \in Below : a < m
    BY <1>2, <1>4
  <2>2. m > 0
    BY <1>2, <2>1
  <2>3. m - 1 \in Bound
    <3>1. \A a \in Below : a <= m - 1
      BY <1>2, <1>4, <2>1
    <3>2. m - 1 \in Nat
      BY <1>4, <2>2
    <3>. QED
      BY <3>1, <3>2
  <2>. QED
    BY <1>4, <2>3
<1>. QED
  BY <1>4, <1>5 DEF IsClosest

LEMMA ClosestIsUnique ==
  ASSUME NEW k, NEW v, NEW m, NEW l, IsClosest(m, k, v), IsClosest(l, k, v)
  PROVE  m = l
BY DEF IsClosest

LEMMA ClimbIsClosest ==
  ASSUME WalkInv, NEW v \in Nat, v > 0, NEW k \in Places(parent)
  PROVE  IsClosest(Climb(k, v), k, v)
<1>. DEFINE P == 0..(N - 1)
            IsIt(up) == up = [j \in P |-> IF j < v THEN j ELSE up[Parent(j)]]
            up0 == CHOOSE up : IsIt(up)
            best == [j \in P |-> CHOOSE m : IsClosest(m, j, v)]
<1>1. Climb(k, v) = up0[k]
  BY Zenon DEF Climb
<1>2. Falls(parent) /\ Places(parent) = P /\ N \in Nat
  BY TreeFacts
<1>3. \A j \in P : IsClosest(best[j], j, v)
  BY <1>2, ClosestExists
<1>4. \A j \in P : j < v => IsClosest(j, j, v)
  BY <1>2, AncestryIsClosed, FallsType DEF IsClosest
<1>5. \A j \in P : ~(j < v) => Parent(j) \in P /\ Parent(j) < j /\ \A m : IsClosest(m, Parent(j), v) => IsClosest(m, j, v)
  <2>. SUFFICES ASSUME NEW j \in P, ~(j < v)
                PROVE  /\ Parent(j) \in P /\ Parent(j) < j
                       /\ \A m : IsClosest(m, Parent(j), v) => IsClosest(m, j, v)
    OBVIOUS
  <2>1. j \in 1..(N - 1)
    BY <1>2
  <2>2. Parent(j) \in P /\ Parent(j) < j
    BY <2>1, TreeFacts DEF Parent
  <2>3. Ancestry(parent, j) = {j} \cup Ancestry(parent, Parent(j))
    BY <1>2, AncestryStep DEF Parent
  <2>. QED
    BY <2>2, <2>3 DEF IsClosest
<1>6. IsIt(best)
  <2>1. ASSUME NEW j \in P PROVE best[j] = IF j < v THEN j ELSE best[Parent(j)]
    <3>1. CASE j < v
      BY <1>3, <1>4, <3>1, ClosestIsUnique
    <3>2. CASE ~(j < v)
      BY <1>3, <1>5, <3>2, ClosestIsUnique
    <3>. QED
      BY <3>1, <3>2
  <2>2. best = [j \in P |-> best[j]]
    OBVIOUS
  <2>. HIDE DEF best
  <2>. QED
    BY <2>1, <2>2
<1>7. IsIt(up0)
  <2>. HIDE DEF best, IsIt
  <2>. QED
    BY <1>6
<1>. HIDE DEF up0, best
<1>8. \A j \in P : up0[j] = IF j < v THEN j ELSE up0[Parent(j)]
  BY <1>7
<1>. DEFINE Good == {j \in Nat : j \in P => IsClosest(up0[j], j, v)}
<1>9. ASSUME NEW j \in Nat, \A m \in Nat : m < j => m \in Good PROVE j \in Good
  <2>. SUFFICES ASSUME j \in P PROVE IsClosest(up0[j], j, v)
    OBVIOUS
  <2>. HIDE DEF IsIt
  <2>1. CASE j < v
    BY <1>4, <1>8, <2>1
  <2>2. CASE ~(j < v)
    <3>1. up0[j] = up0[Parent(j)] /\ Parent(j) \in P /\ Parent(j) < j /\ Parent(j) \in Nat
      BY <1>5, <1>8, <2>2
    <3>2. IsClosest(up0[Parent(j)], Parent(j), v)
      BY <1>9, <3>1
    <3>. QED
      BY <1>5, <2>2, <3>1, <3>2
  <2>. QED
    BY <2>1, <2>2
<1>10. \A j \in Nat : j \in Good
  <2>. HIDE DEF Good
  <2>. QED
    BY <1>9, StrongInduction
<1>11. k \in Nat /\ k \in P
  BY <1>2
<1>. QED
  BY <1>1, <1>10, <1>11

(* What the tree is made of: the least of what the predecessors' climbs    *)
(* find.  Only the end, entered by ret alone, keeps its own number.        *)
Preds(i) == Predecessors(flow, order[i + 1])

SemiOf(i) == Min({i} \cup {Climb(number[u], i) : u \in Preds(i)})

IsSemi(i) == Preds(i) \subseteq Visited /\ semi[i + 1] = SemiOf(i)

(* The passes after the walk: semi is filled from the highest number down, *)
(* idom takes it over, and the adjustments change nothing.                 *)
PassInv ==
  /\ phase \in Phases /\ at \in Nat
  /\ phase = "walk" => semi = <<>> /\ idom = <<>>
  /\ phase # "walk" => Walked /\ semi \in [1..N -> 0..(N - 1)] /\ semi[1] = 0
  /\ phase \in {"semi", "thrown"} =>
       /\ at <= N - 1 /\ idom = <<>>
       /\ \A i \in 1..(N - 1) : IF i <= at THEN semi[i + 1] = i ELSE IsSemi(i)
  /\ phase \in {"idom", "adjust", "done"} =>
       /\ \A i \in 1..(N - 1) : IsSemi(i)
       /\ idom \in [1..N -> 0..(N - 1)]
  /\ phase = "thrown" => ~(Preds(at) \subseteq Visited) /\ at > 0
  /\ phase = "idom" =>
       at <= N - 1 /\ \A i \in 1..N : idom[i] = IF semi[i] > at THEN semi[i] ELSE 0
  /\ phase \in {"adjust", "done"} => idom = semi
  /\ phase = "adjust" => at \in 1..N

DomInv == WalkInv /\ PassInv

LEMMA MinFacts ==
  ASSUME NEW S, S \subseteq Nat, S # {}
  PROVE  Min(S) \in S /\ \A y \in S : Min(S) <= y
BY LeastNumber DEF Min

LEMMA SemiFacts ==
  ASSUME WalkInv, NEW i \in 1..(N - 1), Preds(i) \subseteq Visited
  PROVE  /\ \A u \in Preds(i) : IsClosest(Climb(number[u], i), number[u], i)
         /\ SemiOf(i) \in 0..i
         /\ Preds(i) = {} => SemiOf(i) = i
         /\ \A u \in Preds(i) : SemiOf(i) <= Climb(number[u], i)
         /\ Preds(i) # {} => SemiOf(i) < i /\ \E u \in Preds(i) : SemiOf(i) = Climb(number[u], i)
<1>1. \A u \in Preds(i) : IsClosest(Climb(number[u], i), number[u], i)
  BY TreeFacts, ClimbIsClosest
<1>. DEFINE S == {i} \cup {Climb(number[u], i) : u \in Preds(i)}
<1>2. S \subseteq Nat /\ S # {} /\ i \in S
  BY <1>1, TreeFacts DEF IsClosest
<1>3. SemiOf(i) = Min(S)
  BY DEF SemiOf
<1>4. Min(S) \in S /\ \A y \in S : Min(S) <= y
  <2>. HIDE DEF S
  <2>. QED
    BY <1>2, MinFacts
<1>5. Min(S) \in Nat /\ Min(S) <= i
  <2>. HIDE DEF S
  <2>. QED
    BY <1>2, <1>4
<1>6. \A u \in Preds(i) : Min(S) <= Climb(number[u], i)
  BY <1>4
<1>7. ASSUME Preds(i) = {} PROVE Min(S) = i
  BY <1>4, <1>7
<1>8. ASSUME Preds(i) # {} PROVE Min(S) < i /\ \E u \in Preds(i) : Min(S) = Climb(number[u], i)
  <2>1. PICK u \in Preds(i) : TRUE
    BY <1>8
  <2>2. Climb(number[u], i) < i /\ Climb(number[u], i) \in Nat
    BY <1>1 DEF IsClosest
  <2>3. Min(S) <= Climb(number[u], i)
    BY <1>6
  <2>. HIDE DEF S
  <2>4. Min(S) < i
    BY <1>5, <2>2, <2>3
  <2>5. Min(S) # i
    BY <1>5, <2>4
  <2>. USE DEF S
  <2>6. \E w \in Preds(i) : Min(S) = Climb(number[w], i)
    BY <1>4, <2>5
  <2>. QED
    BY <2>4, <2>6
<1>9. i \in Nat
  OBVIOUS
<1>. HIDE DEF S
<1>. QED
  BY <1>1, <1>3, <1>5, <1>6, <1>7, <1>8, <1>9

LEMMA WalkStays ==
  ASSUME UNCHANGED walk
  PROVE  /\ N' = N /\ Visited' = Visited /\ (Walked' <=> Walked)
         /\ \A i : Preds(i)' = Preds(i) /\ SemiOf(i)' = SemiOf(i)
<1>1. /\ flow' = flow /\ order' = order /\ parent' = parent /\ number' = number
      /\ work' = work /\ rpo' = rpo
  BY DEF walk
<1>2. N' = N /\ Visited' = Visited /\ (Walked' <=> Walked)
  BY <1>1 DEF N, Visited, Walked
<1>3. \A i : Preds(i)' = Preds(i)
  BY <1>1 DEF Preds
<1>4. \A u, i : Climb(number[u], i)' = Climb(number[u], i)
  BY <1>1 DEF Climb, Parent, N
<1>5. \A i : SemiOf(i)' = SemiOf(i)
  BY <1>3, <1>4 DEF SemiOf
<1>. QED
  BY <1>2, <1>3, <1>5

LEMMA DomStarts ==
  ASSUME DomInit
  PROVE  DomInv
<1>1. WalkInv
  BY WalkStarts DEF DomInit
<1>2. PassInv
  BY DEF DomInit, PassInv, Phases
<1>. QED
  BY <1>1, <1>2 DEF DomInv

LEMMA DomSteps ==
  ASSUME DomInv, [DomNext]_domVars
  PROVE  DomInv'
<1>0. WalkInv /\ PassInv
  BY DEF DomInv
<1>1. CASE Walk
  <2>1. WalkInv'
    BY <1>0, <1>1, VisitKeeps, LeaveKeeps DEF Walk, Next
  <2>2. PassInv'
    BY <1>0, <1>1 DEF Walk, PassInv, Phases, tree
  <2>. QED
    BY <2>1, <2>2 DEF DomInv
<1>2. ASSUME UNCHANGED walk, PassInv' PROVE DomInv'
  BY <1>0, <1>2, WalkStutters DEF DomInv
<1>3. ASSUME UNCHANGED walk, NEW i, UNCHANGED semi, IsSemi(i) PROVE IsSemi(i)'
  BY <1>3, WalkStays DEF IsSemi
<1>4. ASSUME Walked PROVE N \in Nat /\ N >= 1
  BY <1>0, <1>4, WalkedFacts
<1>5. CASE StartSemi
  <2>1. /\ phase = "walk" /\ Walked /\ phase' = "semi" /\ at' = N - 1
        /\ semi' = [i \in 1..N |-> i - 1] /\ idom' = <<>> /\ UNCHANGED walk
    BY <1>0, <1>5 DEF StartSemi, PassInv
  <2>2. N' = N /\ Walked' /\ N \in Nat /\ N >= 1
    BY <1>4, <2>1, WalkStays
  <2>3. /\ semi' \in [1..N -> 0..(N - 1)] /\ semi'[1] = 0 /\ at' \in Nat /\ at' <= N - 1
        /\ \A i \in 1..(N - 1) : i <= at' /\ semi'[i + 1] = i
    BY <2>1, <2>2
  <2>4. PassInv'
    BY <2>1, <2>2, <2>3 DEF PassInv, Phases
  <2>. QED
    BY <1>2, <2>1, <2>4
<1>6. CASE SemiRound
  <2>1. /\ phase = "semi" /\ at > 0 /\ Preds(at) \subseteq Visited /\ phase' = "semi" /\ at' = at - 1
        /\ semi' = [semi EXCEPT ![at + 1] = SemiLeast(Preds(at))]
        /\ UNCHANGED walk /\ idom' = idom
    BY <1>6 DEF SemiRound, AboveRoot, Preds
  <2>2. /\ Walked /\ at \in Nat /\ at <= N - 1 /\ idom = <<>>
        /\ semi \in [1..N -> 0..(N - 1)] /\ semi[1] = 0
        /\ \A i \in 1..(N - 1) : IF i <= at THEN semi[i + 1] = i ELSE IsSemi(i)
    BY <1>0, <2>1 DEF PassInv
  <2>3. N \in Nat /\ N >= 1 /\ N' = N /\ Walked' /\ at \in 1..(N - 1)
    BY <1>4, <2>1, <2>2, WalkStays
  <2>4. \A i \in 0..at : semi[i + 1] = i
    BY <2>2, <2>3
  <2>5. SemiLeast(Preds(at)) = SemiOf(at)
    <3>1. \A u \in Preds(at) : Climb(number[u], at) \in 0..at
      BY <1>0, <2>1, <2>3, SemiFacts DEF IsClosest
    <3>2. \A u \in Preds(at) : semi[Climb(number[u], at) + 1] = Climb(number[u], at)
      BY <2>4, <3>1
    <3>3. {semi[at + 1]} \cup Found(Preds(at)) = {at} \cup {Climb(number[u], at) : u \in Preds(at)}
      BY <2>3, <2>4, <3>2 DEF Found
    <3>. QED
      BY <3>3 DEF SemiLeast, SemiOf
  <2>6. SemiOf(at) \in 0..(N - 1)
    BY <1>0, <2>1, <2>3, SemiFacts
  <2>7. /\ semi' \in [1..N -> 0..(N - 1)] /\ semi'[1] = 0 /\ semi'[at + 1] = SemiOf(at)
        /\ \A i \in 1..(N - 1) : i # at => semi'[i + 1] = semi[i + 1]
    BY <2>1, <2>2, <2>3, <2>5, <2>6
  <2>8. ASSUME NEW i \in 1..(N - 1) PROVE IF i <= at - 1 THEN semi'[i + 1] = i ELSE IsSemi(i)'
    <3>1. CASE i < at
      BY <2>2, <2>3, <2>7, <3>1
    <3>2. CASE i = at
      <4>1. Preds(i)' \subseteq Visited' /\ semi'[i + 1] = SemiOf(i)'
        BY <2>1, <2>7, <3>2, WalkStays
      <4>2. IsSemi(i)'
        BY <4>1 DEF IsSemi
      <4>. QED
        BY <2>3, <3>2, <4>2
    <3>3. CASE i > at
      <4>1. Preds(i) \subseteq Visited /\ semi[i + 1] = SemiOf(i)
        BY <2>2, <2>3, <3>3 DEF IsSemi
      <4>2. Preds(i)' \subseteq Visited' /\ semi'[i + 1] = SemiOf(i)'
        BY <2>1, <2>7, <3>3, <4>1, WalkStays
      <4>3. IsSemi(i)'
        BY <4>2 DEF IsSemi
      <4>. QED
        BY <2>3, <3>3, <4>3
    <3>. QED
      BY <2>3, <3>1, <3>2, <3>3
  <2>9. at - 1 \in Nat /\ at - 1 <= N - 1
    BY <2>2, <2>3
  <2>10. PassInv'
    BY <2>1, <2>2, <2>3, <2>7, <2>8, <2>9 DEF PassInv, Phases
  <2>. QED
    BY <1>2, <2>1, <2>10
<1>7. CASE SemiThrows
  <2>1. /\ phase = "semi" /\ at > 0 /\ ~(Preds(at) \subseteq Visited) /\ phase' = "thrown"
        /\ UNCHANGED walk /\ at' = at /\ semi' = semi /\ idom' = idom
    BY <1>7 DEF SemiThrows, AboveRoot, Preds, tree
  <2>2. /\ Walked /\ at \in Nat /\ at <= N - 1 /\ idom = <<>>
        /\ semi \in [1..N -> 0..(N - 1)] /\ semi[1] = 0
        /\ \A i \in 1..(N - 1) : IF i <= at THEN semi[i + 1] = i ELSE IsSemi(i)
    BY <1>0, <2>1 DEF PassInv
  <2>3. N' = N /\ Walked' /\ ~(Preds(at)' \subseteq Visited')
    BY <2>1, <2>2, WalkStays
  <2>4. \A i \in 1..(N - 1) : IF i <= at THEN semi'[i + 1] = i ELSE IsSemi(i)'
    BY <1>3, <2>1, <2>2
  <2>5. ~(Predecessors(flow', order'[at' + 1]) \subseteq Visited')
    BY <2>1, <2>3 DEF Preds
  <2>6. PassInv'
    BY <2>1, <2>2, <2>3, <2>4, <2>5 DEF PassInv, Phases, Preds
  <2>. QED
    BY <1>2, <2>1, <2>6
<1>8. CASE StartIdom
  <2>1. /\ phase = "semi" /\ at = 0 /\ phase' = "idom" /\ at' = N - 1
        /\ idom' = [i \in 1..N |-> 0] /\ UNCHANGED walk /\ semi' = semi
    BY <1>8 DEF StartIdom
  <2>2. /\ Walked /\ semi \in [1..N -> 0..(N - 1)] /\ semi[1] = 0
        /\ \A i \in 1..(N - 1) : IF i <= at THEN semi[i + 1] = i ELSE IsSemi(i)
    BY <1>0, <2>1 DEF PassInv
  <2>3. N' = N /\ Walked' /\ N \in Nat /\ N >= 1
    BY <1>4, <2>1, <2>2, WalkStays
  <2>4. \A i \in 1..(N - 1) : IsSemi(i)'
    BY <1>3, <2>1, <2>2, <2>3
  <2>5. /\ idom' \in [1..N -> 0..(N - 1)] /\ at' \in Nat /\ at' <= N - 1
        /\ \A i \in 1..N : idom'[i] = IF semi[i] > N - 1 THEN semi[i] ELSE 0
    BY <2>1, <2>2, <2>3
  <2>6. PassInv'
    BY <2>1, <2>2, <2>3, <2>4, <2>5 DEF PassInv, Phases
  <2>. QED
    BY <1>2, <2>1, <2>6
<1>9. CASE IdomRound
  <2>1. /\ phase = "idom" /\ at > 0 /\ at' = at - 1 /\ UNCHANGED walk /\ phase' = phase /\ semi' = semi
        /\ idom' = [i \in 1..N |-> IF i - 1 \notin Bucket(at) THEN idom[i]
                                   ELSE IF semi[Eval(i - 1) + 1] < semi[i] THEN Eval(i - 1)
                                   ELSE at]
    BY <1>9 DEF IdomRound
  <2>2. /\ Walked /\ semi \in [1..N -> 0..(N - 1)] /\ semi[1] = 0 /\ at \in Nat /\ at <= N - 1
        /\ \A i \in 1..(N - 1) : IsSemi(i)
        /\ idom \in [1..N -> 0..(N - 1)]
        /\ \A i \in 1..N : idom[i] = IF semi[i] > at THEN semi[i] ELSE 0
    BY <1>0, <2>1 DEF PassInv
  <2>3. N' = N /\ Walked' /\ N \in Nat /\ N >= 1
    BY <1>4, <2>1, <2>2, WalkStays
  <2>4. \A i \in 1..(N - 1) : IsSemi(i)'
    BY <1>3, <2>1, <2>2
  <2>5. ASSUME NEW i \in 1..N PROVE idom'[i] = (IF semi[i] > at - 1 THEN semi[i] ELSE 0) /\ idom'[i] \in 0..(N - 1)
    <3>1. idom'[i] = IF i - 1 \notin Bucket(at) THEN idom[i] ELSE IF semi[i - 1 + 1] < semi[i] THEN i - 1 ELSE at
      BY <2>1 DEF Eval
    <3>2. i - 1 + 1 = i /\ semi[i] \in 0..(N - 1) /\ ~(semi[i] < semi[i])
      BY <2>2, <2>3
    <3>3. i - 1 \in Bucket(at) <=> i # 1 /\ semi[i] = at
      BY <2>3, <3>2 DEF Bucket
    <3>4. i - 1 \in Bucket(at) <=> semi[i] = at
      BY <2>1, <2>2, <3>3
    <3>5. semi[i] \in Nat /\ (semi[i] > at - 1 <=> semi[i] > at \/ semi[i] = at) /\ ~(at > at)
      <4>1. semi[i] \in Nat /\ at \in Nat
        BY <2>2, <2>3, <3>2
      <4>. QED
        BY ONLY <4>1
    <3>6. idom[i] = (IF semi[i] > at THEN semi[i] ELSE 0) /\ idom[i] \in 0..(N - 1) /\ at \in 0..(N - 1)
      BY <2>2, <2>3
    <3>. QED
      BY <3>1, <3>2, <3>4, <3>5, <3>6
  <2>6. idom' \in [1..N -> 0..(N - 1)] /\ at' \in Nat /\ at' <= N - 1
    <3>1. idom' = [i \in 1..N |-> idom'[i]]
      BY <2>1
    <3>2. idom' \in [1..N -> 0..(N - 1)]
      BY <2>5, <3>1
    <3>3. at - 1 \in Nat /\ at - 1 <= N - 1
      BY <2>1, <2>2, <2>3
    <3>. QED
      BY <2>1, <3>2, <3>3
  <2>7. PassInv'
    BY <2>1, <2>2, <2>3, <2>4, <2>5, <2>6 DEF PassInv, Phases
  <2>. QED
    BY <1>2, <2>1, <2>7
<1>10. CASE StartAdjust \/ AdjustRound \/ AdjustDone
  <2>1. /\ UNCHANGED walk /\ semi' = semi /\ phase \in {"idom", "adjust"} /\ phase' \in {"adjust", "done"}
    BY <1>10 DEF StartAdjust, AdjustRound, AdjustDone, tree
  <2>2. /\ Walked /\ semi \in [1..N -> 0..(N - 1)] /\ semi[1] = 0 /\ at \in Nat
        /\ \A i \in 1..(N - 1) : IsSemi(i)
        /\ idom \in [1..N -> 0..(N - 1)]
    BY <1>0, <2>1 DEF PassInv
  <2>3. N' = N /\ Walked' /\ N \in Nat /\ N >= 1
    BY <1>4, <2>1, <2>2, WalkStays
  <2>4. \A i \in 1..(N - 1) : IsSemi(i)'
    BY <1>3, <2>1, <2>2
  <2>5. idom' = semi /\ at' \in Nat /\ (phase' = "adjust" => at' \in 1..N)
    <3>1. CASE StartAdjust
      <4>1. phase = "idom" /\ at = 0 /\ at' = 1 /\ idom' = idom
        BY <3>1 DEF StartAdjust, tree
      <4>2. \A i \in 1..N : idom[i] = IF semi[i] > 0 THEN semi[i] ELSE 0
        BY <1>0, <4>1 DEF PassInv
      <4>3. \A i \in 1..N : idom[i] = semi[i]
        BY <2>2, <4>2
      <4>4. idom = semi
        <5>1. idom = [i \in 1..N |-> idom[i]] /\ semi = [i \in 1..N |-> semi[i]]
          BY <2>2
        <5>. QED
          BY <4>3, <5>1
      <4>. QED
        BY <2>3, <4>1, <4>4
    <3>2. CASE AdjustRound
      <4>1. /\ phase = "adjust" /\ at < N /\ at' = at + 1 /\ idom = semi /\ at \in 1..N
            /\ idom' = [idom EXCEPT ![at + 1] = Adjusted]
        BY <1>0, <3>2 DEF AdjustRound, PassInv
      <4>2. Adjusted = semi[at + 1]
        BY <4>1 DEF Adjusted
      <4>3. idom' = semi
        BY <2>2, <4>1, <4>2
      <4>. QED
        BY <2>3, <4>1, <4>3
    <3>3. CASE AdjustDone
      <4>1. phase = "adjust" /\ phase' = "done" /\ at' = at /\ idom' = idom /\ idom = semi
        BY <1>0, <3>3 DEF AdjustDone, PassInv, tree
      <4>. QED
        BY <2>2, <4>1
    <3>. QED
      BY <1>10, <3>1, <3>2, <3>3
  <2>6. PassInv'
    BY <2>1, <2>2, <2>3, <2>4, <2>5 DEF PassInv, Phases
  <2>. QED
    BY <1>2, <2>1, <2>6
<1>11. CASE UNCHANGED domVars
  <2>1. UNCHANGED walk /\ phase' = phase /\ at' = at /\ semi' = semi /\ idom' = idom
    BY <1>11 DEF domVars, walk
  <2>2. N' = N /\ Visited' = Visited /\ (Walked' <=> Walked) /\ \A i : Preds(i)' = Preds(i)
    BY <2>1, WalkStays
  <2>3. \A i : IsSemi(i)' <=> IsSemi(i)
    BY <2>1, <2>2, WalkStays DEF IsSemi
  <2>4. PassInv'
    BY <1>0, <2>1, <2>2, <2>3 DEF PassInv, Preds
  <2>. QED
    BY <1>2, <2>1, <2>4
<1>. QED
  BY <1>1, <1>5, <1>6, <1>7, <1>8, <1>9, <1>10, <1>11 DEF DomNext

-----------------------------------------------------------------------------
(* What the finished tree answers.                                         *)

LEMMA BuiltFacts ==
  ASSUME DomInv, Built
  PROVE  /\ WalkInv /\ Walked /\ N \in Nat /\ N >= 1
         /\ Falls(idom) /\ Places(idom) = 0..(N - 1) /\ idom[1] = 0
         /\ \A i \in 1..(N - 1) : Preds(i) \subseteq Visited /\ idom[i + 1] = SemiOf(i)
<1>1. /\ WalkInv /\ Walked /\ idom = semi /\ semi \in [1..N -> 0..(N - 1)] /\ semi[1] = 0
      /\ \A i \in 1..(N - 1) : IsSemi(i)
  BY DEF DomInv, PassInv, Built
<1>2. N \in Nat /\ N >= 1
  BY <1>1, WalkedFacts
<1>3. \A i \in 1..(N - 1) : Preds(i) \subseteq Visited /\ idom[i + 1] = SemiOf(i)
  BY <1>1 DEF IsSemi
<1>4. idom \in Seq(Nat) /\ Len(idom) = N
  <2>1. \A i \in 1..N : idom[i] \in Nat
    BY <1>1
  <2>. QED
    BY <1>1, <1>2, <2>1
<1>5. \A j \in 1..N : idom[j] <= j - 1
  <2>. SUFFICES ASSUME NEW j \in 1..N PROVE idom[j] <= j - 1
    OBVIOUS
  <2>1. CASE j = 1
    BY <1>1, <2>1
  <2>2. CASE j # 1
    <3>1. PICK i \in 1..(N - 1) : j = i + 1
      <4>1. j - 1 \in 1..(N - 1) /\ j = (j - 1) + 1
        BY <1>2, <2>2
      <4>. QED
        BY <4>1
    <3>2. idom[j] \in 0..i
      BY <1>1, <1>3, <3>1, SemiFacts
    <3>. QED
      BY <3>1, <3>2
  <2>. QED
    BY <2>1, <2>2
<1>. QED
  BY <1>1, <1>2, <1>3, <1>4, <1>5 DEF Falls, Places

(* The one region that may be entered and has no inputs is the end.        *)
LEMMA OnlyTheEnd ==
  ASSUME DomInv, Built, NEW i \in 1..(N - 1)
  PROVE  /\ order[i + 1] # End => Preds(i) # {}
         /\ Preds(i) # {} <=> HasInputs(order[i + 1])
<1>1. /\ TypeOK /\ NumbersAgree /\ WalkInv /\ parent[i + 1] \in 0..(N - 1)
      /\ GoesTo(flow, order[parent[i + 1] + 1], order[i + 1])
  BY BuiltFacts, TreeFacts
<1>2. i \in 0..(N - 1) /\ i # 0 /\ N > 0 /\ 0 \in 0..(N - 1)
  BY BuiltFacts
<1>3. order[i + 1] # Start
  <2>1. number[order[i + 1]] = i /\ number[order[0 + 1]] = 0 /\ order[1] = Start
    BY <1>1, <1>2, TreeFacts
  <2>. QED
    BY <1>2, <2>1
<1>4. ASSUME order[i + 1] # End PROVE Preds(i) # {}
  <2>. DEFINE u == order[parent[i + 1] + 1]
              r == order[i + 1]
  <2>1. u \in Regions
    BY <1>1, TreeFacts DEF TypeOK
  <2>2. flow[u].kind # "ret"
    <3>. SUFFICES ASSUME flow[u].kind = "ret" PROVE FALSE
      OBVIOUS
    <3>1. flow \in Flows /\ flow[u] \in Terminators \cup {EndTerminator}
      BY <1>1, <2>1 DEF TypeOK, Flows
    <3>2. flow[u] = [kind |-> "ret", to |-> <<End>>]
      BY <3>1 DEF Terminators, EndTerminator
    <3>3. \A i_1 \in DOMAIN flow[u].to : flow[u].to[i_1] = End
      BY <3>2
    <3>. QED
      BY <1>1, <1>4, <3>3 DEF GoesTo
  <2>3. u \in Predecessors(flow, r)
    BY <1>1, <2>1, <2>2 DEF Predecessors
  <2>. QED
    BY <2>3 DEF Preds
<1>. QED
  BY <1>3, <1>4 DEF HasInputs, Preds

(* What leads on to somewhere, or has a child, is not the end.             *)
LEMMA EndLeadsNowhere ==
  ASSUME NEW f \in Flows, NEW r, GoesTo(f, End, r)
  PROVE  FALSE
<1>1. f[End] = EndTerminator
  BY RegionsAssumption DEF Flows
<1>. QED
  BY <1>1 DEF EndTerminator, GoesTo

LEMMA ClosestIsNotTheEnd ==
  ASSUME DomInv, Built, NEW i \in 1..(N - 1), NEW u \in Preds(i)
  PROVE  order[Climb(number[u], i) + 1] # End
<1>1. /\ WalkInv /\ TypeOK /\ u \in Visited /\ number[u] \in 0..(N - 1) /\ order[number[u] + 1] = u
      /\ Falls(parent) /\ Places(parent) = 0..(N - 1) /\ flow \in Flows /\ N \in Nat
  BY BuiltFacts, TreeFacts DEF TypeOK
<1>. DEFINE m == Climb(number[u], i)
<1>2. m \in Ancestry(parent, number[u])
  BY <1>1, BuiltFacts, SemiFacts DEF IsClosest
<1>. HIDE DEF m
<1>3. CASE m = number[u]
  <2>1. GoesTo(flow, u, order[i + 1])
    BY DEF Preds, Predecessors
  <2>2. u # End
    BY <1>1, <2>1, EndLeadsNowhere
  <2>. QED
    BY <1>1, <1>3, <2>2 DEF m
<1>4. CASE m # number[u]
  <2>1. PICK j \in Places(parent) : j # m /\ parent[j + 1] = m
    BY <1>1, <1>2, <1>4, AncestryHasChild
  <2>2. j \in 1..(N - 1)
    <3>1. ASSUME j = 0 PROVE FALSE
      <4>1. parent[0 + 1] <= 0 /\ parent[0 + 1] \in Nat
        <5>1. parent[0 + 1] \in Places(parent) /\ parent[0 + 1] <= 0
          BY <1>1, <2>1, <3>1, FallsType
        <5>. QED
          BY <1>1, <5>1
      <4>2. parent[0 + 1] = 0
        BY <4>1
      <4>. QED
        BY <2>1, <3>1, <4>2
    <3>. QED
      BY <1>1, <2>1, <3>1
  <2>3. GoesTo(flow, order[m + 1], order[j + 1])
    BY <1>1, <2>1, <2>2, TreeFacts
  <2>4. order[m + 1] # End
    BY <1>1, <2>3, EndLeadsNowhere
  <2>. QED
    BY <2>4 DEF m
<1>. QED
  BY <1>3, <1>4

(* One step up the finished tree from a region with inputs.                *)
LEMMA StepUp ==
  ASSUME DomInv, Built, NEW i \in 1..(N - 1), Preds(i) # {}
  PROVE  /\ idom[i + 1] \in 0..(N - 1) /\ idom[i + 1] < i
         /\ idom[i + 1] = 0 \/ Preds(idom[i + 1]) # {}
         /\ \E u \in Preds(i) : idom[i + 1] = Climb(number[u], i) /\ IsClosest(idom[i + 1], number[u], i)
         /\ \A u \in Preds(i) : /\ idom[i + 1] <= Climb(number[u], i)
                                /\ IsClosest(Climb(number[u], i), number[u], i)
<1>1. WalkInv /\ N \in Nat /\ Preds(i) \subseteq Visited /\ idom[i + 1] = SemiOf(i)
  BY BuiltFacts
<1>2. /\ SemiOf(i) \in 0..i /\ SemiOf(i) < i
      /\ \A u \in Preds(i) : IsClosest(Climb(number[u], i), number[u], i) /\ SemiOf(i) <= Climb(number[u], i)
  BY <1>1, SemiFacts
<1>3. PICK u \in Preds(i) : SemiOf(i) = Climb(number[u], i)
  BY <1>1, SemiFacts
<1>4. idom[i + 1] = 0 \/ Preds(idom[i + 1]) # {}
  <2>. SUFFICES ASSUME idom[i + 1] # 0 PROVE Preds(idom[i + 1]) # {}
    OBVIOUS
  <2>1. idom[i + 1] \in 1..(N - 1)
    BY <1>1, <1>2
  <2>2. order[idom[i + 1] + 1] # End
    BY <1>1, <1>3, ClosestIsNotTheEnd
  <2>. QED
    BY <2>1, <2>2, OnlyTheEnd
<1>5. idom[i + 1] \in 0..(N - 1)
  BY <1>1, <1>2
<1>. QED
  BY <1>1, <1>2, <1>3, <1>4, <1>5

LEMMA QueriesLemma ==
  ASSUME DomInv
  PROVE  QueriesReturn
<1>. SUFFICES ASSUME Built, NEW r \in Visited PROVE QueryReturns(r) <=> HasInputs(r)
  BY DEF QueriesReturn
<1>1. /\ Falls(idom) /\ Places(idom) = 0..(N - 1) /\ N \in Nat /\ N >= 1 /\ idom[1] = 0
      /\ number[r] \in 0..(N - 1) /\ order[number[r] + 1] = r /\ order[1] = Start
  BY BuiltFacts, TreeFacts
<1>. DEFINE Good == {k \in Nat : k \in 1..(N - 1) /\ Preds(k) # {} => 0 \in Ancestry(idom, k)}
<1>2. 0 \in Ancestry(idom, 0)
  BY <1>1, AncestryIsClosed
<1>3. ASSUME NEW k \in Nat, \A m \in Nat : m < k => m \in Good PROVE k \in Good
  <2>. SUFFICES ASSUME k \in 1..(N - 1), Preds(k) # {} PROVE 0 \in Ancestry(idom, k)
    OBVIOUS
  <2>1. /\ idom[k + 1] \in 0..(N - 1) /\ idom[k + 1] < k
        /\ idom[k + 1] = 0 \/ Preds(idom[k + 1]) # {}
    BY StepUp
  <2>2. Ancestry(idom, k) = {k} \cup Ancestry(idom, idom[k + 1])
    BY <1>1, AncestryStep
  <2>3. CASE idom[k + 1] = 0
    BY <1>2, <2>2, <2>3
  <2>4. CASE idom[k + 1] # 0
    <3>1. idom[k + 1] \in 1..(N - 1) /\ idom[k + 1] \in Good
      BY <1>1, <1>3, <2>1, <2>4
    <3>. QED
      BY <2>1, <2>2, <2>4, <3>1
  <2>. QED
    BY <2>3, <2>4
<1>4. \A k \in Nat : k \in Good
  <2>. HIDE DEF Good
  <2>. QED
    BY <1>3, StrongInduction
<1>5. CASE number[r] = 0
  <2>1. r = Start
    BY <1>1, <1>5
  <2>. QED
    BY <1>2, <1>5, <2>1 DEF QueryReturns, HasInputs
<1>6. CASE number[r] # 0
  <2>1. number[r] \in 1..(N - 1)
    BY <1>1, <1>6
  <2>2. Preds(number[r]) # {} <=> HasInputs(r)
    BY <1>1, <2>1, OnlyTheEnd
  <2>3. CASE Preds(number[r]) # {}
    BY <1>4, <2>1, <2>2, <2>3 DEF QueryReturns
  <2>4. CASE Preds(number[r]) = {}
    <3>1. idom[number[r] + 1] = number[r]
      BY <2>1, <2>4, BuiltFacts, SemiFacts
    <3>2. Ancestry(idom, number[r]) = {number[r]}
      BY <1>1, <3>1, AncestryOfFixed
    <3>. QED
      BY <1>6, <2>2, <2>4, <3>2 DEF QueryReturns
  <2>. QED
    BY <2>3, <2>4
<1>. QED
  BY <1>5, <1>6

(* Below a region that is reached without d, and whose number is greater   *)
(* than that of d, the tree does not meet d.                               *)
LEMMA TreeAvoids ==
  ASSUME WalkInv, NEW d \in Visited, NEW a \in Nat, number[d] < a, order[a + 1] \in ReachedWithout(flow, {d}),
         NEW k \in Places(parent), a \in Ancestry(parent, k)
  PROVE  order[k + 1] \in ReachedWithout(flow, {d})
<1>1. /\ Falls(parent) /\ Places(parent) = 0..(N - 1) /\ N \in Nat /\ number[d] \in 0..(N - 1)
      /\ TypeOK
  BY TreeFacts
<1>. DEFINE Good == {j \in Nat : j \in Places(parent) /\ a \in Ancestry(parent, j) =>
                       order[j + 1] \in ReachedWithout(flow, {d})}
<1>2. ASSUME NEW j \in Nat, \A m \in Nat : m < j => m \in Good PROVE j \in Good
  <2>. SUFFICES ASSUME j \in Places(parent), a \in Ancestry(parent, j), j # a
                PROVE  order[j + 1] \in ReachedWithout(flow, {d})
    OBVIOUS
  <2>1. a <= j
    BY <1>1, AncestryIsClosed
  <2>2. j \in 1..(N - 1) /\ j # number[d]
    BY <1>1, <2>1
  <2>3. /\ parent[j + 1] \in 0..(N - 1) /\ parent[j + 1] < j
        /\ GoesTo(flow, order[parent[j + 1] + 1], order[j + 1])
    BY <2>2, TreeFacts
  <2>4. a \in Ancestry(parent, parent[j + 1])
    BY <1>1, AncestryStep
  <2>5. order[parent[j + 1] + 1] \in ReachedWithout(flow, {d})
    <3>1. parent[j + 1] \in Nat /\ parent[j + 1] < j /\ parent[j + 1] \in Places(parent)
      BY <1>1, <2>3
    <3>2. parent[j + 1] \in Good
      <4>. HIDE DEF Good
      <4>. QED
        BY <1>2, <3>1
    <3>. QED
      BY <2>4, <3>1, <3>2
  <2>6. order[j + 1] \in Regions \ {d}
    <3>1. order[j + 1] \in Visited /\ number[order[j + 1]] = j
      BY <1>1, <2>2, TreeFacts
    <3>. QED
      BY <1>1, <2>2, <3>1 DEF TypeOK
  <2>. QED
    BY <2>3, <2>5, <2>6, ReachedIsClosed
<1>3. \A j \in Nat : j \in Good
  <2>. HIDE DEF Good
  <2>. QED
    BY <1>2, StrongInduction
<1>4. k \in Nat
  BY <1>1
<1>. QED
  BY <1>3, <1>4

(* What cannot be reached without d comes from it in the tree.             *)
LEMMA DominatorIsAncestor ==
  ASSUME WalkInv, NEW d \in Visited, NEW k \in Places(parent), order[k + 1] \notin ReachedWithout(flow, {d})
  PROVE  number[d] \in Ancestry(parent, k)
<1>1. /\ Falls(parent) /\ Places(parent) = 0..(N - 1) /\ N \in Nat /\ number[d] \in 0..(N - 1)
      /\ TypeOK /\ order[number[d] + 1] = d
  BY TreeFacts
<1>. DEFINE Good == {j \in Nat : j \in Places(parent) /\ order[j + 1] \notin ReachedWithout(flow, {d}) =>
                       number[d] \in Ancestry(parent, j)}
<1>2. ASSUME NEW j \in Nat, \A m \in Nat : m < j => m \in Good PROVE j \in Good
  <2>. SUFFICES ASSUME j \in Places(parent), number[d] \notin Ancestry(parent, j)
                PROVE  order[j + 1] \in ReachedWithout(flow, {d})
    OBVIOUS
  <2>1. j # number[d] /\ order[j + 1] \in Visited /\ number[order[j + 1]] = j
    BY <1>1, TreeFacts, AncestryIsClosed
  <2>2. order[j + 1] \in Regions \ {d}
    BY <1>1, <2>1 DEF TypeOK
  <2>3. CASE j = 0
    <3>1. order[j + 1] = Start
      BY <1>1, <2>3, TreeFacts
    <3>. QED
      BY <2>2, <3>1, ReachedBasics
  <2>4. CASE j # 0
    <3>1. j \in 1..(N - 1)
      BY <1>1, <2>4
    <3>2. /\ parent[j + 1] \in 0..(N - 1) /\ parent[j + 1] < j
          /\ GoesTo(flow, order[parent[j + 1] + 1], order[j + 1])
      BY <3>1, TreeFacts
    <3>3. number[d] \notin Ancestry(parent, parent[j + 1])
      BY <1>1, AncestryStep
    <3>4. order[parent[j + 1] + 1] \in ReachedWithout(flow, {d})
      <4>1. parent[j + 1] \in Nat /\ parent[j + 1] < j /\ parent[j + 1] \in Places(parent)
        BY <1>1, <3>2
      <4>2. parent[j + 1] \in Good
        <5>. HIDE DEF Good
        <5>. QED
          BY <1>2, <4>1
      <4>. QED
        BY <3>3, <4>1, <4>2
    <3>. QED
      BY <2>2, <3>2, <3>4, ReachedIsClosed
  <2>. QED
    BY <2>3, <2>4
<1>3. \A j \in Nat : j \in Good
  <2>. HIDE DEF Good
  <2>. QED
    BY <1>2, StrongInduction
<1>4. k \in Nat
  BY <1>1
<1>. QED
  BY <1>3, <1>4

LEMMA DominatorsLemma ==
  ASSUME DomInv
  PROVE  DominatorsAreFound
<1>. SUFFICES ASSUME Built, NEW d \in Visited, NEW r \in Visited \ ReachedWithout(flow, {d}), HasInputs(r)
              PROVE  Dominates(d, r)
  BY DEF DominatorsAreFound
<1>1. /\ WalkInv /\ TypeOK /\ Falls(idom) /\ Places(idom) = 0..(N - 1) /\ N \in Nat /\ N >= 1
      /\ Falls(parent) /\ Places(parent) = 0..(N - 1)
      /\ number[d] \in 0..(N - 1) /\ order[number[d] + 1] = d /\ order[1] = Start
      /\ number[r] \in 0..(N - 1) /\ order[number[r] + 1] = r
  BY BuiltFacts, TreeFacts
<1>. DEFINE Good == {k \in Nat : /\ k \in 0..(N - 1) /\ (k = 0 \/ Preds(k) # {})
                                 /\ order[k + 1] \notin ReachedWithout(flow, {d})
                                 => number[d] \in Ancestry(idom, k)}
<1>2. ASSUME NEW k \in Nat, \A m \in Nat : m < k => m \in Good PROVE k \in Good
  <2>. SUFFICES ASSUME k \in 0..(N - 1), k = 0 \/ Preds(k) # {}, order[k + 1] \notin ReachedWithout(flow, {d})
                PROVE  number[d] \in Ancestry(idom, k)
    OBVIOUS
  <2>1. number[d] \in Ancestry(parent, k)
    BY <1>1, DominatorIsAncestor
  <2>2. CASE number[d] = k
    BY <1>1, <2>2, AncestryIsClosed
  <2>3. CASE number[d] # k
    <3>1. number[d] < k /\ k \in 1..(N - 1) /\ Preds(k) # {}
      <4>1. number[d] <= k
        BY <1>1, <2>1, AncestryIsClosed
      <4>. QED
        BY <1>1, <2>3, <4>1
    <3>2. order[k + 1] \in Regions \ {d}
      <4>1. order[k + 1] \in Visited /\ number[order[k + 1]] = k
        BY <1>1, TreeFacts
      <4>. QED
        BY <1>1, <2>3, <4>1 DEF TypeOK
    <3>3. ASSUME NEW u \in Preds(k)
          PROVE  u \notin ReachedWithout(flow, {d}) /\ u \in Visited
      <4>1. GoesTo(flow, u, order[k + 1])
        BY DEF Preds, Predecessors
      <4>2. u \notin ReachedWithout(flow, {d})
        BY <3>2, <4>1, ReachedIsClosed
      <4>. QED
        BY <3>1, <4>2, BuiltFacts
    <3>4. PICK m, u : /\ u \in Preds(k) /\ m = idom[k + 1] /\ m \in 0..(N - 1) /\ m < k
                      /\ m = 0 \/ Preds(m) # {}
                      /\ IsClosest(m, number[u], k)
      BY <3>1, StepUp
    <3>5. /\ number[u] \in 0..(N - 1) /\ order[number[u] + 1] = u
          /\ number[d] \in Ancestry(parent, number[u])
      <4>1. u \in Visited /\ u \notin ReachedWithout(flow, {d})
        BY <3>3, <3>4
      <4>2. number[u] \in 0..(N - 1) /\ order[number[u] + 1] = u
        BY <1>1, <4>1, TreeFacts
      <4>. QED
        BY <1>1, <4>1, <4>2, DominatorIsAncestor
    <3>6. number[d] <= m /\ m \in Ancestry(parent, number[u]) /\ m \in Nat
      BY <3>1, <3>4, <3>5 DEF IsClosest
    <3>7. number[d] = m \/ order[m + 1] \notin ReachedWithout(flow, {d})
      <4>. SUFFICES ASSUME number[d] # m, order[m + 1] \in ReachedWithout(flow, {d}) PROVE FALSE
        OBVIOUS
      <4>0. number[d] < m /\ number[u] \in Places(parent)
        BY <1>1, <3>5, <3>6
      <4>1. order[number[u] + 1] \in ReachedWithout(flow, {d})
        BY <1>1, <3>6, <4>0, TreeAvoids
      <4>. QED
        BY <3>3, <3>4, <3>5, <4>1
    <3>8. number[d] \in Ancestry(idom, m)
      <4>1. CASE number[d] = m
        BY <1>1, <3>4, <4>1, AncestryIsClosed
      <4>2. CASE number[d] # m
        <5>1. m \in Good
          BY <1>2, <3>4, <3>6
        <5>. QED
          BY <3>4, <3>7, <4>2, <5>1
      <4>. QED
        BY <4>1, <4>2
    <3>9. Ancestry(idom, k) = {k} \cup Ancestry(idom, m)
      BY <1>1, <3>4, AncestryStep
    <3>. QED
      BY <3>8, <3>9
  <2>. QED
    BY <2>2, <2>3
<1>3. \A k \in Nat : k \in Good
  <2>. HIDE DEF Good
  <2>. QED
    BY <1>2, StrongInduction
<1>4. number[r] = 0 \/ Preds(number[r]) # {}
  <2>. SUFFICES ASSUME number[r] # 0 PROVE Preds(number[r]) # {}
    OBVIOUS
  <2>1. number[r] \in 1..(N - 1)
    BY <1>1
  <2>. QED
    BY <1>1, <2>1, OnlyTheEnd
<1>5. number[r] \in Nat
  BY <1>1
<1>. QED
  BY <1>1, <1>3, <1>4, <1>5 DEF Dominates

LEMMA WalkLemma ==
  ASSUME DomInv
  PROVE  WalkIsDepthFirst
<1>. SUFFICES ASSUME WalkEnds
              PROVE  /\ Visited = ReachedWithout(flow, {}) /\ NumbersAgree
                     /\ \A u, r \in Visited : GoesTo(flow, u, r) =>
                          /\ number[u] < number[r] => IsTreeAncestor(u, r)
                          /\ IsTreeAncestor(r, u) \/ FirstLeft(r) < FirstLeft(u)
  BY DEF WalkIsDepthFirst
<1>1. WalkInv /\ Walked
  BY DEF DomInv, WalkEnds
<1>. QED
  BY <1>1, WalkedFacts

-----------------------------------------------------------------------------
LEMMA DomInvariant == DomSpec => []DomInv
<1>1. DomInit => DomInv
  BY DomStarts
<1>2. DomInv /\ [DomNext]_domVars => DomInv'
  BY DomSteps
<1>. QED
  BY <1>1, <1>2, PTL DEF DomSpec

(* _dfs numbers exactly what can be reached, by a depth-first tree, and    *)
(* leaves a region first after all that it leads to.                       *)
THEOREM WalksAreDepthFirst == DomSpec => []WalkIsDepthFirst
<1>1. DomInv => WalkIsDepthFirst
  BY WalkLemma
<1>. QED
  BY <1>1, DomInvariant, PTL

(* dominates() returns for exactly the regions that have inputs.           *)
THEOREM QueriesAreKnown == DomSpec => []QueriesReturn
<1>1. DomInv => QueriesReturn
  BY QueriesLemma
<1>. QED
  BY <1>1, DomInvariant, PTL

(* iDominators misses no domination: though it may call a region that is   *)
(* none a dominator, what lies on every path is found.                     *)
THEOREM NoDominatorIsMissed == DomSpec => []DominatorsAreFound
<1>1. DomInv => DominatorsAreFound
  BY DominatorsLemma
<1>. QED
  BY <1>1, DomInvariant, PTL
=============================================================================

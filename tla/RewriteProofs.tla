--------------------------- MODULE RewriteProofs ---------------------------
(***************************************************************************)
(* What constant folding and the peephole rules do to every expression.    *)
(***************************************************************************)
EXTENDS Folding, Peephole, Recursion, FiniteSetTheorems, SequenceTheorems

(* The nodes of a graph, of which only the first is a return.              *)
Slots(op) == IF op = "Ret" THEN {1} ELSE IF op \in Ops THEN {1, 2} ELSE {}

IsNode(r, size) ==
  /\ r = [op |-> r.op, val |-> r.val, in |-> r.in]
  /\ r.op \in {"Ret", "Argument", "Constant"} \cup Ops
  /\ r.in = [i \in Slots(r.op) |-> r.in[i]]
  /\ \A i \in Slots(r.op) : r.in[i] \in 0..size /\ r.in[i] # Ret

IsGraph(h) ==
  /\ \E R : h \in Seq(R)
  /\ Len(h) >= 1
  /\ \A n \in 1..Len(h) : IsNode(h[n], Len(h)) /\ (h[n].op = "Ret" <=> n = Ret)

IsUsed(h, n) == Uses(h, n) # {}

(* A node on the stack that was not seen can fold; one that was seen has   *)
(* lost its operands; and what can fold and is used waits on the stack.    *)
Waits(n) == n \notin visited /\ \E i \in DOMAIN work : work[i] = n

WorkIsReady == \A i \in DOMAIN work : work[i] \notin visited => CanFold(g, work[i])

SeenAreDone == \A n \in visited : n \in Nodes /\ g[n].op \in Ops /\ g[n].in[1] = 0

NothingIsForgotten ==
  pass = "fold" => \A n \in Nodes : IsUsed(g, n) /\ CanFold(g, n) => Waits(n)

FoldInv ==
  /\ IsGraph(g) /\ pass \in {"build", "fold"} /\ work \in Seq(Nodes)
  /\ pass = "build" => work = <<>> /\ visited = {}
  /\ WorkIsReady /\ SeenAreDone /\ NothingIsForgotten

-----------------------------------------------------------------------------
(* Expressions.                                                            *)

LEMMA GraphFacts ==
  ASSUME NEW h, IsGraph(h)
  PROVE  /\ Len(h) \in Nat /\ Len(h) >= 1 /\ DOMAIN h = 1..Len(h) /\ Ret \in DOMAIN h
         /\ \A n \in DOMAIN h : /\ h[n] = [op |-> h[n].op, val |-> h[n].val, in |-> h[n].in]
                                /\ DOMAIN h[n].in = Slots(h[n].op)
                                /\ \A i \in Slots(h[n].op) : h[n].in[i] \in (DOMAIN h \cup {0}) \ {Ret}
         /\ Slots(h[Ret].op) = {1}
<1>1. PICK R : h \in Seq(R)
  BY DEF IsGraph
<1>2. Len(h) \in Nat /\ DOMAIN h = 1..Len(h) /\ Len(h) >= 1
  BY <1>1, LenProperties DEF IsGraph
<1>3. Ret \in DOMAIN h
  BY <1>2 DEF Ret
<1>4. ASSUME NEW n \in DOMAIN h
      PROVE  /\ h[n] = [op |-> h[n].op, val |-> h[n].val, in |-> h[n].in]
             /\ DOMAIN h[n].in = Slots(h[n].op)
             /\ \A i \in Slots(h[n].op) : h[n].in[i] \in (DOMAIN h \cup {0}) \ {Ret}
  <2>1. IsNode(h[n], Len(h))
    BY <1>2 DEF IsGraph
  <2>2. h[n].in = [i \in Slots(h[n].op) |-> h[n].in[i]]
    BY <2>1 DEF IsNode
  <2>3. DOMAIN h[n].in = Slots(h[n].op)
    BY <2>2
  <2>4. h[n] = [op |-> h[n].op, val |-> h[n].val, in |-> h[n].in]
    BY <2>1 DEF IsNode
  <2>5. \A i \in Slots(h[n].op) : h[n].in[i] \in 0..Len(h) /\ h[n].in[i] # Ret
    BY <2>1 DEF IsNode
  <2>. QED
    BY <1>2, <2>3, <2>4, <2>5
<1>5. h[Ret].op = "Ret"
  BY <1>2, <1>3 DEF IsGraph
<1>6. Slots(h[Ret].op) = {1}
  BY <1>5 DEF Slots
<1>. QED
  BY ONLY <1>2, <1>3, <1>4, <1>6

LEMMA SetToSeqsFacts ==
  ASSUME NEW S, IsFiniteSet(S), NEW s \in SetToSeqs(S)
  PROVE  /\ s \in Seq(S)
         /\ \A e \in S : \E i \in DOMAIN s : s[i] = e
<1>. DEFINE D == 1..Cardinality(S)
<1>1. Cardinality(S) \in Nat /\ IsFiniteSet(D) /\ Cardinality(D) = Cardinality(S)
  BY FS_CardinalityType, FS_Interval
<1>2. s \in [D -> S] /\ \A i, j \in D : i # j => s[i] # s[j]
  BY DEF SetToSeqs
<1>3. s \in Seq(S)
  BY <1>1, <1>2
<1>4. s \in Injection(D, S)
  BY <1>2 DEF Injection, IsInjective
<1>5. s \in Surjection(D, S)
  BY <1>1, <1>4, FS_Injection
<1>6. \A e \in S : \E i \in D : s[i] = e
  BY <1>5 DEF Surjection
<1>. QED
  BY <1>2, <1>3, <1>6

(* The nodes of a set in their order, each one once.                       *)
LEMMA AscendingFacts ==
  ASSUME NEW k \in Nat, NEW S, S \subseteq 1..k
  PROVE  /\ Ascending(S) \in Seq(S)
         /\ \A n \in S : \E i \in DOMAIN Ascending(S) : Ascending(S)[i] = n
<1>. DEFINE Sorted(s) == \A i, j \in DOMAIN s : i < j => s[i] < s[j]
            Lists(s, T) == s \in SetToSeqs(T) /\ Sorted(s)
            Good == {m \in Nat : \A T : T \subseteq 1..m => \E s : Lists(s, T)}
<1>1. 0 \in Good
  <2>1. ASSUME NEW T, T \subseteq 1..0 PROVE \E s : Lists(s, T)
    <3>1. T = {} /\ Cardinality(T) = 0
      <4>1. T = {}
        BY <2>1
      <4>. QED
        BY <4>1, FS_EmptySet
    <3>2. DOMAIN <<>> = {} /\ <<>> \in [1..0 -> T]
      OBVIOUS
    <3>3. <<>> \in SetToSeqs(T)
      BY <3>1, <3>2 DEF SetToSeqs
    <3>. QED
      BY <3>1, <3>2, <3>3
  <2>. QED
    BY <2>1
<1>2. ASSUME NEW m \in Nat, m \in Good PROVE m + 1 \in Good
  <2>1. ASSUME NEW T, T \subseteq 1..(m + 1) PROVE \E s : Lists(s, T)
    <3>. DEFINE U == T \ {m + 1}
    <3>1. U \subseteq 1..m /\ IsFiniteSet(U) /\ Cardinality(U) \in Nat
      <4>1. U \subseteq 1..m
        BY <2>1
      <4>2. IsFiniteSet(1..m)
        BY FS_Interval
      <4>3. IsFiniteSet(U)
        <5>. HIDE DEF U
        <5>. QED
          BY <4>1, <4>2, FS_Subset
      <4>. QED
        BY <4>1, <4>3, FS_CardinalityType
    <3>2. PICK s : Lists(s, U)
      BY <1>2, <3>1
    <3>3. CASE m + 1 \notin T
      <4>1. U = T
        BY <3>3
      <4>. QED
        BY <3>2, <4>1
    <3>4. CASE m + 1 \in T
      <4>. DEFINE c == Cardinality(U)
                  t == [i \in 1..(c + 1) |-> IF i = c + 1 THEN m + 1 ELSE s[i]]
      <4>1. Cardinality(T) = c + 1
        <5>1. T = U \cup {m + 1} /\ m + 1 \notin U
          BY <3>4
        <5>. QED
          BY <3>1, <5>1, FS_AddElement
      <4>2. s \in [1..c -> U] /\ (\A i, j \in 1..c : i # j => s[i] # s[j]) /\ DOMAIN s = 1..c
        BY <3>2 DEF SetToSeqs
      <4>. HIDE DEF c
      <4>3. \A i \in 1..c : s[i] \in U /\ s[i] \in 1..m
        BY <3>1, <4>2
      <4>. HIDE DEF U
      <4>c. c \in Nat
        BY <3>1 DEF c
      <4>4. t \in [1..(c + 1) -> T]
        BY <3>4, <4>2, <4>3, <4>c DEF U
      <4>5. \A i, j \in 1..(c + 1) : i # j => t[i] # t[j]
        BY <4>2, <4>3, <4>c
      <4>6. \A i, j \in 1..(c + 1) : i < j => t[i] < t[j]
        <5>1. \A i, j \in 1..c : i < j => s[i] < s[j]
          BY <3>2, <4>2
        <5>. QED
          BY <4>3, <4>c, <5>1
      <4>. HIDE DEF t
      <4>8. DOMAIN t = 1..(c + 1)
        BY <4>4
      <4>9. t \in SetToSeqs(T)
        BY <4>1, <4>4, <4>5 DEF SetToSeqs
      <4>10. Lists(t, T)
        BY <4>6, <4>8, <4>9
      <4>. QED
        BY <4>10
    <3>. QED
      BY <3>3, <3>4
  <2>. QED
    BY <2>1
<1>3. k \in Good
  <2>. HIDE DEF Good
  <2>. QED
    BY <1>1, <1>2, Induction
<1>4. PICK s : Lists(s, S)
  BY <1>3
<1>. DEFINE a == Ascending(S)
<1>5. a \in SetToSeqs(S)
  BY <1>4 DEF Ascending
<1>. HIDE DEF a
<1>6. a \in Seq(S) /\ \A n \in S : \E i \in DOMAIN a : a[i] = n
  <2>1. IsFiniteSet(1..k)
    BY FS_Interval
  <2>2. IsFiniteSet(S)
    BY <2>1, FS_Subset
  <2>. QED
    BY <1>5, <2>2, SetToSeqsFacts
<1>. QED
  BY <1>6 DEF a

-----------------------------------------------------------------------------
(* A graph of which only slots changed.                                    *)
Relinks(h, k) ==
  /\ k = [n \in DOMAIN h |-> [op |-> h[n].op, val |-> h[n].val, in |-> k[n].in]]
  /\ \A n \in DOMAIN h :
       /\ k[n].in = [i \in Slots(h[n].op) |-> k[n].in[i]]
       /\ \A i \in Slots(h[n].op) : k[n].in[i] \in (DOMAIN h \cup {0}) \ {Ret}

LEMMA RelinkFacts ==
  ASSUME NEW h, NEW k, IsGraph(h), Relinks(h, k)
  PROVE  /\ IsGraph(k) /\ Len(k) = Len(h) /\ DOMAIN k = DOMAIN h
         /\ \A n \in DOMAIN h : k[n].op = h[n].op /\ k[n].val = h[n].val
<1>1. Len(h) \in Nat /\ DOMAIN h = 1..Len(h) /\ Len(h) >= 1
  BY GraphFacts
<1>2. k = [n \in 1..Len(h) |-> [op |-> h[n].op, val |-> h[n].val, in |-> k[n].in]]
  BY <1>1 DEF Relinks
<1>3. DOMAIN k = 1..Len(h)
  BY <1>2
<1>4. \A n \in 1..Len(h) : k[n] = [op |-> h[n].op, val |-> h[n].val, in |-> k[n].in]
  BY <1>2
<1>5. ASSUME NEW n \in 1..Len(h) PROVE k[n].op = h[n].op /\ k[n].val = h[n].val
  <2>1. k[n] = [op |-> h[n].op, val |-> h[n].val, in |-> k[n].in]
    BY <1>4
  <2>. QED
    BY ONLY <2>1
<1>6. \E R : k \in [1..Len(h) -> R]
  <2>. DEFINE R == {k[n] : n \in 1..Len(h)}
  <2>1. k \in [1..Len(h) -> R]
    BY <1>2
  <2>. QED
    BY <2>1
<1>7. (\E R : k \in Seq(R)) /\ Len(k) = Len(h)
  <2>1. PICK R : k \in [1..Len(h) -> R]
    BY <1>6
  <2>2. k \in Seq(R)
    BY <1>1, <2>1
  <2>3. Len(k) \in Nat /\ DOMAIN k = 1..Len(k)
    BY <2>2, LenProperties
  <2>4. Len(k) = Len(h)
    BY <1>1, <1>3, <2>3
  <2>. QED
    BY <2>2, <2>4
<1>8. ASSUME NEW n \in 1..Len(h)
      PROVE  IsNode(k[n], Len(h)) /\ (k[n].op = "Ret" <=> n = Ret)
  <2>1. IsNode(h[n], Len(h)) /\ (h[n].op = "Ret" <=> n = Ret)
    BY <1>1 DEF IsGraph
  <2>2. k[n] = [op |-> k[n].op, val |-> k[n].val, in |-> k[n].in]
    BY <1>4, <1>5
  <2>3. k[n].in = [i \in Slots(k[n].op) |-> k[n].in[i]]
    BY <1>1, <1>5 DEF Relinks
  <2>4. \A i \in Slots(k[n].op) : k[n].in[i] \in (DOMAIN h \cup {0}) \ {Ret}
    BY <1>1, <1>5 DEF Relinks
  <2>5. \A i \in Slots(k[n].op) : k[n].in[i] \in 0..Len(h) /\ k[n].in[i] # Ret
    BY <1>1, <2>4
  <2>. QED
    BY <1>5, <2>1, <2>2, <2>3, <2>5 DEF IsNode
<1>9. IsGraph(k)
  BY <1>1, <1>7, <1>8 DEF IsGraph
<1>. QED
  BY <1>1, <1>3, <1>5, <1>7, <1>9

(* Users of n become users of m, and n uses nothing any more.              *)
Moves(h, k, n, m) ==
  /\ \A u \in DOMAIN h : k[u].op = h[u].op /\ k[u].val = h[u].val
  /\ \A u \in DOMAIN h \ {n} : \A i \in Slots(h[u].op) :
       k[u].in[i] = IF h[u].in[i] = n THEN m ELSE h[u].in[i]
  /\ \A i \in Slots(h[n].op) : k[n].in[i] = 0

LEMMA SubstituteFacts ==
  ASSUME NEW h, IsGraph(h), NEW n \in DOMAIN h \ {Ret}, NEW m \in DOMAIN h \ {Ret, n},
         NEW k, k = Substitute(h, n, m)
  PROVE  IsGraph(k) /\ Len(k) = Len(h) /\ DOMAIN k = DOMAIN h /\ Moves(h, k, n, m)
<1>. DEFINE a == ReplaceWith(h, n, m)
            b == [a EXCEPT ![n].in = [i \in DOMAIN @ |-> 0]]
            S(u) == Slots(h[u].op)
<1>0. /\ 0 \notin DOMAIN h
      /\ \A u \in DOMAIN h : /\ h[u] = [op |-> h[u].op, val |-> h[u].val, in |-> h[u].in]
                             /\ DOMAIN h[u].in = S(u)
                             /\ \A i \in S(u) : h[u].in[i] \in (DOMAIN h \cup {0}) \ {Ret}
  BY GraphFacts
<1>1. DOMAIN a = DOMAIN h
  BY DEF ReplaceWith
<1>2. ASSUME NEW u \in DOMAIN h
      PROVE  a[u] = [op |-> h[u].op, val |-> h[u].val,
                     in |-> [i \in S(u) |-> IF h[u].in[i] = n THEN m ELSE h[u].in[i]]]
  BY <1>0 DEF ReplaceWith
<1>3. DOMAIN b = DOMAIN h
  BY <1>1
<1>4. ASSUME NEW u \in DOMAIN h \ {n} PROVE b[u] = a[u]
  BY <1>1
<1>5. b[n] = [op |-> h[n].op, val |-> h[n].val, in |-> [i \in S(n) |-> 0]]
  <2>1. b[n] = [a[n] EXCEPT !.in = [i \in DOMAIN a[n].in |-> 0]]
    BY <1>1
  <2>. HIDE DEF a, b
  <2>2. PICK in : in = [i \in S(n) |-> IF h[n].in[i] = n THEN m ELSE h[n].in[i]]
    OBVIOUS
  <2>3. a[n] = [op |-> h[n].op, val |-> h[n].val, in |-> in]
    BY <1>2, <2>2
  <2>4. a[n].in = in
    BY ONLY <2>3
  <2>5. DOMAIN a[n].in = S(n)
    BY ONLY <2>2, <2>4
  <2>6. b[n] = [a[n] EXCEPT !.in = [i \in S(n) |-> 0]]
    BY ONLY <2>1, <2>5
  <2>. QED
    BY ONLY <2>3, <2>6
<1>. DEFINE L(u) == IF u = n THEN [i \in S(u) |-> 0]
                    ELSE [i \in S(u) |-> IF h[u].in[i] = n THEN m ELSE h[u].in[i]]
<1>6. \A u \in DOMAIN h : b[u] = [op |-> h[u].op, val |-> h[u].val, in |-> L(u)]
  <2>. HIDE DEF a, b
  <2>. QED
    BY <1>2, <1>4, <1>5
<1>7. \A u \in DOMAIN h : \A i \in S(u) : L(u)[i] # n
  BY <1>0
<1>8. \A u \in DOMAIN h : DOMAIN L(u) = S(u) /\ L(u) = [i \in S(u) |-> L(u)[i]]
  OBVIOUS
<1>. HIDE DEF a, b, L
<1>k. k = ReplaceWith(b, n, 0)
  BY DEF Substitute, Detach, a, b
<1>9. DOMAIN k = DOMAIN h
  BY <1>3, <1>k DEF ReplaceWith
<1>10. ASSUME NEW u \in DOMAIN h
       PROVE  k[u] = [op |-> h[u].op, val |-> h[u].val, in |-> L(u)]
  <2>1. k[u] = [b[u] EXCEPT !.in = [i \in DOMAIN b[u].in |-> IF b[u].in[i] = n THEN 0 ELSE b[u].in[i]]]
    BY <1>3, <1>k DEF ReplaceWith
  <2>b. b[u] = [op |-> h[u].op, val |-> h[u].val, in |-> L(u)]
    BY <1>6
  <2>2. b[u].in = L(u)
    BY ONLY <2>b
  <2>3. [i \in DOMAIN L(u) |-> IF L(u)[i] = n THEN 0 ELSE L(u)[i]] = L(u)
    BY <1>7, <1>8
  <2>4. k[u] = [b[u] EXCEPT !.in = L(u)]
    BY <2>1, <2>2, <2>3
  <2>. QED
    BY <1>6, <2>4
<1>11. k = [u \in DOMAIN h |-> k[u]]
  BY <1>3, <1>k DEF ReplaceWith
<1>13. ASSUME NEW u \in DOMAIN h
       PROVE  k[u].op = h[u].op /\ k[u].val = h[u].val /\ k[u].in = L(u)
  <2>1. k[u] = [op |-> h[u].op, val |-> h[u].val, in |-> L(u)]
    BY <1>10
  <2>. QED
    BY ONLY <2>1
<1>14. \A u \in DOMAIN h : \A i \in S(u) :
         L(u)[i] = IF u = n THEN 0 ELSE IF h[u].in[i] = n THEN m ELSE h[u].in[i]
  BY DEF L
<1>15. Relinks(h, k)
  <2>1. k = [u \in DOMAIN h |-> [op |-> h[u].op, val |-> h[u].val, in |-> k[u].in]]
    BY <1>10, <1>11, <1>13
  <2>2. \A u \in DOMAIN h : k[u].in = [i \in S(u) |-> k[u].in[i]]
    BY <1>8, <1>13
  <2>3. \A u \in DOMAIN h : \A i \in S(u) : k[u].in[i] \in (DOMAIN h \cup {0}) \ {Ret}
    BY <1>0, <1>13, <1>14 DEF Ret
  <2>. QED
    BY <2>1, <2>2, <2>3 DEF Relinks
<1>16. IsGraph(k) /\ Len(k) = Len(h)
  BY <1>15, RelinkFacts
<1>. QED
  BY <1>9, <1>13, <1>14, <1>16 DEF Moves

(* A new node at the end.                                                  *)
LEMMA AppendFacts ==
  ASSUME NEW h, IsGraph(h), NEW r, IsNode(r, Len(h)), r.op # "Ret"
  PROVE  LET k == Append(h, r)
         IN  /\ IsGraph(k) /\ Len(k) = Len(h) + 1 /\ DOMAIN k = DOMAIN h \cup {Len(h) + 1}
             /\ k[Len(h) + 1] = r
             /\ \A u \in DOMAIN h : k[u] = h[u]
<1>. DEFINE k == Append(h, r)
<1>1. PICK R : h \in Seq(R)
  BY DEF IsGraph
<1>2. h \in Seq(R \cup {r})
  BY <1>1, SeqMonotonic
<1>3. /\ k \in Seq(R \cup {r}) /\ Len(k) = Len(h) + 1
      /\ \A u \in 1..Len(h) : k[u] = h[u]
      /\ k[Len(h) + 1] = r
  BY <1>2, AppendProperties
<1>. HIDE DEF k
<1>4. Len(h) \in Nat /\ DOMAIN h = 1..Len(h) /\ Len(h) >= 1 /\ DOMAIN k = 1..Len(k)
  BY <1>3, GraphFacts, LenProperties
<1>5. \A q : IsNode(q, Len(h)) => IsNode(q, Len(k))
  BY <1>3, <1>4 DEF IsNode
<1>6. \A n \in 1..Len(k) : IsNode(k[n], Len(k)) /\ (k[n].op = "Ret" <=> n = Ret)
  <2>1. \A n \in 1..Len(h) : IsNode(k[n], Len(k)) /\ (k[n].op = "Ret" <=> n = Ret)
    BY <1>3, <1>5 DEF IsGraph
  <2>2. IsNode(k[Len(h) + 1], Len(k)) /\ k[Len(h) + 1].op # "Ret" /\ Len(h) + 1 # Ret
    BY <1>3, <1>4, <1>5 DEF Ret
  <2>. QED
    BY <1>3, <1>4, <2>1, <2>2
<1>7. IsGraph(k)
  BY <1>3, <1>4, <1>6 DEF IsGraph
<1>8. DOMAIN k = DOMAIN h \cup {Len(h) + 1}
  BY <1>3, <1>4
<1>. QED
  BY <1>3, <1>4, <1>7, <1>8 DEF k

-----------------------------------------------------------------------------
(* The values that Meaning finds, level by level.                          *)
Unknown(h) == [n \in 0..Len(h) |-> Undefined]

Evaluated(h, x, val) == [n \in 0..Len(h) |-> IF n = 0 THEN Undefined ELSE ValueOf(h, x, n, val)]

AreValues(V, h, x) ==
  V[0] = Unknown(h) /\ \A d \in Nat : V[d + 1] = Evaluated(h, x, V[d])

LEMMA ValuesExist ==
  ASSUME NEW h, NEW x
  PROVE  \E V : V = [d \in Nat |-> IF d = 0 THEN Unknown(h) ELSE Evaluated(h, x, V[d - 1])]
<1>. DEFINE Upto(k, s) == s = [d \in 0..k |-> IF d = 0 THEN Unknown(h) ELSE Evaluated(h, x, s[d - 1])]
            Some == {k \in Nat : \E s : Upto(k, s)}
<1>1. \A k \in Nat : \A s : Upto(k, s) =>
        s[0] = Unknown(h) /\ \A d \in 1..k : s[d] = Evaluated(h, x, s[d - 1])
  OBVIOUS
<1>2. \A k \in Nat : k \in Some
  <2>1. 0 \in Some
    <3>. DEFINE s == [d \in 0..0 |-> Unknown(h)]
    <3>1. s = [d \in 0..0 |-> IF d = 0 THEN Unknown(h) ELSE Evaluated(h, x, s[d - 1])]
      OBVIOUS
    <3>. QED
      BY <3>1
  <2>2. ASSUME NEW k \in Nat, k \in Some PROVE k + 1 \in Some
    <3>1. PICK s : Upto(k, s)
      BY <2>2
    <3>2. s[0] = Unknown(h) /\ \A d \in 1..k : s[d] = Evaluated(h, x, s[d - 1])
      BY <1>1, <3>1
    <3>. DEFINE t == [d \in 0..(k + 1) |-> IF d = k + 1 THEN Evaluated(h, x, s[k]) ELSE s[d]]
    <3>3. \A d \in 0..(k + 1) : t[d] = IF d = 0 THEN Unknown(h) ELSE Evaluated(h, x, t[d - 1])
      BY <3>2
    <3>4. t = [d \in 0..(k + 1) |-> t[d]]
      OBVIOUS
    <3>. HIDE DEF t
    <3>5. Upto(k + 1, t)
      BY <3>3, <3>4
    <3>. QED
      BY <3>5
  <2>. HIDE DEF Some
  <2>. QED
    BY <2>1, <2>2, Induction
<1>. DEFINE at == [k \in Nat |-> CHOOSE s : Upto(k, s)]
            V == [k \in Nat |-> at[k][k]]
<1>3. \A k \in Nat : Upto(k, at[k])
  <2>1. \A k \in Nat : \E s : Upto(k, s)
    BY <1>2
  <2>. HIDE DEF Upto
  <2>. QED
    BY <2>1
<1>. HIDE DEF at
<1>4. \A k \in Nat : at[k][0] = Unknown(h) /\ \A d \in 1..k : at[k][d] = Evaluated(h, x, at[k][d - 1])
  <2>. HIDE DEF Upto
  <2>. QED
    BY <1>1, <1>3
<1>5. ASSUME NEW k \in Nat PROVE at[k + 1][k] = at[k][k]
  <2>. DEFINE Same == {d \in Nat : d <= k => at[k + 1][d] = at[k][d]}
  <2>1. 0 \in Same
    BY <1>4
  <2>2. ASSUME NEW d \in Nat, d \in Same PROVE d + 1 \in Same
    <3>1. CASE d + 1 <= k
      <4>1. d + 1 \in 1..k /\ d + 1 \in 1..(k + 1) /\ (d + 1) - 1 = d /\ d <= k
        BY <3>1
      <4>2. at[k][d + 1] = Evaluated(h, x, at[k][d]) /\ at[k + 1][d + 1] = Evaluated(h, x, at[k + 1][d])
        BY <1>4, <4>1
      <4>. QED
        BY <2>2, <4>1, <4>2
    <3>. QED
      BY <3>1
  <2>3. k \in Same
    <3>. HIDE DEF Same
    <3>. QED
      BY <2>1, <2>2, Induction
  <2>. QED
    BY <2>3
<1>6. V[0] = Unknown(h)
  BY <1>4
<1>7. ASSUME NEW d \in Nat, d # 0 PROVE V[d] = Evaluated(h, x, V[d - 1])
  <2>1. d - 1 \in Nat /\ (d - 1) + 1 = d /\ d \in 1..d
    BY <1>7
  <2>2. at[d][d] = Evaluated(h, x, at[d][d - 1])
    BY <1>4, <2>1
  <2>3. at[d][d - 1] = at[d - 1][d - 1]
    BY <1>5, <2>1
  <2>. QED
    BY <2>1, <2>2, <2>3
<1>8. V = [d \in Nat |-> V[d]]
  OBVIOUS
<1>. HIDE DEF V
<1>9. V = [d \in Nat |-> IF d = 0 THEN Unknown(h) ELSE Evaluated(h, x, V[d - 1])]
  BY <1>6, <1>7, <1>8
<1>. QED
  BY <1>9

LEMMA MeaningUnfolds ==
  ASSUME NEW h, NEW x, Len(h) \in Nat
  PROVE  \E V : AreValues(V, h, x) /\ Meaning(h, x) = V[Len(h)][h[Ret].in[1]]
<1>. DEFINE IsIt(V) == V = [d \in Nat |-> [n \in 0..Len(h) |->
                        IF d = 0 \/ n = 0 THEN Undefined ELSE ValueOf(h, x, n, V[d - 1])]]
            V0 == CHOOSE V : IsIt(V)
<1>1. Meaning(h, x) = V0[Len(h)][h[Ret].in[1]]
  BY Zenon DEF Meaning
<1>2. PICK V : V = [d \in Nat |-> IF d = 0 THEN Unknown(h) ELSE Evaluated(h, x, V[d - 1])]
  BY ValuesExist
<1>3. \A d \in Nat : (IF d = 0 THEN Unknown(h) ELSE Evaluated(h, x, V[d - 1]))
                   = [n \in 0..Len(h) |->
                        IF d = 0 \/ n = 0 THEN Undefined ELSE ValueOf(h, x, n, V[d - 1])]
  BY DEF Unknown, Evaluated
<1>4. IsIt(V)
  BY <1>2, <1>3
<1>5. IsIt(V0)
  BY <1>4
<1>. HIDE DEF V0
<1>6. V0[0] = Unknown(h)
  BY <1>5 DEF Unknown
<1>7. ASSUME NEW d \in Nat PROVE V0[d + 1] = Evaluated(h, x, V0[d])
  <2>1. d + 1 \in Nat /\ d + 1 # 0 /\ (d + 1) - 1 = d
    OBVIOUS
  <2>2. V0[d + 1] = [n \in 0..Len(h) |->
          IF d + 1 = 0 \/ n = 0 THEN Undefined ELSE ValueOf(h, x, n, V0[(d + 1) - 1])]
    BY <1>5, <2>1
  <2>. QED
    BY <2>1, <2>2 DEF Evaluated
<1>8. AreValues(V0, h, x)
  BY <1>6, <1>7 DEF AreValues
<1>. QED
  BY <1>1, <1>8

LEMMA LevelFacts ==
  ASSUME NEW h, IsGraph(h), NEW x, NEW V, AreValues(V, h, x)
  PROVE  /\ \A n \in DOMAIN h \cup {0} : V[0][n] = Undefined
         /\ \A d \in Nat : V[d][0] = Undefined
         /\ \A d \in Nat, n \in DOMAIN h : V[d + 1][n] = ValueOf(h, x, n, V[d])
<1>1. Len(h) \in Nat /\ DOMAIN h = 1..Len(h)
  BY GraphFacts
<1>2. \A n \in DOMAIN h \cup {0} : V[0][n] = Undefined
  BY <1>1 DEF AreValues, Unknown
<1>3. ASSUME NEW d \in Nat
      PROVE  V[d + 1][0] = Undefined /\ \A n \in DOMAIN h : V[d + 1][n] = ValueOf(h, x, n, V[d])
  <2>1. V[d + 1] = Evaluated(h, x, V[d])
    BY DEF AreValues
  <2>2. 0 \in 0..Len(h) /\ \A n \in DOMAIN h : n \in 0..Len(h) /\ n # 0
    BY <1>1
  <2>. QED
    BY <2>1, <2>2 DEF Evaluated
<1>4. ASSUME NEW d \in Nat PROVE V[d][0] = Undefined
  <2>1. CASE d = 0
    BY <1>2, <2>1
  <2>2. CASE d # 0
    <3>1. d - 1 \in Nat /\ (d - 1) + 1 = d
      BY <2>2
    <3>. QED
      BY <1>3, <3>1
  <2>. QED
    BY <2>1, <2>2
<1>. QED
  BY <1>2, <1>3, <1>4

LEMMA ApplyIsStrict ==
  ASSUME NEW op, NEW a, NEW b, Apply(op, a, b) # Undefined
  PROVE  a # Undefined /\ b # Undefined
<1>1. a = Undefined \/ b = Undefined => Undefined \in {a, b}
  OBVIOUS
<1>. QED
  BY <1>1 DEF Apply

LEMMA OperationFacts ==
  ASSUME NEW h, IsGraph(h), NEW n \in DOMAIN h, NEW x, NEW val
  PROVE  /\ h[n].op = "Argument" => ValueOf(h, x, n, val) = x
         /\ h[n].op = "Constant" => ValueOf(h, x, n, val) = h[n].val
         /\ h[n].op \in Ops => ValueOf(h, x, n, val) = Apply(h[n].op, val[h[n].in[1]], val[h[n].in[2]])
         /\ h[n].op \in Ops => \A i \in {1, 2} :
              i \in Slots(h[n].op) /\ h[n].in[i] \in (DOMAIN h \cup {0}) \ {Ret}
         /\ n # Ret => h[n].op \in {"Argument", "Constant"} \cup Ops
         /\ n = Ret => h[n].op \notin Ops
<1>1. DOMAIN h = 1..Len(h) /\ \A i \in Slots(h[n].op) : h[n].in[i] \in (DOMAIN h \cup {0}) \ {Ret}
  BY GraphFacts
<1>2. IsNode(h[n], Len(h)) /\ (h[n].op = "Ret" <=> n = Ret)
  BY <1>1 DEF IsGraph
<1>3. h[n].op \in {"Ret", "Argument", "Constant"} \cup Ops
  BY <1>2 DEF IsNode
<1>4. h[n].op \in Ops => h[n].op \notin {"Argument", "Constant", "Ret"} /\ Slots(h[n].op) = {1, 2}
  BY DEF Ops, Slots
<1>5. h[n].op = "Argument" => ValueOf(h, x, n, val) = x
  BY DEF ValueOf
<1>6. h[n].op = "Constant" => ValueOf(h, x, n, val) = h[n].val
  BY DEF ValueOf
<1>7. h[n].op \in Ops => ValueOf(h, x, n, val) = Apply(h[n].op, val[h[n].in[1]], val[h[n].in[2]])
  BY <1>4 DEF ValueOf
<1>. QED
  BY <1>1, <1>2, <1>3, <1>4, <1>5, <1>6, <1>7

(* What has a value at one level has it at the next.                       *)
LEMMA ValuesStay ==
  ASSUME NEW h, IsGraph(h), NEW x, NEW V, AreValues(V, h, x)
  PROVE  \A d \in Nat : \A n \in DOMAIN h \ {Ret} : V[d][n] # Undefined => V[d + 1][n] = V[d][n]
<1>. DEFINE Good == {d \in Nat : \A n \in DOMAIN h \ {Ret} : V[d][n] # Undefined => V[d + 1][n] = V[d][n]}
<1>1. 0 \in Good
  BY LevelFacts
<1>2. ASSUME NEW d \in Nat, d \in Good PROVE d + 1 \in Good
  <2>1. ASSUME NEW n \in DOMAIN h \ {Ret}, V[d + 1][n] # Undefined
        PROVE  V[(d + 1) + 1][n] = V[d + 1][n]
    <3>1. V[d + 1][n] = ValueOf(h, x, n, V[d]) /\ V[(d + 1) + 1][n] = ValueOf(h, x, n, V[d + 1])
      BY LevelFacts
    <3>2. CASE h[n].op \in {"Argument", "Constant"}
      BY <3>1, <3>2, OperationFacts
    <3>3. CASE h[n].op \in Ops
      <4>. DEFINE a == h[n].in[1]
                  b == h[n].in[2]
      <4>1. /\ V[d + 1][n] = Apply(h[n].op, V[d][a], V[d][b])
            /\ V[(d + 1) + 1][n] = Apply(h[n].op, V[d + 1][a], V[d + 1][b])
        BY <3>1, <3>3, OperationFacts
      <4>2. V[d][a] # Undefined /\ V[d][b] # Undefined
        BY <2>1, <4>1, ApplyIsStrict
      <4>3. a \in DOMAIN h \ {Ret} /\ b \in DOMAIN h \ {Ret}
        <5>1. {a, b} \subseteq (DOMAIN h \cup {0}) \ {Ret}
          BY <3>3, OperationFacts
        <5>2. a # 0 /\ b # 0
          BY <4>2, LevelFacts
        <5>. QED
          BY <5>1, <5>2
      <4>4. V[d + 1][a] = V[d][a] /\ V[d + 1][b] = V[d][b]
        BY <1>2, <4>2, <4>3
      <4>. QED
        BY <4>1, <4>4
    <3>. QED
      BY <3>2, <3>3, OperationFacts
  <2>. QED
    BY <2>1
<1>3. \A d \in Nat : d \in Good
  <2>. HIDE DEF Good
  <2>. QED
    BY <1>1, <1>2, Induction
<1>. QED
  BY <1>3

-----------------------------------------------------------------------------
(* Folding.                                                                *)

(* A round of the work loop turns h into k, where m, with c, stands for n. *)
FoldsTo(h, k, n, m, c) ==
  CanFold(h, n) /\ m = Len(h) + 1 /\ k = Substitute(Append(h, Constant(c)), n, m)

LEMMA FoldFacts ==
  ASSUME NEW h, NEW k, NEW n \in DOMAIN h, NEW m, NEW c, IsGraph(h), FoldsTo(h, k, n, m, c)
  PROVE  /\ n # Ret /\ m \notin DOMAIN h /\ m # 0
         /\ IsGraph(k) /\ Len(k) = m /\ DOMAIN k = DOMAIN h \cup {m}
         /\ k[m].op = "Constant" /\ k[m].val = c
         /\ Moves(h, k, n, m)
<1>. DEFINE a == Append(h, Constant(c))
<1>0. CanFold(h, n) /\ m = Len(h) + 1 /\ k = Substitute(a, n, m)
  BY DEF FoldsTo
<1>1. Len(h) \in Nat /\ DOMAIN h = 1..Len(h) /\ Len(h) >= 1
  BY GraphFacts
<1>2. n # Ret
  BY <1>0, OperationFacts DEF CanFold
<1>3. m \notin DOMAIN h /\ m # Ret /\ m # n /\ m # 0
  BY <1>0, <1>1, <1>2 DEF Ret
<1>4. IsNode(Constant(c), Len(h)) /\ Constant(c).op = "Constant" /\ Constant(c).val = c
  <2>1. PICK in : in = <<>>
    OBVIOUS
  <2>2. Constant(c) = [op |-> "Constant", val |-> c, in |-> in]
    BY <2>1 DEF Constant
  <2>3. Constant(c).op = "Constant" /\ Constant(c).val = c /\ Constant(c).in = in
    BY ONLY <2>2
  <2>4. Slots("Constant") = {}
    BY DEF Slots, Ops
  <2>5. in = [i \in {} |-> in[i]]
    BY <2>1
  <2>. QED
    BY <2>2, <2>3, <2>4, <2>5 DEF IsNode
<1>5. /\ IsGraph(a) /\ Len(a) = m /\ DOMAIN a = DOMAIN h \cup {m}
      /\ a[m] = Constant(c)
      /\ \A u \in DOMAIN h : a[u] = h[u]
  BY <1>0, <1>4, AppendFacts
<1>. HIDE DEF a
<1>6. n \in DOMAIN a \ {Ret} /\ m \in DOMAIN a \ {Ret, n}
  BY <1>2, <1>3, <1>5
<1>7. IsGraph(k) /\ Len(k) = m /\ DOMAIN k = DOMAIN h \cup {m} /\ Moves(a, k, n, m)
  BY <1>0, <1>5, <1>6, SubstituteFacts
<1>8. Moves(h, k, n, m)
  BY <1>5, <1>7 DEF Moves
<1>9. k[m].op = "Constant" /\ k[m].val = c
  BY <1>4, <1>5, <1>7 DEF Moves
<1>. QED
  BY <1>2, <1>3, <1>7, <1>8, <1>9

(* Each node has its value, or the new constant has it.                    *)
CarriesOver(h, V, W, n, m) ==
  \A d \in Nat : \A u \in DOMAIN h \ {Ret} :
    V[d][u] # Undefined => W[d][IF u = n THEN m ELSE u] = V[d][u]

LEMMA FoldedValues ==
  ASSUME NEW h, NEW k, NEW n \in DOMAIN h, NEW m, NEW c, IsGraph(h), FoldsTo(h, k, n, m, c),
         Apply(h[n].op, h[h[n].in[1]].val, h[h[n].in[2]].val) \in {c, Undefined},
         NEW x, NEW V, AreValues(V, h, x), NEW W, AreValues(W, k, x)
  PROVE  CarriesOver(h, V, W, n, m)
<1>. DEFINE To(u) == IF u = n THEN m ELSE u
            Good == {d \in Nat : \A u \in DOMAIN h \ {Ret} : V[d][u] # Undefined => W[d][To(u)] = V[d][u]}
<1>1. /\ n # Ret /\ m \notin DOMAIN h /\ m # 0
      /\ IsGraph(k) /\ DOMAIN k = DOMAIN h \cup {m}
      /\ k[m].op = "Constant" /\ k[m].val = c
      /\ \A u \in DOMAIN h : k[u].op = h[u].op /\ k[u].val = h[u].val
      /\ \A u \in DOMAIN h \ {n} : \A i \in Slots(h[u].op) : k[u].in[i] = To(h[u].in[i])
  <2>1. /\ n # Ret /\ m \notin DOMAIN h /\ m # 0
        /\ IsGraph(k) /\ DOMAIN k = DOMAIN h \cup {m}
        /\ k[m].op = "Constant" /\ k[m].val = c
        /\ Moves(h, k, n, m)
    BY FoldFacts
  <2>. QED
    BY <2>1 DEF Moves
<1>c. CanFold(h, n)
  BY DEF FoldsTo
<1>2. 0 \in Good
  BY LevelFacts
<1>3. ASSUME NEW d \in Nat, d \in Good PROVE d + 1 \in Good
  <2>1. ASSUME NEW u \in DOMAIN h \ {Ret}, V[d + 1][u] # Undefined
        PROVE  W[d + 1][To(u)] = V[d + 1][u]
    <3>1. V[d + 1][u] = ValueOf(h, x, u, V[d]) /\ W[d + 1][To(u)] = ValueOf(k, x, To(u), W[d])
      <4>1. To(u) \in DOMAIN k
        BY <1>1
      <4>2. V[d + 1][u] = ValueOf(h, x, u, V[d])
        BY LevelFacts
      <4>3. W[d + 1][To(u)] = ValueOf(k, x, To(u), W[d])
        <5>1. IsGraph(k)
          BY <1>1
        <5>2. \A t \in DOMAIN k : W[d + 1][t] = ValueOf(k, x, t, W[d])
          BY <5>1, LevelFacts
        <5>. QED
          BY <4>1, <5>2
      <4>. QED
        BY <4>2, <4>3
    <3>2. CASE h[u].op \in {"Argument", "Constant"}
      <4>1. u # n
        BY <1>c, <3>2 DEF CanFold, Ops
      <4>2. k[u].op = h[u].op /\ k[u].val = h[u].val /\ u \in DOMAIN k /\ To(u) = u
        BY <1>1, <4>1
      <4>. QED
        BY <1>1, <3>1, <3>2, <4>2, OperationFacts
    <3>3. CASE h[u].op \in Ops /\ u # n
      <4>. DEFINE a == h[u].in[1]
                  b == h[u].in[2]
      <4>1. V[d + 1][u] = Apply(h[u].op, V[d][a], V[d][b])
        BY <3>1, <3>3, OperationFacts
      <4>2. V[d][a] # Undefined /\ V[d][b] # Undefined
        BY <2>1, <4>1, ApplyIsStrict
      <4>3. a \in DOMAIN h \ {Ret} /\ b \in DOMAIN h \ {Ret}
        <5>1. {a, b} \subseteq (DOMAIN h \cup {0}) \ {Ret}
          BY <3>3, OperationFacts
        <5>2. a # 0 /\ b # 0
          BY <4>2, LevelFacts
        <5>. QED
          BY <5>1, <5>2
      <4>4. W[d][To(a)] = V[d][a] /\ W[d][To(b)] = V[d][b]
        BY <1>3, <4>2, <4>3
      <4>5. k[u].op = h[u].op /\ k[u].in[1] = To(a) /\ k[u].in[2] = To(b) /\ u \in DOMAIN k
        <5>1. {1, 2} \subseteq Slots(h[u].op)
          BY <3>3 DEF Slots, Ops
        <5>2. u \in DOMAIN h \ {n} /\ 1 \in Slots(h[u].op) /\ 2 \in Slots(h[u].op)
          BY <3>3, <5>1
        <5>. QED
          BY <1>1, <5>2
      <4>6. ValueOf(k, x, u, W[d]) = Apply(k[u].op, W[d][k[u].in[1]], W[d][k[u].in[2]])
        BY <1>1, <3>3, <4>5, OperationFacts
      <4>. QED
        BY <3>1, <3>3, <4>1, <4>4, <4>5, <4>6
    <3>4. CASE u = n
      <4>. DEFINE a == h[n].in[1]
                  b == h[n].in[2]
      <4>1. h[n].op \in Ops /\ a # 0 /\ b # 0 /\ h[a].op = "Constant" /\ h[b].op = "Constant"
        BY <1>c DEF CanFold
      <4>2. V[d + 1][n] = Apply(h[n].op, V[d][a], V[d][b])
        BY <3>1, <3>4, <4>1, OperationFacts
      <4>3. V[d][a] # Undefined /\ V[d][b] # Undefined
        BY <2>1, <3>4, <4>2, ApplyIsStrict
      <4>4. a \in DOMAIN h /\ b \in DOMAIN h
        <5>1. {a, b} \subseteq (DOMAIN h \cup {0}) \ {Ret}
          BY <4>1, OperationFacts
        <5>. QED
          BY <4>1, <5>1
      <4>5. V[d][a] = h[a].val /\ V[d][b] = h[b].val
        <5>1. d # 0
          BY <4>3, <4>4, LevelFacts
        <5>2. d - 1 \in Nat /\ (d - 1) + 1 = d
          BY <5>1
        <5>3. V[d][a] = ValueOf(h, x, a, V[d - 1]) /\ V[d][b] = ValueOf(h, x, b, V[d - 1])
          BY <4>4, <5>2, LevelFacts
        <5>. QED
          BY <4>1, <4>4, <5>3, OperationFacts
      <4>6. V[d + 1][n] = c
        BY <2>1, <3>4, <4>2, <4>5
      <4>7. ValueOf(k, x, m, W[d]) = c
        BY <1>1, OperationFacts
      <4>. QED
        BY <3>1, <3>4, <4>6, <4>7
    <3>. QED
      BY <3>2, <3>3, <3>4, OperationFacts
  <2>. QED
    BY <2>1
<1>4. \A d \in Nat : d \in Good
  <2>. HIDE DEF Good
  <2>. QED
    BY <1>2, <1>3, Induction
<1>. QED
  BY <1>4 DEF CarriesOver

LEMMA FoldKeepsMeaning ==
  ASSUME NEW h, NEW k, NEW n \in DOMAIN h, NEW m, NEW c, IsGraph(h), FoldsTo(h, k, n, m, c),
         Apply(h[n].op, h[h[n].in[1]].val, h[h[n].in[2]].val) \in {c, Undefined},
         NEW x, Meaning(h, x) # Undefined
  PROVE  Meaning(k, x) = Meaning(h, x)
<1>. DEFINE r == h[Ret].in[1]
            to == IF r = n THEN m ELSE r
<1>1. /\ Len(h) \in Nat /\ Ret \in DOMAIN h /\ Slots(h[Ret].op) = {1}
      /\ r \in (DOMAIN h \cup {0}) \ {Ret}
  BY GraphFacts
<1>2. /\ n # Ret /\ m \notin DOMAIN h /\ IsGraph(k) /\ Len(k) = m /\ DOMAIN k = DOMAIN h \cup {m}
      /\ Moves(h, k, n, m)
  BY FoldFacts
<1>3. m = Len(h) + 1
  BY DEF FoldsTo
<1>4. PICK V : AreValues(V, h, x) /\ Meaning(h, x) = V[Len(h)][r]
  BY <1>1, MeaningUnfolds
<1>5. PICK W : AreValues(W, k, x) /\ Meaning(k, x) = W[m][k[Ret].in[1]]
  <2>1. Len(k) = m /\ m \in Nat
    BY <1>1, <1>2, <1>3
  <2>. QED
    BY <2>1, MeaningUnfolds
<1>6. k[Ret].in[1] = to
  BY <1>1, <1>2 DEF Moves
<1>7. r \in DOMAIN h \ {Ret}
  BY <1>1, <1>4, LevelFacts
<1>8. W[Len(h)][to] = V[Len(h)][r]
  <2>1. CarriesOver(h, V, W, n, m)
    BY <1>4, <1>5, FoldedValues
  <2>. QED
    BY <1>1, <1>4, <1>7, <2>1 DEF CarriesOver
<1>9. to \in DOMAIN k \ {Ret}
  BY <1>1, <1>2, <1>7
<1>10. W[Len(h) + 1][to] = W[Len(h)][to]
  <2>1. W[Len(h)][to] # Undefined
    BY <1>4, <1>8
  <2>2. \A t \in DOMAIN k \ {Ret} : W[Len(h)][t] # Undefined => W[Len(h) + 1][t] = W[Len(h)][t]
    BY <1>1, <1>2, <1>5, ValuesStay
  <2>. QED
    BY <1>9, <2>1, <2>2
<1>. QED
  BY <1>3, <1>4, <1>5, <1>6, <1>8, <1>10

LEMMA UsesFacts ==
  ASSUME NEW h, IsGraph(h), NEW n
  PROVE  /\ IsFiniteSet(Uses(h, n))
         /\ Cardinality(Uses(h, n)) > 0 <=> IsUsed(h, n)
         /\ IsUsed(h, n) <=> \E u \in DOMAIN h : \E i \in Slots(h[u].op) : h[u].in[i] = n
<1>1. Len(h) \in Nat /\ DOMAIN h = 1..Len(h) /\ \A u \in DOMAIN h : DOMAIN h[u].in = Slots(h[u].op)
  BY GraphFacts
<1>2. \A op : Slots(op) \subseteq {1, 2}
  BY DEF Slots
<1>3. IsFiniteSet(Uses(h, n)) /\ Cardinality(Uses(h, n)) \in Nat
  <2>1. IsFiniteSet(1..Len(h)) /\ IsFiniteSet(1..2)
    <3>1. Len(h) \in Int /\ 1 \in Int /\ 2 \in Int
      BY <1>1
    <3>. QED
      BY ONLY <3>1, FS_Interval
  <2>2. IsFiniteSet((1..Len(h)) \X (1..2))
    BY <2>1, FS_Product
  <2>3. Uses(h, n) \subseteq (1..Len(h)) \X (1..2)
    BY <1>1 DEF Uses
  <2>. QED
    BY <2>2, <2>3, FS_Subset, FS_CardinalityType
<1>4. Cardinality(Uses(h, n)) = 0 <=> Uses(h, n) = {}
  BY <1>3, FS_EmptySet
<1>5. IsUsed(h, n) => \E u \in DOMAIN h : \E i \in Slots(h[u].op) : h[u].in[i] = n
  BY <1>1 DEF IsUsed, Uses
<1>6. ASSUME NEW u \in DOMAIN h, NEW i \in Slots(h[u].op), h[u].in[i] = n
      PROVE  IsUsed(h, n)
  <2>1. <<u, i>> \in Uses(h, n)
    BY <1>1, <1>2, <1>6 DEF Uses
  <2>. QED
    BY <2>1 DEF IsUsed
<1>. QED
  BY <1>3, <1>4, <1>5, <1>6 DEF IsUsed

(* What folding n does to the others. *)
LEMMA FoldOthers ==
  ASSUME NEW h, NEW k, NEW n \in DOMAIN h, NEW m, NEW c, IsGraph(h), FoldsTo(h, k, n, m, c)
  PROVE  /\ \A u \in DOMAIN h \ {n} : CanFold(h, u) => CanFold(k, u)
         /\ \A u \in DOMAIN k : CanFold(k, u) =>
              u \in DOMAIN h \ {n} /\ (CanFold(h, u) \/ \E e \in Uses(k, m) : e[1] = u)
         /\ \A u \in DOMAIN h : IsUsed(k, u) => IsUsed(h, u)
<1>1. /\ n # Ret /\ m \notin DOMAIN h /\ m # 0 /\ IsGraph(k) /\ DOMAIN k = DOMAIN h \cup {m}
      /\ k[m].op = "Constant" /\ Moves(h, k, n, m)
  BY FoldFacts
<1>2. /\ \A u \in DOMAIN h : k[u].op = h[u].op
      /\ \A u \in DOMAIN h \ {n} : \A i \in Slots(h[u].op) :
           k[u].in[i] = IF h[u].in[i] = n THEN m ELSE h[u].in[i]
      /\ \A i \in Slots(h[n].op) : k[n].in[i] = 0
  BY <1>1 DEF Moves
<1>3. 0 \notin DOMAIN h /\ \A u \in DOMAIN h : \A i \in Slots(h[u].op) : h[u].in[i] \in (DOMAIN h \cup {0}) \ {Ret}
  BY GraphFacts
<1>4. \A op \in Ops : Slots(op) = {1, 2} /\ op # "Constant"
  BY DEF Slots, Ops
<1>5. h[n].op \in Ops
  BY DEF FoldsTo, CanFold
<1>6. ASSUME NEW u \in DOMAIN h \ {n}, CanFold(h, u) PROVE CanFold(k, u)
  <2>1. h[u].op \in Ops /\ k[u].op = h[u].op
    BY <1>2, <1>6 DEF CanFold
  <2>2. ASSUME NEW i \in {1, 2} PROVE k[u].in[i] # 0 /\ k[k[u].in[i]].op = "Constant"
    <3>1. h[u].in[i] # 0 /\ h[h[u].in[i]].op = "Constant" /\ i \in Slots(h[u].op)
      BY <1>4, <1>6, <2>1 DEF CanFold
    <3>2. h[u].in[i] # n /\ h[u].in[i] \in DOMAIN h
      BY <1>3, <1>4, <1>5, <3>1
    <3>. QED
      BY <1>2, <3>1, <3>2
  <2>. QED
    BY <2>1, <2>2 DEF CanFold
<1>7. ASSUME NEW u \in DOMAIN k, CanFold(k, u)
      PROVE  u \in DOMAIN h \ {n} /\ (CanFold(h, u) \/ \E e \in Uses(k, m) : e[1] = u)
  <2>1. k[u].op \in Ops /\ \A i \in {1, 2} : k[u].in[i] # 0 /\ k[k[u].in[i]].op = "Constant"
    BY <1>7 DEF CanFold
  <2>2. u \in DOMAIN h /\ u # n
    BY <1>1, <1>2, <1>4, <1>5, <2>1
  <2>3. h[u].op \in Ops
    BY <1>2, <2>1, <2>2
  <2>4. CASE \E i \in {1, 2} : h[u].in[i] = n
    <3>1. PICK i \in {1, 2} : h[u].in[i] = n
      BY <2>4
    <3>2. k[u].in[i] = m
      BY <1>2, <1>4, <2>2, <2>3, <3>1
    <3>3. DOMAIN k[u].in = Slots(k[u].op)
      BY <1>1, GraphFacts
    <3>4. <<u, i>> \in Uses(k, m)
      BY <1>4, <2>1, <3>2, <3>3 DEF Uses
    <3>. QED
      BY <2>2, <3>4
  <2>5. CASE \A i \in {1, 2} : h[u].in[i] # n
    <3>1. ASSUME NEW i \in {1, 2} PROVE h[u].in[i] # 0 /\ h[h[u].in[i]].op = "Constant"
      <4>1. i \in Slots(h[u].op) /\ k[u].in[i] = h[u].in[i]
        BY <1>2, <1>4, <2>2, <2>3, <2>5
      <4>2. h[u].in[i] \in DOMAIN h
        BY <1>3, <2>1, <2>2, <4>1
      <4>. QED
        BY <1>2, <2>1, <4>1, <4>2
    <3>2. CanFold(h, u)
      BY <2>3, <3>1 DEF CanFold
    <3>. QED
      BY <2>2, <3>2
  <2>. QED
    BY <2>4, <2>5
<1>8. ASSUME NEW u \in DOMAIN h, IsUsed(k, u) PROVE IsUsed(h, u)
  <2>1. PICK t \in DOMAIN k : \E i \in Slots(k[t].op) : k[t].in[i] = u
    BY <1>1, <1>8, UsesFacts
  <2>2. PICK i \in Slots(k[t].op) : k[t].in[i] = u
    BY <2>1
  <2>3. Slots("Constant") = {}
    BY DEF Slots, Ops
  <2>4. t \in DOMAIN h
    BY <1>1, <2>2, <2>3
  <2>5. t # n /\ i \in Slots(h[t].op)
    BY <1>2, <1>3, <2>2, <2>4
  <2>6. h[t].in[i] = u
    BY <1>1, <1>2, <2>2, <2>4, <2>5
  <2>. QED
    BY <2>4, <2>5, <2>6, UsesFacts
<1>. QED
  BY <1>6, <1>7, <1>8

-----------------------------------------------------------------------------
(* The function under construction.                                        *)

LEMMA InitIsGraph ==
  ASSUME InitGraph
  PROVE  IsGraph(g) /\ \A n \in Nodes : g[n].op \notin Ops /\ \A i \in Slots(g[n].op) : g[n].in[i] # 0
<1>. DEFINE first == [op |-> "Ret", val |-> 0, in |-> <<2>>]
            second == [op |-> "Argument", val |-> 0, in |-> <<>>]
            literals == [i \in DOMAIN Literals |-> Constant(Literals[i])]
<1>1. g = <<first, second>> \o literals /\ work = <<>> /\ pass = "build"
  BY DEF InitGraph
<1>2. Len(Literals) \in Nat /\ DOMAIN Literals = 1..Len(Literals)
  BY LiteralsAssumption, LenProperties
<1>3. PICK e : e = <<>>
  OBVIOUS
<1>4. \A i \in DOMAIN literals : literals[i] = [op |-> "Constant", val |-> Literals[i], in |-> e]
  BY <1>3 DEF Constant
<1>. DEFINE R == {first, second} \cup {literals[i] : i \in DOMAIN Literals}
<1>5. literals \in Seq(R) /\ Len(literals) = Len(Literals)
  <2>1. literals \in [1..Len(Literals) -> R]
    BY <1>2
  <2>2. literals \in Seq(R)
    BY <1>2, <2>1
  <2>3. DOMAIN literals = 1..Len(Literals)
    BY <1>2
  <2>. HIDE DEF literals
  <2>4. Len(literals) \in Nat /\ DOMAIN literals = 1..Len(literals)
    BY <2>2, LenProperties
  <2>. QED
    BY <1>2, <2>2, <2>3, <2>4
<1>6. <<first, second>> \in Seq(R) /\ Len(<<first, second>>) = 2
  <2>1. first \in R /\ second \in R
    OBVIOUS
  <2>. HIDE DEF first, second, R
  <2>. QED
    BY <2>1
<1>7. /\ g \in Seq(R) /\ Len(g) = 2 + Len(Literals)
      /\ \A i \in 1..Len(g) : g[i] = IF i <= 2 THEN <<first, second>>[i] ELSE literals[i - 2]
  <2>. HIDE DEF literals, first, second, R
  <2>. QED
    BY <1>1, <1>5, <1>6, ConcatProperties
<1>8. Slots("Ret") = {1} /\ Slots("Argument") = {} /\ Slots("Constant") = {}
  BY DEF Slots, Ops
<1>9. ASSUME NEW n \in 1..Len(g)
      PROVE  /\ IsNode(g[n], Len(g)) /\ (g[n].op = "Ret" <=> n = Ret)
             /\ g[n].op \notin Ops /\ \A i \in Slots(g[n].op) : g[n].in[i] # 0
  <2>1. CASE n = 1
    <3>1. PICK in : in = <<2>>
      OBVIOUS
    <3>2. g[n] = [op |-> "Ret", val |-> 0, in |-> in]
      <4>1. g[n] = first
        <5>. HIDE DEF first, second, literals, R
        <5>. QED
          BY <1>2, <1>7, <2>1
      <4>. QED
        BY <3>1, <4>1
    <3>3. g[n].op = "Ret" /\ g[n].val = 0 /\ g[n].in = in
      BY ONLY <3>2
    <3>4. in = [i \in {1} |-> in[i]] /\ in[1] = 2 /\ 2 \in 0..Len(g) /\ 2 # Ret
      BY <1>2, <1>7, <3>1 DEF Ret
    <3>. QED
      BY <1>8, <2>1, <3>2, <3>3, <3>4 DEF IsNode, Ret, Ops
  <2>2. CASE n = 2
    <3>1. g[n] = [op |-> "Argument", val |-> 0, in |-> e]
      <4>1. g[n] = second
        <5>. HIDE DEF first, second, literals, R
        <5>. QED
          BY <1>2, <1>7, <2>2
      <4>. QED
        BY <1>3, <4>1
    <3>2. g[n].op = "Argument" /\ g[n].val = 0 /\ g[n].in = e
      BY ONLY <3>1
    <3>3. e = [i \in {} |-> e[i]]
      BY <1>3
    <3>. QED
      BY <1>8, <2>2, <3>1, <3>2, <3>3 DEF IsNode, Ret, Ops
  <2>3. CASE n > 2
    <3>1. n - 2 \in DOMAIN literals /\ g[n] = literals[n - 2]
      BY <1>2, <1>7, <2>3
    <3>2. PICK v : v = Literals[n - 2]
      OBVIOUS
    <3>3. g[n] = [op |-> "Constant", val |-> v, in |-> e]
      BY <1>4, <3>1, <3>2
    <3>4. g[n].op = "Constant" /\ g[n].val = v /\ g[n].in = e
      BY ONLY <3>3
    <3>5. e = [i \in {} |-> e[i]]
      BY <1>3
    <3>. QED
      BY <1>8, <2>3, <3>3, <3>4, <3>5 DEF IsNode, Ret, Ops
  <2>. QED
    BY <1>2, <1>7, <2>1, <2>2, <2>3
<1>10. IsGraph(g)
  BY <1>2, <1>7, <1>9 DEF IsGraph
<1>11. Nodes = 1..Len(g)
  BY <1>10, GraphFacts DEF Nodes
<1>. QED
  BY <1>9, <1>10, <1>11

LEMMA FoldInit == Init => FoldInv
<1>. SUFFICES ASSUME Init PROVE FoldInv
  OBVIOUS
<1>1. work = <<>> /\ pass = "build" /\ visited = {} /\ IsGraph(g)
  BY InitIsGraph DEF Init, InitGraph
<1>2. work \in Seq(Nodes) /\ DOMAIN work = {}
  BY <1>1
<1>. QED
  BY <1>1, <1>2 DEF FoldInv, WorkIsReady, SeenAreDone, NothingIsForgotten

(* A node q is added and returned.                                         *)
Grows(h, k, q) ==
  /\ \A n \in DOMAIN Append(h, q) \ {Ret} : k[n] = Append(h, q)[n]
  /\ DOMAIN k = DOMAIN Append(h, q)
  /\ k[Ret].op = "Ret" /\ k[Ret].in[1] = Len(h) + 1

LEMMA BuildIsGraph ==
  ASSUME IsGraph(g), Building
  PROVE  /\ IsGraph(g') /\ Nodes \subseteq Nodes'
         /\ \E op \in Ops : \E a, b \in Nodes \ {Ret} :
              Grows(g, g', BinOp(op, a, b)) /\ IsNode(BinOp(op, a, b), Len(g))
<1>1. PICK op \in Ops, a \in Nodes \ {Ret}, b \in Nodes \ {Ret} : Build(op, a, b)
  BY DEF Building
<1>. DEFINE m == Len(g) + 1
            new == BinOp(op, a, b)
            h == Append(g, new)
<1>2. Len(g) \in Nat /\ Nodes = 1..Len(g) /\ Ret \in Nodes
  BY GraphFacts DEF Nodes
<1>3. IsNode(new, Len(g)) /\ new.op # "Ret"
  <2>1. PICK in : in = <<a, b>>
    OBVIOUS
  <2>2. new = [op |-> op, val |-> 0, in |-> in]
    BY <2>1 DEF BinOp
  <2>3. new.op = op /\ new.val = 0 /\ new.in = in
    BY ONLY <2>2
  <2>4. Slots(op) = {1, 2} /\ op # "Ret"
    BY DEF Slots, Ops
  <2>5. in = [i \in {1, 2} |-> in[i]] /\ in[1] = a /\ in[2] = b
    BY <2>1
  <2>6. a \in 0..Len(g) /\ b \in 0..Len(g)
    BY <1>2
  <2>. QED
    BY <2>2, <2>3, <2>4, <2>5, <2>6 DEF IsNode
<1>4. IsGraph(h) /\ DOMAIN h = Nodes \cup {m}
  BY <1>3, AppendFacts DEF Nodes
<1>5. g' = [h EXCEPT ![Ret].in = <<m>>]
  BY <1>1 DEF Build
<1>. HIDE DEF h, new
<1>6. \A n \in DOMAIN h : /\ h[n] = [op |-> h[n].op, val |-> h[n].val, in |-> h[n].in]
                         /\ DOMAIN h[n].in = Slots(h[n].op)
                         /\ \A i \in Slots(h[n].op) : h[n].in[i] \in (DOMAIN h \cup {0}) \ {Ret}
  BY <1>4, GraphFacts
<1>7. h[Ret].op = "Ret" /\ Slots("Ret") = {1}
  <2>1. Ret \in 1..Len(h)
    BY <1>2, <1>4, GraphFacts
  <2>. QED
    BY <1>4, <2>1 DEF IsGraph, Slots
<1>8. PICK in : in = <<m>>
  OBVIOUS
<1>9. DOMAIN g' = DOMAIN h /\ g' = [n \in DOMAIN h |-> g'[n]]
  BY <1>5
<1>10. \A n \in DOMAIN h \ {Ret} : g'[n] = h[n]
  BY <1>5
<1>11. g'[Ret] = [op |-> h[Ret].op, val |-> h[Ret].val, in |-> in]
  <2>1. g'[Ret] = [h[Ret] EXCEPT !.in = in] /\ Ret \in DOMAIN h
    BY <1>2, <1>4, <1>5, <1>8
  <2>. QED
    BY <1>6, <2>1
<1>12. g'[Ret].in = in
  BY ONLY <1>11
<1>13. Relinks(h, g')
  <2>1. ASSUME NEW n \in DOMAIN h
        PROVE  /\ g'[n] = [op |-> h[n].op, val |-> h[n].val, in |-> g'[n].in]
               /\ g'[n].in = [i \in Slots(h[n].op) |-> g'[n].in[i]]
               /\ \A i \in Slots(h[n].op) : g'[n].in[i] \in (DOMAIN h \cup {0}) \ {Ret}
    <3>1. CASE n = Ret
      <4>1. in = [i \in {1} |-> in[i]] /\ in[1] = m /\ m # Ret /\ m \in DOMAIN h
        BY <1>2, <1>4, <1>8 DEF Ret
      <4>. QED
        BY <1>7, <1>11, <1>12, <3>1, <4>1
    <3>2. CASE n # Ret
      <4>1. g'[n] = h[n]
        BY <1>10, <3>2
      <4>2. IsNode(h[n], Len(h))
        BY <1>4, GraphFacts DEF IsGraph
      <4>3. h[n].in = [i \in Slots(h[n].op) |-> h[n].in[i]]
        BY <4>2 DEF IsNode
      <4>. QED
        BY <1>6, <4>1, <4>3
    <3>. QED
      BY <3>1, <3>2
  <2>. QED
    BY <1>9, <2>1 DEF Relinks
<1>14. IsGraph(g')
  BY <1>4, <1>13, RelinkFacts
<1>15. in[1] = m
  BY <1>8
<1>16. g'[Ret].op = "Ret" /\ g'[Ret].in[1] = m
  BY <1>7, <1>11, <1>12, <1>15
<1>17. Grows(g, g', BinOp(op, a, b))
  BY <1>9, <1>10, <1>16 DEF Grows, h, new
<1>. QED
  BY <1>3, <1>4, <1>9, <1>14, <1>17 DEF Nodes, new

-----------------------------------------------------------------------------
LEMMA TopOf ==
  ASSUME NEW S, work \in Seq(S), work # <<>>
  PROVE  /\ Front(work) \in Seq(S) /\ Last(work) \in S
         /\ DOMAIN work = 1..Len(work) /\ Len(work) \in Nat \ {0} /\ Last(work) = work[Len(work)]
         /\ Len(Front(work)) = Len(work) - 1
         /\ \A i \in 1..(Len(work) - 1) : Front(work)[i] = work[i]
<1>2. DOMAIN work = 1..Len(work) /\ Len(work) \in Nat \ {0} /\ \A i \in 1..Len(work) : work[i] \in S
  BY LenProperties
<1>3. Last(work) = work[Len(work)]
  BY DEF Last
<1>4. /\ Front(work) \in Seq(S) /\ Len(Front(work)) = Len(work) - 1
      /\ \A i \in 1..(Len(work) - 1) : Front(work)[i] = work[i]
  <2>1. 1 \in Int /\ Len(work) - 1 \in Int /\ \A i \in 1..(Len(work) - 1) : work[i] \in S
    BY <1>2
  <2>2. Front(work) = SubSeq(work, 1, Len(work) - 1)
    BY DEF Front
  <2>3. /\ SubSeq(work, 1, Len(work) - 1) \in Seq(S)
        /\ Len(SubSeq(work, 1, Len(work) - 1)) = IF 1 <= Len(work) - 1 THEN Len(work) - 1 - 1 + 1 ELSE 0
        /\ \A i \in 1..(Len(work) - 1 - 1 + 1) : SubSeq(work, 1, Len(work) - 1)[i] = work[1 + i - 1]
    BY <2>1, SubSeqProperties
  <2>. QED
    BY <1>2, <2>2, <2>3
<1>. QED
  BY <1>2, <1>3, <1>4

LEMMA TopFacts ==
  ASSUME FoldInv, work # <<>>
  PROVE  /\ Front(work) \in Seq(Nodes) /\ Last(work) \in Nodes
         /\ DOMAIN work = 1..Len(work) /\ Len(work) \in Nat \ {0} /\ Last(work) = work[Len(work)]
         /\ Len(Front(work)) = Len(work) - 1
         /\ \A i \in 1..(Len(work) - 1) : Front(work)[i] = work[i]
  BY TopOf DEF FoldInv

LEMMA StartKeeps ==
  ASSUME FoldInv, Start
  PROVE  FoldInv'
<1>. DEFINE S == {n \in Nodes : UsersCount(n) > 0 /\ CanFold(g, n)}
<1>1. pass = "build" /\ pass' = "fold" /\ work' = Ascending(S) /\ g' = g /\ visited' = visited
  BY DEF Start, InitialWork
<1>2. IsGraph(g) /\ visited = {}
  BY <1>1 DEF FoldInv
<1>3. Len(g) \in Nat /\ Nodes = 1..Len(g)
  BY <1>2, GraphFacts DEF Nodes
<1>4. Ascending(S) \in Seq(S) /\ \A n \in S : \E i \in DOMAIN Ascending(S) : Ascending(S)[i] = n
  <2>1. S \subseteq 1..Len(g)
    BY <1>3
  <2>. HIDE DEF S
  <2>. QED
    BY <1>3, <2>1, AscendingFacts
<1>5. \A n \in S : n \in Nodes /\ CanFold(g, n)
  OBVIOUS
<1>6. \A n \in Nodes : IsUsed(g, n) /\ CanFold(g, n) => n \in S
  BY <1>2, UsesFacts DEF UsersCount
<1>. HIDE DEF S
<1>7. work' \in Seq(Nodes')
  <2>1. Ascending(S) \in Seq(Nodes)
    BY <1>4, <1>5, SeqMonotonic
  <2>. QED
    BY <1>1, <2>1 DEF Nodes
<1>8. \A i \in DOMAIN work' : work'[i] \in S
  BY <1>1, <1>4, LenProperties
<1>9. WorkIsReady'
  BY <1>1, <1>5, <1>8 DEF WorkIsReady
<1>10. SeenAreDone'
  BY <1>1, <1>2 DEF SeenAreDone
<1>11. NothingIsForgotten'
  BY <1>1, <1>2, <1>4, <1>6 DEF NothingIsForgotten, Waits, Nodes
<1>. QED
  BY <1>1, <1>2, <1>7, <1>9, <1>10, <1>11 DEF FoldInv

LEMMA SkipKeeps ==
  ASSUME FoldInv, SkipVisited
  PROVE  FoldInv'
<1>1. /\ pass = "fold" /\ work # <<>> /\ Last(work) \in visited
      /\ work' = Front(work) /\ g' = g /\ pass' = pass /\ visited' = visited
  BY DEF SkipVisited, Folding, NotSeen
<1>2. /\ Front(work) \in Seq(Nodes) /\ DOMAIN work = 1..Len(work) /\ Len(work) \in Nat \ {0}
      /\ Last(work) = work[Len(work)] /\ Len(Front(work)) = Len(work) - 1
      /\ \A i \in 1..(Len(work) - 1) : Front(work)[i] = work[i]
  BY <1>1, TopFacts
<1>3. DOMAIN work' = 1..(Len(work) - 1)
  BY <1>1, <1>2, LenProperties
<1>4. WorkIsReady'
  BY <1>1, <1>2, <1>3 DEF FoldInv, WorkIsReady
<1>5. \A n : Waits(n) => Waits(n)'
  <2>1. ASSUME NEW n, n \notin visited, NEW i \in 1..Len(work), work[i] = n
        PROVE  \E j \in 1..(Len(work) - 1) : Front(work)[j] = n
    <3>1. i # Len(work)
      BY <1>1, <1>2, <2>1
    <3>2. i \in 1..(Len(work) - 1)
      BY <1>2, <3>1
    <3>. QED
      BY <1>2, <2>1, <3>2
  <2>. QED
    BY <1>1, <1>2, <1>3, <2>1 DEF Waits
<1>6. NothingIsForgotten'
  BY <1>1, <1>5 DEF FoldInv, NothingIsForgotten, Nodes
<1>7. SeenAreDone'
  BY <1>1 DEF FoldInv, SeenAreDone, Nodes
<1>. QED
  BY <1>1, <1>2, <1>4, <1>6, <1>7 DEF FoldInv, Nodes

LEMMA FoldIs ==
  ASSUME FoldInv, Fold
  PROVE  \E c, more :
           /\ FoldsTo(g, g', Last(work), Len(g) + 1, c)
           /\ Apply(g[Last(work)].op, g[Lhs(Last(work))].val, g[Rhs(Last(work))].val) \in {c, Undefined}
           /\ more \in NewWork(g', Len(g')) /\ work' = Front(work) \o more
<1>1. CanFold(g, Last(work))
  BY DEF Fold
<1>2. PICK c \in Folded(Last(work)) : g' = Replaced(Append(g, Constant(c)), Last(work), Len(g) + 1)
  BY DEF Fold
<1>3. PICK more \in NewWork(g', Len(g')) : work' = Front(work) \o more
  BY DEF Fold
<1>4. FoldsTo(g, g', Last(work), Len(g) + 1, c)
  BY <1>1, <1>2 DEF FoldsTo, Replaced
<1>5. Apply(g[Last(work)].op, g[Lhs(Last(work))].val, g[Rhs(Last(work))].val) \in {c, Undefined}
  BY <1>2 DEF Folded
<1>. QED
  BY <1>3, <1>4, <1>5

LEMMA FoldKeeps ==
  ASSUME FoldInv, Fold
  PROVE  FoldInv'
<1>. DEFINE n == Last(work)
<1>1. PICK c, more : /\ FoldsTo(g, g', n, Len(g) + 1, c)
                     /\ more \in NewWork(g', Len(g')) /\ work' = Front(work) \o more
  BY FoldIs
<1>2. /\ pass = "fold" /\ work # <<>> /\ n \notin visited /\ pass' = pass
      /\ visited' = visited \cup {n} /\ IsGraph(g)
  BY DEF Fold, Folding, NotSeen, FoldInv
<1>3. /\ Front(work) \in Seq(Nodes) /\ n \in Nodes /\ DOMAIN work = 1..Len(work)
      /\ Len(work) \in Nat \ {0} /\ n = work[Len(work)] /\ Len(Front(work)) = Len(work) - 1
      /\ \A i \in 1..(Len(work) - 1) : Front(work)[i] = work[i]
  BY <1>2, TopFacts
<1>. HIDE DEF n
<1>4. PICK m : m = Len(g) + 1
  OBVIOUS
<1>5. /\ m \notin Nodes /\ IsGraph(g') /\ Len(g') = m /\ Nodes' = Nodes \cup {m}
      /\ g'[m].op = "Constant" /\ Moves(g, g', n, m)
  <2>1. FoldsTo(g, g', n, m, c) /\ n \in DOMAIN g
    BY <1>1, <1>3, <1>4 DEF Nodes
  <2>2. /\ m \notin DOMAIN g /\ IsGraph(g') /\ Len(g') = m /\ DOMAIN g' = DOMAIN g \cup {m}
        /\ g'[m].op = "Constant" /\ Moves(g, g', n, m)
    BY ONLY <1>2, <2>1, FoldFacts
  <2>. QED
    BY <2>2 DEF Nodes
<1>6. /\ \A u \in Nodes \ {n} : CanFold(g, u) => CanFold(g', u)
      /\ \A u \in Nodes' : CanFold(g', u) =>
           u \in Nodes \ {n} /\ (CanFold(g, u) \/ \E e \in Uses(g', m) : e[1] = u)
      /\ \A u \in Nodes : IsUsed(g', u) => IsUsed(g, u)
  BY <1>1, <1>2, <1>3, <1>4, FoldOthers DEF Nodes
<1>7. /\ more \in Seq(Nodes')
      /\ \A i \in DOMAIN more : CanFold(g', more[i])
      /\ \A e \in Uses(g', m) : CanFold(g', e[1]) => \E i \in DOMAIN more : more[i] = e[1]
  <2>. DEFINE E == {e \in Uses(g', m) : CanFold(g', e[1])}
  <2>1. IsFiniteSet(E)
    <3>1. IsFiniteSet(Uses(g', m)) /\ E \subseteq Uses(g', m)
      BY <1>5, UsesFacts
    <3>. QED
      BY <3>1, FS_Subset
  <2>2. PICK s \in SetToSeqs(E) : more = [i \in DOMAIN s |-> s[i][1]]
    BY <1>1, <1>5 DEF NewWork
  <2>3. \A e \in E : e[1] \in Nodes' /\ CanFold(g', e[1])
    BY DEF Uses, Nodes
  <2>4. \A e \in Uses(g', m) : CanFold(g', e[1]) => e \in E
    OBVIOUS
  <2>. HIDE DEF E
  <2>5. s \in Seq(E) /\ \A e \in E : \E i \in DOMAIN s : s[i] = e
    BY <2>1, SetToSeqsFacts
  <2>6. Len(s) \in Nat /\ DOMAIN s = 1..Len(s) /\ \A i \in DOMAIN s : s[i] \in E
    BY <2>5, LenProperties
  <2>7. more \in [1..Len(s) -> Nodes'] /\ DOMAIN more = DOMAIN s /\ \A i \in DOMAIN s : more[i] = s[i][1]
    BY <2>2, <2>3, <2>6
  <2>8. more \in Seq(Nodes')
    BY <2>6, <2>7
  <2>. QED
    BY <2>3, <2>4, <2>5, <2>6, <2>7, <2>8
<1>8. /\ work' \in Seq(Nodes') /\ DOMAIN work' = 1..(Len(work) - 1 + Len(more))
      /\ Len(more) \in Nat /\ DOMAIN more = 1..Len(more)
      /\ \A i \in 1..(Len(work) - 1) : work'[i] = work[i]
      /\ \A i \in DOMAIN more : work'[Len(work) - 1 + i] = more[i]
      /\ \A i \in DOMAIN work' : i > Len(work) - 1 =>
           i - (Len(work) - 1) \in DOMAIN more /\ work'[i] = more[i - (Len(work) - 1)]
  <2>1. Front(work) \in Seq(Nodes')
    <3>1. Nodes \subseteq Nodes'
      BY <1>5
    <3>. QED
      BY <1>3, <3>1, SeqMonotonic
  <2>2. Len(more) \in Nat /\ DOMAIN more = 1..Len(more)
    BY <1>7, LenProperties
  <2>3. /\ work' \in Seq(Nodes') /\ Len(work') = Len(work) - 1 + Len(more)
        /\ \A i \in 1..(Len(work) - 1 + Len(more)) :
             work'[i] = IF i <= Len(work) - 1 THEN Front(work)[i] ELSE more[i - (Len(work) - 1)]
    <3>1. PICK f : f = Front(work)
      OBVIOUS
    <3>2. f \in Seq(Nodes') /\ more \in Seq(Nodes') /\ Len(f) = Len(work) - 1 /\ work' = f \o more
      BY <1>1, <1>3, <1>7, <2>1, <3>1
    <3>3. /\ f \o more \in Seq(Nodes')
          /\ Len(f \o more) = Len(f) + Len(more)
          /\ \A i \in 1..(Len(f) + Len(more)) : (f \o more)[i] = IF i <= Len(f) THEN f[i] ELSE more[i - Len(f)]
      BY ONLY <3>2, ConcatProperties
    <3>. QED
      BY <3>1, <3>2, <3>3
  <2>4. DOMAIN work' = 1..(Len(work) - 1 + Len(more))
    BY <2>3, LenProperties
  <2>5. \A i \in 1..(Len(work) - 1) : work'[i] = work[i]
    BY <1>3, <2>2, <2>3
  <2>6. \A i \in 1..Len(more) : work'[Len(work) - 1 + i] = more[i]
    <3>1. ASSUME NEW i \in 1..Len(more) PROVE work'[Len(work) - 1 + i] = more[i]
      <4>1. PICK j : j = Len(work) - 1 + i
        OBVIOUS
      <4>2. j \in 1..(Len(work) - 1 + Len(more)) /\ ~(j <= Len(work) - 1) /\ j - (Len(work) - 1) = i
        BY <1>3, <2>2, <4>1
      <4>. QED
        BY <2>3, <4>1, <4>2
    <3>. QED
      BY <3>1
  <2>7. \A i \in 1..(Len(work) - 1 + Len(more)) : i > Len(work) - 1 =>
          i - (Len(work) - 1) \in 1..Len(more) /\ work'[i] = more[i - (Len(work) - 1)]
    BY <1>3, <2>2, <2>3
  <2>. QED
    BY <2>2, <2>3, <2>4, <2>5, <2>6, <2>7
<1>9. WorkIsReady'
  <2>1. ASSUME NEW i \in DOMAIN work', work'[i] \notin visited'
        PROVE  CanFold(g', work'[i])
    <3>1. CASE i <= Len(work) - 1
      <4>1. i \in 1..(Len(work) - 1) /\ i \in DOMAIN work /\ work'[i] = work[i]
        BY <1>3, <1>8, <3>1
      <4>2. work[i] \notin visited /\ work[i] # n
        BY <1>2, <2>1, <4>1
      <4>3. CanFold(g, work[i])
        BY <4>1, <4>2 DEF FoldInv, WorkIsReady
      <4>4. work[i] \in Nodes
        BY <4>1, ElementOfSeq, LenProperties DEF FoldInv
      <4>. QED
        BY <1>6, <4>1, <4>2, <4>3, <4>4
    <3>2. CASE i > Len(work) - 1
      BY <1>7, <1>8, <3>2
    <3>. QED
      BY <1>3, <1>8, <3>1, <3>2
  <2>. QED
    BY <2>1 DEF WorkIsReady
<1>10. SeenAreDone'
  <2>1. \A u \in Nodes : g'[u].op = g[u].op
    BY <1>5 DEF Moves, Nodes
  <2>2. \A op \in Ops : 1 \in Slots(op)
    BY DEF Slots, Ops
  <2>3. g[n].op \in Ops /\ g'[n].in[1] = 0
    <3>1. g[n].op \in Ops
      BY <1>1 DEF FoldsTo, CanFold
    <3>. QED
      BY <1>5, <2>2, <3>1 DEF Moves
  <2>4. ASSUME NEW u \in visited PROVE u \in Nodes /\ g[u].op \in Ops /\ g'[u].in[1] = 0
    <3>1. u \in Nodes /\ g[u].op \in Ops /\ g[u].in[1] = 0 /\ u # n
      BY <1>2 DEF FoldInv, SeenAreDone
    <3>2. 0 # n
      BY <1>2, <1>3, GraphFacts DEF Nodes
    <3>. QED
      BY <1>5, <2>2, <3>1, <3>2 DEF Moves, Nodes
  <2>. QED
    BY <1>2, <1>3, <1>5, <2>1, <2>3, <2>4 DEF SeenAreDone
<1>11. NothingIsForgotten'
  <2>1. ASSUME NEW u \in Nodes', IsUsed(g', u), CanFold(g', u) PROVE Waits(u)'
    <3>1. u \in Nodes \ {n} /\ (CanFold(g, u) \/ \E e \in Uses(g', m) : e[1] = u)
      BY <1>6, <2>1
    <3>2. u \notin visited'
      <4>1. u \in visited => g'[u].in[1] = 0
        BY <1>2, <1>10 DEF SeenAreDone
      <4>2. g'[u].in[1] # 0
        BY <2>1 DEF CanFold
      <4>. QED
        BY <1>2, <3>1, <4>1, <4>2
    <3>3. CASE CanFold(g, u)
      <4>1. IsUsed(g, u)
        BY <1>6, <2>1, <3>1
      <4>2. PICK i \in DOMAIN work : work[i] = u
        BY <1>2, <3>1, <3>3, <4>1 DEF FoldInv, NothingIsForgotten, Waits
      <4>3. i # Len(work)
        BY <1>3, <3>1, <4>2
      <4>4. i \in 1..(Len(work) - 1) /\ i \in DOMAIN work' /\ work'[i] = u
        BY <1>3, <1>8, <4>2, <4>3
      <4>. QED
        BY <3>2, <4>4 DEF Waits
    <3>4. CASE \E e \in Uses(g', m) : e[1] = u
      <4>1. PICK i \in DOMAIN more : more[i] = u
        BY <1>7, <2>1, <3>4
      <4>2. Len(work) - 1 + i \in DOMAIN work' /\ work'[Len(work) - 1 + i] = u
        BY <1>3, <1>8, <4>1
      <4>. QED
        BY <3>2, <4>2 DEF Waits
    <3>. QED
      BY <3>1, <3>3, <3>4
  <2>. QED
    BY <2>1 DEF NothingIsForgotten
<1>. QED
  BY <1>2, <1>5, <1>8, <1>9, <1>10, <1>11 DEF FoldInv

LEMMA FoldNextKeeps ==
  ASSUME FoldInv, [Next]_vars
  PROVE  FoldInv'
<1>1. CASE BuildOp
  <2>1. Building /\ visited' = visited
    BY <1>1 DEF BuildOp
  <2>2. pass = "build" /\ pass' = pass /\ work' = work
    BY <2>1 DEF Building, Build
  <2>3. IsGraph(g') /\ work' = <<>> /\ visited' = {}
    BY <2>1, <2>2, BuildIsGraph DEF FoldInv
  <2>4. <<>> \in Seq(Nodes') /\ DOMAIN <<>> = {}
    OBVIOUS
  <2>. QED
    BY <2>2, <2>3, <2>4 DEF FoldInv, WorkIsReady, SeenAreDone, NothingIsForgotten
<1>2. CASE UNCHANGED vars
  BY <1>2 DEF vars, FoldInv, WorkIsReady, SeenAreDone, NothingIsForgotten, Waits, Nodes
<1>. QED
  BY <1>1, <1>2, StartKeeps, SkipKeeps, FoldKeeps DEF Next

LEMMA FoldInvariant == Spec => []FoldInv
<1>. QED
  BY FoldInit, FoldNextKeeps, PTL DEF Spec

(* No assertion of _folde fails: whatever was pushed twice, or lost its    *)
(* operands while it waited, was visited.                                  *)
THEOREM AssertionsNeverFail == Spec => []AssertionsHold
<1>1. FoldInv => AssertionsHold
  <2>. SUFFICES ASSUME FoldInv, Folding, NotSeen(Last(work)) PROVE CanFold(g, Last(work))
    BY DEF AssertionsHold
  <2>1. work # <<>> /\ Last(work) \notin visited
    BY DEF Folding, NotSeen
  <2>2. Last(work) = work[Len(work)] /\ Len(work) \in DOMAIN work
    BY <2>1, TopFacts
  <2>. QED
    BY <2>1, <2>2 DEF FoldInv, WorkIsReady
<1>. QED
  BY <1>1, FoldInvariant, PTL

(* When run returns, nothing that is used can be folded.                   *)
THEOREM FoldingIsComplete == Spec => []AllFolded
<1>1. FoldInv => AllFolded
  <2>. SUFFICES ASSUME FoldInv, pass = "fold", work = <<>>, NEW n \in Nodes,
                       UsersCount(n) > 0, CanFold(g, n)
                PROVE  FALSE
    BY DEF AllFolded
  <2>1. IsUsed(g, n)
    BY UsesFacts DEF FoldInv, UsersCount
  <2>2. Waits(n)
    BY <2>1 DEF FoldInv, NothingIsForgotten
  <2>. QED
    BY <2>2 DEF Waits
<1>. QED
  BY <1>1, FoldInvariant, PTL

(* Each round of folding leaves the function with the values it had, for   *)
(* every argument that gives it one.                                       *)
THEOREM FoldingKeepsMeaning == Spec => MeaningKept
<1>1. FoldInv /\ [Next]_vars => [pass # "build" => SameMeaning(g')]_vars
  <2>. SUFFICES ASSUME FoldInv, Next, pass # "build" PROVE SameMeaning(g')
    OBVIOUS
  <2>1. CASE Fold
    <3>. SUFFICES ASSUME NEW x \in Words, Meaning(g, x) # Undefined
                  PROVE  Meaning(g', x) = Meaning(g, x)
      BY DEF SameMeaning
    <3>1. IsGraph(g) /\ Last(work) \in Nodes
      BY <2>1, TopFacts DEF FoldInv, Fold, Folding
    <3>2. PICK c : /\ FoldsTo(g, g', Last(work), Len(g) + 1, c)
                   /\ Apply(g[Last(work)].op, g[Lhs(Last(work))].val, g[Rhs(Last(work))].val)
                        \in {c, Undefined}
      BY <2>1, FoldIs
    <3>. QED
      BY <3>1, <3>2, FoldKeepsMeaning DEF Lhs, Rhs, Nodes
  <2>2. CASE SkipVisited
    <3>1. g' = g
      BY <2>2 DEF SkipVisited
    <3>. QED
      BY <3>1 DEF SameMeaning
  <2>3. ~BuildOp /\ ~Start
    BY DEF BuildOp, Building, Build, Start
  <2>. QED
    BY <2>1, <2>2, <2>3 DEF Next
<1>. QED
  BY <1>1, FoldInvariant, PTL DEF Spec, MeaningKept
-----------------------------------------------------------------------------
(* The rules of Peephole.  No node is its own operand, however indirectly: *)
(* the nodes have levels, 0 for constants.                                 *)
Levels(h, level) ==
  /\ \A n \in DOMAIN h : level[n] \in Nat
  /\ \A n \in DOMAIN h \ {Ret} :
       /\ h[n].op \in Ops => level[n] > 0
       /\ h[n].op = "Constant" => level[n] = 0
       /\ \A i \in Slots(h[n].op) : h[n].in[i] # 0 => level[h[n].in[i]] < level[n]

Filled(h, n) == \A i \in Slots(h[n].op) : h[n].in[i] # 0

UsedAreFilled(h) == \A n \in DOMAIN h : IsUsed(h, n) => Filled(h, n)

RulesInv ==
  /\ IsGraph(g) /\ pass \in {"build", "work"}
  /\ work \in Seq({n \in Nodes : g[n].op \in Ops})
  /\ \E level : Levels(g, level)
  /\ UsedAreFilled(g)
  /\ pass = "build" => work = <<>> /\ \A n \in Nodes : Filled(g, n)

LEMMA RulesInit == PeepholeInit => RulesInv
<1>. SUFFICES ASSUME PeepholeInit PROVE RulesInv
  OBVIOUS
<1>1. /\ IsGraph(g) /\ pass = "build" /\ work = <<>>
      /\ \A n \in Nodes : g[n].op \notin Ops /\ \A i \in Slots(g[n].op) : g[n].in[i] # 0
  BY InitIsGraph DEF PeepholeInit, InitGraph
<1>. DEFINE level == [n \in Nodes |-> 0]
<1>2. \A op : op \notin Ops /\ op # "Ret" => Slots(op) = {}
  BY DEF Slots
<1>3. \A n \in Nodes \ {Ret} : g[n].op # "Ret"
  BY <1>1, GraphFacts DEF IsGraph, Nodes
<1>4. Levels(g, level)
  BY <1>1, <1>2, <1>3 DEF Levels, Nodes
<1>5. work \in Seq({n \in Nodes : g[n].op \in Ops})
  BY <1>1
<1>. HIDE DEF level
<1>. QED
  BY <1>1, <1>4, <1>5 DEF RulesInv, UsedAreFilled, Filled, Nodes

(* A new node q at level v, on nodes that are filled.                      *)
CanAppend(h, level, q, v) ==
  /\ IsGraph(h) /\ Levels(h, level) /\ UsedAreFilled(h)
  /\ IsNode(q, Len(h)) /\ q.op # "Ret"
  /\ v \in Nat /\ (q.op \in Ops => v > 0) /\ (q.op = "Constant" => v = 0)
  /\ \A i \in Slots(q.op) : q.in[i] # 0 /\ Filled(h, q.in[i]) /\ level[q.in[i]] < v

Appended(h, level, q, v, k, m) ==
  /\ IsGraph(k) /\ Len(k) = m /\ m \notin DOMAIN h /\ m # Ret /\ DOMAIN k = DOMAIN h \cup {m}
  /\ k[m] = q /\ \A u \in DOMAIN h : k[u] = h[u]
  /\ UsedAreFilled(k) /\ Filled(k, m)
  /\ \E more : Levels(k, more) /\ more[m] = v /\ \A u \in DOMAIN h : more[u] = level[u]

LEMMA AppendKeepsLevels ==
  ASSUME NEW h, NEW level, NEW q, NEW v, CanAppend(h, level, q, v)
  PROVE  Appended(h, level, q, v, Append(h, q), Len(h) + 1)
<1>. PICK k, m : k = Append(h, q) /\ m = Len(h) + 1
  OBVIOUS
<1>. USE DEF CanAppend
<1>1. /\ IsGraph(k) /\ Len(k) = m /\ DOMAIN k = DOMAIN h \cup {m} /\ k[m] = q
      /\ \A u \in DOMAIN h : k[u] = h[u]
  BY AppendFacts
<1>2. /\ m \notin DOMAIN h /\ m # Ret /\ Ret \in DOMAIN h /\ 0 \notin DOMAIN h
      /\ \A u \in DOMAIN h : \A i \in Slots(h[u].op) : h[u].in[i] \in (DOMAIN h \cup {0}) \ {Ret}
  BY GraphFacts DEF Ret
<1>3. \A i \in Slots(q.op) : q.in[i] \in DOMAIN h
  <2>1. DOMAIN h = 1..Len(h) /\ Len(h) \in Nat
    BY GraphFacts
  <2>. QED
    BY <2>1 DEF IsNode
<1>4. Filled(k, m)
  BY <1>1 DEF Filled
<1>5. \A u \in DOMAIN h : Filled(h, u) => Filled(k, u)
  BY <1>1 DEF Filled
<1>6. UsedAreFilled(k)
  <2>1. ASSUME NEW n \in DOMAIN k, IsUsed(k, n) PROVE Filled(k, n)
    <3>1. PICK t \in DOMAIN k : \E i \in Slots(k[t].op) : k[t].in[i] = n
      <4>1. IsGraph(k) /\ IsUsed(k, n)
        BY <1>1, <2>1
      <4>. QED
        BY ONLY <4>1, UsesFacts
    <3>2. PICK i \in Slots(k[t].op) : k[t].in[i] = n
      BY <3>1
    <3>3. CASE t = m
      BY <1>1, <1>3, <1>5, <3>2, <3>3
    <3>4. CASE t # m
      <4>1. t \in DOMAIN h /\ i \in Slots(h[t].op) /\ h[t].in[i] = n
        BY <1>1, <3>2, <3>4
      <4>2. n \in DOMAIN h \/ n = m
        BY <1>1
      <4>3. IsUsed(h, n)
        BY <4>1, UsesFacts
      <4>. QED
        BY <1>4, <1>5, <4>2, <4>3 DEF UsedAreFilled
    <3>. QED
      BY <3>3, <3>4
  <2>. QED
    BY <2>1 DEF UsedAreFilled
<1>. DEFINE more == [u \in DOMAIN k |-> IF u = m THEN v ELSE level[u]]
<1>7. more[m] = v /\ \A u \in DOMAIN h : more[u] = level[u]
  BY <1>1, <1>2
<1>. HIDE DEF more
<1>8. Levels(k, more)
  <2>1. \A n \in DOMAIN k : more[n] \in Nat
    BY <1>1, <1>7 DEF Levels
  <2>2. ASSUME NEW n \in DOMAIN h \ {Ret}
        PROVE  /\ k[n].op \in Ops => more[n] > 0
               /\ k[n].op = "Constant" => more[n] = 0
               /\ \A i \in Slots(k[n].op) : k[n].in[i] # 0 => more[k[n].in[i]] < more[n]
    <3>1. /\ h[n].op \in Ops => level[n] > 0
          /\ h[n].op = "Constant" => level[n] = 0
          /\ \A i \in Slots(h[n].op) : h[n].in[i] # 0 => level[h[n].in[i]] < level[n]
      BY DEF Levels
    <3>. QED
      BY <1>1, <1>2, <1>7, <3>1
  <2>3. \A i \in Slots(k[m].op) : more[k[m].in[i]] < more[m]
    BY <1>1, <1>3, <1>7
  <2>. QED
    BY <1>1, <1>7, <2>1, <2>2, <2>3 DEF Levels
<1>. QED
  BY <1>1, <1>2, <1>4, <1>6, <1>7, <1>8 DEF Appended

(* The users of n take a filled node that is no higher than n.             *)
LEMMA SubstituteKeepsLevels ==
  ASSUME NEW h, NEW level, IsGraph(h), Levels(h, level), UsedAreFilled(h),
         NEW n \in DOMAIN h \ {Ret}, NEW m \in DOMAIN h \ {Ret, n},
         Filled(h, m), level[m] <= level[n],
         NEW k, k = Substitute(h, n, m)
  PROVE  /\ IsGraph(k) /\ Len(k) = Len(h) /\ DOMAIN k = DOMAIN h
         /\ \A u \in DOMAIN h : k[u].op = h[u].op
         /\ Levels(k, level) /\ UsedAreFilled(k)
<1>1. IsGraph(k) /\ Len(k) = Len(h) /\ DOMAIN k = DOMAIN h /\ Moves(h, k, n, m)
  BY SubstituteFacts
<1>2. /\ \A u \in DOMAIN h : k[u].op = h[u].op
      /\ \A u \in DOMAIN h \ {n} : \A i \in Slots(h[u].op) :
           k[u].in[i] = IF h[u].in[i] = n THEN m ELSE h[u].in[i]
      /\ \A i \in Slots(h[n].op) : k[n].in[i] = 0
  BY <1>1 DEF Moves
<1>3. /\ 0 \notin DOMAIN h
      /\ \A u \in DOMAIN h : \A i \in Slots(h[u].op) : h[u].in[i] \in (DOMAIN h \cup {0}) \ {Ret}
  BY GraphFacts
<1>4. \A u \in DOMAIN h : level[u] \in Nat
  BY DEF Levels
<1>5. Levels(k, level)
  <2>1. ASSUME NEW u \in DOMAIN h \ {Ret}
        PROVE  /\ k[u].op \in Ops => level[u] > 0
               /\ k[u].op = "Constant" => level[u] = 0
               /\ \A i \in Slots(k[u].op) : k[u].in[i] # 0 => level[k[u].in[i]] < level[u]
    <3>1. /\ h[u].op \in Ops => level[u] > 0
          /\ h[u].op = "Constant" => level[u] = 0
          /\ \A i \in Slots(h[u].op) : h[u].in[i] # 0 => level[h[u].in[i]] < level[u]
      BY DEF Levels
    <3>2. ASSUME NEW i \in Slots(h[u].op), k[u].in[i] # 0 PROVE level[k[u].in[i]] < level[u]
      <4>1. u # n
        BY <1>2, <3>2
      <4>2. CASE h[u].in[i] = n
        <5>1. k[u].in[i] = m /\ n # 0 /\ level[n] < level[u]
          BY <1>2, <1>3, <3>1, <4>1, <4>2
        <5>. QED
          BY <1>4, <5>1
      <4>3. CASE h[u].in[i] # n
        BY <1>2, <3>1, <3>2, <4>1, <4>3
      <4>. QED
        BY <4>2, <4>3
    <3>. QED
      BY <1>2, <3>1, <3>2
  <2>. QED
    BY <1>1, <1>4, <2>1 DEF Levels
<1>6. \A u \in DOMAIN h \ {n} : Filled(h, u) => Filled(k, u)
  BY <1>2, <1>3 DEF Filled
<1>7. UsedAreFilled(k)
  <2>1. ASSUME NEW u \in DOMAIN k, IsUsed(k, u) PROVE Filled(k, u)
    <3>1. PICK t \in DOMAIN k : \E i \in Slots(k[t].op) : k[t].in[i] = u
      BY <1>1, <2>1, UsesFacts
    <3>2. PICK i \in Slots(k[t].op) : k[t].in[i] = u
      BY <3>1
    <3>3. t \in DOMAIN h /\ i \in Slots(h[t].op) /\ t # n /\ u \in DOMAIN h
      BY <1>1, <1>2, <1>3, <3>2
    <3>4. CASE h[t].in[i] = n
      BY <1>2, <1>6, <3>2, <3>3, <3>4
    <3>5. CASE h[t].in[i] # n
      <4>1. h[t].in[i] = u
        BY <1>2, <3>2, <3>3, <3>5
      <4>2. IsUsed(h, u)
        BY <3>3, <4>1, UsesFacts
      <4>. QED
        BY <1>6, <3>3, <3>5, <4>1, <4>2 DEF UsedAreFilled
    <3>. QED
      BY <3>4, <3>5
  <2>. QED
    BY <2>1 DEF UsedAreFilled
<1>. QED
  BY <1>1, <1>2, <1>5, <1>7
LEMMA BuildKeepsRules ==
  ASSUME RulesInv, Building
  PROVE  RulesInv'
<1>1. pass = "build" /\ pass' = pass /\ work' = work /\ work = <<>> /\ IsGraph(g)
      /\ \A n \in Nodes : Filled(g, n)
  BY DEF Building, Build, RulesInv
<1>2. PICK op \in Ops, a \in Nodes \ {Ret}, b \in Nodes \ {Ret} :
        Grows(g, g', BinOp(op, a, b)) /\ IsNode(BinOp(op, a, b), Len(g))
  BY <1>1, BuildIsGraph
<1>3. IsGraph(g')
  BY <1>1, BuildIsGraph
<1>4. PICK q : q = BinOp(op, a, b)
  OBVIOUS
<1>5. PICK in : in = <<a, b>>
  OBVIOUS
<1>6. q.op = op /\ q.in = in /\ op # "Ret" /\ op # "Constant" /\ Slots(op) = {1, 2}
  <2>1. q = [op |-> op, val |-> 0, in |-> in]
    BY <1>4, <1>5 DEF BinOp
  <2>2. q.op = op /\ q.in = in
    BY ONLY <2>1
  <2>. QED
    BY <2>2 DEF Slots, Ops
<1>7. PICK level : Levels(g, level)
  BY DEF RulesInv
<1>8. /\ 0 \notin DOMAIN g /\ Ret \in DOMAIN g /\ g[Ret].op = "Ret" /\ Slots("Ret") = {1}
      /\ Len(g) \in Nat
  <2>1. 0 \notin DOMAIN g /\ Ret \in DOMAIN g /\ Ret \in 1..Len(g) /\ Len(g) \in Nat
    BY <1>1, GraphFacts
  <2>. QED
    BY <1>1, <2>1 DEF IsGraph, Slots
<1>9. level[a] \in Nat /\ level[b] \in Nat
  BY <1>7 DEF Levels, Nodes
<1>. DEFINE v == level[a] + level[b] + 1
<1>10. v \in Nat /\ v > 0 /\ level[a] < v /\ level[b] < v
  BY <1>9
<1>11. \A i \in Slots(op) : q.in[i] \in {a, b}
  BY <1>5, <1>6
<1>12. \A i \in Slots(q.op) : q.in[i] # 0 /\ Filled(g, q.in[i]) /\ level[q.in[i]] < v
  BY <1>1, <1>6, <1>8, <1>10, <1>11 DEF Nodes
<1>. HIDE DEF v
<1>13. PICK k, m : k = Append(g, q) /\ m = Len(g) + 1
  OBVIOUS
<1>14. /\ IsGraph(k) /\ m \notin DOMAIN g /\ m # Ret /\ DOMAIN k = DOMAIN g \cup {m}
       /\ k[m] = q /\ \A u \in DOMAIN g : k[u] = g[u]
       /\ Filled(k, m)
       /\ \E more : Levels(k, more)
  <2>1. UsedAreFilled(g) /\ IsNode(q, Len(g)) /\ q.op # "Ret" /\ q.op # "Constant"
    BY <1>2, <1>4, <1>6 DEF RulesInv
  <2>2. CanAppend(g, level, q, v)
    BY <1>1, <1>7, <1>10, <1>12, <2>1 DEF CanAppend
  <2>3. Appended(g, level, q, v, k, m)
    BY <1>13, <2>2, AppendKeepsLevels
  <2>. QED
    BY <2>3 DEF Appended
<1>15. DOMAIN g' = DOMAIN k /\ (\A n \in DOMAIN k \ {Ret} : g'[n] = k[n]) /\ g'[Ret].op = "Ret" /\ g'[Ret].in[1] = m
  BY <1>2, <1>4, <1>13 DEF Grows
<1>16. PICK more : Levels(k, more)
  BY <1>14
<1>17. Levels(g', more)
  BY <1>15, <1>16 DEF Levels
<1>18. \A n \in DOMAIN g' : Filled(g', n)
  <2>1. Filled(g', Ret)
    BY <1>8, <1>13, <1>15 DEF Filled
  <2>2. ASSUME NEW n \in DOMAIN k \ {Ret} PROVE Filled(g', n)
    <3>1. Filled(k, n)
      BY <1>1, <1>14, <2>2 DEF Filled, Nodes
    <3>. QED
      BY <1>15, <3>1 DEF Filled
  <2>. QED
    BY <1>15, <2>1, <2>2
<1>19. work' \in Seq({n \in Nodes' : g'[n].op \in Ops})
  BY <1>1
<1>20. (\E l : Levels(g, l))'
  BY <1>17
<1>21. UsedAreFilled(g')
  BY <1>18 DEF UsedAreFilled
<1>22. Nodes' = DOMAIN g'
  BY DEF Nodes
<1>. QED
  BY <1>1, <1>3, <1>18, <1>19, <1>20, <1>21, <1>22 DEF RulesInv

LEMMA PeepholeStartKeeps ==
  ASSUME RulesInv, PeepholeStart
  PROVE  RulesInv'
<1>. DEFINE S == {n \in Nodes : g[n].op \in Ops}
<1>1. /\ pass = "build" /\ pass' = "work" /\ work' = Ascending(S) /\ IsGraph(g)
      /\ g' = [n \in Nodes |-> IF ConstantFirst(n) THEN [g[n] EXCEPT !.in = <<@[2], @[1]>>] ELSE g[n]]
  BY DEF PeepholeStart, RulesInv
<1>2. \A n \in Nodes : Filled(g, n)
  BY <1>1 DEF RulesInv
<1>3. /\ Len(g) \in Nat /\ Nodes = 1..Len(g) /\ DOMAIN g = Nodes /\ Ret \in Nodes
      /\ \A n \in Nodes : /\ g[n] = [op |-> g[n].op, val |-> g[n].val, in |-> g[n].in]
                          /\ DOMAIN g[n].in = Slots(g[n].op)
                          /\ \A i \in Slots(g[n].op) : g[n].in[i] \in (Nodes \cup {0}) \ {Ret}
  BY <1>1, GraphFacts DEF Nodes
<1>4. \A op \in Ops : Slots(op) = {1, 2}
  BY DEF Slots, Ops
<1>5. ASSUME NEW n \in Nodes
      PROVE  /\ g'[n] = [op |-> g[n].op, val |-> g[n].val, in |-> g'[n].in]
             /\ g'[n].in = [i \in Slots(g[n].op) |-> g'[n].in[i]]
             /\ \A i \in Slots(g[n].op) : \E j \in Slots(g[n].op) : g'[n].in[i] = g[n].in[j]
  <2>1. CASE ConstantFirst(n)
    <3>1. PICK in : in = <<g[n].in[2], g[n].in[1]>>
      OBVIOUS
    <3>2. g'[n] = [g[n] EXCEPT !.in = in]
      BY <1>1, <2>1, <3>1
    <3>3. g'[n] = [op |-> g[n].op, val |-> g[n].val, in |-> in]
      BY <1>3, <3>2
    <3>4. g'[n].in = in
      BY ONLY <3>3
    <3>5. g[n].op \in Ops
      BY <2>1 DEF ConstantFirst, Commutes, Ops
    <3>6. in = [i \in {1, 2} |-> in[i]] /\ in[1] = g[n].in[2] /\ in[2] = g[n].in[1]
      BY <3>1
    <3>. QED
      BY <1>4, <3>3, <3>4, <3>5, <3>6
  <2>2. CASE ~ConstantFirst(n)
    <3>1. g'[n] = g[n]
      BY <1>1, <2>2
    <3>2. n \in 1..Len(g)
      BY <1>3
    <3>3. g[n].in = [i \in Slots(g[n].op) |-> g[n].in[i]]
      BY <1>1, <3>2 DEF IsGraph, IsNode
    <3>. QED
      BY <1>3, <3>1, <3>3
  <2>. QED
    BY <2>1, <2>2
<1>6. Relinks(g, g')
  <2>1. g' = [n \in DOMAIN g |-> g'[n]]
    BY <1>1, <1>3
  <2>2. \A n \in DOMAIN g : \A i \in Slots(g[n].op) : g'[n].in[i] \in (DOMAIN g \cup {0}) \ {Ret}
    <3>1. ASSUME NEW n \in Nodes, NEW i \in Slots(g[n].op)
          PROVE  g'[n].in[i] \in (Nodes \cup {0}) \ {Ret}
      <4>1. PICK j \in Slots(g[n].op) : g'[n].in[i] = g[n].in[j]
        BY <1>5
      <4>2. g[n].in[j] \in (Nodes \cup {0}) \ {Ret}
        BY <1>3
      <4>. QED
        BY <4>1, <4>2
    <3>. QED
      BY <1>3, <3>1
  <2>3. \A n \in DOMAIN g : /\ g'[n] = [op |-> g[n].op, val |-> g[n].val, in |-> g'[n].in]
                            /\ g'[n].in = [i \in Slots(g[n].op) |-> g'[n].in[i]]
    BY <1>3, <1>5
  <2>4. g' = [n \in DOMAIN g |-> [op |-> g[n].op, val |-> g[n].val, in |-> g'[n].in]]
    BY <2>1, <2>3
  <2>. QED
    BY <2>2, <2>3, <2>4 DEF Relinks
<1>7. IsGraph(g') /\ DOMAIN g' = Nodes /\ \A n \in Nodes : g'[n].op = g[n].op
  BY <1>1, <1>3, <1>6, RelinkFacts
<1>8. PICK level : Levels(g, level)
  BY DEF RulesInv
<1>9. Levels(g', level)
  <2>1. ASSUME NEW n \in Nodes \ {Ret}, NEW i \in Slots(g[n].op)
        PROVE  level[g'[n].in[i]] < level[n]
    <3>1. PICK j \in Slots(g[n].op) : g'[n].in[i] = g[n].in[j]
      BY <1>5
    <3>2. g[n].in[j] # 0
      BY <1>2 DEF Filled
    <3>. QED
      BY <1>3, <1>8, <3>1, <3>2 DEF Levels
  <2>. QED
    BY <1>3, <1>7, <1>8, <2>1 DEF Levels
<1>10. \A n \in Nodes : Filled(g', n)
  <2>1. ASSUME NEW n \in Nodes, NEW i \in Slots(g[n].op) PROVE g'[n].in[i] # 0
    <3>1. PICK j \in Slots(g[n].op) : g'[n].in[i] = g[n].in[j]
      BY <1>5
    <3>. QED
      BY <1>2, <3>1 DEF Filled
  <2>. QED
    BY <1>7, <2>1 DEF Filled
<1>11. work' \in Seq(S)
  <2>1. S \subseteq 1..Len(g)
    BY <1>3
  <2>. HIDE DEF S
  <2>. QED
    BY <1>1, <1>3, <2>1, AscendingFacts
<1>12. S = {n \in Nodes' : g'[n].op \in Ops}
  BY <1>7 DEF Nodes
<1>. HIDE DEF S
<1>13. (\E l : Levels(g, l))'
  BY <1>9
<1>14. UsedAreFilled(g')
  BY <1>7, <1>10 DEF UsedAreFilled
<1>. QED
  BY <1>1, <1>7, <1>11, <1>12, <1>13, <1>14 DEF RulesInv
(* What a rule leaves is a graph of which the same holds.                  *)
LEMMA RewriteKeeps ==
  ASSUME RulesInv, Working, NEW h, Rewrite(h), IsGraph(h), NEW level, Levels(h, level),
         UsedAreFilled(h), \A u \in Nodes : u \in DOMAIN h /\ h[u].op = g[u].op
  PROVE  RulesInv'
<1>1. pass = "work" /\ work # <<>> /\ g' = h /\ work' = Front(work) /\ pass' = pass
  BY DEF Working, Rewrite
<1>2. PICK S : S = {n \in Nodes : g[n].op \in Ops}
  OBVIOUS
<1>3. Front(work) \in Seq(S)
  <2>1. work \in Seq(S)
    BY <1>2 DEF RulesInv
  <2>. QED
    BY <1>1, <2>1, TopOf
<1>4. PICK T : T = {n \in Nodes' : g'[n].op \in Ops}
  OBVIOUS
<1>5. S \subseteq T
  BY <1>1, <1>2, <1>4 DEF Nodes
<1>6. work' \in Seq(T)
  BY <1>1, <1>3, <1>5, SeqMonotonic
<1>7. (\E l : Levels(g, l))'
  BY <1>1
<1>. QED
  BY <1>1, <1>4, <1>6, <1>7 DEF RulesInv

(* The node a rule looks at, and its operands.                             *)
LEMMA TopIs ==
  ASSUME RulesInv, NEW op \in Ops, At(op)
  PROVE  /\ Working /\ Top \in DOMAIN g \ {Ret} /\ g[Top].op = op /\ Slots(op) = {1, 2}
         /\ \A n \in {Lhs(Top), Rhs(Top)} :
              /\ n \in DOMAIN g \ {Ret, Top} /\ Filled(g, n) /\ IsUsed(g, n)
              /\ \A level : Levels(g, level) => level[n] < level[Top]
<1>1. Working /\ Used(Top) /\ Top # 0 /\ g[Top].op = op /\ IsGraph(g) /\ UsedAreFilled(g)
  BY DEF At, Is, RulesInv
<1>2. Slots(op) = {1, 2} /\ op # "Ret"
  BY DEF Slots, Ops
<1>3. Top \in DOMAIN g
  <2>1. PICK S : S = {n \in Nodes : g[n].op \in Ops}
    OBVIOUS
  <2>2. work \in Seq(S) /\ work # <<>>
    BY <1>1, <2>1 DEF RulesInv, Working
  <2>3. Last(work) \in S
    BY <2>2, TopOf
  <2>. QED
    BY <2>1, <2>3 DEF Top, Nodes
<1>4. /\ Ret \in 1..Len(g) /\ DOMAIN g = 1..Len(g) /\ Len(g) \in Nat /\ 0 \notin DOMAIN g
      /\ \A n \in DOMAIN g : \A i \in Slots(g[n].op) : g[n].in[i] \in (DOMAIN g \cup {0}) \ {Ret}
  BY <1>1, GraphFacts
<1>5. Top # Ret
  BY <1>1, <1>2, <1>4 DEF IsGraph
<1>6. Filled(g, Top)
  BY <1>1, <1>3, UsesFacts DEF Used, UsersCount, UsedAreFilled
<1>7. ASSUME NEW i \in {1, 2}
      PROVE  /\ g[Top].in[i] \in DOMAIN g \ {Ret} /\ IsUsed(g, g[Top].in[i])
             /\ \A level : Levels(g, level) => level[g[Top].in[i]] < level[Top]
  <2>1. g[Top].in[i] # 0 /\ i \in Slots(g[Top].op)
    BY <1>1, <1>2, <1>6 DEF Filled
  <2>2. g[Top].in[i] \in DOMAIN g \ {Ret}
    BY <1>3, <1>4, <2>1
  <2>3. IsUsed(g, g[Top].in[i])
    BY <1>1, <1>3, <2>1, UsesFacts
  <2>. QED
    BY <1>3, <1>5, <2>1, <2>2, <2>3 DEF Levels
<1>8. PICK l : Levels(g, l)
  BY DEF RulesInv
<1>9. l[Top] \in Nat
  BY <1>3, <1>8 DEF Levels
<1>10. ASSUME NEW i \in {1, 2}
       PROVE  LET n == g[Top].in[i]
              IN  /\ n \in DOMAIN g \ {Ret, Top} /\ Filled(g, n) /\ IsUsed(g, n)
                  /\ \A level : Levels(g, level) => level[n] < level[Top]
  <2>1. g[Top].in[i] # Top
    BY <1>7, <1>8, <1>9
  <2>2. Filled(g, g[Top].in[i])
    BY <1>1, <1>7 DEF UsedAreFilled
  <2>. QED
    BY <1>7, <2>1, <2>2
<1>. QED
  BY <1>1, <1>2, <1>3, <1>5, <1>10 DEF Lhs, Rhs

LEMMA LeftKeeps ==
  ASSUME RulesInv, NEW op \in Ops, At(op), Rewrite(Substitute(g, Top, Lhs(Top)))
  PROVE  RulesInv'
<1>1. PICK level : Levels(g, level)
  BY DEF RulesInv
<1>2. /\ Working /\ Top \in DOMAIN g \ {Ret}
      /\ Lhs(Top) \in DOMAIN g \ {Ret, Top} /\ Filled(g, Lhs(Top)) /\ level[Lhs(Top)] < level[Top]
  BY <1>1, TopIs
<1>3. level[Lhs(Top)] <= level[Top] /\ IsGraph(g) /\ UsedAreFilled(g)
  BY <1>1, <1>2 DEF Levels, RulesInv
<1>4. PICK k : k = Substitute(g, Top, Lhs(Top))
  OBVIOUS
<1>5. /\ IsGraph(k) /\ DOMAIN k = DOMAIN g /\ \A u \in DOMAIN g : k[u].op = g[u].op
      /\ Levels(k, level) /\ UsedAreFilled(k)
  BY <1>1, <1>2, <1>3, <1>4, SubstituteKeepsLevels
<1>. QED
  BY <1>2, <1>4, <1>5, RewriteKeeps DEF Nodes

LEMMA ConstantIs ==
  ASSUME NEW v, NEW size
  PROVE  /\ Constant(v).op = "Constant" /\ Slots(Constant(v).op) = {}
         /\ IsNode(Constant(v), size)
<1>1. PICK e : e = <<>>
  OBVIOUS
<1>2. Constant(v) = [op |-> "Constant", val |-> v, in |-> e]
  BY <1>1 DEF Constant
<1>3. Constant(v).op = "Constant" /\ Constant(v).val = v /\ Constant(v).in = e
  BY ONLY <1>2
<1>4. Slots("Constant") = {} /\ e = [i \in {} |-> e[i]]
  BY <1>1 DEF Slots, Ops
<1>. QED
  BY <1>2, <1>3, <1>4 DEF IsNode

(* A new node takes the users of Top.                                      *)
LEMMA NewKeeps ==
  ASSUME RulesInv, NEW op \in Ops, At(op), NEW h, NEW level, NEW m \in DOMAIN h \ DOMAIN g,
         m # Ret, IsGraph(h), Levels(h, level), UsedAreFilled(h), Filled(h, m),
         \A u \in DOMAIN g : u \in DOMAIN h /\ h[u] = g[u], level[m] <= level[Top],
         Rewrite(Substitute(h, Top, m))
  PROVE  RulesInv'
<1>1. Working /\ Top \in DOMAIN g \ {Ret}
  BY TopIs
<1>2. Top \in DOMAIN h \ {Ret} /\ m \in DOMAIN h \ {Ret, Top}
  BY <1>1
<1>3. PICK k : k = Substitute(h, Top, m)
  OBVIOUS
<1>4. /\ IsGraph(k) /\ DOMAIN k = DOMAIN h /\ \A u \in DOMAIN h : k[u].op = h[u].op
      /\ Levels(k, level) /\ UsedAreFilled(k)
  BY <1>2, <1>3, SubstituteKeepsLevels
<1>. QED
  BY <1>1, <1>3, <1>4, RewriteKeeps DEF Nodes

LEMMA XorSameKeeps ==
  ASSUME RulesInv, XorSame
  PROVE  RulesInv'
<1>. DEFINE m == Len(g) + 1
            h == Append(g, Constant(0))
<1>1. At("Xor") /\ "Xor" \in Ops /\ Rewrite(Substitute(h, Top, m))
  BY DEF XorSame, Ops
<1>2. PICK level : Levels(g, level)
  BY DEF RulesInv
<1>3. IsGraph(g) /\ UsedAreFilled(g)
  BY DEF RulesInv
<1>4. CanAppend(g, level, Constant(0), 0)
  <2>1. /\ Constant(0).op = "Constant" /\ Slots(Constant(0).op) = {}
        /\ IsNode(Constant(0), Len(g))
    BY ConstantIs
  <2>. QED
    BY <1>2, <1>3, <2>1 DEF CanAppend, Ops
<1>5. Appended(g, level, Constant(0), 0, h, m)
  BY <1>4, AppendKeepsLevels
<1>. HIDE DEF h, m
<1>6. PICK more : Levels(h, more) /\ more[m] = 0
  BY <1>5 DEF Appended
<1>7. /\ IsGraph(h) /\ m \in DOMAIN h \ DOMAIN g /\ m # Ret /\ UsedAreFilled(h) /\ Filled(h, m)
      /\ \A u \in DOMAIN g : u \in DOMAIN h /\ h[u] = g[u]
  BY <1>5 DEF Appended
<1>8. more[m] <= more[Top]
  <2>1. Top \in DOMAIN g
    BY <1>1, TopIs
  <2>. QED
    BY <1>6, <1>7, <2>1 DEF Levels
<1>. QED
  BY <1>1, <1>6, <1>7, <1>8, NewKeeps

LEMMA AddTwiceKeeps ==
  ASSUME RulesInv, AddTwice
  PROVE  RulesInv'
<1>. DEFINE c == Len(g) + 1
            m == Len(g) + 2
            shl == BinOp("Shl", Lhs(Top), c)
            h == Append(g, Constant(1))
            k == Append(h, shl)
<1>1. At("Add") /\ "Add" \in Ops /\ Rewrite(Substitute(g \o <<Constant(1), shl>>, Top, m))
  BY DEF AddTwice, Ops
<1>2. PICK level : Levels(g, level)
  BY DEF RulesInv
<1>3. IsGraph(g) /\ UsedAreFilled(g) /\ Len(g) \in Nat
  BY GraphFacts DEF RulesInv
<1>4. /\ Top \in DOMAIN g \ {Ret} /\ level[Lhs(Top)] < level[Top]
      /\ Lhs(Top) \in DOMAIN g \ {Ret} /\ Filled(g, Lhs(Top))
  BY <1>1, <1>2, TopIs
<1>5. CanAppend(g, level, Constant(1), 0)
  <2>1. /\ Constant(1).op = "Constant" /\ Slots(Constant(1).op) = {}
        /\ IsNode(Constant(1), Len(g))
    BY ConstantIs
  <2>. QED
    BY <1>2, <1>3, <2>1 DEF CanAppend, Ops
<1>6. Appended(g, level, Constant(1), 0, h, c)
  BY <1>5, AppendKeepsLevels
<1>7. Len(h) = c /\ Len(h) + 1 = m
  BY <1>3, <1>6 DEF Appended
<1>8. g \o <<Constant(1), shl>> = k
  <2>1. PICK R : g \in Seq(R)
    BY <1>3 DEF IsGraph
  <2>. HIDE DEF shl
  <2>. QED
    BY <1>3, <2>1
<1>. HIDE DEF h, c, m
<1>9. PICK more : Levels(h, more) /\ more[c] = 0 /\ \A u \in DOMAIN g : more[u] = level[u]
  BY <1>6 DEF Appended
<1>10. /\ IsGraph(h) /\ c \in DOMAIN h \ DOMAIN g /\ c # Ret /\ UsedAreFilled(h) /\ Filled(h, c)
       /\ \A u \in DOMAIN g : u \in DOMAIN h /\ h[u] = g[u]
  BY <1>6 DEF Appended
<1>11. level[Top] \in Nat /\ level[Top] > 0 /\ 0 < level[Top]
  <2>1. level[Top] \in Nat /\ level[Lhs(Top)] \in Nat
    BY <1>2, <1>4 DEF Levels
  <2>. QED
    BY <1>4, <2>1
<1>12. shl.op = "Shl" /\ shl.in[1] = Lhs(Top) /\ shl.in[2] = c /\ Slots("Shl") = {1, 2} /\ IsNode(shl, Len(h))
  <2>1. PICK in : in = <<Lhs(Top), c>>
    OBVIOUS
  <2>2. shl = [op |-> "Shl", val |-> 0, in |-> in]
    BY <2>1 DEF BinOp
  <2>3. shl.op = "Shl" /\ shl.val = 0 /\ shl.in = in
    BY ONLY <2>2
  <2>4. in = [i \in {1, 2} |-> in[i]] /\ in[1] = Lhs(Top) /\ in[2] = c
    BY <2>1
  <2>5. Slots("Shl") = {1, 2} /\ "Shl" \in Ops
    BY DEF Slots, Ops
  <2>6. DOMAIN h = 1..Len(h) /\ Len(h) \in Nat
    BY <1>10, GraphFacts
  <2>7. Lhs(Top) \in 0..Len(h) /\ c \in 0..Len(h)
    BY <1>4, <1>10, <2>6
  <2>. HIDE DEF shl
  <2>. QED
    BY <1>4, <1>10, <2>2, <2>3, <2>4, <2>5, <2>7 DEF IsNode
<1>13. CanAppend(h, more, shl, level[Top])
  <2>1. \A i \in Slots(shl.op) : shl.in[i] \in {Lhs(Top), c}
    BY <1>12
  <2>2. Lhs(Top) # 0 /\ c # 0
    <3>1. 0 \notin DOMAIN g /\ 0 \notin DOMAIN h
      BY <1>3, <1>10, GraphFacts
    <3>. QED
      BY <1>4, <1>10, <3>1
  <2>3. Filled(h, Lhs(Top))
    BY <1>4, <1>10 DEF Filled
  <2>. HIDE DEF shl
  <2>. QED
    BY <1>4, <1>9, <1>10, <1>11, <1>12, <2>1, <2>2, <2>3 DEF CanAppend
<1>14. Appended(h, more, shl, level[Top], k, m)
  BY <1>7, <1>13, AppendKeepsLevels
<1>. HIDE DEF k, shl
<1>15. PICK last : Levels(k, last) /\ last[m] = level[Top] /\ \A u \in DOMAIN h : last[u] = more[u]
  BY <1>14 DEF Appended
<1>16. /\ IsGraph(k) /\ m \in DOMAIN k \ DOMAIN g /\ m # Ret /\ UsedAreFilled(k) /\ Filled(k, m)
       /\ \A u \in DOMAIN g : u \in DOMAIN k /\ k[u] = g[u]
  BY <1>10, <1>14 DEF Appended
<1>17. last[m] <= last[Top]
  BY <1>4, <1>9, <1>10, <1>11, <1>15
<1>18. Rewrite(Substitute(k, Top, m))
  BY <1>1, <1>8
<1>. QED
  BY <1>1, <1>15, <1>16, <1>17, <1>18, NewKeeps

LEMMA AddChainKeeps ==
  ASSUME RulesInv, AddChain
  PROVE  RulesInv'
<1>. DEFINE inner == Lhs(Top)
            c == Rhs(Top)
            v == Lhs(inner)
            k == [g EXCEPT ![inner].in[1] = c, ![Top].in[2] = v]
<1>1. /\ At("Add") /\ "Add" \in Ops /\ Rewrite(k)
      /\ g[inner].op = "Add" /\ g[c].op = "Constant"
  BY DEF AddChain, Ops, ChainOfConstants, Is, IsConstant
<1>2. PICK level : Levels(g, level)
  BY DEF RulesInv
<1>3. IsGraph(g) /\ UsedAreFilled(g)
  BY DEF RulesInv
<1>4. /\ Working /\ Top \in DOMAIN g \ {Ret} /\ g[Top].op = "Add" /\ Slots("Add") = {1, 2}
      /\ inner \in DOMAIN g \ {Ret, Top} /\ Filled(g, inner) /\ level[inner] < level[Top]
      /\ c \in DOMAIN g \ {Ret, Top} /\ Filled(g, c) /\ IsUsed(g, c)
  BY <1>1, <1>2, TopIs
<1>5. /\ 0 \notin DOMAIN g
      /\ \A n \in DOMAIN g : /\ g[n] = [op |-> g[n].op, val |-> g[n].val, in |-> g[n].in]
                             /\ DOMAIN g[n].in = Slots(g[n].op)
                             /\ \A i \in Slots(g[n].op) : g[n].in[i] \in (DOMAIN g \cup {0}) \ {Ret}
  BY <1>3, GraphFacts
<1>6. /\ v = g[inner].in[1] /\ v \in DOMAIN g \ {Ret} /\ IsUsed(g, v) /\ level[v] < level[inner]
  <2>1. v = g[inner].in[1] /\ 1 \in Slots(g[inner].op)
    BY <1>1, <1>4 DEF Lhs
  <2>2. v # 0 /\ v \in DOMAIN g \ {Ret}
    BY <1>4, <1>5, <2>1 DEF Filled
  <2>3. IsUsed(g, v)
    BY <1>3, <1>4, <2>1, UsesFacts
  <2>4. level[v] < level[inner]
    BY <1>2, <1>4, <2>1, <2>2 DEF Levels
  <2>. QED
    BY <2>1, <2>2, <2>3, <2>4
<1>. HIDE DEF inner, c, v
<1>7. level[c] < level[inner] /\ level[v] < level[Top]
  <2>1. level[inner] > 0 /\ level[c] = 0
    BY <1>1, <1>2, <1>4 DEF Levels
  <2>2. level[inner] \in Nat /\ level[v] \in Nat /\ level[Top] \in Nat
    BY <1>2, <1>4, <1>6 DEF Levels
  <2>. QED
    BY <1>4, <1>6, <2>1, <2>2
<1>8. /\ DOMAIN k = DOMAIN g /\ k = [n \in DOMAIN g |-> k[n]]
      /\ \A n \in DOMAIN g \ {inner, Top} : k[n] = g[n]
  BY <1>4
<1>9. /\ k[inner] = [op |-> g[inner].op, val |-> g[inner].val, in |-> [g[inner].in EXCEPT ![1] = c]]
      /\ k[Top] = [op |-> g[Top].op, val |-> g[Top].val, in |-> [g[Top].in EXCEPT ![2] = v]]
  <2>1. /\ k[inner] = [g[inner] EXCEPT !.in = [g[inner].in EXCEPT ![1] = c]]
        /\ k[Top] = [g[Top] EXCEPT !.in = [g[Top].in EXCEPT ![2] = v]]
    BY <1>4
  <2>. HIDE DEF k
  <2>. QED
    BY <1>4, <1>5, <2>1
<1>. HIDE DEF k
<1>10. k[inner].in = [g[inner].in EXCEPT ![1] = c] /\ k[Top].in = [g[Top].in EXCEPT ![2] = v]
  BY ONLY <1>9
<1>11. \A n \in DOMAIN g : k[n] = [op |-> g[n].op, val |-> g[n].val, in |-> k[n].in]
  BY <1>5, <1>8, <1>9, <1>10
<1>12. ASSUME NEW n \in DOMAIN g
       PROVE  /\ k[n].in = [i \in Slots(g[n].op) |-> k[n].in[i]]
              /\ \A i \in Slots(g[n].op) :
                   \/ k[n].in[i] = g[n].in[i]
                   \/ n = inner /\ k[n].in[i] = c
                   \/ n = Top /\ k[n].in[i] = v
  <2>1. CASE n \in {inner, Top}
    <3>1. DOMAIN g[n].in = {1, 2} /\ Slots(g[n].op) = {1, 2}
      BY <1>1, <1>4, <1>5, <2>1
    <3>. QED
      BY <1>4, <1>10, <2>1, <3>1
  <2>2. CASE n \notin {inner, Top}
    <3>1. Len(g) \in Nat /\ DOMAIN g = 1..Len(g)
      BY <1>3, GraphFacts
    <3>2. g[n].in = [i \in Slots(g[n].op) |-> g[n].in[i]]
      BY <1>3, <3>1 DEF IsGraph, IsNode
    <3>. QED
      BY <1>8, <2>2, <3>2
  <2>. QED
    BY <2>1, <2>2
<1>13. Relinks(g, k)
  <2>1. k = [n \in DOMAIN g |-> [op |-> g[n].op, val |-> g[n].val, in |-> k[n].in]]
    BY <1>8, <1>11
  <2>2. \A n \in DOMAIN g : \A i \in Slots(g[n].op) : k[n].in[i] \in (DOMAIN g \cup {0}) \ {Ret}
    <3>1. ASSUME NEW n \in DOMAIN g, NEW i \in Slots(g[n].op)
          PROVE  k[n].in[i] \in (DOMAIN g \cup {0}) \ {Ret}
      <4>1. k[n].in[i] \in {g[n].in[i], c, v}
        BY <1>12
      <4>2. g[n].in[i] \in (DOMAIN g \cup {0}) \ {Ret}
        BY <1>5
      <4>. QED
        BY <1>4, <1>6, <4>1, <4>2
    <3>. QED
      BY <3>1
  <2>3. \A n \in DOMAIN g : k[n].in = [i \in Slots(g[n].op) |-> k[n].in[i]]
    BY <1>12
  <2>. QED
    BY <2>1, <2>2, <2>3 DEF Relinks
<1>14. IsGraph(k) /\ \A n \in DOMAIN g : k[n].op = g[n].op
  BY <1>3, <1>13, RelinkFacts
<1>15. Levels(k, level)
  <2>1. ASSUME NEW n \in DOMAIN g \ {Ret}, NEW i \in Slots(g[n].op), k[n].in[i] # 0
        PROVE  level[k[n].in[i]] < level[n]
    <3>1. CASE k[n].in[i] = g[n].in[i]
      BY <1>2, <2>1, <3>1 DEF Levels
    <3>2. CASE k[n].in[i] # g[n].in[i]
      BY <1>7, <1>12, <3>2
    <3>. QED
      BY <3>1, <3>2
  <2>. QED
    BY <1>2, <1>8, <1>14, <2>1 DEF Levels
<1>16. \A n \in DOMAIN g : Filled(g, n) => Filled(k, n)
  <2>1. c # 0 /\ v # 0
    BY <1>4, <1>5, <1>6
  <2>2. \A n \in DOMAIN g : \A i \in Slots(g[n].op) : k[n].in[i] \in {g[n].in[i], c, v}
    BY <1>12
  <2>3. ASSUME NEW n \in DOMAIN g, Filled(g, n), NEW i \in Slots(g[n].op) PROVE k[n].in[i] # 0
    BY <2>1, <2>2, <2>3 DEF Filled
  <2>. QED
    BY <1>14, <2>3 DEF Filled
<1>17. UsedAreFilled(k)
  <2>1. ASSUME NEW n \in DOMAIN g, IsUsed(k, n) PROVE Filled(g, n)
    <3>1. PICK t \in DOMAIN k : \E i \in Slots(k[t].op) : k[t].in[i] = n
      BY <1>14, <2>1, UsesFacts
    <3>2. PICK i \in Slots(k[t].op) : k[t].in[i] = n
      BY <3>1
    <3>3. t \in DOMAIN g /\ i \in Slots(g[t].op)
      BY <1>8, <1>14, <3>2
    <3>4. CASE n = g[t].in[i]
      <4>1. IsUsed(g, n)
        BY <1>3, <3>3, <3>4, UsesFacts
      <4>. QED
        BY <1>3, <4>1 DEF UsedAreFilled
    <3>5. CASE n # g[t].in[i]
      <4>1. n = c \/ n = v
        BY <1>12, <3>2, <3>3, <3>5
      <4>. QED
        BY <1>3, <1>4, <1>6, <4>1 DEF UsedAreFilled
    <3>. QED
      BY <3>4, <3>5
  <2>. QED
    BY <1>8, <1>16, <2>1 DEF UsedAreFilled
<1>. QED
  BY <1>1, <1>4, <1>8, <1>14, <1>15, <1>17, RewriteKeeps DEF Nodes

LEMMA RuleKeeps ==
  ASSUME RulesInv, Rule
  PROVE  RulesInv'
<1>1. PICK level : Levels(g, level)
  BY DEF RulesInv
<1>2. {"Add", "Shl", "Xor"} = Ops
  BY DEF Ops
<1>3. CASE AddZero \/ ShlZero \/ XorZero
  <2>1. \E op \in Ops : At(op) /\ Rewrite(Substitute(g, Top, Lhs(Top)))
    BY <1>2, <1>3 DEF AddZero, ShlZero, XorZero
  <2>. QED
    BY <2>1, LeftKeeps
<1>4. CASE AddNone \/ ShlNone \/ XorNone
  <2>1. Working /\ Rewrite(g)
    BY <1>4 DEF AddNone, ShlNone, XorNone, At
  <2>2. IsGraph(g) /\ UsedAreFilled(g) /\ \A u \in Nodes : u \in DOMAIN g
    BY DEF RulesInv, Nodes
  <2>. QED
    BY <1>1, <2>1, <2>2, RewriteKeeps
<1>. QED
  BY <1>3, <1>4, XorSameKeeps, AddTwiceKeeps, AddChainKeeps DEF Rule

LEMMA PeepholeNextKeeps ==
  ASSUME RulesInv, [PeepholeNext]_peepholeVars
  PROVE  RulesInv'
<1>1. CASE SkipUnused
  <2>1. Working /\ work' = Front(work) /\ g' = g /\ pass' = pass
    BY <1>1 DEF SkipUnused
  <2>2. Rewrite(g)
    BY <2>1 DEF Rewrite
  <2>3. PICK level : Levels(g, level)
    BY DEF RulesInv
  <2>4. IsGraph(g) /\ UsedAreFilled(g) /\ \A u \in Nodes : u \in DOMAIN g
    BY DEF RulesInv, Nodes
  <2>. QED
    BY <2>1, <2>2, <2>3, <2>4, RewriteKeeps
<1>2. CASE UNCHANGED peepholeVars
  BY <1>2 DEF peepholeVars, RulesInv, Nodes
<1>. QED
  BY <1>1, <1>2, BuildKeepsRules, PeepholeStartKeeps, RuleKeeps DEF PeepholeNext

(* No rule meets an empty slot: a node that has users was not detached,    *)
(* and no rule empties a slot of a node that has users, or gives it users  *)
(* after it was detached.                                                  *)
THEOREM RulesFindOperands == PeepholeSpec => []OperandsArePresent
<1>1. RulesInv => OperandsArePresent
  <2>. SUFFICES ASSUME RulesInv, NEW n \in Nodes, Used(n), NEW i \in DOMAIN g[n].in
                PROVE  g[n].in[i] # 0
    BY DEF OperandsArePresent
  <2>1. IsGraph(g) /\ UsedAreFilled(g)
    BY DEF RulesInv
  <2>2. Filled(g, n)
    BY <2>1, UsesFacts DEF Used, UsersCount, UsedAreFilled, Nodes
  <2>3. DOMAIN g[n].in = Slots(g[n].op)
    BY <2>1, GraphFacts DEF Nodes
  <2>. QED
    BY <2>2, <2>3 DEF Filled
<1>. QED
  BY <1>1, RulesInit, PeepholeNextKeeps, PTL DEF PeepholeSpec
=============================================================================

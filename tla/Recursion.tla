----------------------------- MODULE Recursion -----------------------------
(***************************************************************************)
(* Induction over the naturals, by sets, and functions that are defined by *)
(* recursion: what the proofs about walks, trees and domination rest on.   *)
(***************************************************************************)
EXTENDS Naturals, WellFoundedInduction, TLAPS

LEMMA LeastNumber ==
  ASSUME NEW S, S \subseteq Nat, S # {}
  PROVE  \E m \in S : \A k \in S : m <= k
<1>. DEFINE R == OpToRel(<, Nat)
<1>1. IsWellFoundedOn(R, Nat)
  BY NatLessThanWellFounded
<1>2. \A i, j \in Nat : i < j => <<i, j>> \in R
  BY DEF OpToRel
<1>. HIDE DEF R
<1>3. PICK m \in S : \A k \in S : ~(<<k, m>> \in R)
  BY <1>1, WFMin
<1>4. \A k \in S : k \in Nat /\ m \in Nat /\ ~(k < m)
  BY <1>2, <1>3
<1>. QED
  BY <1>4

LEMMA Induction ==
  ASSUME NEW S, 0 \in S, \A n \in Nat : n \in S => n + 1 \in S
  PROVE  \A n \in Nat : n \in S
<1>. SUFFICES ASSUME NEW n \in Nat, n \notin S PROVE FALSE
  OBVIOUS
<1>1. PICK m \in Nat \ S : \A k \in Nat \ S : m <= k
  BY LeastNumber
<1>. QED
  BY <1>1

LEMMA StrongInduction ==
  ASSUME NEW S, \A n \in Nat : (\A m \in Nat : m < n => m \in S) => n \in S
  PROVE  \A n \in Nat : n \in S
<1>. SUFFICES ASSUME NEW n \in Nat, n \notin S PROVE FALSE
  OBVIOUS
<1>1. PICK m \in Nat \ S : \A k \in Nat \ S : m <= k
  BY LeastNumber
<1>. QED
  BY <1>1

-----------------------------------------------------------------------------
(* What leads from the value for k to the value for k + 1, for every k.    *)
Steps(T) == [Nat -> [T -> T]]

Follows(f, x, step) == f[0] = x /\ \A k \in Nat : f[k + 1] = step[k][f[k]]

(* A function of the naturals may be defined from its value one below.     *)
LEMMA RecursionExists ==
  ASSUME NEW T, NEW x \in T, NEW step \in Steps(T)
  PROVE  \E f \in [Nat -> T] : Follows(f, x, step)
<1>0. step \in [Nat -> [T -> T]]
  BY DEF Steps
<1>. DEFINE Upto(n) == {s \in [0..n -> T] : s[0] = x /\ \A k \in 1..n : s[k] = step[k - 1][s[k - 1]]}
            Some == {n \in Nat : Upto(n) # {}}
<1>1. \A n \in Nat : n \in Some
  <2>1. 0 \in Some
    <3>1. [k \in 0..0 |-> x] \in Upto(0)
      OBVIOUS
    <3>. QED
      BY <3>1
  <2>2. ASSUME NEW n \in Nat, n \in Some PROVE n + 1 \in Some
    <3>1. PICK s \in Upto(n) : TRUE
      BY <2>2
    <3>. DEFINE h == [k \in 0..(n + 1) |-> IF k = n + 1 THEN step[n][s[n]] ELSE s[k]]
    <3>2. h \in [0..(n + 1) -> T]
      BY <1>0, <3>1
    <3>3. h[0] = x
      BY <3>1
    <3>4. \A k \in 1..(n + 1) : h[k] = step[k - 1][h[k - 1]]
      BY <3>1
    <3>. HIDE DEF h
    <3>5. h \in Upto(n + 1)
      BY <3>2, <3>3, <3>4
    <3>. QED
      BY <3>5
  <2>. HIDE DEF Some
  <2>. QED
    BY <2>1, <2>2, Induction
<1>2. ASSUME NEW n \in Nat, NEW m \in Nat, NEW s \in Upto(n), NEW t \in Upto(m)
      PROVE  \A k \in Nat : k <= n /\ k <= m => s[k] = t[k]
  <2>. DEFINE Same == {k \in Nat : k <= n /\ k <= m => s[k] = t[k]}
  <2>1. 0 \in Same
    OBVIOUS
  <2>2. ASSUME NEW k \in Nat, k \in Same PROVE k + 1 \in Same
    BY <1>0, <2>2
  <2>. HIDE DEF Same
  <2>3. \A k \in Nat : k \in Same
    BY <2>1, <2>2, Induction
  <2>. QED
    BY <2>3 DEF Same
<1>. DEFINE at == [n \in Nat |-> CHOOSE s : s \in Upto(n)]
            f == [n \in Nat |-> at[n][n]]
<1>3. \A n \in Nat : at[n] \in Upto(n)
  <2>1. \A n \in Nat : \E s : s \in Upto(n)
    BY <1>1
  <2>. HIDE DEF Upto
  <2>. QED
    BY <2>1
<1>. HIDE DEF at
<1>4. \A k \in Nat : f[k] \in T
  BY <1>3
<1>5. f[0] = x
  BY <1>3
<1>6. ASSUME NEW k \in Nat PROVE f[k + 1] = step[k][f[k]]
  <2>1. k + 1 \in Nat /\ k <= k + 1 /\ k <= k /\ k + 1 \in 1..(k + 1) /\ (k + 1) - 1 = k
    OBVIOUS
  <2>2. at[k + 1][k] = at[k][k]
    <3>. HIDE DEF Upto
    <3>. QED
      BY <1>2, <1>3, <2>1
  <2>3. at[k + 1][k + 1] = step[k][at[k + 1][k]]
    BY <1>3, <2>1
  <2>. QED
    BY <2>1, <2>2, <2>3
<1>7. f \in [Nat -> T]
  BY <1>4
<1>. HIDE DEF f
<1>8. Follows(f, x, step)
  BY <1>5, <1>6 DEF Follows
<1>. QED
  BY <1>7, <1>8

(* The values met by applying g over and over. *)
LEMMA IterationExists ==
  ASSUME NEW T, NEW x \in T, NEW g \in [T -> T]
  PROVE  \E f \in [Nat -> T] : f[0] = x /\ \A k \in Nat : f[k + 1] = g[f[k]]
<1>. DEFINE step == [k \in Nat |-> g]
<1>1. step \in Steps(T) /\ \A k \in Nat : step[k] = g
  BY DEF Steps
<1>. HIDE DEF step
<1>2. PICK f \in [Nat -> T] : Follows(f, x, step)
  BY <1>1, RecursionExists
<1>. QED
  BY <1>1, <1>2 DEF Follows
=============================================================================

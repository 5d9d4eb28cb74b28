--------------------------- MODULE RegAllocProofs ---------------------------
(***************************************************************************)
(* The register allocator is correct for every number of registers and     *)
(* every set of live intervals.                                            *)
(***************************************************************************)
EXTENDS RegAlloc, Recursion, FiniteSetTheorems, SequenceTheorems, TLAPS

(* The values that have no place yet. *)
Pending == {v \in Values : v \in todo \/ v = cur}

(* Values are placed in the order their intervals start. *)
InOrder ==
  /\ \A v \in Placed, w \in Pending : First(v) <= First(w)
  /\ cur # NoValue => \A w \in todo : First(cur) <= First(w)

(* A value that gave its register back ended before anything to come.      *)
GoneBefore ==
  \A v \in (Placed \ spilled) \ active : \A w \in Pending : Last(v) <= First(w)

ActiveInRegisters ==
  /\ IsFiniteSet(active)
  /\ active \cap spilled = {}
  /\ \A v \in active : place[v] \in Registers

IInv ==
  /\ TypeOK
  /\ InOrder
  /\ GoneBefore
  /\ ActiveInRegisters
  /\ RegistersPartitioned
  /\ NoSharedRegister

LEMMA EndPoints ==
  ASSUME TypeOK, NEW v \in Values
  PROVE  First(v) \in Nat /\ Last(v) \in Nat
<1>1. interval[v] \in [first : Nat, last : Nat]
  BY IntervalsAssumption DEF TypeOK
<1>. QED
  BY <1>1 DEF First, Last

LEMMA InitKeeps == Init => IInv
<1>. SUFFICES ASSUME Init PROVE IInv
  OBVIOUS
<1>1. free \in Seq(Registers) /\ DOMAIN free = 1..NumRegs /\ Len(free) = NumRegs
  <2>1. \A k \in 1..NumRegs : NumRegs - k \in Registers
    BY NumRegsAssumption DEF Registers
  <2>. QED
    BY <2>1, NumRegsAssumption DEF Init
<1>2. TypeOK
  BY <1>1, ValuesAssumption DEF Init, TypeOK, Placed
<1>3. Placed = {}
  BY DEF Init, Placed
<1>4. ActiveInRegisters
  BY FS_EmptySet DEF Init, ActiveInRegisters
<1>5. RegistersPartitioned
  <2>1. \A j, k \in 1..NumRegs : free[j] = free[k] => j = k
    BY NumRegsAssumption DEF Init
  <2>2. Len(free) + Cardinality(active) = NumRegs
    BY <1>1, FS_EmptySet, NumRegsAssumption DEF Init
  <2>3. active = {}
    BY DEF Init
  <2>. QED
    BY <1>1, <2>1, <2>2, <2>3 DEF RegistersPartitioned
<1>6. InOrder /\ GoneBefore /\ NoSharedRegister
  BY <1>3 DEF Init, InOrder, GoneBefore, NoSharedRegister
<1>. QED
  BY <1>2, <1>4, <1>5, <1>6 DEF IInv

LEMMA TakeKeeps ==
  ASSUME IInv, NEW v \in Values, Take(v)
  PROVE  IInv'
<1>1. /\ cur = NoValue /\ v \in todo /\ cur' = v /\ todo' = todo \ {v}
      /\ \A w \in todo : First(v) <= First(w)
      /\ interval' = interval /\ active' = active /\ free' = free
      /\ place' = place /\ spilled' = spilled /\ stack' = stack
  BY DEF Take, StartsFirst
<1>2. v # NoValue /\ todo \subseteq Values
  BY ValuesAssumption DEF IInv, TypeOK
<1>3. Placed' = Placed /\ Pending' = Pending
  BY <1>1, <1>2, ValuesAssumption DEF Placed, Pending
<1>4. TypeOK'
  BY <1>1, <1>3 DEF IInv, TypeOK
<1>5. InOrder' /\ GoneBefore' /\ ActiveInRegisters' /\ RegistersPartitioned' /\ NoSharedRegister'
  BY <1>1, <1>3 DEF IInv, InOrder, GoneBefore, ActiveInRegisters, RegistersPartitioned,
                    NoSharedRegister, First, Last, Overlap
<1>. QED
  BY <1>4, <1>5 DEF IInv

LEMMA ExpireStepKeeps ==
  ASSUME IInv, NEW v \in Values, Expire(v)
  PROVE  IInv'
<1>1. /\ cur # NoValue /\ v \in active /\ Last(v) <= First(cur)
      /\ active' = active \ {v} /\ free' = Append(free, place[v])
      /\ cur' = cur /\ todo' = todo /\ interval' = interval
      /\ place' = place /\ spilled' = spilled /\ stack' = stack
  BY DEF Expire, EndsFirst
<1>2. Placed' = Placed /\ Pending' = Pending
  BY <1>1 DEF Placed, Pending
<1>3. place[v] \in Registers /\ free \in Seq(Registers)
  BY <1>1 DEF IInv, ActiveInRegisters, TypeOK
<1>4. /\ free' \in Seq(Registers) /\ Len(free') = Len(free) + 1 /\ Len(free) \in Nat
      /\ DOMAIN free' = DOMAIN free \cup {Len(free) + 1}
      /\ Len(free) + 1 \notin DOMAIN free
      /\ free'[Len(free) + 1] = place[v]
      /\ \A k \in DOMAIN free : free'[k] = free[k]
  BY <1>1, <1>3
<1>5. TypeOK'
  BY <1>1, <1>2, <1>4 DEF IInv, TypeOK
<1>6. InOrder'
  BY <1>1, <1>2 DEF IInv, InOrder, First
<1>7. GoneBefore'
  <2>. SUFFICES ASSUME NEW w \in Pending PROVE Last(v) <= First(w)
    BY <1>1, <1>2 DEF IInv, GoneBefore, First, Last
  <2>1. /\ cur \in Values /\ w \in Values /\ v \in Values
        /\ First(cur) \in Nat /\ First(w) \in Nat /\ Last(v) \in Nat
    BY <1>1, EndPoints DEF IInv, TypeOK, Pending
  <2>2. w = cur \/ First(cur) <= First(w)
    BY <1>1 DEF IInv, InOrder, Pending
  <2>. QED
    BY <1>1, <2>1, <2>2
<1>8. ActiveInRegisters'
  BY <1>1, FS_RemoveElement DEF IInv, ActiveInRegisters
<1>9. RegistersPartitioned'
  <2>1. Cardinality(active') = Cardinality(active) - 1 /\ Cardinality(active) \in Nat
    BY <1>1, FS_RemoveElement, FS_CardinalityType DEF IInv, ActiveInRegisters
  <2>2. Len(free') + Cardinality(active') = NumRegs
    BY <1>4, <2>1, NumRegsAssumption DEF IInv, RegistersPartitioned
  <2>. QED
    BY <1>1, <1>4, <2>2 DEF IInv, RegistersPartitioned
<1>10. NoSharedRegister'
  BY <1>1, <1>2 DEF IInv, NoSharedRegister, First, Last, Overlap
<1>. QED
  BY <1>5, <1>6, <1>7, <1>8, <1>9, <1>10 DEF IInv

(* When cur receives its place, it joins the placed values. *)
LEMMA Placing ==
  ASSUME TypeOK, cur # NoValue, cur' = NoValue, todo' = todo
  PROVE  /\ cur \in Values /\ cur \in Pending /\ cur \notin Placed /\ cur \notin todo
         /\ Placed' = Placed \cup {cur}
         /\ Pending' = todo /\ todo \subseteq Pending
BY ValuesAssumption DEF TypeOK, Placed, Pending

LEMMA AssignKeeps ==
  ASSUME IInv, AssignRegister
  PROVE  IInv'
<1>. DEFINE r == free[Len(free)]
<1>1. /\ cur # NoValue /\ cur' = NoValue /\ todo' = todo /\ interval' = interval
      /\ Cardinality(active) # NumRegs
      /\ place' = [place EXCEPT ![cur] = r] /\ free' = SubSeq(free, 1, Len(free) - 1)
      /\ active' = active \cup {cur} /\ spilled' = spilled /\ stack' = stack
  BY DEF AssignRegister, Expired
<1>2. /\ cur \in Values /\ cur \in Pending /\ cur \notin Placed /\ cur \notin todo
      /\ Placed' = Placed \cup {cur} /\ Pending' = todo /\ todo \subseteq Pending
  BY <1>1, Placing DEF IInv
<1>3. free \in Seq(Registers) /\ Len(free) \in Nat /\ Len(free) > 0
  <2>1. free \in Seq(Registers) /\ Len(free) \in Nat
    BY DEF IInv, TypeOK
  <2>2. Cardinality(active) \in Nat
    BY FS_CardinalityType DEF IInv, ActiveInRegisters
  <2>. QED
    BY <1>1, <2>1, <2>2, NumRegsAssumption DEF IInv, RegistersPartitioned
<1>4. /\ free' \in Seq(Registers) /\ Len(free') = Len(free) - 1
      /\ DOMAIN free' \subseteq DOMAIN free /\ Len(free) \notin DOMAIN free'
      /\ Len(free) \in DOMAIN free
      /\ \A k \in DOMAIN free' : free'[k] = free[k]
  <2>. DEFINE n == Len(free) - 1
  <2>1. n \in Nat /\ DOMAIN free = 1..Len(free) /\ \A k \in 1..n : free[k] \in Registers
    BY <1>3
  <2>2. /\ SubSeq(free, 1, n) \in Seq(Registers)
        /\ Len(SubSeq(free, 1, n)) = IF 1 <= n THEN n - 1 + 1 ELSE 0
        /\ \A k \in 1..(n - 1 + 1) : SubSeq(free, 1, n)[k] = free[1 + k - 1]
    BY <2>1, SubSeqProperties
  <2>3. free' \in Seq(Registers) /\ Len(free') = n /\ DOMAIN free' = 1..n
    BY <1>1, <2>1, <2>2
  <2>4. \A k \in 1..n : free'[k] = free[k]
    BY <1>1, <2>1, <2>2
  <2>. QED
    BY <1>3, <2>1, <2>3, <2>4
<1>5. r \in Registers /\ r \in Nat
  BY <1>3, NumRegsAssumption DEF Registers
<1>. HIDE DEF r
<1>6. /\ place \in [Values -> Nat] /\ place'[cur] = r
      /\ \A v \in Placed : v \in Values /\ v # cur /\ place'[v] = place[v]
  BY <1>1, <1>2 DEF IInv, TypeOK, Placed
<1>7. /\ active \subseteq Placed /\ spilled \subseteq Placed
      /\ r \notin {place[v] : v \in active}
      /\ \A k \in DOMAIN free' : free'[k] # r
  BY <1>3, <1>4 DEF IInv, TypeOK, RegistersPartitioned, r
<1>8. TypeOK'
  <2>1. place' \in [Values -> Nat]
    BY <1>1, <1>5, <1>6
  <2>. QED
    BY <1>1, <1>2, <1>4, <1>7, <2>1, ValuesAssumption DEF IInv, TypeOK
<1>9. InOrder'
  BY <1>1, <1>2 DEF IInv, InOrder, First
<1>10. GoneBefore'
  BY <1>1, <1>2 DEF IInv, GoneBefore, First, Last
<1>11. ActiveInRegisters'
  <2>1. IsFiniteSet(active')
    BY <1>1, FS_AddElement DEF IInv, ActiveInRegisters
  <2>. QED
    BY <1>1, <1>2, <1>5, <1>6, <1>7, <2>1 DEF IInv, ActiveInRegisters
<1>12. RegistersPartitioned'
  <2>1. Cardinality(active') = Cardinality(active) + 1 /\ Cardinality(active) \in Nat
    BY <1>1, <1>2, <1>7, FS_AddElement, FS_CardinalityType DEF IInv, ActiveInRegisters
  <2>2. Len(free') + Cardinality(active') = NumRegs
    BY <1>3, <1>4, <2>1, NumRegsAssumption DEF IInv, RegistersPartitioned
  <2>3. \A j, k \in DOMAIN free' : free'[j] = free'[k] => j = k
    BY <1>4 DEF IInv, RegistersPartitioned
  <2>4. \A v \in active' : \A k \in DOMAIN free' : place'[v] # free'[k]
    BY <1>1, <1>4, <1>6, <1>7 DEF IInv, RegistersPartitioned
  <2>5. \A v, w \in active' : place'[v] = place'[w] => v = w
    BY <1>1, <1>6, <1>7 DEF IInv, RegistersPartitioned
  <2>. QED
    BY <2>2, <2>3, <2>4, <2>5 DEF RegistersPartitioned
<1>13. \A v \in Placed \ spilled : place[v] = r => ~Overlap(v, cur) /\ ~Overlap(cur, v)
  <2>. SUFFICES ASSUME NEW v \in Placed \ spilled, place[v] = r
                PROVE  ~Overlap(v, cur) /\ ~Overlap(cur, v)
    OBVIOUS
  <2>1. Last(v) <= First(cur)
    BY <1>2, <1>7 DEF IInv, GoneBefore
  <2>2. First(cur) \in Nat /\ Last(v) \in Nat
    BY <1>2, <1>6, EndPoints DEF IInv
  <2>. QED
    BY <2>1, <2>2 DEF Overlap
<1>14. NoSharedRegister'
  BY <1>1, <1>2, <1>6, <1>13 DEF IInv, NoSharedRegister, First, Last, Overlap
<1>. QED
  BY <1>8, <1>9, <1>10, <1>11, <1>12, <1>14 DEF IInv

LEMMA SpillActiveKeeps ==
  ASSUME IInv, NEW s \in Values, SpillActive(s)
  PROVE  IInv'
<1>1. /\ cur # NoValue /\ cur' = NoValue /\ todo' = todo /\ interval' = interval
      /\ s \in active
      /\ place' = [place EXCEPT ![cur] = place[s], ![s] = stack] /\ free' = free
      /\ active' = (active \ {s}) \cup {cur}
      /\ spilled' = spilled \cup {s} /\ stack' = stack + 1
  BY DEF SpillActive, Expired, EndsLast
<1>2. /\ cur \in Values /\ cur \in Pending /\ cur \notin Placed /\ cur \notin todo
      /\ Placed' = Placed \cup {cur} /\ Pending' = todo /\ todo \subseteq Pending
  BY <1>1, Placing DEF IInv
<1>3. /\ active \subseteq Placed /\ spilled \subseteq Placed /\ s \in Placed /\ s # cur
      /\ stack \in Nat /\ place \in [Values -> Nat] /\ place[s] \in Registers
  BY <1>1, <1>2 DEF IInv, TypeOK, ActiveInRegisters
<1>4. /\ place'[cur] = place[s]
      /\ \A v \in Placed \ {s} : v \in Values /\ v # cur /\ place'[v] = place[v]
  BY <1>1, <1>2, <1>3 DEF Placed
<1>5. TypeOK'
  <2>1. place' \in [Values -> Nat] /\ stack' \in Nat
    BY <1>1, <1>2, <1>3 DEF Registers
  <2>. QED
    BY <1>1, <1>2, <1>3, <2>1, ValuesAssumption DEF IInv, TypeOK
<1>6. InOrder'
  BY <1>1, <1>2 DEF IInv, InOrder, First
<1>7. GoneBefore'
  BY <1>1, <1>2 DEF IInv, GoneBefore, First, Last
<1>8. ActiveInRegisters'
  <2>1. IsFiniteSet(active')
    BY <1>1, FS_AddElement, FS_RemoveElement DEF IInv, ActiveInRegisters
  <2>. QED
    BY <1>1, <1>2, <1>3, <1>4, <2>1 DEF IInv, ActiveInRegisters
<1>9. RegistersPartitioned'
  <2>1. IsFiniteSet(active) /\ IsFiniteSet(active \ {s}) /\ cur \notin active \ {s}
    BY <1>2, <1>3, FS_RemoveElement DEF IInv, ActiveInRegisters
  <2>2. Cardinality(active \ {s}) = Cardinality(active) - 1 /\ Cardinality(active) \in Nat
    BY <1>1, <2>1, FS_RemoveElement, FS_CardinalityType
  <2>3. Cardinality(active') = Cardinality(active \ {s}) + 1
    BY <1>1, <2>1, FS_AddElement
  <2>4. Len(free') + Cardinality(active') = NumRegs
    BY <1>1, <2>2, <2>3 DEF IInv, RegistersPartitioned
  <2>5. \A v \in active' : \/ v = cur
                           \/ v \in active /\ v # s /\ place'[v] = place[v] /\ place[v] # place[s]
    BY <1>1, <1>3, <1>4 DEF IInv, RegistersPartitioned
  <2>6. \A v \in active' : \A k \in DOMAIN free' : place'[v] # free'[k]
    <3>1. \A v \in active : \A k \in DOMAIN free : place[v] # free[k]
      BY DEF IInv, RegistersPartitioned
    <3>2. s \in active /\ free' = free /\ place'[cur] = place[s]
      BY <1>1, <1>4
    <3>. QED
      BY <2>5, <3>1, <3>2
  <2>7. \A v, w \in active' : place'[v] = place'[w] => v = w
    <3>1. \A v, w \in active : place[v] = place[w] => v = w
      BY DEF IInv, RegistersPartitioned
    <3>. QED
      BY <1>4, <2>5, <3>1
  <2>8. \A j, k \in DOMAIN free' : free'[j] = free'[k] => j = k
    BY <1>1 DEF IInv, RegistersPartitioned
  <2>. QED
    BY <2>4, <2>6, <2>7, <2>8 DEF RegistersPartitioned
<1>10. \A v \in Placed \ (spilled \cup {s}) :
         place[v] = place[s] => ~Overlap(v, cur) /\ ~Overlap(cur, v)
  <2>. SUFFICES ASSUME NEW v \in Placed \ (spilled \cup {s}), place[v] = place[s]
                PROVE  ~Overlap(v, cur) /\ ~Overlap(cur, v)
    OBVIOUS
  <2>1. v \notin active
    BY <1>1 DEF IInv, RegistersPartitioned
  <2>2. Last(v) <= First(cur)
    BY <1>2, <2>1 DEF IInv, GoneBefore
  <2>3. First(cur) \in Nat /\ Last(v) \in Nat
    BY <1>2, <1>4, EndPoints DEF IInv
  <2>. QED
    BY <2>2, <2>3 DEF Overlap
<1>11. NoSharedRegister'
  BY <1>1, <1>2, <1>3, <1>4, <1>10 DEF IInv, NoSharedRegister, First, Last, Overlap
<1>. QED
  BY <1>5, <1>6, <1>7, <1>8, <1>9, <1>11 DEF IInv

LEMMA SpillCurrentKeeps ==
  ASSUME IInv, SpillCurrent
  PROVE  IInv'
<1>1. /\ cur # NoValue /\ cur' = NoValue /\ todo' = todo /\ interval' = interval
      /\ place' = [place EXCEPT ![cur] = stack] /\ free' = free /\ active' = active
      /\ spilled' = spilled \cup {cur} /\ stack' = stack + 1
  BY DEF SpillCurrent, Expired
<1>2. /\ cur \in Values /\ cur \in Pending /\ cur \notin Placed /\ cur \notin todo
      /\ Placed' = Placed \cup {cur} /\ Pending' = todo /\ todo \subseteq Pending
  BY <1>1, Placing DEF IInv
<1>3. /\ active \subseteq Placed /\ spilled \subseteq Placed
      /\ stack \in Nat /\ place \in [Values -> Nat]
  BY DEF IInv, TypeOK
<1>4. \A v \in Placed : v # cur /\ place'[v] = place[v]
  BY <1>1, <1>2, <1>3 DEF Placed
<1>5. TypeOK'
  <2>1. place' \in [Values -> Nat] /\ stack' \in Nat
    BY <1>1, <1>2, <1>3 DEF Registers
  <2>. QED
    BY <1>1, <1>2, <1>3, <2>1, ValuesAssumption DEF IInv, TypeOK
<1>6. InOrder' /\ GoneBefore'
  BY <1>1, <1>2 DEF IInv, InOrder, GoneBefore, First, Last
<1>7. ActiveInRegisters' /\ RegistersPartitioned'
  BY <1>1, <1>2, <1>3, <1>4 DEF IInv, ActiveInRegisters, RegistersPartitioned
<1>8. NoSharedRegister'
  BY <1>1, <1>2, <1>4 DEF IInv, NoSharedRegister, First, Last, Overlap
<1>. QED
  BY <1>5, <1>6, <1>7, <1>8 DEF IInv

THEOREM Invariance == Spec => []IInv
<1>1. IInv /\ [Next]_vars => IInv'
  <2>. SUFFICES ASSUME IInv, [Next]_vars PROVE IInv'
    OBVIOUS
  <2>1. CASE UNCHANGED vars
    BY <2>1 DEF vars, IInv, TypeOK, InOrder, GoneBefore, ActiveInRegisters, RegistersPartitioned,
                NoSharedRegister, Placed, Pending, First, Last, Overlap
  <2>. QED
    BY <2>1, TakeKeeps, ExpireStepKeeps, AssignKeeps, SpillActiveKeeps, SpillCurrentKeeps DEF Next, Returned
<1>. QED
  BY <1>1, InitKeeps, PTL DEF Spec

(* Types: in particular the pool is never popped when it is empty.         *)
THEOREM TypeCorrect == Spec => []TypeOK
<1>1. IInv => TypeOK
  BY DEF IInv
<1>. QED
  BY <1>1, Invariance, PTL

(* No register is lost or handed out twice. *)
THEOREM RegistersStayPartitioned == Spec => []RegistersPartitioned
<1>1. IInv => RegistersPartitioned
  BY DEF IInv
<1>. QED
  BY <1>1, Invariance, PTL

(* Values that are live together are in different registers.               *)
THEOREM RegistersAreNotShared == Spec => []NoSharedRegister
<1>1. IInv => NoSharedRegister
  BY DEF IInv
<1>. QED
  BY <1>1, Invariance, PTL

-----------------------------------------------------------------------------
(* The values placed so far, and the one being placed, are finitely many.  *)
TakenFinite == IsFiniteSet(Values \ todo)

PInv == TakenFinite /\ SpillsUnderPressure

(* Once expireOldIntervals has returned, every active interval and the one *)
(* being placed occupy their places where the latter starts.               *)
LEMMA ActivePressure ==
  ASSUME IInv, Expired
  PROVE  \A v \in active \cup {cur} : Occupies(v, First(cur))
<1>1. cur \in Values /\ active \subseteq Values /\ active \subseteq Placed /\ cur \in Pending
  BY DEF IInv, TypeOK, Placed, Pending, Expired
<1>2. ASSUME NEW v \in active PROVE First(v) <= First(cur) /\ First(cur) < Last(v)
  <2>. DEFINE S == {Last(u) : u \in active}
  <2>1. S \subseteq Nat /\ S # {}
    BY <1>1, EndPoints DEF IInv
  <2>2. PICK m \in S : \A k \in S : m <= k
    BY <2>1, LeastNumber
  <2>3. PICK u \in active : Last(u) = m
    BY <2>2
  <2>4. u \in EndsFirst
    BY <2>2, <2>3 DEF EndsFirst
  <2>5. First(cur) < m /\ m <= Last(v)
    BY <2>2, <2>3, <2>4 DEF Expired
  <2>6. First(cur) \in Nat /\ m \in Nat /\ Last(v) \in Nat
    BY <1>1, <2>1, <2>2, EndPoints DEF IInv
  <2>. QED
    BY <1>1, <2>5, <2>6 DEF IInv, InOrder
<1>. QED
  BY <1>2 DEF Occupies

(* A value under pressure stays so: the values placed only grow in number. *)
LEMMA PressureStays ==
  ASSUME TakenFinite', interval' = interval, todo' \subseteq todo,
         NEW v, NEW w \in Values \ todo, Occupies(v, First(w)),
         Cardinality({u \in Values \ todo : Occupies(u, First(w))}) > NumRegs
  PROVE  \E x \in Values \ todo' :
           /\ Occupies(v, First(x))'
           /\ Cardinality({u \in Values \ todo' : Occupies(u, First(x))'}) > NumRegs
<1>. DEFINE A == {u \in Values \ todo : Occupies(u, First(w))}
            B == {u \in Values \ todo' : Occupies(u, First(w))'}
<1>1. \A u : Occupies(u, First(w))' <=> Occupies(u, First(w))
  BY DEF Occupies, First, Last
<1>2. A \subseteq B
  BY <1>1
<1>3. IsFiniteSet(B)
  BY FS_Subset DEF TakenFinite
<1>4. Cardinality(A) <= Cardinality(B) /\ Cardinality(A) \in Nat /\ Cardinality(B) \in Nat
  BY <1>2, <1>3, FS_Subset, FS_CardinalityType
<1>5. Cardinality(B) > NumRegs
  BY <1>4, NumRegsAssumption
<1>6. Occupies(v, First(w))' /\ w \in Values \ todo'
  BY <1>1
<1>. QED
  BY <1>5, <1>6

(* Where no register is left, cur and the active values are one too many.  *)
LEMMA NoneLeft ==
  ASSUME IInv, TakenFinite, Expired, Cardinality(active) = NumRegs
  PROVE  /\ cur \in Values \ todo
         /\ Cardinality({u \in Values \ todo : Occupies(u, First(cur))}) > NumRegs
<1>. DEFINE A == active \cup {cur}
            B == {u \in Values \ todo : Occupies(u, First(cur))}
<1>1. /\ cur \in Values \ todo /\ active \subseteq Values \ todo /\ cur \notin active
      /\ IsFiniteSet(active)
  BY DEF IInv, TypeOK, Placed, ActiveInRegisters, Expired
<1>2. Cardinality(A) = NumRegs + 1
  BY <1>1, FS_AddElement
<1>3. A \subseteq B
  BY <1>1, ActivePressure
<1>4. IsFiniteSet(B)
  BY FS_Subset DEF TakenFinite
<1>5. Cardinality(A) <= Cardinality(B) /\ Cardinality(B) \in Nat
  BY <1>3, <1>4, FS_Subset, FS_CardinalityType
<1>. QED
  BY <1>1, <1>2, <1>5, NumRegsAssumption

LEMMA PressureKeeps ==
  ASSUME IInv, PInv, [Next]_vars
  PROVE  PInv'
<1>1. CASE UNCHANGED vars
  BY <1>1 DEF PInv, TakenFinite, SpillsUnderPressure, Occupies, First, Last, vars
<1>2. ASSUME interval' = interval, todo' \subseteq todo, IsFiniteSet(Values \ todo'),
             \A v \in spilled' : \/ v \in spilled
                                 \/ /\ Expired /\ Cardinality(active) = NumRegs
                                    /\ v \in active \cup {cur}
      PROVE  PInv'
  <2>1. TakenFinite'
    BY <1>2 DEF TakenFinite
  <2>. SUFFICES ASSUME NEW v \in spilled'
                PROVE  \E x \in Values \ todo' :
                         /\ Occupies(v, First(x))'
                         /\ Cardinality({u \in Values \ todo' : Occupies(u, First(x))'}) > NumRegs
    BY <2>1 DEF PInv, SpillsUnderPressure
  <2>2. PICK w \in Values \ todo :
          /\ Occupies(v, First(w))
          /\ Cardinality({u \in Values \ todo : Occupies(u, First(w))}) > NumRegs
    <3>1. CASE v \in spilled
      BY <3>1 DEF PInv, SpillsUnderPressure
    <3>2. CASE v \notin spilled
      BY <1>2, <3>2, NoneLeft, ActivePressure DEF PInv
    <3>. QED
      BY <3>1, <3>2
  <2>. QED
    BY <1>2, <2>1, <2>2, PressureStays
<1>3. ASSUME NEW v \in Values, Take(v) PROVE PInv'
  <2>1. IsFiniteSet((Values \ todo) \cup {v})
    BY FS_AddElement DEF PInv, TakenFinite
  <2>2. IsFiniteSet(Values \ (todo \ {v}))
    BY <2>1, FS_Subset
  <2>. QED
    BY <1>2, <1>3, <2>2 DEF Take
<1>4. ASSUME NEW v \in Values, Expire(v) PROVE PInv'
  BY <1>2, <1>4 DEF Expire, PInv, TakenFinite
<1>5. CASE AssignRegister
  BY <1>2, <1>5 DEF AssignRegister, PInv, TakenFinite
<1>6. ASSUME NEW s \in Values, SpillActive(s) PROVE PInv'
  BY <1>2, <1>6 DEF SpillActive, EndsLast, PInv, TakenFinite
<1>7. CASE SpillCurrent
  BY <1>2, <1>7 DEF SpillCurrent, PInv, TakenFinite
<1>. QED
  BY <1>1, <1>3, <1>4, <1>5, <1>6, <1>7 DEF Next, Returned

(* A value is spilled only where the values that are live need more        *)
(* registers than the machine has.                                         *)
THEOREM SpillsAreForced == Spec => []SpillsUnderPressure
<1>1. Init => PInv
  <2>. SUFFICES ASSUME Init PROVE PInv
    OBVIOUS
  <2>1. Values \ todo = {} /\ spilled = {}
    BY DEF Init
  <2>. QED
    BY <2>1, FS_EmptySet DEF PInv, TakenFinite, SpillsUnderPressure
<1>2. PInv => SpillsUnderPressure
  BY DEF PInv
<1>. QED
  BY <1>1, <1>2, PressureKeeps, Invariance, PTL DEF Spec

-----------------------------------------------------------------------------
(* The slots handed out so far are below stakFreeLocation, one value each. *)
SlotsAreDistinct ==
  \A v \in spilled :
    /\ place[v] < stack
    /\ \A w \in spilled : place[v] = place[w] => v = w

LEMMA SlotsKeep ==
  ASSUME IInv, SlotsAreDistinct, [Next]_vars
  PROVE  SlotsAreDistinct'
<1>0. /\ place \in [Values -> Nat] /\ stack \in Nat /\ spilled \subseteq Values
      /\ cur \notin spilled /\ cur \in Values \cup {NoValue} /\ active \subseteq Values
      /\ active \cap spilled = {} /\ cur \notin active
  BY DEF IInv, TypeOK, ActiveInRegisters, Placed
<1>1. ASSUME place' = place, spilled' = spilled, stack' = stack PROVE SlotsAreDistinct'
  BY <1>1 DEF SlotsAreDistinct
<1>2. ASSUME NEW s \in Values, s \notin spilled, stack' = stack + 1,
             spilled' = spilled \cup {s}, place'[s] = stack,
             \A v \in spilled : place'[v] = place[v]
      PROVE  SlotsAreDistinct'
  <2>1. \A v \in spilled : place'[v] \in Nat /\ place'[v] < stack
    BY <1>0, <1>2 DEF SlotsAreDistinct
  <2>2. \A v \in spilled' : place'[v] < stack'
    BY <1>0, <1>2, <2>1
  <2>3. \A v, w \in spilled' : place'[v] = place'[w] => v = w
    BY <1>0, <1>2, <2>1 DEF SlotsAreDistinct
  <2>. QED
    BY <2>2, <2>3 DEF SlotsAreDistinct
<1>3. ASSUME AssignRegister PROVE SlotsAreDistinct'
  BY <1>0, <1>3 DEF AssignRegister, SlotsAreDistinct
<1>4. ASSUME NEW s \in Values, SpillActive(s) PROVE SlotsAreDistinct'
  <2>1. /\ s \notin spilled /\ stack' = stack + 1 /\ spilled' = spilled \cup {s} /\ s \in active
        /\ place' = [place EXCEPT ![cur] = place[s], ![s] = stack]
    BY <1>0, <1>4 DEF SpillActive, EndsLast
  <2>2. place'[s] = stack /\ \A v \in spilled : place'[v] = place[v]
    BY <1>0, <2>1
  <2>. QED
    BY <1>2, <2>1, <2>2
<1>5. ASSUME SpillCurrent PROVE SlotsAreDistinct'
  <2>1. PICK c \in Values : c = cur
    BY <1>0, <1>5 DEF SpillCurrent, Expired
  <2>2. /\ c \notin spilled /\ stack' = stack + 1 /\ spilled' = spilled \cup {c}
        /\ place' = [place EXCEPT ![c] = stack]
    BY <1>0, <1>5, <2>1 DEF SpillCurrent
  <2>3. place'[c] = stack /\ \A v \in spilled : place'[v] = place[v]
    BY <1>0, <2>2
  <2>. QED
    BY <1>2, <2>2, <2>3
<1>. QED
  BY <1>1, <1>3, <1>4, <1>5 DEF Next, Returned, Take, Expire, vars

LEMMA NoConflictInTable ==
  IInv /\ SlotsAreDistinct => Allocator!NoConflict
<1>. SUFFICES ASSUME IInv, SlotsAreDistinct,
                     NEW v \in Values, NEW w \in Values, v # w,
                     Location[v] # Allocator!None, Location[v] = Location[w]
              PROVE  Allocator!InRegister(v) /\ ~Allocator!LiveTogether(v, w)
  BY DEF Allocator!NoConflict
<1>1. v \in Placed /\ w \in Placed /\ place[v] = place[w] /\ (v \in spilled <=> w \in spilled)
  BY DEF Location, Allocator!None
<1>2. v \notin spilled /\ w \notin spilled
  BY <1>1 DEF SlotsAreDistinct
<1>3. ~Overlap(v, w)
  BY <1>1, <1>2 DEF IInv, NoSharedRegister
<1>4. Allocator!LiveTogether(v, w) => Overlap(v, w)
  <2>1. First(v) \in Nat /\ First(w) \in Nat /\ Last(v) \in Nat /\ Last(w) \in Nat
    BY EndPoints DEF IInv
  <2>. QED
    BY <2>1 DEF Allocator!LiveTogether, Overlap, First, Last
<1>. QED
  BY <1>1, <1>2, <1>3, <1>4 DEF Location, Allocator!InRegister

(* A step of the scan is a step of the abstract allocator, or none of its. *)
LEMMA StepRefines ==
  ASSUME IInv, IInv', Allocator!NoConflict', [Next]_vars
  PROVE  [Allocator!Next]_(Allocator!vars)
<1>1. ASSUME interval' = interval, Placed' = Placed, place' = place, spilled' = spilled
      PROVE  UNCHANGED Allocator!vars
  BY <1>1 DEF Allocator!vars, Location
<1>2. ASSUME NEW v \in Values, Take(v) PROVE UNCHANGED Allocator!vars
  <2>1. Placed' = Placed
    BY <1>2, ValuesAssumption DEF Take, StartsFirst, Placed
  <2>. QED
    BY <1>1, <1>2, <2>1 DEF Take
<1>3. ASSUME NEW v \in Values, Expire(v) PROVE UNCHANGED Allocator!vars
  BY <1>1, <1>3 DEF Expire, Placed
<1>4. ASSUME NEW c, c = cur, cur # NoValue, interval' = interval, todo' = todo, cur' = NoValue
      PROVE  /\ Allocator!IsNext(c)
             /\ c \in Values /\ c \notin Placed /\ c \notin spilled
             /\ Placed' = Placed \cup {c}
  <2>1. /\ c \in Values /\ c \notin Placed /\ Placed' = Placed \cup {c}
        /\ spilled \subseteq Placed
    BY <1>4, Placing DEF IInv, TypeOK
  <2>2. \A w \in Values : Location[w] = Allocator!None => w = c \/ w \in todo
    BY <1>4 DEF Location, Allocator!None, Placed
  <2>3. \A w \in todo : First(c) <= First(w)
    BY <1>4 DEF IInv, InOrder
  <2>4. First(c) <= First(c)
    BY <2>1, EndPoints DEF IInv
  <2>5. Location[c] = Allocator!None
    BY <2>1 DEF Location, Allocator!None
  <2>. QED
    BY <2>1, <2>2, <2>3, <2>4, <2>5 DEF Allocator!IsNext, First
<1>5. ASSUME AssignRegister PROVE Allocator!Next
  <2>1. PICK c : c = cur
    OBVIOUS
  <2>2. /\ Allocator!IsNext(c) /\ c \in Values /\ c \notin Placed /\ c \notin spilled
        /\ Placed' = Placed \cup {c}
        /\ interval' = interval /\ spilled' = spilled /\ active' = active \cup {c}
        /\ place \in [Values -> Nat]
    BY <1>4, <1>5, <2>1 DEF AssignRegister, Expired, IInv, TypeOK
  <2>3. PICK r \in Registers : place' = [place EXCEPT ![c] = r]
    <3>1. place' = [place EXCEPT ![c] = free[Len(free)]] /\ c \in active'
      BY <1>5, <2>1 DEF AssignRegister
    <3>2. place'[c] \in Registers
      BY <3>1 DEF IInv, ActiveInRegisters
    <3>. QED
      BY <2>2, <3>1, <3>2
  <2>4. Location' = [Location EXCEPT ![c] = [file |-> "register", at |-> r]]
    BY <2>2, <2>3 DEF Location
  <2>5. Allocator!Allocate(c)
    BY <2>2, <2>4 DEF Allocator!Allocate, Registers
  <2>. QED
    BY <2>2, <2>5 DEF Allocator!Next
<1>6. ASSUME NEW s \in Values, SpillActive(s) PROVE Allocator!Next
  <2>1. PICK c : c = cur
    OBVIOUS
  <2>2. /\ Allocator!IsNext(c) /\ c \in Values /\ c \notin Placed /\ c \notin spilled
        /\ Placed' = Placed \cup {c}
        /\ interval' = interval /\ spilled' = spilled \cup {s}
        /\ place \in [Values -> Nat]
        /\ place' = [place EXCEPT ![c] = place[s], ![s] = stack]
    BY <1>4, <1>6, <2>1 DEF SpillActive, Expired, IInv, TypeOK
  <2>3. s \in active /\ s \in Placed /\ s \notin spilled /\ s # c
    BY <1>6, <2>2 DEF SpillActive, EndsLast, IInv, TypeOK, ActiveInRegisters
  <2>4. Allocator!InRegister(s) /\ Location'[s].file = "stack"
    BY <2>2, <2>3 DEF Allocator!InRegister, Location
  <2>5. Location' = [Location EXCEPT ![c] = Location[s], ![s] = Location'[s]]
    <3>1. \A u \in Values : Location'[u] = IF u = s THEN Location'[s]
                                         ELSE IF u = c THEN Location[s] ELSE Location[u]
      BY <2>2, <2>3 DEF Location
    <3>. QED
      BY <2>2, <3>1 DEF Location
  <2>6. Allocator!Evict(c, s)
    BY <2>2, <2>4, <2>5 DEF Allocator!Evict
  <2>. QED
    BY <2>2, <2>6 DEF Allocator!Next
<1>7. ASSUME SpillCurrent PROVE Allocator!Next
  <2>1. PICK c : c = cur
    OBVIOUS
  <2>2. /\ Allocator!IsNext(c) /\ c \in Values /\ c \notin Placed /\ c \notin spilled
        /\ Placed' = Placed \cup {c}
        /\ interval' = interval /\ spilled' = spilled \cup {c}
        /\ place \in [Values -> Nat]
        /\ place' = [place EXCEPT ![c] = stack]
    BY <1>4, <1>7, <2>1 DEF SpillCurrent, Expired, IInv, TypeOK
  <2>3. Location'[c].file = "stack"
    BY <2>2 DEF Location
  <2>4. Location' = [Location EXCEPT ![c] = Location'[c]]
    <3>1. \A u \in Values : Location'[u] = IF u = c THEN Location'[c] ELSE Location[u]
      BY <2>2 DEF Location
    <3>. QED
      BY <2>2, <3>1 DEF Location
  <2>5. Allocator!Spill(c)
    BY <2>2, <2>3, <2>4 DEF Allocator!Spill
  <2>. QED
    BY <2>2, <2>5 DEF Allocator!Next
<1>8. CASE UNCHANGED vars
  BY <1>1, <1>8 DEF vars, Placed
<1>. QED
  BY <1>2, <1>3, <1>5, <1>6, <1>7, <1>8 DEF Next, Returned

(* The scan implements the abstract allocator: places are given in start   *)
(* order, free of conflicts, and only a register is ever taken back.       *)
THEOREM AllocatorIsImplemented == Spec => AllocationSpec
<1>1. Init => Allocator!Init
  BY ValuesAssumption DEF Init, Allocator!Init, Location, Allocator!None, Placed
<1>2. Init => SlotsAreDistinct
  BY DEF Init, SlotsAreDistinct
<1>3. Spec => []SlotsAreDistinct
  BY <1>2, SlotsKeep, Invariance, PTL DEF Spec
<1>4. Spec => []Allocator!NoConflict
  BY <1>3, NoConflictInTable, Invariance, PTL
<1>. QED
  BY <1>1, <1>4, StepRefines, Invariance, PTL DEF Spec, AllocationSpec, Allocator!Spec
=============================================================================

------------------------------ MODULE RegAlloc ------------------------------
(***************************************************************************)
(* The linear scan register allocator (src/Analyses/RegAlloc.hpp).         *)
(*                                                                         *)
(* A behaviour is one run of linearScanRegisterAllocation on some live     *)
(* intervals.  Each round of its loop takes the value that starts first,   *)
(* returns the registers of the intervals that ended (one step for each    *)
(* round of expireOldIntervals), and gives the value a register or spills. *)
(*                                                                         *)
(* std::sort leaves the order of equal elements open, and the values come  *)
(* out of an unordered_map: `todo` and `active` are sets, and the code's   *)
(* front and back are any elements with the least and the greatest key.    *)
(***************************************************************************)
EXTENDS Naturals, Sequences, FiniteSets

CONSTANTS
  Values,     \* the values that have a live number
  NoValue,    \* no value is being placed
  NumRegs,    \* the machine's registers
  Intervals   \* the live intervals a value may have

(* With numRegs = 0 the code reads the back of an empty deque. *)
ASSUME NumRegsAssumption == NumRegs \in Nat \ {0}

ASSUME ValuesAssumption == NoValue \notin Values

ASSUME IntervalsAssumption == Intervals \subseteq [first : Nat, last : Nat]

Registers == 0..(NumRegs - 1)

VARIABLES
  interval,  \* Liveness::liveInterval of every value
  todo,      \* the rest of interval_idx_s
  cur,       \* i, the value being placed
  active,    \* the intervals that hold a register, by end point
  free,      \* free_regs, popped and pushed at its end
  place,     \* regIdxOrStackLockation of every value in m_regMap
  spilled,   \* the values whose isSpill is set
  stack      \* stakFreeLocation

vars == <<interval, todo, cur, active, free, place, spilled, stack>>

(* The keys of m_regMap. *)
Placed == Values \ (todo \cup {cur})

First(v) == interval[v].first
Last(v) == interval[v].last

(* Faults: the values sorted by end point, the active list by falling end. *)
EndsSoonest == {v \in todo : \A w \in todo : Last(v) <= Last(w)}
ActiveReversed == {v \in active : \A w \in active : Last(w) <= Last(v)}

StartsFirst == {v \in todo : \A w \in todo : First(v) <= First(w)}
EndsFirst == {v \in active : \A w \in active : Last(v) <= Last(w)}
EndsLast == {v \in active : \A w \in active : Last(w) <= Last(v)}

-----------------------------------------------------------------------------
(* Fault: the pool is numbered from 1. *)
InitFromOne ==
  /\ interval \in [Values -> Intervals]
  /\ todo = Values
  /\ cur = NoValue
  /\ active = {}
  /\ free = [k \in 1..NumRegs |-> NumRegs - k + 1]
  /\ place = [v \in Values |-> 0]
  /\ spilled = {}
  /\ stack = 0

Init ==
  /\ interval \in [Values -> Intervals]
  /\ todo = Values
  /\ cur = NoValue
  /\ active = {}
  /\ free = [k \in 1..NumRegs |-> NumRegs - k]
  /\ place = [v \in Values |-> 0]
  /\ spilled = {}
  /\ stack = 0

Take(v) ==
  /\ cur = NoValue
  /\ v \in StartsFirst
  /\ cur' = v
  /\ todo' = todo \ {v}
  /\ UNCHANGED <<interval, active, free, place, spilled, stack>>

(* Faults: an interval expires a point early; its register is lost.        *)
ExpireEarly(v) ==
  /\ cur # NoValue
  /\ v \in EndsFirst
  /\ Last(v) <= First(cur) + 1
  /\ active' = active \ {v}
  /\ free' = Append(free, place[v])
  /\ UNCHANGED <<interval, todo, cur, place, spilled, stack>>

ExpireLoses(v) ==
  /\ cur # NoValue
  /\ v \in EndsFirst
  /\ Last(v) <= First(cur)
  /\ active' = active \ {v}
  /\ UNCHANGED <<interval, todo, cur, free, place, spilled, stack>>

(* One round of expireOldIntervals. *)
Expire(v) ==
  /\ cur # NoValue
  /\ v \in EndsFirst
  /\ Last(v) <= First(cur)
  /\ active' = active \ {v}
  /\ free' = Append(free, place[v])
  /\ UNCHANGED <<interval, todo, cur, place, spilled, stack>>

Expired == cur # NoValue /\ \A v \in EndsFirst : Last(v) > First(cur)

AssignRegister ==
  /\ Expired
  /\ Cardinality(active) # NumRegs
  /\ place' = [place EXCEPT ![cur] = free[Len(free)]]
  /\ free' = SubSeq(free, 1, Len(free) - 1)
  /\ active' = active \cup {cur}
  /\ cur' = NoValue
  /\ UNCHANGED <<interval, todo, spilled, stack>>

(* spillAtInterval, where the active value that ends last outlives cur. *)
SpillActive(v) ==
  /\ Expired
  /\ Cardinality(active) = NumRegs
  /\ v \in EndsLast
  /\ Last(v) > Last(cur)
  /\ place' = [place EXCEPT ![cur] = place[v], ![v] = stack]
  /\ active' = (active \ {v}) \cup {cur}
  /\ spilled' = spilled \cup {v}
  /\ stack' = stack + 1
  /\ cur' = NoValue
  /\ UNCHANGED <<interval, todo, free>>

(* spillAtInterval, where it does not. *)
SpillCurrent ==
  /\ Expired
  /\ Cardinality(active) = NumRegs
  /\ \A v \in EndsLast : Last(v) <= Last(cur)
  /\ place' = [place EXCEPT ![cur] = stack]
  /\ spilled' = spilled \cup {cur}
  /\ stack' = stack + 1
  /\ cur' = NoValue
  /\ UNCHANGED <<interval, todo, active, free>>

(* Every value is placed; before that, some step is always possible.       *)
Done == todo = {} /\ cur = NoValue

Returned == Done /\ UNCHANGED vars

Next ==
  \/ \E v \in Values : Take(v)
  \/ \E v \in Values : Expire(v)
  \/ AssignRegister
  \/ \E v \in Values : SpillActive(v)
  \/ SpillCurrent
  \/ Returned

Spec == Init /\ [][Next]_vars

-----------------------------------------------------------------------------
TypeOK ==
  /\ interval \in [Values -> Intervals]
  /\ todo \subseteq Values
  /\ cur \in Values \cup {NoValue}
  /\ cur \notin todo
  /\ active \subseteq Placed
  /\ free \in Seq(Registers)
  /\ place \in [Values -> Nat]
  /\ spilled \subseteq Placed
  /\ stack \in Nat

Overlap(v, w) ==
  /\ First(v) < Last(v) /\ First(w) < Last(w)
  /\ First(v) < Last(w) /\ First(w) < Last(v)

(* No register holds two values at a point where both are live.            *)
NoSharedRegister ==
  \A v, w \in Placed \ spilled : v # w /\ place[v] = place[w] => ~Overlap(v, w)

(* A register is in the free pool or held by one active value, not both;   *)
(* none is in the pool twice and none is lost.                             *)
RegistersPartitioned ==
  /\ \A j, k \in DOMAIN free : free[j] = free[k] => j = k
  /\ \A v \in active : \A k \in DOMAIN free : place[v] # free[k]
  /\ \A v, w \in active : place[v] = place[w] => v = w
  /\ Len(free) + Cardinality(active) = NumRegs

(* A value occupies its place where it starts, and while it is live.       *)
Occupies(v, p) == p = First(v) \/ (First(v) <= p /\ p < Last(v))

(* A value is spilled only if, at a point it occupies, the values placed   *)
(* so far and the one being placed need more registers than there are.     *)
SpillsUnderPressure ==
  \A v \in spilled : \E w \in Values \ todo :
    /\ Occupies(v, First(w))
    /\ Cardinality({u \in Values \ todo : Occupies(u, First(w))}) > NumRegs

(* What a client sees of the table while it is filled. *)
Location == [v \in Values |->
  IF v \notin Placed THEN [file |-> "none", at |-> 0]
  ELSE IF v \in spilled THEN [file |-> "stack", at |-> place[v]]
  ELSE [file |-> "register", at |-> place[v]]]

Allocator == INSTANCE Allocation WITH location <- Location

(* The scan extends a conflict-free assignment by one value at a time, and *)
(* what it revises is one register, in exchange for a slot nobody had.     *)
AllocationSpec == Allocator!Spec
=============================================================================

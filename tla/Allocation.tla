----------------------------- MODULE Allocation -----------------------------
(***************************************************************************)
(* What a register allocator owes its client: values receive locations in  *)
(* the order their intervals start, at no moment do two values share a     *)
(* register while both are live or a stack slot at all, and the only       *)
(* location ever taken back is a register, in exchange for a stack slot.   *)
(***************************************************************************)
EXTENDS Naturals

CONSTANTS Values, NumRegs, Intervals

VARIABLES
  interval,  \* the live interval of each value, given
  location   \* where each value lives

vars == <<interval, location>>

None == [file |-> "none", at |-> 0]

InRegister(v) == location[v].file = "register"

LiveTogether(v, w) ==
  \E p \in {interval[v].first, interval[w].first} :
    \A u \in {v, w} : interval[u].first <= p /\ p < interval[u].last

NoConflict == \A v, w \in Values :
  v # w /\ location[v] # None /\ location[v] = location[w] =>
    InRegister(v) /\ ~LiveTogether(v, w)

Init ==
  /\ interval \in [Values -> Intervals]
  /\ location = [v \in Values |-> None]

(* v is the next value in start order. *)
IsNext(v) ==
  /\ location[v] = None
  /\ \A w \in Values : location[w] = None => interval[v].first <= interval[w].first

Allocate(v) ==
  /\ IsNext(v)
  /\ \E r \in 0..(NumRegs - 1) :
       location' = [location EXCEPT ![v] = [file |-> "register", at |-> r]]
  /\ NoConflict'
  /\ UNCHANGED interval

Spill(v) ==
  /\ IsNext(v)
  /\ location'[v].file = "stack"
  /\ location' = [location EXCEPT ![v] = location'[v]]
  /\ NoConflict'
  /\ UNCHANGED interval

Evict(v, u) ==
  /\ IsNext(v)
  /\ InRegister(u)
  /\ location'[u].file = "stack"
  /\ location' = [location EXCEPT ![v] = location[u], ![u] = location'[u]]
  /\ NoConflict'
  /\ UNCHANGED interval

Next ==
  \/ \E v \in Values : Allocate(v)
  \/ \E v \in Values : Spill(v)
  \/ \E v, u \in Values : Evict(v, u)

Spec == Init /\ [][Next]_vars
=============================================================================

---------------------------- MODULE DepthFirst ----------------------------
(***************************************************************************)
(* Function::dfs (src/Function.cpp, _dfs): the numbering of the regions    *)
(* that dominators, loops and the linear order are computed from.          *)
(*                                                                         *)
(* The walk keeps an explicit stack.  A region stays on it while its       *)
(* successors are walked, and may be on it several times: it is pushed by  *)
(* every region that meets it before it is visited.                        *)
(***************************************************************************)
EXTENDS ControlFlow

VARIABLES
  flow,    \* the terminators of the function, given
  order,   \* dfs: the regions by DFS number, which starts at 0
  parent,  \* parents: the DFS number of the parent of each
  number,  \* visited: region to DFS number
  work,    \* workList, its top at the end
  rpo      \* rpo: the regions as they are popped

walk == <<flow, order, parent, number, work, rpo>>

Visited == DOMAIN number

Numbers == DOMAIN order  \* DFS number + 1: sequences start at 1

Parent(i) == parent[i + 1]

Top == work[Len(work)]

-----------------------------------------------------------------------------
Init ==
  /\ flow \in Flows
  /\ order = <<>>
  /\ parent = <<>>
  /\ number = [r \in {} |-> 0]
  /\ work = <<[from |-> 0, region |-> Start]>>
  /\ rpo = <<>>

NewNumber == Len(order)

NewEntry(s) == <<[from |-> NewNumber, region |-> s]>>

(* Fault: a region that waits on the stack is not pushed again. *)
PushedOnce(i) ==
  LET to == Successors(flow, Top.region)
  IN  IF i \in DOMAIN to /\ to[i] \notin Visited \cup {work[j].region : j \in DOMAIN work}
      THEN NewEntry(to[i])
      ELSE <<>>

(* What the i-th successor of the top adds to the stack: nothing, if it    *)
(* has a number.                                                           *)
Pushed(i) ==
  LET to == Successors(flow, Top.region)
  IN  IF i \in DOMAIN to /\ to[i] \notin Visited \cup {Top.region}
      THEN NewEntry(to[i])
      ELSE <<>>

(* The top of the stack is new: number it and push what it leads to, which *)
(* is two regions at most.                                                 *)
Visit ==
  /\ work # <<>>
  /\ Top.region \notin Visited
  /\ order' = Append(order, Top.region)
  /\ parent' = Append(parent, Top.from)
  /\ number' = [r \in Visited \cup {Top.region} |-> IF r \in Visited THEN number[r] ELSE NewNumber]
  /\ work' = work \o Pushed(1) \o Pushed(2)
  /\ UNCHANGED <<flow, rpo>>

(* The top of the stack has a number: its successors were walked, now or   *)
(* from another place on the stack.                                        *)
Leave ==
  /\ work # <<>>
  /\ Top.region \in Visited
  /\ work' = SubSeq(work, 1, Len(work) - 1)
  /\ rpo' = Append(rpo, Top.region)
  /\ UNCHANGED <<flow, order, parent, number>>

Walked == work = <<>>

Next == Visit \/ Leave

Spec == Init /\ [][Next]_walk

-----------------------------------------------------------------------------
TypeOK ==
  /\ flow \in Flows
  /\ order \in Seq(Regions)
  /\ parent \in Seq(Nat)
  /\ Visited \subseteq Regions
  /\ number \in [Visited -> Nat]
  /\ work \in Seq([from : Nat, region : Regions])
  /\ rpo \in Seq(Visited)

(* order and number are inverse to each other, and a parent has a smaller  *)
(* number than its child and an edge to it; the start is its own parent.   *)
NumbersAgree ==
  /\ Len(parent) = Len(order)
  /\ \A i \in Numbers : order[i] \in Visited /\ number[order[i]] = i - 1
  /\ \A r \in Visited : number[r] < Len(order) /\ order[number[r] + 1] = r
  /\ \A i \in Numbers :
       IF i = 1 THEN order[i] = Start /\ parent[i] = 0
       ELSE parent[i] < i - 1 /\ GoesTo(flow, order[parent[i] + 1], order[i])

(* The numbers met by following f upwards from i. *)
Ancestry(f, i) ==
  LET up[k \in Nat] == IF k = 0 THEN i ELSE f[up[k - 1] + 1]
  IN  {up[k] : k \in 0..Len(f)}

IsTreeAncestor(u, r) == number[u] \in Ancestry(parent, number[r])

(* The position at which a region is popped for the first time. *)
FirstLeft(r) == CHOOSE i \in DOMAIN rpo : rpo[i] = r /\ \A j \in 1..(i - 1) : rpo[j] # r
=============================================================================

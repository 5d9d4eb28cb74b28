----------------------------- MODULE ValueGraph -----------------------------
(***************************************************************************)
(* What Node and Function promise their clients: a graph of values where   *)
(* only inputs are seen.  Replacing and detaching a node are single steps, *)
(* and only values that nobody takes as an input disappear.                *)
(***************************************************************************)
EXTENDS Naturals, Sequences

CONSTANTS Nodes, Null, Pinned

VARIABLES
  live,   \* the nodes that exist
  inputs  \* the slots of each node

vars == <<live, inputs>>

Replaced(n, m) ==
  [u \in Nodes |-> [i \in DOMAIN inputs[u] |->
     IF inputs[u][i] = n THEN m ELSE inputs[u][i]]]

Init ==
  /\ live = Pinned
  /\ inputs = [n \in Nodes |-> <<>>]

Add(n) ==
  /\ n \notin live
  /\ live' = live \cup {n}
  /\ inputs'[n] \in Seq(live \cup {Null})
  /\ inputs' = [inputs EXCEPT ![n] = inputs'[n]]

SetInput(n, i, d) ==
  /\ n \in live /\ d \in live \cup {Null}
  /\ i \in DOMAIN inputs[n]
  /\ inputs' = [inputs EXCEPT ![n] = [@ EXCEPT ![i] = d]]
  /\ UNCHANGED live

AddInput(n, d) ==
  /\ n \in live /\ d \in live \cup {Null}
  /\ inputs' = [inputs EXCEPT ![n] = Append(@, d)]
  /\ UNCHANGED live

SwapInputs(n, i, j) ==
  /\ n \in live
  /\ {i, j} \subseteq DOMAIN inputs[n]
  /\ inputs' = [inputs EXCEPT ![n] = [@ EXCEPT ![i] = inputs[n][j], ![j] = inputs[n][i]]]
  /\ UNCHANGED live

Replace(n, m) ==
  /\ n \in live /\ m \in live \cup {Null}
  /\ inputs' = Replaced(n, m)
  /\ UNCHANGED live

Detach(n) ==
  /\ n \in live
  /\ inputs' = [Replaced(n, Null) EXCEPT ![n] = [i \in DOMAIN inputs[n] |-> Null]]
  /\ UNCHANGED live

Free(S) ==
  /\ S \subseteq live \ Pinned
  /\ \A u \in live : \A i \in DOMAIN inputs[u] : inputs[u][i] \notin S
  /\ live' = live \ S
  /\ inputs' = [n \in Nodes |-> IF n \in S THEN <<>> ELSE inputs[n]]

Next ==
  \/ \E n \in Nodes : Add(n)
  \/ \E n \in Nodes, d \in live \cup {Null} : \E i \in DOMAIN inputs[n] : SetInput(n, i, d)
  \/ \E n \in Nodes, d \in live \cup {Null} : AddInput(n, d)
  \/ \E n \in Nodes : \E i, j \in DOMAIN inputs[n] : SwapInputs(n, i, j)
  \/ \E n \in Nodes, m \in live \cup {Null} : Replace(n, m)
  \/ \E n \in Nodes : Detach(n)
  \/ \E S \in SUBSET live : Free(S)

Spec == Init /\ [][Next]_vars
=============================================================================

------------------------------ MODULE MCChecks ------------------------------
(***************************************************************************)
(* The functions for the runs of Checks: shapes of control flow, with each *)
(* way to have checks end some of the regions that go on in one region.    *)
(***************************************************************************)
EXTENDS Checks

CONSTANTS entry, exit, r1, r2, r3, r4, r5, object

MCRegions == {entry, exit, r1, r2, r3, r4, r5}

Jmp(r) == [kind |-> "jmp", to |-> <<r>>]
If(r, s) == [kind |-> "if", to |-> <<r, s>>]
Ret == [kind |-> "ret", to |-> <<exit>>]
Stop == [kind |-> "stop", to |-> <<>>]

(* Regions a shape does not name stay apart. *)
Shape(terminators, ins) ==
  [flow   |-> [r \in MCRegions |-> IF r = exit THEN EndTerminator
                                   ELSE IF r \in DOMAIN terminators THEN terminators[r]
                                   ELSE Jmp(r)],
   inputs |-> [r \in MCRegions |-> IF r \in DOMAIN ins THEN ins[r]
                                   ELSE IF r \in DOMAIN terminators \cup {exit} THEN <<>> ELSE <<r>>],
   named  |-> DOMAIN terminators]

Chain ==
  Shape(entry :> Jmp(r1) @@ r1 :> Jmp(r2) @@ r2 :> Jmp(r3) @@ r3 :> Ret,
        r1 :> <<entry>> @@ r2 :> <<r1>> @@ r3 :> <<r2>>)

IfThen(ins) ==
  Shape(entry :> Jmp(r1) @@ r1 :> If(r2, r3) @@ r2 :> Jmp(r3) @@ r3 :> Ret,
        r1 :> <<entry>> @@ r2 :> <<r1>> @@ r3 :> ins)

Diamond(ins) ==
  Shape(entry :> Jmp(r1) @@ r1 :> If(r2, r3) @@ r2 :> Jmp(r4) @@ r3 :> Jmp(r4) @@ r4 :> Ret,
        r1 :> <<entry>> @@ r2 :> <<r1>> @@ r3 :> <<r1>> @@ r4 :> ins)

Loop(ins) ==
  Shape(entry :> Jmp(r1) @@ r1 :> If(r2, r3) @@ r2 :> Jmp(r1) @@ r3 :> Ret,
        r1 :> ins @@ r2 :> <<r1>> @@ r3 :> <<r1>>)

(* r3 can be reached without r4 and r1, but the tree says that they        *)
(* dominate it if r4 goes to r2 first.                                     *)
Ladder(exits) ==
  Shape(entry :> If(r2, r1) @@ r1 :> Jmp(r4) @@ r4 :> exits @@ r2 :> Jmp(r3) @@ r3 :> Jmp(r5) @@ r5 :> Ret,
        r1 :> <<entry>> @@ r2 :> <<entry, r4>> @@ r3 :> <<r4, r2>> @@ r4 :> <<r1>> @@ r5 :> <<r3>>)

(* The last region enters the end with a check. *)
Stopping ==
  Shape(entry :> Jmp(r1) @@ r1 :> If(r2, r3) @@ r2 :> Jmp(r1) @@ r3 :> Stop,
        r1 :> <<entry, r2>> @@ r2 :> <<r1>> @@ r3 :> <<r1>> @@ exit :> <<r3>>)

Shapes ==
  {Chain, IfThen(<<r1, r2>>), IfThen(<<r2, r1>>), Diamond(<<r2, r3>>), Diamond(<<r3, r2>>),
   Loop(<<entry, r2>>), Loop(<<r2, entry>>), Ladder(If(r2, r3)), Ladder(If(r3, r2)), Stopping}

(* A nullCheck has no bound; a boundsCheck may have its object as one. *)
CheckChoices ==
  {[name |-> "nullCheck", object |-> v, bound |-> 0] : v \in {object, 2}}
    \cup [name : {"boundsCheck"}, object : {object, 2}, bound : {1, 2}]

GraphsOf(s) ==
  UNION {{[flow |-> s.flow, inputs |-> s.inputs, checks |-> c] : c \in [S -> CheckChoices]} :
           S \in SUBSET {r \in s.named : s.flow[r].kind \in {"jmp", "stop"}}}

MCGraphs == UNION {GraphsOf(s) : s \in Shapes}
=============================================================================

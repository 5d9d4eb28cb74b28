----------------------------- MODULE MCInlining -----------------------------
(***************************************************************************)
(* The modules for the run of Inlined: a caller F, a callee G and, where G *)
(* calls, H.  A body lists the nodes of a function from its start, its end *)
(* and its argument on; slots hold positions in the list.                  *)
(***************************************************************************)
EXTENDS Inlined

CONSTANTS F, G, H, NumNodes

MCNodes == 1..NumNodes

MCFunctions == {F, G, H}

Node(kind, of, slots) == [kind |-> kind, of |-> of, slots |-> slots]

Op(kind, slots) == Node(kind, 0, slots)

Frame(ends) == <<Op("start", <<>>), Op("end", ends), Node("arg", 1, <<>>)>>

Constant == Node("constant", 1, <<>>)

-----------------------------------------------------------------------------
(* Callees. *)

(* Nodes 3, 4 and 5, the argument, a constant and their difference, are    *)
(* what a ret may have.                                                    *)
Straight(v) ==
  Frame(<<6>>) \o <<Constant, Op("data", <<3, 4>>), Op("ret", <<1, v>>)>>

TwoRets(v, w) ==
  Frame(<<11, 12>>) \o
    <<Constant, Op("data", <<3, 4>>), Op("if", <<1, 3>>), Op("ifTrue", <<6>>), Op("ifFalse", <<6>>),
      Op("region", <<7>>), Op("region", <<8>>), Op("ret", <<9, v>>), Op("ret", <<10, w>>)>>

Joins(v, w) ==
  Frame(<<15>>) \o
    <<Constant, Op("data", <<3, 4>>), Op("if", <<1, 3>>), Op("ifTrue", <<6>>), Op("ifFalse", <<6>>),
      Op("region", <<7>>), Op("region", <<8>>), Op("jmp", <<10>>), Op("jmp", <<9>>),
      Op("region", <<11, 12>>), Op("phi", <<13, v, w>>), Op("ret", <<13, 14>>)>>

(* Counts the argument down to 0, and gives a constant. *)
CountsDown ==
  Frame(<<13>>) \o
    <<Constant, Op("jmp", <<1>>), Op("region", <<5, 9>>), Op("phi", <<6, 3, 11>>), Op("if", <<6, 7>>),
      Op("jmp", <<12>>), Op("ifTrue", <<8>>), Op("data", <<7, 4>>), Op("region", <<10>>),
      Op("ret", <<15, 4>>), Op("ifFalse", <<8>>), Op("region", <<14>>)>>

Calls(f) ==
  Frame(<<7>>) \o
    <<Constant, Node("call", f, <<3, 1>>), Op("region", <<5>>), Op("ret", <<6, 5>>)>>

(* The end is entered by a jmp. *)
Ends == Frame(<<4>>) \o <<Op("jmp", <<1>>)>>

-----------------------------------------------------------------------------
(* Callers. *)

CallsTwice(f) ==
  Frame(<<10>>) \o
    <<Constant, Node("call", f, <<4, 1>>), Op("region", <<5>>),
      Node("call", f, <<5, 6>>), Op("region", <<7>>), Op("data", <<7, 5>>), Op("ret", <<8, 9>>)>>

CallsInArm(f, ins) ==
  Frame(<<14>>) \o
    <<Op("if", <<1, 3>>), Op("ifTrue", <<4>>), Op("ifFalse", <<4>>), Op("region", <<5>>),
      Op("region", <<6>>), Node("call", f, <<3, 7>>), Op("jmp", <<8>>),
      Op("region", IF ins THEN <<9, 10>> ELSE <<10, 9>>),
      Op("phi", IF ins THEN <<11, 9, 3>> ELSE <<11, 3, 9>>), Op("data", <<12, 3>>), Op("ret", <<11, 13>>)>>

(* What uses the call is not used. *)
LeavesUnused(f) ==
  Frame(<<7>>) \o
    <<Node("call", f, <<3, 1>>), Op("region", <<4>>), Op("data", <<4, 3>>), Op("ret", <<5, 3>>)>>

(* The call goes on nowhere. *)
Stays(f) == Frame(<<>>) \o <<Node("call", f, <<3, 1>>)>>

(* Calls itself until the argument is 0, or twice. *)
Recurses(f) ==
  Frame(<<11, 12>>) \o
    <<Constant, Op("data", <<3, 4>>), Op("if", <<1, 3>>), Op("ifTrue", <<6>>), Op("ifFalse", <<6>>),
      Op("region", <<7>>), Op("region", <<8>>), Op("ret", <<13, 14>>), Op("ret", <<10, 4>>),
      Op("region", <<14>>), Node("call", f, <<5, 9>>)>>

-----------------------------------------------------------------------------
(* The functions one after the other, at consecutive addresses. *)
Base(bodies, f) ==
  IF f = F THEN 0 ELSE IF f = G THEN Len(bodies[F]) ELSE Len(bodies[F]) + Len(bodies[G])

At(bodies, n) ==
  LET f == IF n <= Base(bodies, G) THEN F ELSE IF n <= Base(bodies, H) THEN G ELSE H
  IN  [on |-> f, node |-> bodies[f][n - Base(bodies, f)]]

Total(bodies) == Base(bodies, H) + Len(bodies[H])

Program(bodies, steps, runnable) ==
  [operands  |-> [n \in 1..Total(bodies) |->
                    LET at == At(bodies, n)
                    IN  [i \in DOMAIN at.node.slots |-> at.node.slots[i] + Base(bodies, at.on)]],
   label     |-> [n \in 1..Total(bodies) |->
                    [kind |-> At(bodies, n).node.kind, of |-> At(bodies, n).node.of]],
   functions |-> [f \in MCFunctions |->
                    [start |-> Base(bodies, f) + 1,
                     end   |-> Base(bodies, f) + 2,
                     args  |-> <<Base(bodies, f) + 3>>,
                     nodes |-> [i \in 1..(Len(bodies[f]) - 2) |-> Base(bodies, f) + 2 + i]]],
   script    |-> steps,
   runnable  |-> runnable]

Bodies(f, h, k) == [x \in MCFunctions |-> IF x = F THEN f ELSE IF x = G THEN h ELSE k]

In(f) == [run |-> "inline", on |-> f]
Cl(f) == [run |-> "clean", on |-> f]

Scripts ==
  {<<In(F)>>, <<In(G), In(F)>>, <<In(G), Cl(G), In(F)>>,
   <<In(F), In(F)>>, <<In(F), Cl(F), In(F)>>, <<Cl(F), In(F)>>, <<Cl(G), In(F)>>}

Callees ==
  {Straight(v) : v \in 3..5} \cup {TwoRets(v, w) : v, w \in 3..5}
    \cup {Joins(v, w) : v, w \in 3..5} \cup {CountsDown, Calls(H), Recurses(G), CallsTwice(H)}

Callers ==
  {Calls(G), CallsTwice(G), CallsInArm(G, TRUE), CallsInArm(G, FALSE), LeavesUnused(G)}

MCPrograms ==
  {Program(Bodies(f, h, Straight(5)), s, MCFunctions) : f \in Callers, h \in Callees, s \in Scripts}
    \cup {Program(Bodies(Recurses(F), Straight(5), Straight(5)), s, MCFunctions) : s \in Scripts}
    \cup {Program(Bodies(CallsTwice(F), Straight(5), Straight(5)), s, {G, H}) : s \in Scripts}
    \cup {Program(Bodies(Calls(G), Ends, Straight(5)), s, {H}) : s \in Scripts}
    \cup {Program(Bodies(Stays(G), Straight(5), Straight(5)), s, {G, H}) : s \in Scripts}
=============================================================================

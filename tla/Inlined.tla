------------------------------ MODULE Inlined ------------------------------
(***************************************************************************)
(* What Inlining leaves of the functions it edits: Function::verify        *)
(* (src/Function.cpp, GraphChecker; src/Node.cpp) accepts what it accepted *)
(* before, and a function returns what it returned.  GraphChecker's checks *)
(* of types and of builtin calls are left out with types and builtins.     *)
(***************************************************************************)
EXTENDS Inlining

CONSTANT
  Fuel  \* bound: regions that an execution enters

VARIABLE meant  \* what each function returned at the beginning

(* A module: edges e, labels l and functions fs. *)
Module == [e |-> graph, l |-> label, fs |-> functions]

Is(m, n, kinds) == n # Null /\ m.l[n].kind \in kinds

UsedBy(m, n, kinds) == {u \in UsersOf(m.e, n) : Is(m, u, kinds)}

UsersCount(m, n) == MapThenSumSet(LAMBDA u : m.e.users[n][u], UsersOf(m.e, n))

-----------------------------------------------------------------------------
(* RegionNodeBase::terminator, any one of them. *)
Terminators == {"ret", "jmp", "if", "call"}

TerminatorOf(m, r) == CHOOSE t \in UsedBy(m, r, Terminators) : TRUE

Target(m, n) == CHOOSE r \in UsersOf(m.e, n) : TRUE

(* The assertions of successors(). *)
CanLeave(m, r) ==
  /\ UsedBy(m, r, Terminators) # {}
  /\ LET t == TerminatorOf(m, r)
     IN  /\ Is(m, t, {"jmp", "ret"}) =>
              UsersCount(m, t) = 1 /\ Is(m, Target(m, t), {"region", "start", "end"})
         /\ Is(m, t, {"if"}) =>
              /\ UsersCount(m, t) = 2
              /\ \A x \in UsersOf(m.e, t) :
                   /\ Is(m, x, {"ifTrue", "ifFalse"})
                   /\ UsersCount(m, x) = 1
                   /\ Is(m, Target(m, x), {"region", "start", "end"})

SuccessorsOf(m, r) ==
  LET t == TerminatorOf(m, r)
  IN  IF Is(m, t, {"if"}) THEN {Target(m, x) : x \in UsersOf(m.e, t)}
      ELSE IF Is(m, t, {"call"}) THEN UsedBy(m, t, {"region"})
      ELSE {Target(m, t)}

PredecessorsOf(m, r) ==
  LET counted == SelectSeq(m.e.operands[r], LAMBDA n : ~Is(m, n, {"ret"}))
      from(n) == IF Is(m, n, {"jmp"}) THEN m.e.operands[n][1]
                 ELSE IF Is(m, n, {"call"}) THEN Last(m.e.operands[n])
                 ELSE m.e.operands[m.e.operands[n][1]][1]
  IN  [i \in DOMAIN counted |-> from(counted[i])]

RegionIsValid(m, r) ==
  /\ \A i \in DOMAIN m.e.operands[r] :
       Is(m, m.e.operands[r][i], {"jmp", "ifTrue", "ifFalse", "ret", "call"})
  /\ \A p \in ToSet(PredecessorsOf(m, r)) : Is(m, p, {"region", "start"})
  /\ \A u \in UsersOf(m.e, r) : Is(m, u, {"phi"} \cup Terminators)
  /\ CanLeave(m, r)
  /\ \A s \in SuccessorsOf(m, r) : Is(m, s, {"region", "end"})

IfIsValid(m, n) ==
  /\ Len(m.e.operands[n]) = 2
  /\ m.e.operands[n][2] # Null
  /\ Is(m, m.e.operands[n][1], {"region", "start"})
  /\ UsersCount(m, n) = 2
  /\ UsedBy(m, n, {"ifTrue"}) # {} /\ UsedBy(m, n, {"ifFalse"}) # {}

PhiIsValid(m, n) ==
  /\ Is(m, m.e.operands[n][1], {"region"})
  /\ Len(m.e.operands[n]) - 1 = Len(PredecessorsOf(m, m.e.operands[n][1]))
  /\ Null \notin ToSet(m.e.operands[n])

Verify(m, f) ==
  \A n \in ToSet(m.fs[f].nodes) :
    /\ Is(m, n, {"region"}) => RegionIsValid(m, n)
    /\ Is(m, n, {"if"}) => IfIsValid(m, n)
    /\ Is(m, n, {"phi"}) => PhiIsValid(m, n)

-----------------------------------------------------------------------------
(* Reference definition: what a function returns, on numbers modulo 3.  A  *)
(* data node subtracts, and known holds what the phis and calls gave.      *)

RECURSIVE Value(_, _, _, _)

Value(m, n, args, known) ==
  CASE Is(m, n, {"arg"})         -> args[m.l[n].of]
    [] Is(m, n, {"constant"})    -> m.l[n].of
    [] Is(m, n, {"phi", "call"}) -> known[n]
    [] OTHER -> (Value(m, m.e.operands[n][1], args, known) + 3
                   - Value(m, m.e.operands[n][2], args, known)) % 3

NoEnd == 3  \* no value: the execution enters more regions than Fuel

RECURSIVE Runs(_, _, _, _, _)

(* The execution leaves region r by n, a node whose user is the next one.  *)
Follow(m, n, args, known, fuel) ==
  LET to   == CHOOSE u \in UsersOf(m.e, n) : Is(m, u, {"region"})
      i    == CHOOSE j \in DOMAIN m.e.operands[to] : m.e.operands[to][j] = n
      phis == UsedBy(m, to, {"phi"})
      new  == [p \in phis |-> Value(m, m.e.operands[p][i + 1], args, known)]
  IN  Runs(m, to, args, new @@ known, fuel - 1)

Runs(m, r, args, known, fuel) ==
  LET t == TerminatorOf(m, r)
      slots == m.e.operands[t]
  IN  IF fuel = 0 THEN NoEnd
      ELSE CASE Is(m, t, {"ret"}) -> Value(m, slots[2], args, known)
             [] Is(m, t, {"jmp"}) -> Follow(m, t, args, known, fuel)
             [] Is(m, t, {"if"}) ->
                  LET exit == IF Value(m, slots[2], args, known) # 0 THEN "ifTrue" ELSE "ifFalse"
                  IN  Follow(m, CHOOSE x \in UsersOf(m.e, t) : Is(m, x, {exit}), args, known, fuel)
             [] OTHER ->
                  LET inputs == [i \in DOMAIN m.fs[m.l[t].of].args |-> Value(m, slots[i], args, known)]
                      result == Runs(m, m.fs[m.l[t].of].start, inputs, <<>>, fuel - 1)
                  IN  IF result = NoEnd THEN NoEnd
                      ELSE Follow(m, t, args, (t :> result) @@ known, fuel)

Returned(m, f) ==
  [args \in [DOMAIN m.fs[f].args -> 0..2] |-> Runs(m, m.fs[f].start, args, <<>>, Fuel)]

-----------------------------------------------------------------------------
InlinedInit ==
  /\ InlineInit
  /\ meant = [f \in given.runnable |-> Returned(Module, f)]

InlinedNext == InlineNext /\ UNCHANGED meant

InlinedSpec == InlinedInit /\ [][InlinedNext]_<<inlineVars, meant>>

Readable(f) == phase = "ready" /\ ~HoldsFreedUsers(f)

(* A function that GraphChecker accepted is accepted after every run.      *)
StaysVerified ==
  \A f \in Functions : Readable(f) =>
    (Verify(Module, f) <=> Verify([e |-> EdgesOf(given.operands), l |-> given.label, fs |-> given.functions], f))

(* A function returns what it returned, for the same arguments.            *)
MeaningKept ==
  \A f \in given.runnable : Readable(f) => Returned(Module, f) = meant[f]
=============================================================================

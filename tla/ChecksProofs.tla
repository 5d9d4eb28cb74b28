---------------------------- MODULE ChecksProofs ----------------------------
(***************************************************************************)
(* What ChecksElimination::run does to every function.                     *)
(***************************************************************************)
EXTENDS Checks, DomTreeProofs

ChecksTypes ==
  /\ graph \in Graphs /\ flow = graph.flow
  /\ pass \in {"tree", "null", "bounds", "done", "crashed"}
  /\ next \in Nat /\ next >= 1
  /\ pass = "tree" => next = 1 /\ current = NoRegion /\ checks = graph.checks /\ inputs = graph.inputs
  /\ pass # "tree" => Built

(* The checks that are there are as they were.                             *)
ChecksStay ==
  /\ DOMAIN checks \subseteq DOMAIN graph.checks
  /\ \A r \in DOMAIN checks : checks[r] = graph.checks[r]

(* A use that is left is one of the object of CN, by another check; both   *)
(* of its uses are of that object if the first one removed it.             *)
IsUse(r, k, v) ==
  LET c == graph.checks[r]
  IN  /\ r \in DOMAIN graph.checks \ {current}
      /\ \/ k = 0 /\ c.object = v
         \/ k = 1 /\ HasBound(c, v)
      /\ r \notin DOMAIN checks => c.object = v /\ HasBound(c, v)

UsersAreUses ==
  /\ current = NoRegion => users = {}
  /\ pass = "done" => current = NoRegion
  /\ pass \in {"null", "bounds"} /\ current # NoRegion =>
       /\ next \in DOMAIN rpo /\ rpo[next] = current
       /\ current \in DOMAIN checks /\ checks[current].name = NameOf(pass)
       /\ \A use \in users : \E r \in DOMAIN graph.checks, k \in {0, 1} :
            use = <<r, k>> /\ IsUse(r, k, checks[current].object)

(* Slot 0 may belong to another check that was removed; any other slot is  *)
(* as it was or empty, if its check was removed.                           *)
SlotIs(x, i) ==
  LET was == graph.inputs[x]
  IN  IF i = 1 THEN inputs[x][1] = was[1] \/ inputs[x][1] \in Removed \cap ToSet(was)
      ELSE inputs[x][i] = IF was[i] \in Removed THEN NoRegion ELSE was[i]

SlotsAreKnown ==
  /\ inputs \in [Regions -> Seq(Regions \cup {NoRegion})]
  /\ \A x \in Regions :
       /\ DOMAIN inputs[x] = DOMAIN graph.inputs[x]
       /\ \A i \in DOMAIN inputs[x] : SlotIs(x, i)

(* The checks that stay so far have those that are gone.                   *)
ImpliedSoFar ==
  pass # "tree" /\ TreeIsTrue /\ ObjectsAreNoBounds /\ (Done => FlowKept) =>
    \A r \in Removed : \E q \in DOMAIN checks : Stronger(q, r) /\ TrulyDominates(flow, q, r)

(* A check whose uses were met implies none that is left.                  *)
Past(q) == \E i \in DOMAIN rpo : i < next /\ rpo[i] = q

IsPast(q) ==
  \/ pass = "null" /\ checks[q].name = "nullCheck" /\ Past(q)
  \/ pass = "bounds" /\ (checks[q].name = "nullCheck" \/ Past(q))
  \/ pass = "done"

NothingIsLeft ==
  /\ \A q, r \in DOMAIN checks : IsPast(q) /\ q # r /\ Stronger(q, r) => ~Dominates(q, r)
  /\ pass \in {"null", "bounds"} /\ current # NoRegion =>
       \A r \in DOMAIN checks :
         r # current /\ Stronger(current, r) /\ <<r, 0>> \notin users => ~Dominates(current, r)

ChecksInv ==
  /\ DomInv /\ ChecksTypes /\ ChecksStay /\ UsersAreUses /\ SlotsAreKnown
  /\ ImpliedSoFar /\ NothingIsLeft /\ CrashesAreKnown

-----------------------------------------------------------------------------
(* The check of r is in a slot of s alone.                                 *)
EntersOnly(r, s) ==
  /\ {q \in Regions : r \in ToSet(graph.inputs[q])} = {s}
  /\ s = End <=> flow[r].kind = "stop"

LEMMA GraphFacts ==
  ASSUME ChecksTypes
  PROVE  /\ flow = graph.flow /\ flow \in Flows
         /\ graph.inputs \in [Regions -> Seq(Regions)]
         /\ DOMAIN graph.checks \subseteq ReachedWithout(flow, {})
         /\ \A r \in DOMAIN graph.checks :
              /\ r # End
              /\ graph.checks[r].name \in {"nullCheck", "boundsCheck"}
              /\ graph.checks[r].bound \in Int
              /\ \E s \in Regions : \A q \in Regions : r \in ToSet(graph.inputs[q]) <=> q = s
              /\ \A s \in Regions : r \in ToSet(graph.inputs[s]) => (s = End <=> flow[r].kind = "stop")
<1>1. graph \in Graphs /\ flow = graph.flow
  BY DEF ChecksTypes
<1>2. /\ flow \in Flows
      /\ graph.inputs \in [Regions -> Seq(Regions)]
      /\ DOMAIN graph.checks \subseteq ReachedWithout(flow, {})
      /\ \A r \in DOMAIN graph.checks :
           /\ flow[r].kind \in {"jmp", "stop"}
           /\ graph.checks[r].name \in {"nullCheck", "boundsCheck"}
           /\ graph.checks[r].bound \in Int
           /\ \E s \in Regions : EntersOnly(r, s)
  BY <1>1, GraphsAssumption DEF EntersOnly
<1>3. flow[End].kind = "none"
  BY <1>2, RegionsAssumption DEF Flows, EndTerminator
<1>4. ASSUME NEW r, NEW s \in Regions, EntersOnly(r, s)
      PROVE  /\ \A q \in Regions : r \in ToSet(graph.inputs[q]) <=> q = s
             /\ s = End <=> flow[r].kind = "stop"
  BY <1>4 DEF EntersOnly
<1>5. \A r \in DOMAIN graph.checks : r # End
  BY <1>2, <1>3
<1>6. ASSUME NEW r \in DOMAIN graph.checks
      PROVE  /\ \E s \in Regions : \A q \in Regions : r \in ToSet(graph.inputs[q]) <=> q = s
             /\ \A s \in Regions : r \in ToSet(graph.inputs[s]) => (s = End <=> flow[r].kind = "stop")
  <2>1. PICK s \in Regions : EntersOnly(r, s)
    BY <1>2
  <2>2. /\ \A q \in Regions : r \in ToSet(graph.inputs[q]) <=> q = s
        /\ s = End <=> flow[r].kind = "stop"
    BY <1>4, <2>1
  <2>. QED
    BY <2>2
<1>. QED
  BY <1>1, <1>2, <1>5, <1>6

(* Every check is in a region that was visited and has inputs.             *)
LEMMA CheckFacts ==
  ASSUME DomInv, ChecksTypes, Built
  PROVE  /\ Visited \subseteq Regions /\ DOMAIN graph.checks \subseteq Visited
         /\ Len(rpo) \in Nat /\ DOMAIN rpo = 1..Len(rpo) /\ \A i \in DOMAIN rpo : rpo[i] \in Regions
         /\ \A r \in Visited : \E i \in DOMAIN rpo : rpo[i] = r
         /\ \A r \in DOMAIN graph.checks : HasInputs(r)
<1>1. WalkInv /\ Walked /\ N \in Nat /\ N >= 1
  BY BuiltFacts
<1>2. TypeOK /\ Visited = ReachedWithout(flow, {}) /\ Left = Visited /\ Start \in Visited
  BY <1>1, WalkedFacts
<1>3. Visited \subseteq Regions /\ rpo \in Seq(Visited)
  BY <1>2 DEF TypeOK
<1>4. Len(rpo) \in Nat /\ DOMAIN rpo = 1..Len(rpo) /\ \A i \in DOMAIN rpo : rpo[i] \in Regions
  BY ONLY <1>3
<1>5. \A r \in Visited : \E i \in DOMAIN rpo : rpo[i] = r
  BY <1>2 DEF Left
<1>6. DOMAIN graph.checks \subseteq Visited
  BY <1>2, GraphFacts
<1>7. ASSUME NEW r \in DOMAIN graph.checks PROVE HasInputs(r)
  <2>1. number[r] \in 0..(N - 1) /\ order[number[r] + 1] = r /\ order[1] = Start /\ r # End
    BY <1>1, <1>6, TreeFacts, GraphFacts
  <2>2. CASE number[r] = 0
    BY <2>1, <2>2 DEF HasInputs
  <2>3. CASE number[r] # 0
    <3>1. number[r] \in 1..(N - 1)
      BY <1>1, <2>1, <2>3
    <3>. QED
      BY <2>1, <3>1, OnlyTheEnd
  <2>. QED
    BY <2>2, <2>3
<1>. QED
  BY <1>3, <1>4, <1>5, <1>6, <1>7

LEMMA TreeIsKept ==
  ASSUME DomInv, UNCHANGED domVars
  PROVE  /\ DomInv' /\ flow' = flow /\ rpo' = rpo /\ Visited' = Visited /\ (Built' <=> Built)
         /\ \A d, r : Dominates(d, r)' <=> Dominates(d, r)
         /\ TreeIsTrue' <=> TreeIsTrue
<1>1. DomInv'
  BY DomSteps
<1>2. flow' = flow /\ rpo' = rpo /\ number' = number /\ phase' = phase /\ idom' = idom /\ Visited' = Visited
  BY DEF domVars, Visited
<1>3. \A d, r : Dominates(d, r)' <=> Dominates(d, r)
  BY <1>2 DEF Dominates
<1>. QED
  BY <1>1, <1>2, <1>3 DEF Built, TreeIsTrue

LEMMA ChecksStart ==
  ASSUME CheckInit
  PROVE  ChecksInv
<1>1. /\ DomInv /\ graph \in Graphs /\ flow = graph.flow /\ pass = "tree" /\ next = 1 /\ current = NoRegion
      /\ users = {} /\ checks = graph.checks /\ inputs = graph.inputs
  BY DomStarts DEF CheckInit
<1>2. ChecksTypes
  BY <1>1 DEF ChecksTypes
<1>3. inputs \in [Regions -> Seq(Regions)]
  BY <1>1, <1>2, GraphFacts
<1>4. ChecksStay /\ UsersAreUses /\ ImpliedSoFar /\ CrashesAreKnown
  BY <1>1 DEF ChecksStay, UsersAreUses, ImpliedSoFar, CrashesAreKnown
<1>5. Removed = {}
  BY <1>1 DEF Removed
<1>6. SlotsAreKnown
  <2>1. inputs \in [Regions -> Seq(Regions \cup {NoRegion})]
    <3>1. Seq(Regions) \subseteq Seq(Regions \cup {NoRegion})
      OBVIOUS
    <3>. QED
      BY ONLY <1>3, <3>1
  <2>. QED
    BY <1>1, <1>3, <1>5, <2>1 DEF SlotsAreKnown, SlotIs
<1>7. NothingIsLeft
  BY <1>1 DEF NothingIsLeft, IsPast
<1>. QED
  BY <1>1, <1>2, <1>4, <1>6, <1>7 DEF ChecksInv

LEMMA TreeGrows ==
  ASSUME ChecksInv, BuildTree
  PROVE  ChecksInv'
<1>1. /\ pass = "tree" /\ DomNext /\ UNCHANGED checkVars
  BY DEF BuildTree
<1>2. /\ graph' = graph /\ pass' = pass /\ next' = next /\ current' = current /\ users' = users
      /\ checks' = checks /\ inputs' = inputs
  BY <1>1 DEF checkVars
<1>3. DomInv' /\ ChecksTypes /\ ChecksStay /\ UsersAreUses /\ SlotsAreKnown
  BY <1>1, DomSteps DEF ChecksInv
<1>4. flow' = flow
  BY <1>1 DEF DomNext, Walk, Next, Visit, Leave, StartSemi, SemiRound, SemiThrows, StartIdom, IdomRound,
              StartAdjust, AdjustRound, AdjustDone, walk
<1>5. ChecksTypes'
  BY <1>1, <1>2, <1>3, <1>4 DEF ChecksTypes
<1>6. ChecksStay'
  BY <1>2, <1>3 DEF ChecksStay
<1>7. UsersAreUses'
  BY <1>1, <1>2, <1>3 DEF UsersAreUses
<1>8. SlotsAreKnown'
  BY <1>2, <1>3 DEF SlotsAreKnown, SlotIs, Removed
<1>9. ImpliedSoFar' /\ CrashesAreKnown' /\ NothingIsLeft'
  BY <1>1, <1>2 DEF ImpliedSoFar, CrashesAreKnown, NothingIsLeft, IsPast
<1>. QED
  BY <1>3, <1>5, <1>6, <1>7, <1>8, <1>9 DEF ChecksInv

(* What a step leaves alone that removes no check.                         *)
LEMMA NothingRemoved ==
  ASSUME ChecksInv, UNCHANGED <<domVars, graph, checks, inputs>>, pass' # "tree", pass # "tree" \/ Built,
         pass' = "done" <=> pass = "done"
  PROVE  /\ DomInv /\ ChecksTypes /\ ChecksStay /\ UsersAreUses /\ SlotsAreKnown /\ NothingIsLeft
         /\ DomInv' /\ Built /\ Built' /\ rpo' = rpo /\ flow' = flow
         /\ \A d, r : Dominates(d, r)' <=> Dominates(d, r)
         /\ \A q, r : Stronger(q, r)' <=> Stronger(q, r)
         /\ ChecksStay' /\ SlotsAreKnown' /\ ImpliedSoFar'
<1>1. /\ DomInv /\ ChecksTypes /\ ChecksStay /\ UsersAreUses /\ SlotsAreKnown /\ NothingIsLeft
      /\ ImpliedSoFar /\ graph' = graph /\ checks' = checks /\ inputs' = inputs
  BY DEF ChecksInv
<1>2. /\ DomInv' /\ flow' = flow /\ rpo' = rpo /\ (Built' <=> Built)
      /\ \A d, r : Dominates(d, r)' <=> Dominates(d, r)
      /\ TreeIsTrue' <=> TreeIsTrue
  BY <1>1, TreeIsKept
<1>3. Built /\ Removed' = Removed
  BY <1>1 DEF ChecksTypes, Removed
<1>4. \A q, r : Stronger(q, r)' <=> Stronger(q, r)
  BY <1>1 DEF Stronger
<1>5. ChecksStay'
  BY <1>1 DEF ChecksStay
<1>6. SlotsAreKnown'
  BY <1>1, <1>3 DEF SlotsAreKnown, SlotIs
<1>7. (ObjectsAreNoBounds' <=> ObjectsAreNoBounds) /\ (FlowKept' <=> FlowKept) /\ (Done' <=> Done)
  BY <1>1 DEF ObjectsAreNoBounds, FlowKept, Done
<1>8. ImpliedSoFar'
  <2>1. CASE pass = "tree"
    <3>1. Removed = {}
      BY <1>1, <2>1 DEF ChecksTypes, Removed
    <3>. QED
      BY <1>3, <3>1 DEF ImpliedSoFar
  <2>2. CASE pass # "tree"
    BY <1>1, <1>2, <1>3, <1>4, <1>7, <2>2 DEF ImpliedSoFar
  <2>. QED
    BY <2>1, <2>2
<1>. QED
  BY <1>1, <1>2, <1>3, <1>4, <1>5, <1>6, <1>8

LEMMA SearchKeeps ==
  ASSUME ChecksInv, StartNull \/ NoCheckHere \/ UsersDone \/ StartBounds
  PROVE  ChecksInv'
<1>1. /\ UNCHANGED <<domVars, graph, checks, inputs>> /\ pass' \in {"null", "bounds"}
      /\ pass \in {"null", "bounds", "tree"} /\ (pass = "tree" => Built)
  <2>1. CASE StartNull
    BY <2>1 DEF StartNull
  <2>2. CASE NoCheckHere
    BY <2>2 DEF NoCheckHere, Searching
  <2>3. CASE UsersDone
    BY <2>3 DEF UsersDone
  <2>4. CASE StartBounds
    BY <2>4 DEF StartBounds
  <2>. QED
    BY <2>1, <2>2, <2>3, <2>4
<1>2. /\ DomInv /\ ChecksTypes /\ ChecksStay /\ UsersAreUses /\ SlotsAreKnown /\ NothingIsLeft
      /\ DomInv' /\ Built /\ Built' /\ rpo' = rpo /\ flow' = flow
      /\ \A d, r : Dominates(d, r)' <=> Dominates(d, r)
      /\ \A q, r : Stronger(q, r)' <=> Stronger(q, r)
      /\ ChecksStay' /\ SlotsAreKnown' /\ ImpliedSoFar'
  BY <1>1, NothingRemoved
<1>3. current' = NoRegion /\ users' = {} /\ next' \in Nat /\ next' >= 1
  BY <1>2 DEF StartNull, NoCheckHere, UsersDone, StartBounds, Searching, ChecksTypes, UsersAreUses
<1>4. ChecksTypes' /\ CrashesAreKnown'
  BY <1>1, <1>2, <1>3 DEF ChecksTypes, CrashesAreKnown
<1>5. UsersAreUses'
  BY <1>1, <1>3 DEF UsersAreUses
<1>6. /\ Len(rpo) \in Nat /\ DOMAIN rpo = 1..Len(rpo) /\ DOMAIN graph.checks \subseteq Visited
      /\ \A r \in Visited : \E i \in DOMAIN rpo : rpo[i] = r
      /\ next \in Nat /\ next >= 1
      /\ \A r \in DOMAIN checks : /\ checks[r].name \in {"nullCheck", "boundsCheck"}
                                  /\ \E i \in DOMAIN rpo : rpo[i] = r
  <2>1. /\ Len(rpo) \in Nat /\ DOMAIN rpo = 1..Len(rpo) /\ DOMAIN graph.checks \subseteq Visited
        /\ \A r \in Visited : \E i \in DOMAIN rpo : rpo[i] = r
    BY <1>2, CheckFacts
  <2>2. next \in Nat /\ next >= 1
    BY <1>2 DEF ChecksTypes
  <2>. QED
    BY <1>2, <2>1, <2>2, GraphFacts DEF ChecksStay
<1>7. \A q, r \in DOMAIN checks : IsPast(q) /\ q # r /\ Stronger(q, r) => ~Dominates(q, r)
  BY <1>2 DEF NothingIsLeft
<1>8. ASSUME NEW q \in DOMAIN checks, IsPast(q)',
             NEW r \in DOMAIN checks, q # r, Stronger(q, r), Dominates(q, r)
      PROVE  FALSE
  <2>1. ~IsPast(q)
    BY <1>7, <1>8
  <2>2. checks' = checks /\ (Past(q)' <=> \E i \in DOMAIN rpo : i < next' /\ rpo[i] = q)
    BY <1>1, <1>2 DEF Past
  <2>3. CASE StartNull
    <3>1. next' = 1 /\ pass' = "null"
      BY <1>2, <2>3 DEF StartNull, ChecksTypes
    <3>. QED
      BY <1>6, <1>8, <2>2, <3>1 DEF IsPast
  <2>4. CASE NoCheckHere
    <3>1. /\ pass' = pass /\ next' = next + 1 /\ pass \in {"null", "bounds"}
          /\ ~(rpo[next] \in DOMAIN checks /\ checks[rpo[next]].name = NameOf(pass))
      BY <2>4 DEF NoCheckHere, Searching, IsCheck
    <3>2. \A i \in DOMAIN rpo : i < next + 1 <=> i < next \/ i = next
      BY <1>6
    <3>3. q = rpo[next] /\ (pass = "null" => checks[q].name = "nullCheck")
                        /\ (pass = "bounds" => checks[q].name # "nullCheck")
      BY <1>8, <2>1, <2>2, <3>1, <3>2 DEF IsPast, Past
    <3>. QED
      BY <1>6, <3>1, <3>3 DEF NameOf
  <2>5. CASE UsersDone
    <3>1. /\ pass' = pass /\ next' = next + 1 /\ pass \in {"null", "bounds"} /\ current # NoRegion /\ users = {}
      BY <2>5 DEF UsersDone
    <3>2. \A i \in DOMAIN rpo : i < next + 1 <=> i < next \/ i = next
      BY <1>6
    <3>3. q = rpo[next]
      BY <1>8, <2>1, <2>2, <3>1, <3>2 DEF IsPast, Past
    <3>4. q = current
      BY <1>2, <3>1, <3>3 DEF UsersAreUses
    <3>. QED
      BY <1>2, <1>8, <3>1, <3>4 DEF NothingIsLeft
  <2>6. CASE StartBounds
    <3>1. next' = 1 /\ pass' = "bounds" /\ pass = "null" /\ next > Len(rpo)
      BY <2>6 DEF StartBounds
    <3>2. checks[q].name = "nullCheck"
      BY <1>6, <1>8, <2>2, <3>1 DEF IsPast
    <3>3. PICK i \in DOMAIN rpo : rpo[i] = q
      BY <1>6
    <3>4. i < next
      BY <1>6, <3>1
    <3>. QED
      BY <2>1, <3>1, <3>2, <3>3, <3>4 DEF IsPast, Past
  <2>. QED
    BY <2>3, <2>4, <2>5, <2>6
<1>9. NothingIsLeft'
  <2>1. checks' = checks
    BY <1>1
  <2>. QED
    BY <1>2, <1>3, <1>8, <2>1 DEF NothingIsLeft
<1>. QED
  BY <1>2, <1>4, <1>5, <1>9 DEF ChecksInv

(* The uses of an object, when they are copied.                            *)
LEMMA CopyKeeps ==
  ASSUME ChecksInv, CheckHere
  PROVE  ChecksInv'
<1>1. /\ UNCHANGED <<domVars, graph, pass, next, checks, inputs>> /\ pass \in {"null", "bounds"}
      /\ current = NoRegion /\ current' = rpo[next] /\ next <= Len(rpo)
      /\ rpo[next] \in DOMAIN checks /\ checks[rpo[next]].name = NameOf(pass)
      /\ users' = {use \in ChecksOf(checks[rpo[next]].object) : use[1] # rpo[next]}
  BY DEF CheckHere, Searching, IsCheck
<1>2. /\ DomInv /\ ChecksTypes /\ ChecksStay /\ UsersAreUses /\ SlotsAreKnown /\ NothingIsLeft
      /\ DomInv' /\ Built /\ Built' /\ rpo' = rpo /\ flow' = flow
      /\ \A d, r : Dominates(d, r)' <=> Dominates(d, r)
      /\ \A q, r : Stronger(q, r)' <=> Stronger(q, r)
      /\ ChecksStay' /\ SlotsAreKnown' /\ ImpliedSoFar'
  BY <1>1, NothingRemoved
<1>3. ChecksTypes' /\ CrashesAreKnown'
  BY <1>1, <1>2 DEF ChecksTypes, CrashesAreKnown
<1>4. PICK c, v : c = rpo[next] /\ v = checks[c].object
  OBVIOUS
<1>5. /\ DOMAIN checks \subseteq DOMAIN graph.checks
      /\ \A r \in DOMAIN checks : checks[r] = graph.checks[r]
  BY <1>2 DEF ChecksStay
<1>6. \A use \in users' : \E r \in DOMAIN checks, k \in {0, 1} :
        /\ use = <<r, k>> /\ r # c
        /\ \/ k = 0 /\ checks[r].object = v
           \/ k = 1 /\ HasBound(checks[r], v)
  BY <1>1, <1>4 DEF ChecksOf
<1>7. \A use \in users' : \E r \in DOMAIN graph.checks, k \in {0, 1} :
        use = <<r, k>> /\ IsUse(r, k, v)'
  BY <1>1, <1>4, <1>5, <1>6 DEF IsUse
<1>8. next \in DOMAIN rpo
  <2>1. Len(rpo) \in Nat /\ DOMAIN rpo = 1..Len(rpo)
    BY <1>2, CheckFacts
  <2>2. next \in Nat /\ next >= 1
    BY <1>2 DEF ChecksTypes
  <2>. QED
    BY <1>1, <2>1, <2>2
<1>9. c \in Regions /\ c # NoRegion
  BY <1>2, <1>4, <1>8, CheckFacts, NoRegionAssumption
<1>10. UsersAreUses'
  <2>1. /\ checks' = checks /\ pass' = pass /\ next' = next /\ graph' = graph /\ current' = c /\ c # NoRegion
        /\ c \in DOMAIN checks /\ checks[c].name = NameOf(pass) /\ pass # "done"
    BY <1>1, <1>4, <1>9
  <2>2. checks'[current'].object = v
    BY <1>4, <2>1
  <2>3. \A use \in users' : \E r \in DOMAIN graph'.checks, k \in {0, 1} :
          use = <<r, k>> /\ IsUse(r, k, checks[current].object)'
    BY <1>7, <2>1, <2>2 DEF IsUse
  <2>4. next' \in DOMAIN rpo' /\ rpo'[next'] = current'
    BY <1>2, <1>4, <1>8, <2>1
  <2>5. current' \in DOMAIN checks' /\ checks'[current'].name = NameOf(pass')
    BY <2>1
  <2>. QED
    BY ONLY <2>1, <2>3, <2>4, <2>5 DEF UsersAreUses
<1>11. NothingIsLeft'
  <2>1. \A q : IsPast(q)' <=> IsPast(q)
    BY <1>1, <1>2 DEF IsPast, Past
  <2>2. \A r \in DOMAIN checks : r # c /\ checks[r].object = v => <<r, 0>> \in users'
    BY <1>1, <1>4 DEF ChecksOf
  <2>3. \A r \in DOMAIN checks : r # c /\ Stronger(c, r) => <<r, 0>> \in users'
    BY <1>4, <1>5, <2>2 DEF Stronger
  <2>4. checks' = checks /\ current' = c
    BY <1>1, <1>4
  <2>. QED
    BY <1>2, <2>1, <2>3, <2>4 DEF NothingIsLeft
<1>. QED
  BY <1>2, <1>3, <1>10, <1>11 DEF ChecksInv

LEMMA KeepKeeps ==
  ASSUME ChecksInv, NEW use \in users, Keep(use)
  PROVE  ChecksInv'
<1>1. /\ UNCHANGED <<domVars, graph, pass, next, current, checks, inputs>> /\ current # NoRegion
      /\ pass \in {"null", "bounds"} /\ users' = users \ {use} /\ use[1] \in DOMAIN checks
      /\ checks[use[1]].name # NameOf(pass) \/ ~Implied(use)
  BY DEF Keep, Meets, IsGone, OtherName, Second
<1>2. pass # "tree" /\ pass # "done"
  BY <1>1 DEF ChecksInv, ChecksTypes, UsersAreUses
<1>3. /\ DomInv /\ ChecksTypes /\ ChecksStay /\ UsersAreUses /\ SlotsAreKnown /\ NothingIsLeft
      /\ DomInv' /\ Built /\ Built' /\ rpo' = rpo /\ flow' = flow
      /\ \A d, r : Dominates(d, r)' <=> Dominates(d, r)
      /\ \A q, r : Stronger(q, r)' <=> Stronger(q, r)
      /\ ChecksStay' /\ SlotsAreKnown' /\ ImpliedSoFar'
  BY <1>1, <1>2, NothingRemoved
<1>4. ChecksTypes' /\ CrashesAreKnown'
  BY <1>1, <1>3 DEF ChecksInv, ChecksTypes, CrashesAreKnown
<1>5. UsersAreUses'
  <2>1. /\ graph' = graph /\ pass' = pass /\ next' = next /\ current' = current /\ checks' = checks
        /\ users' \subseteq users
    BY <1>1
  <2>. QED
    BY <1>3, <2>1 DEF UsersAreUses, IsUse
<1>6. NothingIsLeft'
  <2>1. \A q : IsPast(q)' <=> IsPast(q)
    BY <1>1, <1>3 DEF IsPast, Past
  <2>2. pass \in {"null", "bounds"} =>
          \A r \in DOMAIN checks :
            r # current /\ Stronger(current, r) /\ <<r, 0>> \notin users' => ~Dominates(current, r)
    <3>. SUFFICES ASSUME pass \in {"null", "bounds"}, NEW r \in DOMAIN checks, r # current,
                         Stronger(current, r), <<r, 0>> \notin users'
                  PROVE  ~Dominates(current, r)
      OBVIOUS
    <3>1. CASE <<r, 0>> \notin users
      BY <1>1, <1>3, <3>1 DEF NothingIsLeft
    <3>2. CASE <<r, 0>> \in users
      <4>1. use = <<r, 0>> /\ use[1] = r
        BY <1>1, <3>2
      <4>2. checks[r] = graph.checks[r] /\ checks[current].name = NameOf(pass)
        BY <1>1, <1>3 DEF ChecksStay, UsersAreUses
      <4>3. checks[r].bound \in Int /\ checks[current].bound \in Int
        BY <1>1, <1>3, <4>2, GraphFacts DEF ChecksStay, UsersAreUses
      <4>4. checks[r].name = NameOf(pass) /\ checks[r].bound <= checks[current].bound
        BY <4>2, <4>3 DEF Stronger
      <4>. QED
        BY <1>1, <4>1, <4>4 DEF Implied, Second
    <3>. QED
      BY <3>1, <3>2
  <2>3. checks' = checks /\ current' = current /\ pass' = pass
    BY <1>1
  <2>. QED
    BY <1>3, <2>1, <2>2, <2>3 DEF NothingIsLeft
<1>. QED
  BY <1>3, <1>4, <1>5, <1>6 DEF ChecksInv

(* The region after a check, if the check still is in one of its slots.    *)
LEMMA AfterFacts ==
  ASSUME ChecksTypes, ChecksStay, SlotsAreKnown, NEW r \in DOMAIN checks, NEW s \in Regions,
         NEW i \in DOMAIN inputs[s], inputs[s][i] = r, r \in Regions
  PROVE  r \in ToSet(graph.inputs[s])
<1>1. DOMAIN inputs[s] = DOMAIN graph.inputs[s] /\ SlotIs(s, i)
  BY DEF SlotsAreKnown
<1>2. r \notin Removed /\ r # NoRegion
  BY NoRegionAssumption DEF Removed
<1>3. graph.inputs[s][i] = r
  BY <1>1, <1>2 DEF SlotIs
<1>. QED
  BY <1>1, <1>3 DEF ToSet


(* The check that is removed, as the proofs need it.                       *)
LEMMA RemovalFacts ==
  ASSUME ChecksInv, NEW use \in users, RemoveCheck(use)
  PROVE  LET r == use[1]
             c == graph.checks
         IN  /\ UNCHANGED <<domVars, graph, pass, next, current>> /\ pass \in {"null", "bounds"}
             /\ Built /\ current # NoRegion /\ users' = users \ {use}
             /\ DomInv /\ ChecksTypes /\ ChecksStay /\ UsersAreUses /\ SlotsAreKnown /\ ImpliedSoFar /\ NothingIsLeft
             /\ use = <<r, use[2]>> /\ use[2] \in {0, 1}
             /\ r \in DOMAIN checks /\ r \in DOMAIN c /\ r \in Visited /\ r \in Regions /\ r # NoRegion
             /\ IsUse(r, use[2], checks[current].object)
             /\ current \in DOMAIN checks /\ current \in DOMAIN c /\ current \in Visited /\ r # current
             /\ checks[current] = c[current] /\ c[current].name = c[r].name
             /\ c[r].bound \in Int /\ c[current].bound \in Int /\ c[current].bound >= c[r].bound
             /\ Dominates(current, r)
             /\ DOMAIN checks' = DOMAIN checks \ {r}
             /\ \A q \in DOMAIN checks \ {r} : checks'[q] = checks[q]
             /\ Removed' = Removed \cup {r}
             /\ \E after \in Regions : /\ r \in ToSet(inputs[after])
                                       /\ inputs' = [inputs EXCEPT ![after] = JmpFirst(@, r)]
<1>1. PICK r, k : r = use[1] /\ k = use[2]
  OBVIOUS
<1>2. /\ UNCHANGED <<domVars, graph, pass, next, current>> /\ pass \in {"null", "bounds"} /\ current # NoRegion
      /\ r \in DOMAIN checks /\ checks[r].name = NameOf(pass) /\ users' = users \ {use}
      /\ checks[r].bound <= checks[current].bound /\ Dominates(current, r)
      /\ checks' = [q \in DOMAIN checks \ {r} |-> checks[q]]
      /\ \E after \in Regions : /\ r \in ToSet(inputs[after])
                                /\ inputs' = [inputs EXCEPT ![after] = JmpFirst(@, r)]
  BY <1>1 DEF RemoveCheck, Meets, IsGone, OtherName, Implied, Second, NextRegions, UsersOf
<1>3. /\ DomInv /\ ChecksTypes /\ ChecksStay /\ UsersAreUses /\ SlotsAreKnown /\ ImpliedSoFar /\ NothingIsLeft
  BY DEF ChecksInv
<1>4. Built
  BY <1>2, <1>3 DEF ChecksTypes
<1>5. /\ current \in DOMAIN checks /\ checks[current].name = NameOf(pass)
      /\ \E q \in DOMAIN graph.checks, j \in {0, 1} : use = <<q, j>> /\ IsUse(q, j, checks[current].object)
  BY <1>2, <1>3 DEF UsersAreUses
<1>6. use = <<r, k>> /\ k \in {0, 1} /\ IsUse(r, k, checks[current].object)
  BY <1>1, <1>5
<1>7. r # current
  BY <1>6 DEF IsUse
<1>8. /\ r \in DOMAIN graph.checks /\ checks[r] = graph.checks[r]
      /\ current \in DOMAIN graph.checks /\ checks[current] = graph.checks[current]
  BY <1>2, <1>3, <1>5 DEF ChecksStay
<1>9. graph.checks[r].bound \in Int /\ graph.checks[current].bound \in Int
  BY <1>3, <1>8, GraphFacts
<1>10. graph.checks[current].bound >= graph.checks[r].bound /\ graph.checks[current].name = graph.checks[r].name
  BY <1>2, <1>5, <1>8, <1>9
<1>11. r \in Visited /\ current \in Visited /\ Visited \subseteq Regions
  BY <1>3, <1>4, <1>8, CheckFacts
<1>12. r \in Regions /\ r # NoRegion
  BY <1>11, NoRegionAssumption
<1>13. DOMAIN checks' = DOMAIN checks \ {r} /\ \A q \in DOMAIN checks \ {r} : checks'[q] = checks[q]
  BY <1>2
<1>14. Removed' = Removed \cup {r}
  BY <1>2, <1>8, <1>13 DEF Removed
<1>. QED
  BY <1>1, <1>2, <1>3, <1>4, <1>5, <1>6, <1>7, <1>8, <1>9, <1>10, <1>11, <1>12, <1>13, <1>14

LEMMA RemovalIsImplied ==
  ASSUME ChecksInv, NEW use \in users, RemoveCheck(use)
  PROVE  ImpliedSoFar'
<1>1. PICK r, c, cs : r = use[1] /\ c = current /\ cs = graph.checks
  OBVIOUS
<1>2. /\ UNCHANGED <<domVars, graph, pass, next, current>> /\ pass \in {"null", "bounds"}
      /\ DomInv /\ ImpliedSoFar /\ ChecksStay
      /\ IsUse(r, use[2], checks[c].object) /\ r \in DOMAIN cs
      /\ r \in Visited /\ c \in Visited /\ r # c /\ c \in DOMAIN checks /\ c \in DOMAIN cs
      /\ checks[c] = cs[c] /\ cs[c].name = cs[r].name /\ cs[r].bound \in Int /\ cs[c].bound \in Int
      /\ cs[c].bound >= cs[r].bound
      /\ Dominates(c, r) /\ DOMAIN checks' = DOMAIN checks \ {r}
      /\ \A q \in DOMAIN checks \ {r} : checks'[q] = checks[q]
      /\ Removed' = Removed \cup {r}
  BY <1>1, RemovalFacts
<1>3. flow' = flow /\ (TreeIsTrue' <=> TreeIsTrue) /\ graph' = graph /\ pass' = pass
  BY <1>2, TreeIsKept
<1>. SUFFICES ASSUME TreeIsTrue, ObjectsAreNoBounds, NEW s \in Removed'
              PROVE  \E q \in DOMAIN checks' : Stronger(q, s)' /\ TrulyDominates(flow, q, s)
  BY <1>2, <1>3 DEF ImpliedSoFar, ObjectsAreNoBounds
<1>4. cs[r].object = cs[c].object
  BY <1>1, <1>2 DEF IsUse, ObjectsAreNoBounds
<1>5. TrulyDominates(flow, c, r)
  BY <1>2 DEF TreeIsTrue
<1>6. \A q \in DOMAIN checks : checks[q] = cs[q]
  BY <1>1, <1>2 DEF ChecksStay
<1>7. \A q \in DOMAIN checks' : Stronger(q, s)' <=>
        /\ cs[q].name = cs[s].name /\ cs[q].object = cs[s].object /\ cs[q].bound >= cs[s].bound
  BY <1>1, <1>2, <1>3, <1>6 DEF Stronger
<1>8. c \in DOMAIN checks'
  BY <1>2
<1>9. CASE s = r
  <2>1. Stronger(c, r)'
    BY <1>2, <1>4, <1>7, <1>8, <1>9
  <2>. QED
    BY <1>5, <1>8, <1>9, <2>1
<1>10. CASE s \in Removed
  <2>1. PICK q \in DOMAIN checks : Stronger(q, s) /\ TrulyDominates(flow, q, s)
    BY <1>2, <1>10 DEF ImpliedSoFar, Done
  <2>2. cs[q].name = cs[s].name /\ cs[q].object = cs[s].object /\ cs[q].bound >= cs[s].bound
    BY <1>1, <1>6, <2>1 DEF Stronger
  <2>3. CASE q # r
    BY <1>2, <1>7, <2>1, <2>2, <2>3
  <2>4. CASE q = r
    <3>1. TrulyDominates(flow, c, s)
      BY <1>5, <2>1, <2>4, DominationIsTransitive
    <3>2. cs[s].bound \in Int
      BY <1>1, <1>10, GraphFacts DEF Removed, ChecksInv
    <3>3. cs[c].bound >= cs[s].bound
      BY <1>2, <2>2, <2>4, <3>2
    <3>4. Stronger(c, s)'
      BY <1>2, <1>4, <1>7, <1>8, <2>2, <2>4, <3>3
    <3>. QED
      BY <1>8, <3>1, <3>4
  <2>. QED
    BY <2>3, <2>4
<1>. QED
  BY <1>2, <1>9, <1>10

(* The slots after a removal.                                              *)
LEMMA RemovalOfSlots ==
  ASSUME ChecksInv, NEW use \in users, RemoveCheck(use)
  PROVE  SlotsAreKnown'
<1>1. PICK r : r = use[1]
  OBVIOUS
<1>2. /\ graph' = graph /\ ChecksTypes /\ ChecksStay /\ SlotsAreKnown
      /\ r \in DOMAIN checks /\ r \in DOMAIN graph.checks /\ r \in Regions /\ r # NoRegion
      /\ Removed' = Removed \cup {r}
      /\ \E after \in Regions : /\ r \in ToSet(inputs[after])
                                /\ inputs' = [inputs EXCEPT ![after] = JmpFirst(@, r)]
  BY <1>1, RemovalFacts
<1>3. PICK s \in Regions : /\ r \in ToSet(inputs[s])
                           /\ inputs' = [inputs EXCEPT ![s] = JmpFirst(@, r)]
  BY <1>2
<1>4. PICK slots : slots = inputs[s]
  OBVIOUS
<1>5. /\ inputs \in [Regions -> Seq(Regions \cup {NoRegion})]
      /\ DOMAIN inputs = Regions /\ \A x \in Regions : DOMAIN inputs[x] = DOMAIN graph.inputs[x]
      /\ \A x \in Regions : \A i \in DOMAIN inputs[x] : SlotIs(x, i)
  BY <1>2 DEF SlotsAreKnown
<1>6. /\ DOMAIN inputs' = Regions /\ inputs'[s] = JmpFirst(slots, r)
      /\ \A x \in Regions : x # s => inputs'[x] = inputs[x]
  BY <1>3, <1>4, <1>5
<1>7. /\ DOMAIN JmpFirst(slots, r) = DOMAIN slots
      /\ 1 \in DOMAIN slots => JmpFirst(slots, r)[1] = r
      /\ \A i \in DOMAIN slots : i # 1 => JmpFirst(slots, r)[i] = IF slots[i] = r THEN NoRegion ELSE slots[i]
  BY DEF JmpFirst, Emptied
<1>8. r \in ToSet(graph.inputs[s])
  <2>1. PICK i \in DOMAIN inputs[s] : inputs[s][i] = r
    BY <1>3 DEF ToSet
  <2>. QED
    BY <1>2, <2>1, AfterFacts
<1>9. \A x \in Regions : x # s => r \notin ToSet(graph.inputs[x])
  BY <1>2, <1>8, GraphFacts
<1>10. ASSUME NEW x \in Regions, x # s, NEW i \in DOMAIN inputs[x] PROVE SlotIs(x, i)'
  <2>1. graph.inputs[x][i] # r
    BY <1>5, <1>9, <1>10 DEF ToSet
  <2>. QED
    BY <1>2, <1>5, <1>6, <1>10, <2>1 DEF SlotIs
<1>11. ASSUME NEW i \in DOMAIN slots PROVE SlotIs(s, i)'
  <2>1. SlotIs(s, i)
    BY <1>4, <1>5, <1>11
  <2>2. CASE i = 1
    BY <1>2, <1>6, <1>7, <1>8, <2>2 DEF SlotIs
  <2>3. CASE i # 1
    <3>1. slots[i] = IF graph.inputs[s][i] \in Removed THEN NoRegion ELSE graph.inputs[s][i]
      BY <1>4, <2>1, <2>3 DEF SlotIs
    <3>2. inputs'[s][i] = IF slots[i] = r THEN NoRegion ELSE slots[i]
      BY <1>6, <1>7, <2>3
    <3>. QED
      BY <1>2, <2>3, <3>1, <3>2 DEF SlotIs
  <2>. QED
    BY <2>2, <2>3
<1>12. inputs' \in [Regions -> Seq(Regions \cup {NoRegion})]
  <2>1. slots \in Seq(Regions \cup {NoRegion})
    BY <1>4, <1>5
  <2>2. Emptied(slots, r) \in Seq(Regions \cup {NoRegion})
    BY ONLY <2>1 DEF Emptied
  <2>3. JmpFirst(slots, r) \in Seq(Regions \cup {NoRegion})
    <3>1. PICK e, T : e = Emptied(slots, r) /\ T = Regions \cup {NoRegion}
      OBVIOUS
    <3>2. e \in [1..Len(e) -> T] /\ Len(e) \in Nat /\ r \in T
      BY ONLY <1>2, <2>2, <3>1
    <3>3. [e EXCEPT ![1] = r] \in [1..Len(e) -> T]
      BY ONLY <3>2
    <3>4. [e EXCEPT ![1] = r] \in Seq(T)
      BY ONLY <3>2, <3>3
    <3>. QED
      BY <3>1, <3>4 DEF JmpFirst
  <2>4. inputs' = [inputs EXCEPT ![s] = JmpFirst(slots, r)]
    BY <1>3, <1>4
  <2>. QED
    BY ONLY <1>5, <2>3, <2>4
<1>. QED
  BY <1>2, <1>4, <1>5, <1>6, <1>7, <1>10, <1>11, <1>12 DEF SlotsAreKnown

LEMMA RemovalKeeps ==
  ASSUME ChecksInv, NEW use \in users, RemoveCheck(use)
  PROVE  ChecksInv'
<1>1. PICK r, c, k : r = use[1] /\ c = current /\ k = use[2]
  OBVIOUS
<1>2. /\ UNCHANGED <<domVars, graph, pass, next, current>> /\ pass \in {"null", "bounds"} /\ Built
      /\ c # NoRegion /\ users' = users \ {use} /\ use = <<r, k>> /\ k \in {0, 1}
      /\ DomInv /\ ChecksTypes /\ ChecksStay /\ UsersAreUses /\ NothingIsLeft
      /\ IsUse(r, k, checks[c].object) /\ r \in DOMAIN checks
      /\ r # c /\ c \in DOMAIN checks
      /\ DOMAIN checks' = DOMAIN checks \ {r}
      /\ \A q \in DOMAIN checks \ {r} : checks'[q] = checks[q]
  BY <1>1, RemovalFacts
<1>3. /\ DomInv' /\ flow' = flow /\ rpo' = rpo /\ (Built' <=> Built)
      /\ \A d, q : Dominates(d, q)' <=> Dominates(d, q)
  BY <1>2, TreeIsKept
<1>4. /\ graph' = graph /\ pass' = pass /\ next' = next /\ current' = c /\ current = c
  BY <1>1, <1>2
<1>5. ChecksTypes' /\ CrashesAreKnown'
  BY <1>2, <1>3, <1>4 DEF ChecksTypes, CrashesAreKnown
<1>6. ChecksStay'
  BY <1>2, <1>4 DEF ChecksStay
<1>7. c \in DOMAIN checks' /\ checks'[c] = checks[c]
  BY <1>2
<1>8. ASSUME NEW other \in users'
      PROVE  \E q \in DOMAIN graph.checks, j \in {0, 1} : other = <<q, j>> /\ IsUse(q, j, checks[c].object)'
  <2>1. PICK q \in DOMAIN graph.checks, j \in {0, 1} : other = <<q, j>> /\ IsUse(q, j, checks[c].object)
    BY <1>2, <1>4 DEF UsersAreUses
  <2>2. <<q, j>> # <<r, k>>
    BY <1>2, <2>1
  <2>3. CASE q # r
    <3>1. q \in DOMAIN checks' <=> q \in DOMAIN checks
      BY <1>2, <2>3
    <3>2. IsUse(q, j, checks[c].object)'
      BY <1>4, <1>7, <2>1, <3>1 DEF IsUse
    <3>. QED
      BY <2>1, <3>2
  <2>4. CASE q = r
    <3>1. k # j
      BY <2>2, <2>4
    <3>2. graph.checks[r].object = checks[c].object /\ HasBound(graph.checks[r], checks[c].object)
      BY <1>2, <2>1, <2>4, <3>1 DEF IsUse
    <3>3. IsUse(q, j, checks[c].object)'
      BY <1>4, <1>7, <2>1, <2>4, <3>2 DEF IsUse
    <3>. QED
      BY <2>1, <3>3
  <2>. QED
    BY <2>3, <2>4
<1>9. UsersAreUses'
  <2>1. next' \in DOMAIN rpo' /\ rpo'[next'] = current' /\ checks'[current'].name = NameOf(pass')
    BY <1>2, <1>3, <1>4, <1>7 DEF UsersAreUses
  <2>2. \A use_1 \in users' : \E q \in DOMAIN graph'.checks, j \in {0, 1} :
          use_1 = <<q, j>> /\ IsUse(q, j, checks[current].object)'
    BY <1>4, <1>8 DEF IsUse
  <2>3. current' \in DOMAIN checks' /\ pass' # "done" /\ current' # NoRegion
    BY <1>2, <1>4, <1>7
  <2>. QED
    BY ONLY <2>1, <2>2, <2>3 DEF UsersAreUses
<1>10. \A q \in DOMAIN checks' : \A s : Stronger(q, s)' <=> Stronger(q, s)
  BY <1>2, <1>4 DEF Stronger
<1>11. \A q \in DOMAIN checks' : IsPast(q)' <=> IsPast(q)
  BY <1>2, <1>3, <1>4 DEF IsPast, Past
<1>12. \A q, s \in DOMAIN checks' : IsPast(q)' /\ q # s /\ Stronger(q, s)' => ~Dominates(q, s)'
  BY <1>2, <1>3, <1>10, <1>11 DEF NothingIsLeft
<1>13. ASSUME NEW s \in DOMAIN checks', s # c, Stronger(c, s)', <<s, 0>> \notin users'
       PROVE  ~Dominates(c, s)'
  <2>1. Stronger(c, s) /\ s \in DOMAIN checks
    BY <1>2, <1>7, <1>10, <1>13
  <2>2. s # r
    BY <1>2
  <2>3. <<s, 0>> \notin users
    BY <1>2, <1>13, <2>2
  <2>. QED
    BY <1>2, <1>3, <1>4, <1>13, <2>1, <2>3 DEF NothingIsLeft
<1>14. NothingIsLeft'
  BY <1>4, <1>12, <1>13 DEF NothingIsLeft
<1>. QED
  BY <1>3, <1>5, <1>6, <1>9, <1>14, RemovalIsImplied, RemovalOfSlots DEF ChecksInv

LEMMA TwoOfThem ==
  ASSUME NEW S, IsFiniteSet(S), NEW x \in S, NEW y \in S, x # y
  PROVE  Cardinality(S) > 1
<1>1. IsFiniteSet(S \ {x}) /\ Cardinality(S) = Cardinality(S \ {x}) + 1
  <2>1. Cardinality(S) \in Nat /\ IsFiniteSet(S \ {x}) /\ Cardinality(S \ {x}) = Cardinality(S) - 1
    BY FS_RemoveElement, FS_CardinalityType
  <2>. QED
    BY <2>1
<1>2. y \in S \ {x} /\ Cardinality(S \ {x}) \in Nat
  BY <1>1, FS_CardinalityType
<1>3. Cardinality(S \ {x}) # 0
  BY <1>1, <1>2, FS_EmptySet
<1>. QED
  BY <1>1, <1>2, <1>3

LEMMA CrashKeeps ==
  ASSUME ChecksInv, NEW use \in users, Crash(use)
  PROVE  ChecksInv'
<1>1. PICK r, c, k : r = use[1] /\ c = current /\ k = use[2]
  OBVIOUS
<1>2. /\ UNCHANGED <<domVars, graph, next, current, users, checks, inputs>> /\ pass' = "crashed"
      /\ pass \in {"null", "bounds"} /\ c # NoRegion
      /\ \/ r \notin DOMAIN checks
         \/ /\ r \in DOMAIN checks /\ Dominates(c, r) /\ checks[r].bound <= checks[c].bound
            /\ checks[r].name = NameOf(pass)
            /\ \A s \in Regions : r \in ToSet(inputs[s]) => s = End
  BY <1>1 DEF Crash, Meets, IsGone, Implied, OtherName, Second, NextRegions, UsersOf
<1>3. /\ DomInv /\ ChecksTypes /\ ChecksStay /\ UsersAreUses /\ SlotsAreKnown /\ NothingIsLeft
      /\ DomInv' /\ Built /\ Built' /\ rpo' = rpo /\ flow' = flow
      /\ \A d, q : Dominates(d, q)' <=> Dominates(d, q)
      /\ \A q, s : Stronger(q, s)' <=> Stronger(q, s)
      /\ ChecksStay' /\ SlotsAreKnown' /\ ImpliedSoFar'
  BY <1>2, NothingRemoved
<1>4. ChecksTypes' /\ UsersAreUses' /\ NothingIsLeft'
  BY <1>2, <1>3 DEF ChecksTypes, UsersAreUses, NothingIsLeft, IsPast
<1>5. /\ r \in DOMAIN graph.checks /\ c \in DOMAIN graph.checks /\ c # r
      /\ \E v : r \notin DOMAIN checks => graph.checks[r].object = v /\ HasBound(graph.checks[r], v)
  <2>1. PICK q \in DOMAIN graph.checks, j \in {0, 1} : use = <<q, j>> /\ IsUse(q, j, checks[c].object)
    BY <1>1, <1>2, <1>3 DEF UsersAreUses
  <2>3. c \in DOMAIN checks
    BY <1>1, <1>2, <1>3 DEF UsersAreUses
  <2>2. q = r
    BY <1>1, <2>1
  <2>. QED
    BY <1>1, <1>3, <2>1, <2>2, <2>3 DEF IsUse, ChecksStay
<1>6. CASE r \notin DOMAIN checks
  <2>1. HasBound(graph.checks[r], graph.checks[r].object)
    BY <1>5, <1>6
  <2>2. CrashesAreKnown'
    BY <1>2, <1>5, <2>1 DEF CrashesAreKnown
  <2>. QED
    BY <1>3, <1>4, <2>2 DEF ChecksInv
<1>7. ASSUME r \in DOMAIN checks, Dominates(c, r), checks[r].bound <= checks[c].bound,
             checks[r].name = NameOf(pass), \A s \in Regions : r \in ToSet(inputs[s]) => s = End
      PROVE  ChecksInv'
  <2>1. PICK s \in Regions : r \in ToSet(graph.inputs[s])
    BY <1>3, <1>5, GraphFacts
  <2>2. CASE s = End
    <3>0. flow[r].kind = "stop"
      BY <1>3, <1>5, <2>1, <2>2, GraphFacts
    <3>1. /\ checks[r] = graph.checks[r] /\ checks[c] = graph.checks[c] /\ checks[c].name = NameOf(pass)
          /\ \E j \in {0, 1} : IsUse(r, j, checks[c].object)
      BY <1>1, <1>2, <1>3, <1>7 DEF UsersAreUses, ChecksStay
    <3>2. Removes(c, r)'
      BY <1>2, <1>3, <1>5, <1>7, <3>1 DEF Removes, IsUse, HasBound
    <3>3. CrashesAreKnown'
      BY <1>2, <1>3, <1>5, <3>0, <3>2 DEF CrashesAreKnown
    <3>. QED
      BY <1>3, <1>4, <3>3 DEF ChecksInv
  <2>3. CASE s # End
    <3>1. PICK i \in DOMAIN graph.inputs[s] : graph.inputs[s][i] = r
      BY <2>1 DEF ToSet
    <3>2. i \in DOMAIN inputs[s] /\ SlotIs(s, i) /\ inputs[s][i] # r /\ r \notin Removed
      BY <1>3, <1>7, <2>3, <3>1 DEF SlotsAreKnown, ToSet, Removed
    <3>3. inputs[s][1] \in Removed \cap ToSet(graph.inputs[s])
      BY <3>1, <3>2 DEF SlotIs
    <3>4. PICK x : x = inputs[s][1]
      OBVIOUS
    <3>5. x # r /\ x \in ToSet(graph.inputs[s]) \cap DOMAIN graph.checks
      BY <3>2, <3>3, <3>4 DEF Removed
    <3>6. IsFiniteSet(ToSet(graph.inputs[s]) \cap DOMAIN graph.checks)
      <4>1. DOMAIN graph.checks \subseteq Regions
        BY <1>3, CheckFacts
      <4>. QED
        BY <4>1, RegionsAssumption, FS_Subset
    <3>7. Cardinality(ToSet(graph.inputs[s]) \cap DOMAIN graph.checks) > 1
      BY <1>5, <2>1, <3>5, <3>6, TwoOfThem
    <3>8. CrashesAreKnown'
      BY <1>2, <3>7 DEF CrashesAreKnown
    <3>. QED
      BY <1>3, <1>4, <3>8 DEF ChecksInv
  <2>. QED
    BY <2>2, <2>3
<1>. QED
  BY <1>2, <1>6, <1>7

(* clean() takes the checks without users along.                           *)
LEMMA CleanKeeps ==
  ASSUME ChecksInv, Clean
  PROVE  ChecksInv'
<1>1. /\ UNCHANGED <<domVars, graph, next, current, users, inputs>> /\ pass = "bounds" /\ pass' = "done"
      /\ next > Len(rpo)
      /\ DOMAIN checks' = {q \in DOMAIN checks : \E s \in Regions : q \in ToSet(inputs[s])}
      /\ \A q \in DOMAIN checks' : checks'[q] = checks[q]
  BY DEF Clean, UsersOf
<1>2. /\ DomInv /\ ChecksTypes /\ ChecksStay /\ UsersAreUses /\ SlotsAreKnown /\ NothingIsLeft /\ ImpliedSoFar
      /\ Built /\ graph' = graph /\ inputs' = inputs
  BY <1>1 DEF ChecksInv, ChecksTypes
<1>3. /\ DomInv' /\ flow' = flow /\ rpo' = rpo /\ (Built' <=> Built)
      /\ \A d, r : Dominates(d, r)' <=> Dominates(d, r)
      /\ TreeIsTrue' <=> TreeIsTrue
  BY <1>1, <1>2, TreeIsKept
<1>4. /\ Len(rpo) \in Nat /\ DOMAIN rpo = 1..Len(rpo) /\ DOMAIN graph.checks \subseteq Visited
      /\ \A r \in Visited : \E i \in DOMAIN rpo : rpo[i] = r
      /\ next \in Nat
      /\ DOMAIN checks \subseteq DOMAIN graph.checks
  BY <1>2, CheckFacts DEF ChecksTypes, ChecksStay
<1>5. current = NoRegion
  <2>1. current # NoRegion => next \in DOMAIN rpo
    BY <1>1, <1>2 DEF UsersAreUses
  <2>. QED
    BY <1>1, <1>4, <2>1
<1>6. ChecksTypes' /\ ChecksStay' /\ UsersAreUses' /\ CrashesAreKnown'
  BY <1>1, <1>2, <1>3, <1>5 DEF ChecksTypes, ChecksStay, UsersAreUses, CrashesAreKnown
<1>7. \A q \in DOMAIN checks' : \A s : Stronger(q, s)' <=> Stronger(q, s)
  BY <1>1 DEF Stronger
<1>8. \A q \in DOMAIN checks : IsPast(q)
  <2>. SUFFICES ASSUME NEW q \in DOMAIN checks PROVE Past(q)
    BY <1>1 DEF IsPast
  <2>1. PICK i \in DOMAIN rpo : rpo[i] = q
    BY <1>4
  <2>. QED
    BY <1>1, <1>4, <2>1 DEF Past
<1>9. \A q, r \in DOMAIN checks' : q # r /\ Stronger(q, r)' => ~Dominates(q, r)'
  BY <1>1, <1>2, <1>3, <1>7, <1>8 DEF NothingIsLeft
<1>10. NothingIsLeft'
  BY <1>1, <1>9 DEF NothingIsLeft
<1>11. SlotsAreKnown'
  <2>1. \A q : q \in Removed' <=>
             q \in Removed \/ (q \in DOMAIN checks /\ \A s \in Regions : q \notin ToSet(inputs[s]))
    <3>1. DOMAIN checks' = {q \in DOMAIN checks : \E s \in Regions : q \in ToSet(inputs[s])}
      BY <1>1
    <3>2. Removed' = DOMAIN graph.checks \ DOMAIN checks'
      BY <1>2 DEF Removed
    <3>3. Removed = DOMAIN graph.checks \ DOMAIN checks
      BY DEF Removed
    <3>. QED
      BY ONLY <1>4, <3>1, <3>2, <3>3
  <2>. SUFFICES ASSUME NEW x \in Regions, NEW i \in DOMAIN inputs[x] PROVE SlotIs(x, i)'
    BY <1>2 DEF SlotsAreKnown
  <2>2. SlotIs(x, i)
    BY <1>2 DEF SlotsAreKnown
  <2>3. inputs[x][i] \in ToSet(inputs[x])
    BY DEF ToSet
  <2>4. graph' = graph /\ inputs' = inputs /\ Removed \subseteq Removed'
    BY ONLY <1>2, <2>1
  <2>5. CASE i = 1
    BY ONLY <2>2, <2>4, <2>5 DEF SlotIs
  <2>6. CASE i # 1
    <3>1. inputs[x][i] = IF graph.inputs[x][i] \in Removed THEN NoRegion ELSE graph.inputs[x][i]
      BY <2>2, <2>6 DEF SlotIs
    <3>2. graph.inputs[x][i] \in Removed' <=> graph.inputs[x][i] \in Removed
      BY ONLY <2>1, <2>3, <3>1
    <3>. QED
      BY <2>4, <2>6, <3>1, <3>2 DEF SlotIs
  <2>. QED
    BY <2>5, <2>6
<1>12. ImpliedSoFar'
  <2>. SUFFICES ASSUME TreeIsTrue, ObjectsAreNoBounds, FlowKept, NEW r \in Removed'
                PROVE  \E q \in DOMAIN checks' : Stronger(q, r)' /\ TrulyDominates(flow, q, r)
    BY <1>1, <1>2, <1>3 DEF ImpliedSoFar, ObjectsAreNoBounds, FlowKept, Done
  <2>1. \A q \in DOMAIN checks : \E s \in Regions : q \in ToSet(inputs[s])
    BY <1>2, <1>4, GraphFacts DEF FlowKept
  <2>2. DOMAIN checks' = DOMAIN checks
    BY <1>1, <2>1
  <2>3. r \in Removed
    BY <1>2, <2>2 DEF Removed
  <2>4. PICK q \in DOMAIN checks : Stronger(q, r) /\ TrulyDominates(flow, q, r)
    BY <1>1, <1>2, <2>3 DEF ImpliedSoFar, Done
  <2>. QED
    BY <1>7, <2>2, <2>4
<1>. QED
  BY <1>3, <1>6, <1>10, <1>11, <1>12 DEF ChecksInv

LEMMA ChecksInvariant == CheckSpec => []ChecksInv
<1>1. ASSUME ChecksInv, [CheckNext]_everything PROVE ChecksInv'
  <2>1. CASE BuildTree
    BY <1>1, <2>1, TreeGrows
  <2>2. CASE StartNull \/ NoCheckHere \/ UsersDone \/ StartBounds
    BY <1>1, <2>2, SearchKeeps
  <2>3. CASE CheckHere
    BY <1>1, <2>3, CopyKeeps
  <2>4. CASE \E use \in users : Keep(use) \/ RemoveCheck(use) \/ Crash(use)
    BY <1>1, <2>4, KeepKeeps, RemovalKeeps, CrashKeeps
  <2>5. CASE Clean
    BY <1>1, <2>5, CleanKeeps
  <2>6. CASE CheckReturned \/ UNCHANGED everything
    <3>1. /\ UNCHANGED domVars /\ graph' = graph /\ pass' = pass /\ next' = next /\ current' = current
          /\ users' = users /\ checks' = checks /\ inputs' = inputs
      BY <2>6 DEF CheckReturned, everything, checkVars
    <3>2. /\ DomInv /\ ChecksTypes /\ ChecksStay /\ UsersAreUses /\ SlotsAreKnown /\ ImpliedSoFar /\ NothingIsLeft
          /\ CrashesAreKnown
      BY <1>1 DEF ChecksInv
    <3>3. /\ DomInv' /\ flow' = flow /\ rpo' = rpo /\ (Built' <=> Built)
          /\ \A d, r : Dominates(d, r)' <=> Dominates(d, r)
          /\ TreeIsTrue' <=> TreeIsTrue
      BY <3>1, <3>2, TreeIsKept
    <3>4. ChecksTypes' /\ ChecksStay' /\ UsersAreUses' /\ CrashesAreKnown'
      <4>1. ChecksTypes' /\ ChecksStay' /\ UsersAreUses'
        BY <3>1, <3>2, <3>3 DEF ChecksTypes, ChecksStay, UsersAreUses, IsUse
      <4>2. \A q, r : Removes(q, r)' <=> Removes(q, r)
        BY <3>1, <3>3 DEF Removes, HasBound
      <4>. QED
        BY <3>1, <3>2, <3>3, <4>1, <4>2 DEF CrashesAreKnown
    <3>5. SlotsAreKnown'
      BY <3>1, <3>2 DEF SlotsAreKnown, SlotIs, Removed
    <3>6. \A q, r : Stronger(q, r)' <=> Stronger(q, r)
      BY <3>1 DEF Stronger
    <3>7. ImpliedSoFar'
      BY <3>1, <3>2, <3>3, <3>6 DEF ImpliedSoFar, ObjectsAreNoBounds, FlowKept, Done, Removed
    <3>8. NothingIsLeft'
      BY <3>1, <3>2, <3>3, <3>6 DEF NothingIsLeft, IsPast, Past
    <3>. QED
      BY <3>3, <3>4, <3>5, <3>7, <3>8 DEF ChecksInv
  <2>. QED
    BY <1>1, <2>1, <2>2, <2>3, <2>4, <2>5, <2>6 DEF CheckNext
<1>. QED
  BY <1>1, ChecksStart, PTL DEF CheckSpec

-----------------------------------------------------------------------------
(* A check disappears only if every path to it runs a check that stays and *)
(* asks for as much, where the tree tells the truth and no constant is     *)
(* both an object and a bound.                                             *)
THEOREM RemovalsAreImplied == CheckSpec => []RemovedAreImplied
<1>1. ASSUME ChecksInv PROVE RemovedAreImplied
  BY <1>1 DEF ChecksInv, ImpliedSoFar, RemovedAreImplied, Done
<1>. QED
  BY <1>1, ChecksInvariant, PTL

(* No redundant check is missed.                                           *)
THEOREM NoRedundancyIsLeft == CheckSpec => []NoneIsImplied
<1>1. ASSUME ChecksInv PROVE NoneIsImplied
  <2>. SUFFICES ASSUME Done, NEW q \in DOMAIN checks, NEW r \in DOMAIN checks, q # r, Stronger(q, r),
                       TrulyDominates(flow, q, r)
                PROVE  FALSE
    BY DEF NoneIsImplied
  <2>1. /\ DomInv /\ ChecksTypes /\ Built /\ NothingIsLeft /\ DOMAIN checks \subseteq DOMAIN graph.checks
        /\ IsPast(q)
    BY <1>1 DEF ChecksInv, ChecksTypes, ChecksStay, Done, IsPast
  <2>2. q \in Visited /\ r \in Visited /\ HasInputs(r)
    BY <2>1, CheckFacts
  <2>3. Dominates(q, r)
    BY <2>1, <2>2, DominatorsLemma DEF DominatorsAreFound, TrulyDominates
  <2>. QED
    BY <2>1, <2>3 DEF NothingIsLeft
<1>. QED
  BY <1>1, ChecksInvariant, PTL

(* The slots of the regions are as they were exactly if every check that   *)
(* disappeared was in the first slot of the region after it.               *)
THEOREM FlowKeptExactly == CheckSpec => []FlowIsKept
<1>1. ASSUME ChecksInv PROVE FlowIsKept
  <2>1. ChecksTypes /\ SlotsAreKnown
    BY <1>1 DEF ChecksInv
  <2>2. graph.inputs \in [Regions -> Seq(Regions)] /\ NoRegion \notin Regions
    BY <2>1, GraphFacts, NoRegionAssumption
  <2>3. /\ inputs \in [Regions -> Seq(Regions \cup {NoRegion})]
        /\ \A x \in Regions : DOMAIN inputs[x] = DOMAIN graph.inputs[x]
        /\ \A x \in Regions : \A i \in DOMAIN inputs[x] : SlotIs(x, i)
    BY <2>1 DEF SlotsAreKnown
  <2>4. ASSUME FlowKept, NEW r \in Removed PROVE InFirstSlot(r)
    <3>. SUFFICES ASSUME NEW s \in Regions, NEW i \in DOMAIN graph.inputs[s], graph.inputs[s][i] = r, i # 1
                  PROVE  FALSE
      BY DEF InFirstSlot
    <3>1. inputs[s][i] = NoRegion /\ inputs[s][i] = r
      BY <2>3, <2>4 DEF SlotIs, FlowKept
    <3>2. graph.inputs[s] \in Seq(Regions)
      BY <2>2
    <3>3. r \in Regions
      BY <3>2
    <3>. QED
      BY <2>2, <3>1, <3>3
  <2>5. ASSUME \A r \in Removed : InFirstSlot(r) PROVE FlowKept
    <3>1. ASSUME NEW x \in Regions, NEW i \in DOMAIN graph.inputs[x] PROVE inputs[x][i] = graph.inputs[x][i]
      <4>1. SlotIs(x, i)
        BY <2>3
      <4>2. CASE i # 1
        <5>1. graph.inputs[x][i] \notin Removed
          BY <2>5, <4>2 DEF InFirstSlot
        <5>. QED
          BY <4>1, <4>2, <5>1 DEF SlotIs
      <4>3. CASE i = 1 /\ inputs[x][1] \in Removed \cap ToSet(graph.inputs[x])
        <5>1. PICK j \in DOMAIN graph.inputs[x] : graph.inputs[x][j] = inputs[x][1]
          BY <4>3 DEF ToSet
        <5>2. j = 1
          BY <2>5, <4>3, <5>1 DEF InFirstSlot
        <5>. QED
          BY <4>3, <5>1, <5>2
      <4>. QED
        BY <4>1, <4>2, <4>3 DEF SlotIs
    <3>2. ASSUME NEW x \in Regions PROVE inputs[x] = graph.inputs[x]
      <4>1. inputs[x] \in Seq(Regions \cup {NoRegion}) /\ graph.inputs[x] \in Seq(Regions)
        BY <2>2, <2>3
      <4>2. DOMAIN inputs[x] = DOMAIN graph.inputs[x]
        BY <2>3
      <4>3. \A i \in DOMAIN graph.inputs[x] : inputs[x][i] = graph.inputs[x][i]
        BY <3>1
      <4>. QED
        BY ONLY <4>1, <4>2, <4>3
    <3>3. inputs = graph.inputs
      BY ONLY <2>2, <2>3, <3>2
    <3>. QED
      BY <3>3 DEF FlowKept
  <2>. QED
    BY <2>4, <2>5 DEF FlowIsKept
<1>. QED
  BY <1>1, ChecksInvariant, PTL

(* The pass follows a null pointer only where a constant is the object and *)
(* the bound of one check, two checks lead to one region, or another check *)
(* removes one that enters the end.                                        *)
THEOREM NullsAreKnown == CheckSpec => []CrashesAreKnown
<1>1. ASSUME ChecksInv PROVE CrashesAreKnown
  BY <1>1 DEF ChecksInv
<1>. QED
  BY <1>1, ChecksInvariant, PTL
=============================================================================

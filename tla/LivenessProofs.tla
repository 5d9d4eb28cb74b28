--------------------------- MODULE LivenessProofs ---------------------------
(***************************************************************************)
(* The data schedule and the live intervals that Liveness::recalc          *)
(* computes, for every function: who is mapped, and where; what an         *)
(* interval holds; that a second call finds the same.                      *)
(***************************************************************************)
EXTENDS Liveness, LoopsProofs

Stages == {"tree", "sweep", "scheduled"}

(* The function is one of those the client has. *)
CodeIsGiven ==
  /\ flow = code.flow
  /\ \E shape \in Shapes : code \in ProgramsOf(shape)

SchedTypes ==
  /\ stage \in Stages
  /\ cursor \in 1..(NumValues + 1)
  /\ wasMapped \in BOOLEAN
  /\ DOMAIN mapped \subseteq Values
  /\ \A v \in DOMAIN mapped : mapped[v] \in HomesIn(flow)
  /\ result \in [Regions -> Seq(Values)]

SchedStarts ==
  /\ stage = "tree" => DOMAIN mapped = {} /\ result = [r \in Regions |-> <<>>] /\ cursor = 1
  /\ stage # "tree" => Built /\ Phis \subseteq DOMAIN mapped /\ \A v \in Phis : mapped[v] = code.phis[v].region

(* A node is mapped after its users, to a region that dominates theirs. *)
HasUsers(v) ==
  Complete(v) /\ UserRegions(v) # {} /\ \A u \in UserRegions(v) : Dominates(mapped[v], u)

UsersAreFirst == \A v \in Computed \cap DOMAIN mapped : HasUsers(v)

(* It is mapped below any place that a legal placement has for it. *)
IsBelow(home) == \A v \in DOMAIN mapped : Dominates(home[v], mapped[v])

MappedBelowPlaces ==
  stage # "tree" => \A home \in [Values -> HomesIn(flow)] : IsPlacement(code, home) => IsBelow(home)

(* A sweep that mapped nothing yet met no node it could map. *)
SweptInVain ==
  /\ stage = "sweep" /\ wasMapped = FALSE => \A v \in 1..(cursor - 1) : ~Ready(v)
  /\ stage = "scheduled" => \A v \in Values : ~Ready(v)

ListsAreMapped ==
  \A v \in Values, r \in Regions :
    v \in ToSet(result[r]) <=> v \in Computed \cap DOMAIN mapped /\ mapped[v] = r

(* Users come first while the lists grow, and last once they are reversed. *)
UsersComeFirst(s) == \A i, j \in DOMAIN s : s[i] \in code.args[s[j]] => j < i

OperandsComeFirst(s) == \A i, j \in DOMAIN s : s[i] \in code.args[s[j]] => i < j

ListsAreOrdered ==
  \A r \in Regions : IF stage = "scheduled" THEN OperandsComeFirst(result[r]) ELSE UsersComeFirst(result[r])

SchedInv ==
  /\ CodeIsGiven /\ SchedTypes /\ SchedStarts
  /\ UsersAreFirst /\ MappedBelowPlaces /\ SweptInVain
  /\ ListsAreMapped /\ ListsAreOrdered

LiveInv == LoopInv /\ SchedInv

-----------------------------------------------------------------------------
(* Where nodes can be, the tree is as it should be. *)
LEMMA HomeFacts ==
  ASSUME DomInv, Built, NEW r \in HomesIn(flow)
  PROVE  /\ r \in Visited /\ HasInputs(r)
         /\ number[r] \in Places(idom) /\ order[number[r] + 1] = r
<1>1. /\ WalkInv /\ Walked /\ N \in Nat /\ N >= 1 /\ Places(idom) = 0..(N - 1)
  BY BuiltFacts
<1>2. r \in Visited /\ (r = End => Predecessors(flow, r) # {})
  BY <1>1, WalkedFacts DEF HomesIn
<1>3. number[r] \in 0..(N - 1) /\ order[number[r] + 1] = r /\ order[1] = Start
  BY <1>1, <1>2, TreeFacts
<1>4. HasInputs(r)
  <2>1. CASE number[r] = 0
    BY <1>3, <2>1 DEF HasInputs
  <2>2. CASE number[r] # 0 /\ r # End
    <3>1. number[r] \in 1..(N - 1)
      BY <1>1, <1>3, <2>2
    <3>. QED
      BY <1>3, <2>2, <3>1, OnlyTheEnd
  <2>3. CASE r = End
    BY <1>2, <2>3 DEF HasInputs
  <2>. QED
    BY <2>1, <2>2, <2>3
<1>. QED
  BY <1>1, <1>2, <1>3, <1>4

LEMMA DominationIsFound ==
  ASSUME DomInv, Built, NEW d \in HomesIn(flow), NEW r \in HomesIn(flow), TrulyDominates(flow, d, r)
  PROVE  Dominates(d, r)
<1>1. d \in Visited /\ r \in Visited \ ReachedWithout(flow, {d}) /\ HasInputs(r)
  BY HomeFacts DEF TrulyDominates
<1>. QED
  BY <1>1, DominatorsLemma DEF DominatorsAreFound

LEMMA DominatesSelf ==
  ASSUME DomInv, Built, NEW r \in HomesIn(flow)
  PROVE  Dominates(r, r)
BY HomeFacts, BuiltFacts, AncestryIsClosed DEF Dominates

LEMMA DominatesTransitively ==
  ASSUME DomInv, Built, NEW a \in HomesIn(flow), NEW b \in HomesIn(flow), NEW c \in HomesIn(flow),
         Dominates(a, b), Dominates(b, c)
  PROVE  Dominates(a, c)
<1>1. Falls(idom) /\ number[c] \in Places(idom) /\ number[b] \in Ancestry(idom, number[c])
  BY HomeFacts, BuiltFacts DEF Dominates
<1>2. Ancestry(idom, number[b]) \subseteq Ancestry(idom, number[c])
  BY <1>1, AncestryIsTransitive
<1>. QED
  BY <1>2 DEF Dominates

(* Above a region with inputs there are regions with inputs: above a       *)
(* node's home there are homes.                                            *)
LEMMA HomesAbove ==
  ASSUME DomInv, Built, NEW r \in HomesIn(flow), NEW a \in Ancestry(idom, number[r])
  PROVE  a \in Places(idom) /\ order[a + 1] \in HomesIn(flow) /\ number[order[a + 1]] = a
<1>1. /\ WalkInv /\ Walked /\ N \in Nat /\ N >= 1 /\ Falls(idom) /\ Places(idom) = 0..(N - 1) /\ idom[1] = 0
  BY BuiltFacts
<1>2. number[r] \in Places(idom) /\ order[number[r] + 1] = r /\ HasInputs(r)
  BY HomeFacts
<1>. DEFINE S == {k \in Places(idom) : HasInputs(order[k + 1])}
<1>3. ASSUME NEW k \in S PROVE idom[k + 1] \in S
  <2>1. CASE k = 0
    BY <1>1, <1>3, <2>1
  <2>2. CASE k # 0
    <3>1. k \in 1..(N - 1)
      BY <1>1, <1>3, <2>2
    <3>2. Preds(k) # {}
      BY <1>1, <1>3, <3>1, OnlyTheEnd
    <3>3. idom[k + 1] \in 0..(N - 1) /\ \E u \in Preds(k) : idom[k + 1] = Climb(number[u], k)
      BY <3>1, <3>2, StepUp
    <3>4. order[idom[k + 1] + 1] # End
      BY <3>1, <3>3, ClosestIsNotTheEnd
    <3>5. HasInputs(order[idom[k + 1] + 1])
      <4>1. CASE idom[k + 1] = 0
        <5>1. order[0 + 1] = Start
          BY <1>1, TreeFacts
        <5>. QED
          BY <4>1, <5>1 DEF HasInputs
      <4>2. CASE idom[k + 1] # 0
        <5>1. idom[k + 1] \in 1..(N - 1)
          BY <1>1, <3>3, <4>2
        <5>. QED
          BY <3>4, <5>1, OnlyTheEnd
      <4>. QED
        BY <4>1, <4>2
    <3>. QED
      BY <1>1, <3>3, <3>5
  <2>. QED
    BY <2>1, <2>2
<1>4. a \in S
  <2>1. number[r] \in S
    BY <1>2
  <2>. HIDE DEF S
  <2>2. Ancestry(idom, number[r]) \subseteq S
    BY <1>1, <1>2, <1>3, <2>1, AncestryIsLeast
  <2>. QED
    BY <2>2
<1>5. order[a + 1] \in Visited /\ number[order[a + 1]] = a
  BY <1>1, <1>4, TreeFacts
<1>6. order[a + 1] = End => Predecessors(flow, End) # {}
  BY <1>4, RegionsAssumption DEF HasInputs
<1>. QED
  BY <1>1, <1>4, <1>5, <1>6, WalkedFacts DEF HomesIn

(* The walk up the tree ends at the lowest region above front that         *)
(* dominates all users: any that does so dominates it.                     *)
LEMMA LiftedIsLowest ==
  ASSUME DomInv, Built, NEW users, users \subseteq HomesIn(flow), NEW front \in users,
         NEW home \in HomesIn(flow), \A u \in users : Dominates(home, u)
  PROVE  /\ Lifted(front, users) \in HomesIn(flow)
         /\ \A u \in users : Dominates(Lifted(front, users), u)
         /\ Dominates(home, Lifted(front, users))
<1>. DEFINE P == 0..(N - 1)
            All(i) == \A u \in users : Dominates(order[i + 1], u)
            IsIt(up) == up = [i \in P |-> IF All(i) THEN order[i + 1] ELSE up[idom[i + 1]]]
            up0 == CHOOSE up : IsIt(up)
            Alls(i) == {a \in Ancestry(idom, i) : All(a)}
            top(S) == CHOOSE a : a \in S /\ \A b \in S : b <= a
            best == [i \in P |-> order[top(Alls(i)) + 1]]
<1>1. Lifted(front, users) = up0[number[front]]
  BY Zenon DEF Lifted
<1>2. Falls(idom) /\ Places(idom) = P /\ N \in Nat
  BY BuiltFacts
<1>3. \A i \in P : /\ idom[i + 1] \in P /\ idom[i + 1] <= i /\ i \in Nat
                   /\ Ancestry(idom, i) = {i} \cup Ancestry(idom, idom[i + 1])
                   /\ \A a \in Ancestry(idom, i) : a <= i /\ a \in Nat
  BY <1>2, FallsType, AncestryStep, AncestryIsClosed
<1>4. ASSUME NEW i \in P, ~All(i) PROVE Alls(i) = Alls(idom[i + 1])
  BY <1>3, <1>4
<1>5. ASSUME NEW i \in P, All(i) PROVE i \in Alls(i) /\ (\A b \in Alls(i) : b <= i) /\ top(Alls(i)) = i
  <2>1. i \in Alls(i) /\ \A b \in Alls(i) : b <= i /\ b \in Nat
    BY <1>3, <1>5
  <2>2. ASSUME NEW S, i \in S, \A b \in S : b <= i /\ b \in Nat PROVE top(S) = i
    <3>1. top(S) \in S /\ \A b \in S : b <= top(S)
      BY <2>2
    <3>2. top(S) \in Nat /\ i \in Nat /\ i <= top(S) /\ top(S) <= i
      BY <2>2, <3>1
    <3>. HIDE DEF top
    <3>. QED
      BY <3>2
  <2>. QED
    BY <2>1, <2>2
<1>. HIDE DEF All, top
<1>6. IsIt(best)
  <2>1. ASSUME NEW i \in P
        PROVE  best[i] = IF All(i) THEN order[i + 1] ELSE best[idom[i + 1]]
    <3>1. idom[i + 1] \in P
      BY <1>3
    <3>2. CASE All(i)
      <4>1. top(Alls(i)) = i
        BY <1>5, <3>2
      <4>. QED
        BY <3>2, <4>1
    <3>3. CASE ~All(i)
      <4>1. Alls(i) = Alls(idom[i + 1])
        BY <1>4, <3>3
      <4>2. top(Alls(i)) = top(Alls(idom[i + 1]))
        BY <4>1
      <4>. HIDE DEF Alls
      <4>. QED
        BY <3>1, <3>3, <4>2
    <3>. QED
      BY <3>2, <3>3
  <2>2. best = [i \in P |-> best[i]]
    OBVIOUS
  <2>. HIDE DEF best, P
  <2>. QED
    BY <2>1, <2>2
<1>7. IsIt(up0)
  <2>. HIDE DEF best, IsIt
  <2>. QED
    BY <1>6
<1>. HIDE DEF up0, best
<1>8. \A i \in P : up0[i] = IF All(i) THEN order[i + 1] ELSE up0[idom[i + 1]]
  BY <1>7
<1>. DEFINE Good == {i \in Nat : i \in P /\ Alls(i) # {} =>
                       \E a \in Alls(i) : up0[i] = order[a + 1] /\ \A b \in Alls(i) : b <= a}
<1>9. ASSUME NEW i \in Nat, \A m \in Nat : m < i => m \in Good PROVE i \in Good
  <2>. SUFFICES ASSUME i \in P, Alls(i) # {}
                PROVE  \E a \in Alls(i) : up0[i] = order[a + 1] /\ \A b \in Alls(i) : b <= a
    OBVIOUS
  <2>. HIDE DEF IsIt
  <2>1. CASE All(i)
    BY <1>5, <1>8, <2>1
  <2>2. CASE ~All(i)
    <3>1. up0[i] = up0[idom[i + 1]] /\ idom[i + 1] \in P /\ idom[i + 1] <= i /\ idom[i + 1] \in Nat
      BY <1>3, <1>8, <2>2
    <3>2. Alls(i) = Alls(idom[i + 1])
      BY <1>4, <2>2
    <3>3. idom[i + 1] # i
      <4>. SUFFICES ASSUME idom[i + 1] = i PROVE FALSE
        OBVIOUS
      <4>1. Ancestry(idom, i) = {i}
        BY <1>2, AncestryOfFixed
      <4>. QED
        BY <2>2, <4>1
    <3>4. idom[i + 1] \in Good
      BY <1>9, <3>1, <3>3
    <3>5. \E a \in Alls(idom[i + 1]) : up0[idom[i + 1]] = order[a + 1] /\ \A b \in Alls(idom[i + 1]) : b <= a
      BY <3>1, <3>2, <3>4
    <3>. HIDE DEF Alls, Good
    <3>. QED
      BY <3>1, <3>2, <3>5
  <2>. QED
    BY <2>1, <2>2
<1>10. \A i \in Nat : i \in Good
  <2>. HIDE DEF Good
  <2>. QED
    BY <1>9, StrongInduction
<1>. DEFINE k == number[front]
<1>11. k \in P /\ k \in Nat /\ front \in HomesIn(flow)
  BY <1>2, HomeFacts
<1>12. number[home] \in Alls(k)
  <2>1. number[home] \in Ancestry(idom, k)
    BY DEF Dominates
  <2>2. order[number[home] + 1] = home
    BY HomeFacts
  <2>3. All(number[home])
    BY <2>2 DEF All
  <2>. QED
    BY <2>1, <2>3
<1>13. PICK a \in Alls(k) : up0[k] = order[a + 1] /\ \A b \in Alls(k) : b <= a
  <2>1. k \in Good /\ Alls(k) # {}
    BY <1>10, <1>11, <1>12
  <2>. HIDE DEF Alls, k
  <2>. QED
    BY <1>11, <2>1
<1>14. /\ order[a + 1] \in HomesIn(flow) /\ number[order[a + 1]] = a
  BY <1>11, HomesAbove
<1>15. number[home] \in Ancestry(idom, a)
  <2>1. number[home] \in Ancestry(idom, k) /\ a \in Ancestry(idom, k) /\ number[home] <= a
    BY <1>12, <1>13
  <2>. QED
    BY <1>2, <1>11, <2>1, AncestryIsLinear
<1>16. All(a)
  BY <1>13
<1>. QED
  BY <1>1, <1>13, <1>14, <1>15, <1>16 DEF All, Dominates

-----------------------------------------------------------------------------
(* What a function of the client is. *)
LEMMA CodeFacts ==
  ASSUME CodeIsGiven
  PROVE  /\ IsProgram(code) /\ flow = code.flow /\ flow \in Flows /\ NumValues \in Nat
         /\ \E rank \in [Values -> Values] : IsRank(code, rank)
         /\ \E home \in [Values -> HomesIn(flow)] : IsPlacement(code, home)
<1>1. PICK shape \in Shapes : code \in ProgramsOf(shape)
  BY DEF CodeIsGiven
<1>2. flow = code.flow
  BY DEF CodeIsGiven
<1>3. IsProgram(code)
  BY <1>1, ProgramsAssumption
<1>. QED
  BY <1>1, <1>2, <1>3, ProgramsAssumption, NumValuesAssumption DEF IsProgram

LEMMA ProgramFacts ==
  ASSUME CodeIsGiven
  PROVE  /\ Phis \subseteq Values /\ Computed \subseteq Values
         /\ DOMAIN code.args = Computed /\ \A v \in Computed : code.args[v] \subseteq Values
         /\ \A v \in Phis : /\ DOMAIN code.phis[v].vals = DOMAIN code.inputs[code.phis[v].region]
                            /\ \A i \in DOMAIN code.inputs[code.phis[v].region] :
                                 /\ code.inputs[code.phis[v].region][i] \in HomesIn(flow)
                                 /\ GoesTo(flow, code.inputs[code.phis[v].region][i], code.phis[v].region)
         /\ \A r \in Regions : code.needs[r] # {} => r \in HomesIn(flow)
<1>1. IsProgram(code) /\ flow = code.flow
  BY CodeFacts
<1>2. ASSUME NEW v \in Phis
      PROVE  /\ DOMAIN code.phis[v].vals = DOMAIN code.inputs[code.phis[v].region]
             /\ \A q \in ToSet(code.inputs[code.phis[v].region]) :
                  q \in HomesIn(flow) /\ GoesTo(flow, q, code.phis[v].region)
  BY <1>1 DEF IsProgram, Phis
<1>. QED
  BY <1>1, <1>2 DEF IsProgram, Phis, Computed, ToSet

LEMMA UserRegionsAreHomes ==
  ASSUME CodeIsGiven, SchedTypes, NEW v
  PROVE  UserRegions(v) \subseteq HomesIn(flow)
<1>1. {r \in Regions : v \in code.needs[r]} \subseteq HomesIn(flow)
  BY ProgramFacts
<1>2. {mapped[u] : u \in Consumers(v) \cap DOMAIN mapped} \subseteq HomesIn(flow)
  BY DEF SchedTypes
<1>3. PhiRegions(v) \subseteq HomesIn(flow)
  <2>. SUFFICES ASSUME NEW u \in Phis, NEW i \in DOMAIN code.phis[u].vals
                PROVE  code.inputs[code.phis[u].region][i] \in HomesIn(flow)
    BY DEF PhiRegions
  <2>. QED
    BY ProgramFacts
<1>. QED
  BY <1>1, <1>2, <1>3 DEF UserRegions

(* A legal place of a node dominates its users wherever they were mapped.  *)
LEMMA PlacesDominateUsers ==
  ASSUME DomInv, Built, CodeIsGiven, SchedTypes,
         NEW home \in [Values -> HomesIn(flow)], IsPlacement(code, home), IsBelow(home),
         NEW v \in Values, NEW u \in UserRegions(v)
  PROVE  Dominates(home[v], u)
<1>1. u \in HomesIn(flow) /\ home[v] \in HomesIn(flow) /\ flow = code.flow
  BY UserRegionsAreHomes, CodeFacts
<1>2. CASE u \in Regions /\ v \in code.needs[u]
  <2>1. TrulyDominates(flow, home[v], u)
    BY <1>1, <1>2 DEF IsPlacement
  <2>. QED
    BY <1>1, <2>1, DominationIsFound
<1>3. CASE u \in {mapped[w] : w \in Consumers(v) \cap DOMAIN mapped}
  <2>1. PICK w \in Consumers(v) \cap DOMAIN mapped : u = mapped[w]
    BY <1>3
  <2>2. w \in Values /\ w \in DOMAIN code.args /\ v \in code.args[w]
    BY <2>1, ProgramFacts DEF Consumers
  <2>3. home[w] \in HomesIn(flow) /\ TrulyDominates(flow, home[v], home[w])
    BY <1>1, <2>2 DEF IsPlacement
  <2>4. Dominates(home[v], home[w])
    BY <1>1, <2>3, DominationIsFound
  <2>5. Dominates(home[w], u)
    BY <2>1 DEF IsBelow
  <2>. QED
    BY <1>1, <2>3, <2>4, <2>5, DominatesTransitively
<1>4. CASE u \in PhiRegions(v)
  <2>1. PICK p \in Phis : \E i \in DOMAIN code.phis[p].vals :
          code.phis[p].vals[i] = v /\ u = code.inputs[code.phis[p].region][i]
    BY <1>4 DEF PhiRegions
  <2>2. TrulyDominates(flow, home[v], u)
    BY <1>1, <2>1 DEF IsPlacement, Phis
  <2>. QED
    BY <1>1, <2>2, DominationIsFound
<1>. QED
  BY <1>2, <1>3, <1>4 DEF UserRegions

(* What is said of a node stays as long as its users stay mapped.          *)
LEMMA UsersStay ==
  ASSUME code' = code, NEW v, Complete(v), \A u \in DOMAIN mapped : u \in DOMAIN mapped' /\ mapped'[u] = mapped[u]
  PROVE  Complete(v)' /\ UserRegions(v)' = UserRegions(v)
<1>1. Consumers(v)' = Consumers(v) /\ PhiRegions(v)' = PhiRegions(v) /\ Computed' = Computed
  BY DEF Consumers, PhiRegions, Computed, Phis
<1>2. Complete(v)'
  BY <1>1 DEF Complete
<1>3. Consumers(v) \cap DOMAIN mapped = Consumers(v) /\ Consumers(v) \cap DOMAIN mapped' = Consumers(v)
  BY <1>1, <1>2 DEF Complete
<1>4. {mapped'[u] : u \in Consumers(v) \cap DOMAIN mapped'} = {mapped[u] : u \in Consumers(v) \cap DOMAIN mapped}
  BY <1>3
<1>. QED
  BY <1>1, <1>2, <1>4 DEF UserRegions

(* The rest of recalc leaves the schedule alone.                           *)
LEMMA ScheduleStays ==
  ASSUME DomInv, SchedInv, UNCHANGED scheduleVars, [DomNext]_domVars
  PROVE  SchedInv'
<1>1. /\ code' = code /\ stage' = stage /\ cursor' = cursor /\ wasMapped' = wasMapped
      /\ mapped' = mapped /\ result' = result
  BY DEF scheduleVars
<1>2. flow' = flow /\ (Built => UNCHANGED domVars)
  <2>1. CASE UNCHANGED domVars
    BY <2>1 DEF domVars
  <2>2. CASE DomNext
    BY <2>2 DEF DomNext, Walk, Next, Visit, Leave, StartSemi, SemiRound, SemiThrows, StartIdom,
                IdomRound, StartAdjust, AdjustRound, AdjustDone, walk, Built
  <2>. QED
    BY <2>1, <2>2
<1>3. /\ Phis' = Phis /\ Computed' = Computed
      /\ \A v : (Ready(v)' <=> Ready(v)) /\ (Complete(v)' <=> Complete(v)) /\ UserRegions(v)' = UserRegions(v)
  BY <1>1 DEF Phis, Computed, Ready, Complete, UserRegions, Consumers, PhiRegions
<1>4. Built => Built' /\ \A a, b : Dominates(a, b)' <=> Dominates(a, b)
  BY <1>2 DEF Built, Dominates, domVars
<1>5. CodeIsGiven' /\ SchedTypes' /\ SchedStarts' /\ SweptInVain' /\ ListsAreMapped' /\ ListsAreOrdered'
  <2>1. CodeIsGiven' /\ SchedTypes'
    BY <1>1, <1>2 DEF SchedInv, CodeIsGiven, SchedTypes
  <2>2. SchedStarts' /\ SweptInVain' /\ ListsAreMapped'
    BY <1>1, <1>3, <1>4 DEF SchedInv, SchedStarts, SweptInVain, ListsAreMapped
  <2>3. ListsAreOrdered'
    BY <1>1 DEF SchedInv, ListsAreOrdered, UsersComeFirst, OperandsComeFirst
  <2>. QED
    BY <2>1, <2>2, <2>3
<1>6. CASE stage = "tree"
  <2>1. DOMAIN mapped' = {} /\ stage' = "tree"
    BY <1>1, <1>6 DEF SchedInv, SchedStarts
  <2>. QED
    BY <1>5, <2>1 DEF SchedInv, UsersAreFirst, MappedBelowPlaces
<1>7. CASE stage # "tree"
  <2>1. \A a, b : Dominates(a, b)' <=> Dominates(a, b)
    BY <1>4, <1>7 DEF SchedInv, SchedStarts
  <2>2. \A v \in Computed \cap DOMAIN mapped : HasUsers(v) => HasUsers(v)'
    BY <1>1, <1>3, <2>1 DEF HasUsers
  <2>3. UsersAreFirst'
    BY <1>1, <1>3, <2>2 DEF SchedInv, UsersAreFirst
  <2>4. MappedBelowPlaces'
    BY <1>1, <1>2, <2>1 DEF SchedInv, MappedBelowPlaces, IsBelow
  <2>. QED
    BY <1>5, <2>3, <2>4 DEF SchedInv
<1>. QED
  BY <1>6, <1>7

LEMMA ScheduleStarts ==
  ASSUME ScheduleInit
  PROVE  SchedInv
<1>1. /\ \E shape \in Shapes : code \in ProgramsOf(shape)
      /\ flow = code.flow /\ stage = "tree" /\ cursor = 1 /\ wasMapped = FALSE
      /\ DOMAIN mapped = {} /\ result = [r \in Regions |-> <<>>]
  BY DEF ScheduleInit
<1>2. CodeIsGiven
  BY <1>1 DEF CodeIsGiven
<1>3. NumValues \in Nat /\ <<>> \in Seq(Values)
  BY NumValuesAssumption
<1>4. SchedTypes
  <2>1. result \in [Regions -> Seq(Values)]
    BY <1>1, <1>3
  <2>2. cursor \in 1..(NumValues + 1)
    BY <1>1, <1>3
  <2>. QED
    BY <1>1, <2>1, <2>2 DEF SchedTypes, Stages
<1>5. \A r \in Regions : DOMAIN result[r] = {} /\ ToSet(result[r]) = {}
  BY <1>1 DEF ToSet
<1>6. ListsAreMapped /\ ListsAreOrdered
  BY <1>1, <1>5 DEF ListsAreMapped, ListsAreOrdered, UsersComeFirst
<1>. QED
  BY <1>1, <1>2, <1>4, <1>6 DEF SchedInv, SchedStarts, UsersAreFirst, MappedBelowPlaces, SweptInVain

-----------------------------------------------------------------------------
LEMMA StartKeepsSchedule ==
  ASSUME DomInv, SchedInv, StartSchedule
  PROVE  SchedInv'
<1>1. /\ Built /\ stage = "tree" /\ stage' = "sweep" /\ mapped' = [v \in Phis |-> code.phis[v].region]
      /\ UNCHANGED domVars /\ code' = code /\ cursor' = cursor /\ wasMapped' = wasMapped /\ result' = result
  BY DEF StartSchedule
<1>2. CodeIsGiven /\ SchedTypes /\ SchedStarts /\ ListsAreMapped /\ ListsAreOrdered
  BY DEF SchedInv
<1>3. /\ flow' = flow /\ Built' /\ Phis' = Phis /\ Computed' = Computed
      /\ \A a, b : Dominates(a, b)' <=> Dominates(a, b)
  BY <1>1 DEF domVars, Built, Phis, Computed, Dominates
<1>4. DOMAIN mapped' = Phis /\ \A v \in Phis : mapped'[v] = code.phis[v].region
  BY <1>1
<1>5. \A home \in [Values -> HomesIn(flow)] : IsPlacement(code, home) => \A v \in Phis : home[v] = mapped'[v]
  BY <1>4 DEF IsPlacement, Phis
<1>6. Phis \subseteq Values /\ \A v \in Phis : mapped'[v] \in HomesIn(flow)
  BY <1>2, <1>5, CodeFacts, ProgramFacts
<1>7. CodeIsGiven' /\ SchedTypes' /\ SchedStarts'
  BY <1>1, <1>2, <1>3, <1>4, <1>6 DEF CodeIsGiven, SchedTypes, SchedStarts, Stages
<1>8. UsersAreFirst'
  BY <1>3, <1>4 DEF UsersAreFirst, Computed
<1>9. MappedBelowPlaces'
  <2>. SUFFICES ASSUME NEW home \in [Values -> HomesIn(flow)], IsPlacement(code, home), NEW v \in Phis
                PROVE  Dominates(home[v], mapped'[v])
    BY <1>1, <1>3, <1>4 DEF MappedBelowPlaces, IsBelow
  <2>. QED
    BY <1>1, <1>5, <1>6, DominatesSelf
<1>10. SweptInVain'
  <2>1. cursor' = 1
    BY <1>1, <1>2 DEF SchedStarts
  <2>. QED
    BY <1>1, <2>1 DEF SweptInVain
<1>11. ListsAreMapped'
  <2>1. \A v \in Values, r \in Regions : v \notin ToSet(result[r])
    BY <1>1, <1>2 DEF ListsAreMapped, SchedStarts
  <2>2. \A v \in Values : v \notin Computed \cap Phis
    BY DEF Computed
  <2>. QED
    BY <1>1, <1>3, <1>4, <2>1, <2>2 DEF ListsAreMapped
<1>12. ListsAreOrdered'
  BY <1>1, <1>2 DEF ListsAreOrdered, UsersComeFirst, OperandsComeFirst
<1>. QED
  BY <1>7, <1>8, <1>9, <1>10, <1>11, <1>12 DEF SchedInv

(* What a step that maps nothing and moves nothing keeps.                  *)
LEMMA NothingMapped ==
  ASSUME SchedInv, stage = "sweep", stage' \in Stages, stage' # "tree", UNCHANGED <<domVars, code, mapped>>
  PROVE  /\ CodeIsGiven' /\ SchedStarts' /\ UsersAreFirst' /\ MappedBelowPlaces'
         /\ \A v : Ready(v)' <=> Ready(v)
         /\ flow' = flow /\ Phis' = Phis /\ Computed' = Computed /\ code' = code /\ mapped' = mapped
<1>1. /\ CodeIsGiven /\ SchedStarts /\ UsersAreFirst /\ MappedBelowPlaces
      /\ code' = code /\ mapped' = mapped /\ UNCHANGED domVars
  BY DEF SchedInv
<1>2. /\ flow' = flow /\ (Built' <=> Built) /\ Phis' = Phis /\ Computed' = Computed
      /\ \A a, b : Dominates(a, b)' <=> Dominates(a, b)
      /\ \A v : (Ready(v)' <=> Ready(v)) /\ (Complete(v)' <=> Complete(v)) /\ UserRegions(v)' = UserRegions(v)
  BY <1>1 DEF domVars, Built, Phis, Computed, Dominates, Ready, Complete, UserRegions, Consumers, PhiRegions
<1>3. CodeIsGiven' /\ SchedStarts'
  BY <1>1, <1>2 DEF CodeIsGiven, SchedStarts
<1>4. \A v : HasUsers(v) => HasUsers(v)'
  BY <1>1, <1>2 DEF HasUsers
<1>5. UsersAreFirst'
  BY <1>1, <1>2, <1>4 DEF UsersAreFirst
<1>6. MappedBelowPlaces'
  BY <1>1, <1>2 DEF MappedBelowPlaces, IsBelow
<1>. QED
  BY <1>1, <1>2, <1>3, <1>5, <1>6

LEMMA PassOverKeeps ==
  ASSUME SchedInv, PassOver
  PROVE  SchedInv'
<1>1. /\ stage = "sweep" /\ stage' = "sweep" /\ cursor \in Values /\ ~Ready(cursor) /\ cursor' = cursor + 1
      /\ UNCHANGED <<domVars, code, mapped>> /\ wasMapped' = wasMapped /\ result' = result
  BY DEF PassOver, Sweeping
<1>2. /\ CodeIsGiven' /\ SchedStarts' /\ UsersAreFirst' /\ MappedBelowPlaces'
      /\ \A v : Ready(v)' <=> Ready(v)
      /\ flow' = flow /\ Computed' = Computed /\ code' = code /\ mapped' = mapped
  BY <1>1, NothingMapped DEF Stages
<1>3. NumValues \in Nat
  BY NumValuesAssumption
<1>4. SchedTypes /\ SweptInVain /\ ListsAreMapped /\ ListsAreOrdered
  BY DEF SchedInv
<1>5. SchedTypes'
  <2>1. cursor' \in 1..(NumValues + 1)
    BY <1>1, <1>3 DEF Values
  <2>. QED
    BY <1>1, <1>2, <1>4, <2>1 DEF SchedTypes
<1>6. SweptInVain'
  <2>1. \A v \in 1..(cursor' - 1) : v = cursor \/ v \in 1..(cursor - 1)
    BY <1>1, <1>3 DEF Values
  <2>. QED
    BY <1>1, <1>2, <1>4, <2>1 DEF SweptInVain
<1>7. ListsAreMapped' /\ ListsAreOrdered'
  BY <1>1, <1>2, <1>4 DEF ListsAreMapped, ListsAreOrdered, UsersComeFirst, OperandsComeFirst
<1>. QED
  BY <1>2, <1>5, <1>6, <1>7 DEF SchedInv

LEMMA SweepAgainKeeps ==
  ASSUME SchedInv, SweepAgain
  PROVE  SchedInv'
<1>1. /\ stage = "sweep" /\ stage' = "sweep" /\ cursor' = 1 /\ wasMapped' = FALSE
      /\ UNCHANGED <<domVars, code, mapped>> /\ result' = result
  BY DEF SweepAgain, Swept
<1>2. /\ CodeIsGiven' /\ SchedStarts' /\ UsersAreFirst' /\ MappedBelowPlaces'
      /\ flow' = flow /\ Computed' = Computed /\ code' = code /\ mapped' = mapped
  BY <1>1, NothingMapped DEF Stages
<1>3. NumValues \in Nat
  BY NumValuesAssumption
<1>4. SchedTypes /\ ListsAreMapped /\ ListsAreOrdered
  BY DEF SchedInv
<1>5. SchedTypes'
  <2>1. cursor' \in 1..(NumValues + 1)
    BY <1>1, <1>3
  <2>. QED
    BY <1>1, <1>2, <1>4, <2>1 DEF SchedTypes
<1>6. SweptInVain'
  BY <1>1 DEF SweptInVain
<1>7. ListsAreMapped' /\ ListsAreOrdered'
  BY <1>1, <1>2, <1>4 DEF ListsAreMapped, ListsAreOrdered, UsersComeFirst, OperandsComeFirst
<1>. QED
  BY <1>2, <1>5, <1>6, <1>7 DEF SchedInv

LEMMA ReverseFacts ==
  ASSUME NEW T, NEW s \in Seq(T)
  PROVE  /\ Reverse(s) \in Seq(T) /\ ToSet(Reverse(s)) = ToSet(s) /\ DOMAIN Reverse(s) = DOMAIN s
         /\ \A i \in DOMAIN s : Len(s) - i + 1 \in DOMAIN s /\ Reverse(s)[i] = s[Len(s) - i + 1]
<1>1. DOMAIN s = 1..Len(s) /\ Len(s) \in Nat /\ \A i \in DOMAIN s : s[i] \in T
  OBVIOUS
<1>2. \A i \in DOMAIN s : Len(s) - i + 1 \in DOMAIN s /\ (Len(s) - i) + 1 = Len(s) - i + 1
  BY <1>1
<1>3. Reverse(s) = [i \in 1..Len(s) |-> s[(Len(s) - i) + 1]]
  BY DEF Reverse
<1>4. DOMAIN Reverse(s) = DOMAIN s /\ \A i \in DOMAIN s : Reverse(s)[i] = s[Len(s) - i + 1]
  BY <1>1, <1>2, <1>3
<1>5. Reverse(s) \in Seq(T)
  BY <1>1, <1>2, <1>3
<1>6. ToSet(Reverse(s)) \subseteq ToSet(s)
  BY <1>2, <1>4 DEF ToSet
<1>7. ASSUME NEW i \in DOMAIN s PROVE s[i] \in ToSet(Reverse(s))
  <2>1. Len(s) - i + 1 \in DOMAIN s /\ Len(s) - (Len(s) - i + 1) + 1 = i
    BY <1>1
  <2>2. Reverse(s)[Len(s) - i + 1] = s[i]
    BY <1>4, <2>1
  <2>. QED
    BY <1>4, <2>1, <2>2 DEF ToSet
<1>8. ToSet(s) \subseteq ToSet(Reverse(s))
  BY <1>7 DEF ToSet
<1>. QED
  BY <1>2, <1>4, <1>5, <1>6, <1>8

LEMMA ScheduleDoneKeeps ==
  ASSUME SchedInv, ScheduleDone
  PROVE  SchedInv'
<1>1. /\ stage = "sweep" /\ stage' = "scheduled" /\ cursor \notin Values /\ ~wasMapped
      /\ UNCHANGED <<domVars, code, mapped>> /\ cursor' = cursor /\ wasMapped' = wasMapped
      /\ result' = [r \in Regions |-> Reverse(result[r])]
  BY DEF ScheduleDone, Swept
<1>2. /\ CodeIsGiven' /\ SchedStarts' /\ UsersAreFirst' /\ MappedBelowPlaces'
      /\ \A v : Ready(v)' <=> Ready(v)
      /\ flow' = flow /\ Computed' = Computed /\ code' = code /\ mapped' = mapped
  BY <1>1, NothingMapped DEF Stages
<1>3. SchedTypes /\ SweptInVain /\ ListsAreMapped /\ ListsAreOrdered /\ NumValues \in Nat
  BY NumValuesAssumption DEF SchedInv
<1>4. \A r \in Regions : result[r] \in Seq(Values) /\ result'[r] = Reverse(result[r])
  BY <1>1, <1>3 DEF SchedTypes
<1>5. SchedTypes'
  <2>1. \A r \in Regions : Reverse(result[r]) \in Seq(Values)
    BY <1>4, ReverseFacts
  <2>2. result' \in [Regions -> Seq(Values)]
    BY <1>1, <2>1
  <2>. QED
    BY <1>1, <1>2, <1>3, <2>2 DEF SchedTypes, Stages
<1>6. SweptInVain'
  <2>1. wasMapped = FALSE /\ cursor = NumValues + 1
    BY <1>1, <1>3 DEF SchedTypes, Values
  <2>2. \A v \in Values : v \in 1..(cursor - 1)
    BY <1>3, <2>1 DEF Values
  <2>. QED
    BY <1>1, <1>2, <1>3, <2>1, <2>2 DEF SweptInVain
<1>7. ListsAreMapped'
  <2>1. \A r \in Regions : ToSet(result'[r]) = ToSet(result[r])
    BY <1>4, ReverseFacts
  <2>. QED
    BY <1>2, <1>3, <2>1 DEF ListsAreMapped
<1>8. ListsAreOrdered'
  <2>. SUFFICES ASSUME NEW r \in Regions PROVE OperandsComeFirst(result[r])'
    BY <1>1 DEF ListsAreOrdered
  <2>. DEFINE s == result[r]
              t == Reverse(s)
  <2>1. s \in Seq(Values) /\ result'[r] = t
    BY <1>4
  <2>2. \A i, j \in DOMAIN s : s[i] \in code.args[s[j]] => j < i
    BY <1>1, <1>3 DEF ListsAreOrdered, UsersComeFirst
  <2>3. DOMAIN t = DOMAIN s /\ \A i \in DOMAIN s : Len(s) - i + 1 \in DOMAIN s /\ t[i] = s[Len(s) - i + 1]
    BY <2>1, ReverseFacts
  <2>4. \A i, j \in DOMAIN s : Len(s) - j + 1 < Len(s) - i + 1 => i < j
    BY <2>1
  <2>. HIDE DEF s, t
  <2>5. \A i, j \in DOMAIN t : t[i] \in code.args[t[j]] => i < j
    BY <2>2, <2>3, <2>4
  <2>. QED
    BY <1>2, <2>1, <2>5 DEF OperandsComeFirst
<1>. QED
  BY <1>2, <1>5, <1>6, <1>7, <1>8 DEF SchedInv

(* Where the walk up the tree places a node. *)
LEMMA HomeIsFound ==
  ASSUME DomInv, SchedInv, stage = "sweep", NEW v \in Values, Complete(v), NEW front \in UserRegions(v)
  PROVE  /\ Lifted(front, UserRegions(v)) \in HomesIn(flow)
         /\ \A u \in UserRegions(v) : Dominates(Lifted(front, UserRegions(v)), u)
         /\ \A home \in [Values -> HomesIn(flow)] :
              IsPlacement(code, home) => Dominates(home[v], Lifted(front, UserRegions(v)))
<1>1. /\ CodeIsGiven /\ SchedTypes /\ Built
      /\ \A home \in [Values -> HomesIn(flow)] : IsPlacement(code, home) => IsBelow(home)
  BY DEF SchedInv, SchedStarts, MappedBelowPlaces
<1>2. UserRegions(v) \subseteq HomesIn(flow)
  BY <1>1, UserRegionsAreHomes
<1>3. ASSUME NEW home \in [Values -> HomesIn(flow)], IsPlacement(code, home)
      PROVE  /\ home[v] \in HomesIn(flow)
             /\ \A u \in UserRegions(v) : Dominates(home[v], u)
  BY <1>1, <1>3, PlacesDominateUsers
<1>4. ASSUME NEW h \in HomesIn(flow), \A u \in UserRegions(v) : Dominates(h, u)
      PROVE  /\ Lifted(front, UserRegions(v)) \in HomesIn(flow)
             /\ \A u \in UserRegions(v) : Dominates(Lifted(front, UserRegions(v)), u)
             /\ Dominates(h, Lifted(front, UserRegions(v)))
  BY <1>1, <1>2, <1>4, LiftedIsLowest
<1>5. PICK home \in [Values -> HomesIn(flow)] : IsPlacement(code, home)
  BY <1>1, CodeFacts
<1>6. /\ Lifted(front, UserRegions(v)) \in HomesIn(flow)
      /\ \A u \in UserRegions(v) : Dominates(Lifted(front, UserRegions(v)), u)
  BY <1>3, <1>4, <1>5
<1>7. ASSUME NEW home_1 \in [Values -> HomesIn(flow)], IsPlacement(code, home_1)
      PROVE  Dominates(home_1[v], Lifted(front, UserRegions(v)))
  BY <1>3, <1>4, <1>7
<1>. QED
  BY <1>6, <1>7

LEMMA AppendedFacts ==
  ASSUME NEW T, NEW s \in Seq(T), NEW e \in T
  PROVE  /\ Append(s, e) \in Seq(T) /\ ToSet(Append(s, e)) = ToSet(s) \cup {e}
         /\ DOMAIN Append(s, e) = DOMAIN s \cup {Len(s) + 1} /\ Append(s, e)[Len(s) + 1] = e
         /\ \A i \in DOMAIN s : Append(s, e)[i] = s[i] /\ i \in Nat /\ i < Len(s) + 1
<1>1. /\ DOMAIN Append(s, e) = DOMAIN s \cup {Len(s) + 1} /\ Append(s, e)[Len(s) + 1] = e
      /\ \A i \in DOMAIN s : Append(s, e)[i] = s[i] /\ i \in Nat /\ i < Len(s) + 1
  OBVIOUS
<1>2. ToSet(Append(s, e)) = ToSet(s) \cup {e}
  BY ONLY <1>1 DEF ToSet
<1>. QED
  BY <1>1, <1>2

(* A node that is placed goes behind all that uses it, and below its       *)
(* places in every legal placement.                                        *)
LEMMA PlaceKeeps ==
  ASSUME DomInv, SchedInv, Place
  PROVE  SchedInv'
<1>. DEFINE v == cursor
<1>1. /\ stage = "sweep" /\ stage' = "sweep" /\ v \in Values /\ Ready(v) /\ cursor' = v + 1 /\ wasMapped' = TRUE
      /\ UNCHANGED domVars /\ code' = code
  BY DEF Place, Sweeping
<1>2. PICK h : /\ \E front \in UserRegions(v) : h = Lifted(front, UserRegions(v))
               /\ mapped' = [w \in DOMAIN mapped \cup {v} |-> IF w = v THEN h ELSE mapped[w]]
               /\ result' = [result EXCEPT ![h] = Append(result[h], v)]
  BY DEF Place
<1>. HIDE DEF v
<1>3. /\ CodeIsGiven /\ SchedTypes /\ SchedStarts /\ UsersAreFirst /\ MappedBelowPlaces
      /\ ListsAreMapped /\ ListsAreOrdered /\ NumValues \in Nat
  BY NumValuesAssumption DEF SchedInv
<1>4. /\ flow' = flow /\ (Built' <=> Built) /\ Phis' = Phis /\ Computed' = Computed
      /\ \A a, b : Dominates(a, b)' <=> Dominates(a, b)
  BY <1>1 DEF domVars, Built, Phis, Computed, Dominates
<1>5. v \notin DOMAIN mapped /\ Complete(v) /\ UserRegions(v) # {} /\ v \in Computed
  BY <1>1, <1>3 DEF Ready, SchedStarts, Computed
<1>6. /\ h \in HomesIn(flow) /\ \A u \in UserRegions(v) : Dominates(h, u)
      /\ \A home \in [Values -> HomesIn(flow)] : IsPlacement(code, home) => Dominates(home[v], h)
  BY <1>1, <1>2, <1>5, HomeIsFound
<1>7. h \in Regions
  BY <1>6, ReachedBasics DEF HomesIn
<1>8. /\ DOMAIN mapped' = DOMAIN mapped \cup {v} /\ mapped'[v] = h
      /\ \A w \in DOMAIN mapped : w \in DOMAIN mapped' /\ mapped'[w] = mapped[w]
  BY <1>2, <1>5
<1>9. /\ \A r \in Regions : result[r] \in Seq(Values)
      /\ result' \in [Regions -> Seq(Values)]
      /\ result'[h] = Append(result[h], v) /\ \A r \in Regions : r # h => result'[r] = result[r]
  BY <1>1, <1>2, <1>3, <1>7, AppendedFacts DEF SchedTypes
<1>10. CodeIsGiven'
  BY <1>1, <1>3, <1>4 DEF CodeIsGiven
<1>11. SchedTypes'
  <2>1. cursor' \in 1..(NumValues + 1)
    BY <1>1, <1>3 DEF Values
  <2>2. DOMAIN mapped' \subseteq Values /\ \A w \in DOMAIN mapped' : mapped'[w] \in HomesIn(flow)
    BY <1>1, <1>3, <1>6, <1>8 DEF SchedTypes
  <2>. QED
    BY <1>1, <1>4, <1>9, <2>1, <2>2 DEF SchedTypes, Stages
<1>12. SchedStarts'
  BY <1>1, <1>3, <1>4, <1>8 DEF SchedStarts
<1>13. UsersAreFirst'
  <2>. SUFFICES ASSUME NEW w \in Computed \cap DOMAIN mapped' PROVE HasUsers(w)'
    BY <1>4 DEF UsersAreFirst
  <2>1. CASE w = v
    <3>1. Complete(w)' /\ UserRegions(w)' = UserRegions(w)
      BY <1>1, <1>5, <1>8, <2>1, UsersStay
    <3>. QED
      BY <1>4, <1>5, <1>6, <1>8, <2>1, <3>1 DEF HasUsers
  <2>2. CASE w # v
    <3>1. w \in DOMAIN mapped /\ HasUsers(w) /\ mapped'[w] = mapped[w]
      BY <1>3, <1>8, <2>2 DEF UsersAreFirst
    <3>2. Complete(w)' /\ UserRegions(w)' = UserRegions(w)
      BY <1>1, <1>8, <3>1, UsersStay DEF HasUsers
    <3>. QED
      BY <1>4, <3>1, <3>2 DEF HasUsers
  <2>. QED
    BY <2>1, <2>2
<1>14. MappedBelowPlaces'
  <2>. SUFFICES ASSUME NEW home \in [Values -> HomesIn(flow)], IsPlacement(code, home), NEW w \in DOMAIN mapped'
                PROVE  Dominates(home[w], mapped'[w])
    BY <1>1, <1>4 DEF MappedBelowPlaces, IsBelow
  <2>1. IsBelow(home)
    BY <1>1, <1>3 DEF MappedBelowPlaces
  <2>2. CASE w = v
    BY <1>6, <1>8, <2>2
  <2>3. CASE w # v
    BY <1>8, <2>1, <2>3 DEF IsBelow
  <2>. QED
    BY <2>2, <2>3
<1>15. SweptInVain'
  BY <1>1 DEF SweptInVain
<1>16. ListsAreMapped'
  <2>. SUFFICES ASSUME NEW w \in Values, NEW r \in Regions
                PROVE  w \in ToSet(result'[r]) <=> w \in Computed \cap DOMAIN mapped' /\ mapped'[w] = r
    BY <1>4 DEF ListsAreMapped
  <2>1. w \in ToSet(result[r]) <=> w \in Computed \cap DOMAIN mapped /\ mapped[w] = r
    BY <1>3 DEF ListsAreMapped
  <2>2. CASE r = h
    <3>1. ToSet(result'[r]) = ToSet(result[r]) \cup {v}
      <4>1. ToSet(Append(result[h], v)) = ToSet(result[h]) \cup {v}
        BY <1>1, <1>7, <1>9, AppendedFacts
      <4>. QED
        BY ONLY <1>9, <2>2, <4>1
    <3>. QED
      BY <1>5, <1>8, <2>1, <2>2, <3>1
  <2>3. CASE r # h
    BY <1>5, <1>8, <1>9, <2>1, <2>3
  <2>. QED
    BY <2>2, <2>3
<1>17. ListsAreOrdered'
  <2>. SUFFICES ASSUME NEW r \in Regions PROVE UsersComeFirst(result[r])'
    BY <1>1 DEF ListsAreOrdered
  <2>1. UsersComeFirst(result[r])
    BY <1>1, <1>3 DEF ListsAreOrdered
  <2>2. CASE r # h
    BY <1>1, <1>9, <2>1, <2>2 DEF UsersComeFirst
  <2>3. CASE r = h
    <3>. DEFINE s == result[r]
                t == Append(s, v)
    <3>1. s \in Seq(Values) /\ result'[r] = t
      BY <1>9, <2>3
    <3>2. /\ DOMAIN t = DOMAIN s \cup {Len(s) + 1} /\ t[Len(s) + 1] = v
          /\ \A i \in DOMAIN s : t[i] = s[i] /\ i \in Nat /\ i < Len(s) + 1
      BY <1>1, <3>1, AppendedFacts
    <3>3. \A i, j \in DOMAIN s : s[i] \in code.args[s[j]] => j < i
      BY <2>1 DEF UsersComeFirst
    <3>4. \A i \in DOMAIN s : s[i] \notin code.args[v]
      <4>. SUFFICES ASSUME NEW i \in DOMAIN s, s[i] \in code.args[v] PROVE FALSE
        OBVIOUS
      <4>1. s[i] \in Values /\ s[i] \in ToSet(result[r])
        BY <3>1 DEF ToSet
      <4>2. s[i] \in Computed \cap DOMAIN mapped
        BY <1>3, <4>1 DEF ListsAreMapped
      <4>3. Complete(s[i])
        BY <1>3, <4>2 DEF UsersAreFirst, HasUsers
      <4>4. v \in Consumers(s[i])
        BY <1>5 DEF Consumers
      <4>. QED
        BY <1>5, <4>3, <4>4 DEF Complete
    <3>5. v \notin code.args[v]
      <4>1. PICK rank \in [Values -> Values] : IsRank(code, rank)
        BY <1>3, CodeFacts
      <4>2. rank[v] \in Nat /\ v \in DOMAIN code.args
        BY <1>1, <1>3, <1>5, ProgramFacts DEF Values
      <4>. QED
        BY <4>1, <4>2 DEF IsRank
    <3>. HIDE DEF s, t
    <3>6. \A i, j \in DOMAIN t : t[i] \in code.args[t[j]] => j < i
      <4>. SUFFICES ASSUME NEW i \in DOMAIN t, NEW j \in DOMAIN t, t[i] \in code.args[t[j]] PROVE j < i
        OBVIOUS
      <4>1. j \in DOMAIN s
        BY <3>2, <3>4, <3>5
      <4>2. CASE i \in DOMAIN s
        BY <3>2, <3>3, <4>1, <4>2
      <4>3. CASE i = Len(s) + 1
        BY <3>2, <4>1, <4>3
      <4>. QED
        BY <3>2, <4>2, <4>3
    <3>. QED
      BY <1>1, <3>1, <3>6 DEF UsersComeFirst
  <2>. QED
    BY <2>2, <2>3
<1>. QED
  BY <1>10, <1>11, <1>12, <1>13, <1>14, <1>15, <1>16, <1>17 DEF SchedInv

-----------------------------------------------------------------------------
LEMMA LiveStartsWell ==
  ASSUME LiveInit
  PROVE  LiveInv
BY LoopStartsWell, ScheduleStarts DEF LiveInit, LiveInv

LEMMA LiveSteps ==
  ASSUME LiveInv, [LiveNext]_everything
  PROVE  LiveInv'
<1>1. LoopInv /\ SchedInv /\ DomInv
  BY DEF LiveInv, LoopInv
<1>2. CASE ScheduleNext /\ UNCHANGED loopVars
  <2>1. UNCHANGED allVars
    BY <1>2 DEF ScheduleNext, StartSchedule, Place, PassOver, SweepAgain, ScheduleDone, allVars
  <2>2. LoopInv'
    BY <1>1, <2>1, LoopSteps
  <2>3. SchedInv'
    BY <1>1, <1>2, StartKeepsSchedule, PlaceKeeps, PassOverKeeps, SweepAgainKeeps, ScheduleDoneKeeps DEF ScheduleNext
  <2>. QED
    BY <2>2, <2>3 DEF LiveInv
<1>3. ASSUME [LoopNext]_allVars, UNCHANGED scheduleVars PROVE LiveInv'
  <2>1. LoopInv'
    BY <1>1, <1>3, LoopSteps
  <2>2. [DomNext]_domVars
    <3>1. CASE Tree
      BY <3>1 DEF Tree
    <3>2. CASE UNCHANGED allVars
      BY <3>2 DEF allVars
    <3>3. CASE LoopNext /\ ~Tree
      BY <3>3 DEF LoopNext, StartFind, FindNone, FindLoop, FindAgain, StartFill, Skip, Include, Absorb, FillNext,
                  LinearRound, LinearDone, Returned, allVars
    <3>. QED
      BY <1>3, <3>1, <3>2, <3>3
  <2>3. SchedInv'
    BY <1>1, <1>3, <2>2, ScheduleStays
  <2>. QED
    BY <2>1, <2>3 DEF LiveInv
<1>4. CASE Analyses
  BY <1>2, <1>3, <1>4 DEF Analyses, LoopNext
<1>5. CASE StartNumbers \/ NumberRegion \/ StartIntervals \/ AnalyseRegion \/ LiveDone \/ Recalc \/ LiveReturned
  BY <1>3, <1>5 DEF StartNumbers, NumberRegion, StartIntervals, AnalyseRegion, LiveDone, Recalc, LiveReturned, everything
<1>6. CASE UNCHANGED everything
  BY <1>3, <1>6 DEF everything
<1>. QED
  BY <1>4, <1>5, <1>6 DEF LiveNext

LEMMA LiveInvariant == LiveSpec => []LiveInv
<1>1. LiveInv /\ [LiveNext]_everything => LiveInv'
  BY LiveSteps
<1>2. LiveInit => LiveInv
  BY LiveStartsWell
<1>. QED
  BY <1>1, <1>2, PTL DEF LiveSpec

-----------------------------------------------------------------------------
(* What leads to an unused node, by the number of steps.                   *)
Unused == {v \in Computed : Consumers(v) = {} /\ UserRegions(v) = {}}

Leads(found) ==
  /\ found[0] = Unused
  /\ \A k \in Nat : found[k + 1] = found[k] \cup {v \in Computed : Consumers(v) \cap found[k] # {}}

LEMMA LeadUnfolds ==
  \E found : Leads(found) /\ LeadToUnused = found[NumValues]
<1>. DEFINE T == SUBSET Computed
            Next1 == [S \in T |-> S \cup {v \in Computed : Consumers(v) \cap S # {}}]
            IsIt(f) == f = [k \in Nat |->
              IF k = 0 THEN {v \in Computed : Consumers(v) = {} /\ UserRegions(v) = {}}
              ELSE LET before == f[k - 1] IN before \cup {v \in Computed : Consumers(v) \cap before # {}}]
            f0 == CHOOSE f : IsIt(f)
<1>1. LeadToUnused = f0[NumValues]
  BY Zenon DEF LeadToUnused
<1>2. Unused \in T /\ Next1 \in [T -> T]
  BY DEF Unused
<1>3. PICK u \in [Nat -> T] : u[0] = Unused /\ \A k \in Nat : u[k + 1] = Next1[u[k]]
  <2>. HIDE DEF T, Next1
  <2>. QED
    BY <1>2, IterationExists
<1>4. IsIt(u)
  <2>1. ASSUME NEW k \in Nat
        PROVE  u[k] = IF k = 0 THEN {v \in Computed : Consumers(v) = {} /\ UserRegions(v) = {}}
                      ELSE u[k - 1] \cup {v \in Computed : Consumers(v) \cap u[k - 1] # {}}
    <3>1. CASE k = 0
      BY <1>3, <3>1 DEF Unused
    <3>2. CASE k # 0
      <4>1. k - 1 \in Nat /\ (k - 1) + 1 = k
        BY <3>2
      <4>2. u[(k - 1) + 1] = Next1[u[k - 1]] /\ u[k - 1] \in T
        BY <1>3, <4>1
      <4>3. u[k] = Next1[u[k - 1]]
        BY <4>1, <4>2
      <4>. QED
        BY <3>2, <4>2, <4>3
    <3>. QED
      BY <3>1, <3>2
  <2>2. u = [k \in Nat |-> u[k]]
    OBVIOUS
  <2>. QED
    BY <2>1, <2>2
<1>5. IsIt(f0)
  <2>. HIDE DEF IsIt
  <2>. QED
    BY <1>4
<1>. HIDE DEF f0
<1>6. ASSUME NEW k \in Nat
      PROVE  f0[k] = IF k = 0 THEN Unused ELSE f0[k - 1] \cup {v \in Computed : Consumers(v) \cap f0[k - 1] # {}}
  BY <1>5 DEF Unused
<1>7. f0[0] = Unused
  BY <1>6
<1>8. ASSUME NEW k \in Nat
      PROVE  f0[k + 1] = f0[k] \cup {v \in Computed : Consumers(v) \cap f0[k] # {}}
  <2>1. k + 1 \in Nat /\ k + 1 # 0 /\ (k + 1) - 1 = k
    OBVIOUS
  <2>2. f0[k + 1] = f0[(k + 1) - 1] \cup {v \in Computed : Consumers(v) \cap f0[(k + 1) - 1] # {}}
    BY <1>6, <2>1
  <2>. QED
    BY <2>1, <2>2
<1>9. Leads(f0)
  <2>. HIDE DEF IsIt
  <2>. QED
    BY <1>7, <1>8 DEF Leads
<1>. QED
  BY <1>1, <1>9

(* No node that was mapped leads to an unused one, and each that was not   *)
(* does: its users are not mapped either, up to one that has none.         *)
LEMMA LeftOutLemma ==
  ASSUME SchedInv, Scheduled
  PROVE  Values \ DOMAIN mapped = LeadToUnused
<1>1. /\ CodeIsGiven /\ SchedTypes /\ SchedStarts /\ UsersAreFirst /\ NumValues \in Nat
      /\ \A v \in Values : ~Ready(v)
      /\ Phis \subseteq DOMAIN mapped /\ DOMAIN mapped \subseteq Values
  BY NumValuesAssumption DEF SchedInv, SweptInVain, SchedStarts, SchedTypes, Scheduled
<1>2. PICK found : Leads(found) /\ LeadToUnused = found[NumValues]
  BY LeadUnfolds
<1>3. /\ found[0] = Unused
      /\ \A k \in Nat : found[k + 1] = found[k] \cup {v \in Computed : Consumers(v) \cap found[k] # {}}
  BY <1>2 DEF Leads
<1>4. \A v \in Computed \cap DOMAIN mapped : Consumers(v) \subseteq DOMAIN mapped /\ UserRegions(v) # {}
  BY <1>1 DEF UsersAreFirst, HasUsers, Complete
<1>5. LeadToUnused \subseteq Values \ DOMAIN mapped
  <2>. DEFINE Good == {k \in Nat : found[k] \subseteq Computed \ DOMAIN mapped}
  <2>1. 0 \in Good
    BY <1>3, <1>4 DEF Unused
  <2>2. ASSUME NEW k \in Nat, k \in Good PROVE k + 1 \in Good
    BY <1>3, <1>4, <2>2
  <2>3. \A k \in Nat : k \in Good
    <3>. HIDE DEF Good
    <3>. QED
      BY <2>1, <2>2, Induction
  <2>. QED
    BY <1>1, <1>2, <2>3 DEF Computed
<1>6. \A v \in Values \ DOMAIN mapped : v \in Computed /\ (v \in Unused \/ \E u \in Consumers(v) : u \notin DOMAIN mapped)
  <2>. SUFFICES ASSUME NEW v \in Values \ DOMAIN mapped, Consumers(v) \subseteq DOMAIN mapped
                PROVE  v \in Computed /\ v \in Unused
    BY <1>1 DEF Computed
  <2>1. v \in Computed
    BY <1>1 DEF Computed
  <2>2. UserRegions(v) = {}
    BY <1>1 DEF Ready, Complete
  <2>3. Consumers(v) = {}
    <3>1. Consumers(v) \cap DOMAIN mapped = {}
      BY <2>2 DEF UserRegions
    <3>. QED
      BY <3>1
  <2>. QED
    BY <2>1, <2>2, <2>3 DEF Unused
<1>7. PICK rank \in [Values -> Values] : IsRank(code, rank)
  BY <1>1, CodeFacts
<1>8. \A v \in Values : rank[v] \in Nat /\ rank[v] <= NumValues
  BY <1>1, <1>7 DEF Values
<1>9. \A v : \A u \in Consumers(v) : u \in Values /\ rank[v] < rank[u]
  BY <1>1, <1>7, ProgramFacts DEF IsRank, Consumers
<1>. DEFINE High(k) == {v \in Values \ DOMAIN mapped : NumValues <= rank[v] + k}
            Good == {k \in Nat : High(k) \subseteq found[k]}
<1>10. 0 \in Good
  <2>. SUFFICES ASSUME NEW v \in Values \ DOMAIN mapped, NumValues <= rank[v] + 0 PROVE v \in Unused
    BY <1>3
  <2>. SUFFICES ASSUME NEW u \in Consumers(v) PROVE FALSE
    BY <1>6
  <2>. QED
    BY <1>1, <1>8, <1>9
<1>11. ASSUME NEW k \in Nat, k \in Good PROVE k + 1 \in Good
  <2>. SUFFICES ASSUME NEW v \in Values \ DOMAIN mapped, NumValues <= rank[v] + (k + 1) PROVE v \in found[k + 1]
    OBVIOUS
  <2>1. CASE v \in Unused
    <3>. DEFINE Has == {j \in Nat : v \in found[j]}
    <3>1. 0 \in Has /\ \A j \in Nat : j \in Has => j + 1 \in Has
      BY <1>3, <2>1
    <3>2. \A j \in Nat : j \in Has
      <4>. HIDE DEF Has
      <4>. QED
        BY <3>1, Induction
    <3>. QED
      BY <3>2
  <2>2. CASE v \notin Unused
    <3>1. PICK u \in Consumers(v) : u \notin DOMAIN mapped
      BY <1>6, <2>2
    <3>2. u \in Values /\ NumValues <= rank[u] + k
      BY <1>1, <1>8, <1>9, <3>1
    <3>3. u \in found[k]
      BY <1>11, <3>1, <3>2
    <3>. QED
      BY <1>3, <1>6, <3>1, <3>3
  <2>. QED
    BY <2>1, <2>2
<1>12. NumValues \in Good
  <2>. HIDE DEF Good
  <2>. QED
    BY <1>1, <1>10, <1>11, Induction
<1>13. Values \ DOMAIN mapped \subseteq LeadToUnused
  BY <1>1, <1>2, <1>8, <1>12
<1>. QED
  BY <1>5, <1>13

(* dataSchedule leaves out exactly the nodes that only lead to unused      *)
(* ones, and lists every other computed node in its region.                *)
THEOREM OnlyUnusedAreLeftOut == LiveSpec => []LeftOut
<1>1. ASSUME LiveInv PROVE LeftOut
  <2>1. SchedInv /\ ListsAreMapped /\ Computed \subseteq Values
    BY <1>1 DEF LiveInv, SchedInv, Computed
  <2>. QED
    BY <2>1, LeftOutLemma DEF LeftOut, ListsAreMapped
<1>. QED
  BY <1>1, LiveInvariant, PTL

(* dataSchedule puts a node where all its users can see it, if the tree    *)
(* names no false dominator, and before them in any case.                  *)
THEOREM SchedulesAreLegal == LiveSpec => []ScheduleIsLegal
<1>1. ASSUME LiveInv, Scheduled PROVE UsesAreDominated \/ ~DominatorsAreTrue
  <2>. SUFFICES ASSUME DominatorsAreTrue PROVE UsesAreDominated
    OBVIOUS
  <2>1. DomInv /\ Built /\ CodeIsGiven /\ SchedTypes /\ SchedStarts /\ UsersAreFirst /\ MappedBelowPlaces
    BY <1>1 DEF LiveInv, LoopInv, SchedInv, SchedStarts, Scheduled
  <2>2. \A a, b \in HomesIn(flow) : Dominates(a, b) => TrulyDominates(flow, a, b)
    BY <2>1, HomeFacts DEF DominatorsAreTrue
  <2>3. PICK home \in [Values -> HomesIn(flow)] : IsPlacement(code, home)
    BY <2>1, CodeFacts
  <2>4. \A v \in DOMAIN mapped : mapped[v] \in HomesIn(flow) /\ v \in Values /\ TrulyDominates(flow, home[v], mapped[v])
    <3>1. IsBelow(home)
      BY <1>1, <2>1, <2>3 DEF MappedBelowPlaces, Scheduled
    <3>. QED
      BY <2>1, <2>2, <3>1 DEF IsBelow, SchedTypes
  <2>5. ASSUME NEW v \in Computed \cap DOMAIN mapped, NEW u \in UserRegions(v)
        PROVE  TrulyDominates(flow, mapped[v], u)
    <3>1. Dominates(mapped[v], u)
      BY <2>1 DEF UsersAreFirst, HasUsers
    <3>2. u \in HomesIn(flow)
      BY <2>1, UserRegionsAreHomes
    <3>. QED
      BY <2>2, <2>4, <3>1, <3>2
  <2>6. \A v \in Phis : mapped[v] = home[v] /\ v \in Values
    BY <1>1, <2>1, <2>3, ProgramFacts DEF SchedStarts, Scheduled, IsPlacement, Phis
  <2>7. flow = code.flow
    BY <2>1, CodeFacts
  <2>8. ASSUME NEW v \in Computed \cap DOMAIN mapped, NEW a \in code.args[v] \cap DOMAIN mapped
        PROVE  TrulyDominates(flow, mapped[a], mapped[v])
    <3>1. CASE a \in Computed
      <4>1. v \in Consumers(a)
        BY DEF Consumers
      <4>2. mapped[v] \in UserRegions(a)
        BY <4>1 DEF UserRegions
      <4>. QED
        BY <2>5, <3>1, <4>2
    <3>2. CASE a \notin Computed
      <4>1. a \in Phis /\ mapped[a] = home[a] /\ v \in DOMAIN code.args
        BY <2>1, <2>4, <2>6, <3>2, ProgramFacts DEF Computed
      <4>2. TrulyDominates(flow, home[a], home[v])
        BY <2>3, <2>7, <4>1 DEF IsPlacement
      <4>. QED
        BY <2>4, <4>1, <4>2, DominationIsTransitive
    <3>. QED
      BY <3>1, <3>2
  <2>9. ASSUME NEW v \in Computed \cap DOMAIN mapped, NEW r \in PhiRegions(v)
        PROVE  TrulyDominates(flow, mapped[v], r)
    BY <2>5 DEF UserRegions
  <2>10. ASSUME NEW v \in DOMAIN mapped, NEW r \in Regions, v \in code.needs[r]
         PROVE  TrulyDominates(flow, mapped[v], r)
    <3>1. CASE v \in Computed
      BY <2>5, <2>10, <3>1 DEF UserRegions
    <3>2. CASE v \notin Computed
      <4>1. v \in Phis
        BY <2>4, <3>2 DEF Computed
      <4>. QED
        BY <2>3, <2>6, <2>7, <2>10, <4>1 DEF IsPlacement
    <3>. QED
      BY <3>1, <3>2
  <2>. QED
    BY <2>8, <2>9, <2>10 DEF UsesAreDominated
<1>2. ASSUME LiveInv, Scheduled
      PROVE  \A r \in Regions : \A i, j \in DOMAIN result[r] : result[r][i] \in code.args[result[r][j]] => i < j
  BY <1>2 DEF LiveInv, SchedInv, ListsAreOrdered, OperandsComeFirst, Scheduled
<1>3. LiveInv => ScheduleIsLegal
  BY <1>1, <1>2 DEF ScheduleIsLegal
<1>. QED
  BY <1>3, LiveInvariant, PTL

-----------------------------------------------------------------------------
(* What the intervals hold. *)
Pair == [first : Nat, second : Nat]

LiveTypes ==
  /\ analysis \in {"passes", "numbers", "intervals", "done"} /\ position \in Nat
  /\ liveNumber \in [Values -> Nat] /\ span \in [Regions -> Pair] /\ interval \in [Values -> Pair]
  /\ analysis = "passes" => position = 1
  /\ analysis = "numbers" => position \in 1..(Len(line) + 1)
  /\ analysis = "intervals" => position \in 0..Len(line)

(* The passes come before what uses their results. *)
PassesComeFirst ==
  /\ pass # "tree" => Scheduled
  /\ analysis # "passes" => pass = "linearized"

(* The instructions of r have numbers within the range of r, in order.     *)
NumberedIn(r) ==
  /\ span[r].first <= span[r].second
  /\ \A v \in ToSet(result[r]) : \E k \in DOMAIN result[r] :
       /\ result[r][k] = v /\ liveNumber[v] = span[r].first + 2 * k
       /\ liveNumber[v] + 2 <= span[r].second

(* The regions before n on the line have their numbers, one after the other. *)
NumbersAscend(n) ==
  /\ \A i \in DOMAIN line : i < n => NumberedIn(line[i])
  /\ \A i, j \in DOMAIN line : i < j /\ j < n => span[line[i]].second <= span[line[j]].first

NumbersAreGiven ==
  /\ analysis = "numbers" => NumbersAscend(position)
  /\ analysis \in {"intervals", "done"} => NumbersAscend(Len(line) + 1)

(* What the instructions in S tell about intervals. *)
HoldsUses(intervals, S) ==
  \A u \in S :
    /\ intervals[u].first <= liveNumber[u] /\ liveNumber[u] + 2 <= intervals[u].second
    /\ \A v \in code.args[u] :
         /\ liveNumber[u] <= intervals[v].second
         /\ v \in S => intervals[v].first <= liveNumber[u]

(* The instructions in the regions behind n on the line. *)
Behind(n) == {v \in Computed : \E i \in DOMAIN line : i > n /\ v \in ToSet(result[line[i]])}

MetAreHeld ==
  /\ analysis = "intervals" => HoldsUses(interval, Behind(position))
  /\ analysis = "done" => HoldsUses(interval, Behind(0))

IntervalInv == LiveTypes /\ PassesComeFirst /\ NumbersAreGiven /\ MetAreHeld

-----------------------------------------------------------------------------
LEMMA BothFacts ==
  ASSUME NEW a \in Nat, NEW b \in Nat
  PROVE  /\ Min({a, b}) \in Nat /\ Min({a, b}) <= a /\ Min({a, b}) <= b
         /\ Max({a, b}) \in Nat /\ Max({a, b}) >= a /\ Max({a, b}) >= b
<1>1. \E x \in {a, b} : \A y \in {a, b} : x =< y
  <2>1. CASE a <= b
    BY <2>1
  <2>2. CASE b <= a
    BY <2>2
  <2>. QED
    BY <2>1, <2>2
<1>2. \E x \in {a, b} : \A y \in {a, b} : x >= y
  <2>1. CASE a <= b
    BY <2>1
  <2>2. CASE b <= a
    BY <2>2
  <2>. QED
    BY <2>1, <2>2
<1>3. Min({a, b}) \in {a, b} /\ \A y \in {a, b} : Min({a, b}) =< y
  BY <1>1 DEF Min
<1>4. Max({a, b}) \in {a, b} /\ \A y \in {a, b} : Max({a, b}) >= y
  BY <1>2 DEF Max
<1>. QED
  BY <1>3, <1>4

LEMMA MaxFacts ==
  ASSUME NEW S, S \subseteq Nat, S # {}, NEW b \in Nat, \A x \in S : x <= b
  PROVE  Max(S) \in Nat /\ Max(S) \in S /\ \A x \in S : x <= Max(S)
<1>. DEFINE B == {n \in Nat : \A x \in S : x <= n}
<1>1. PICK m \in B : \A k \in B : m <= k
  <2>1. B \subseteq Nat /\ b \in B
    OBVIOUS
  <2>. HIDE DEF B
  <2>. QED
    BY <2>1, LeastNumber
<1>2. m \in S
  <2>. SUFFICES ASSUME m \notin S PROVE FALSE
    OBVIOUS
  <2>1. \A x \in S : x \in Nat /\ m \in Nat /\ x < m
    BY <1>1
  <2>2. PICK x \in S : TRUE
    OBVIOUS
  <2>3. m - 1 \in Nat
    BY <2>1, <2>2
  <2>4. \A y \in S : y <= m - 1
    BY <2>1
  <2>5. m - 1 \in B
    BY <2>3, <2>4
  <2>. QED
    BY <1>1, <2>1, <2>2, <2>5
<1>3. \A y \in S : m >= y
  BY <1>1
<1>4. Max(S) \in S /\ \A y \in S : Max(S) >= y
  BY <1>2, <1>3 DEF Max
<1>. QED
  BY <1>4

(* A wider interval still holds what it held. *)
LEMMA WidenedFacts ==
  ASSUME NEW intervals \in [Values -> Pair], NEW S, NEW a \in Nat, NEW b \in Nat
  PROVE  /\ Widened(intervals, S, a, b) \in [Values -> Pair]
         /\ \A v \in Values : /\ Widened(intervals, S, a, b)[v].first <= intervals[v].first
                              /\ Widened(intervals, S, a, b)[v].second >= intervals[v].second
                              /\ v \in S => /\ Widened(intervals, S, a, b)[v].first <= a
                                            /\ Widened(intervals, S, a, b)[v].second >= b
<1>. DEFINE w == [v \in Values |->
             IF v \notin S THEN intervals[v]
             ELSE [first |-> Min({a, intervals[v].first}), second |-> Max({b, intervals[v].second})]]
<1>1. Widened(intervals, S, a, b) = w
  BY DEF Widened
<1>2. ASSUME NEW v \in Values
      PROVE  /\ w[v] \in Pair
             /\ w[v].first <= intervals[v].first /\ w[v].second >= intervals[v].second
             /\ v \in S => w[v].first <= a /\ w[v].second >= b
  <2>1. intervals[v].first \in Nat /\ intervals[v].second \in Nat /\ intervals[v] \in Pair
    BY DEF Pair
  <2>2. /\ Min({a, intervals[v].first}) \in Nat /\ Min({a, intervals[v].first}) <= a
        /\ Min({a, intervals[v].first}) <= intervals[v].first
        /\ Max({b, intervals[v].second}) \in Nat /\ Max({b, intervals[v].second}) >= b
        /\ Max({b, intervals[v].second}) >= intervals[v].second
    BY <2>1, BothFacts
  <2>3. CASE v \in S
    <3>1. w[v] = [first |-> Min({a, intervals[v].first}), second |-> Max({b, intervals[v].second})]
      BY <2>3
    <3>2. w[v].first = Min({a, intervals[v].first}) /\ w[v].second = Max({b, intervals[v].second}) /\ w[v] \in Pair
      BY <2>2, <3>1 DEF Pair
    <3>. QED
      BY <2>2, <3>2
  <2>4. CASE v \notin S
    <3>1. w[v] = intervals[v]
      BY <2>4
    <3>. QED
      BY <2>1, <2>4, <3>1
  <2>. QED
    BY <2>3, <2>4
<1>3. w \in [Values -> Pair]
  BY <1>2
<1>. QED
  BY <1>1, <1>2, <1>3

LEMMA WiderHolds ==
  ASSUME CodeIsGiven, liveNumber \in [Values -> Nat], NEW f \in [Values -> Pair], NEW g \in [Values -> Pair],
         NEW S, S \subseteq Computed, HoldsUses(f, S),
         \A v \in Values : v \in S => g[v].first <= f[v].first,
         \A v \in Values : f[v].second <= g[v].second
  PROVE  HoldsUses(g, S)
<1>1. ASSUME NEW v \in Values
      PROVE  /\ f[v].first \in Nat /\ f[v].second \in Nat /\ g[v].first \in Nat /\ g[v].second \in Nat
             /\ liveNumber[v] \in Nat
  BY DEF Pair
<1>2. \A u \in S : u \in Values /\ code.args[u] \subseteq Values
  BY ProgramFacts
<1>3. ASSUME NEW u \in S
      PROVE  g[u].first <= liveNumber[u] /\ liveNumber[u] + 2 <= g[u].second
  BY <1>1, <1>2 DEF HoldsUses
<1>4. ASSUME NEW u \in S, NEW v \in code.args[u]
      PROVE  liveNumber[u] <= g[v].second /\ (v \in S => g[v].first <= liveNumber[u])
  <2>1. u \in Values /\ v \in Values
    BY <1>2
  <2>2. liveNumber[u] <= f[v].second /\ (v \in S => f[v].first <= liveNumber[u])
    BY DEF HoldsUses
  <2>. QED
    BY <1>1, <2>1, <2>2
<1>. QED
  BY <1>3, <1>4 DEF HoldsUses

(* An instruction is met: its operands were not, or it is behind them.     *)
Starting(f, v) ==
  [f EXCEPT ![v] = [first |-> liveNumber[v], second |-> Max({@.second, liveNumber[v] + 2})]]

LEMMA MetHolds ==
  ASSUME CodeIsGiven, liveNumber \in [Values -> Nat], NEW r, span[r] \in Pair,
         NEW f \in [Values -> Pair], NEW S, S \subseteq Computed, HoldsUses(f, S),
         NEW v \in Computed, span[r].first <= liveNumber[v],
         \A u \in S : v \in code.args[u] => liveNumber[v] <= liveNumber[u],
         v \notin code.args[v],
         NEW m, m.intervals = f
  PROVE  /\ Met(v, r, m).intervals \in [Values -> Pair]
         /\ HoldsUses(Met(v, r, m).intervals, S \cup {v})
<1>. DEFINE e == Starting(f, v)
            w == Widened(e, code.args[v], span[r].first, liveNumber[v])
<1>1. Met(v, r, m).intervals = w
  BY DEF Met, Starting
<1>2. v \in Values /\ \A u \in Computed : u \in Values /\ code.args[u] \subseteq Values
  BY ProgramFacts
<1>3. liveNumber[v] \in Nat /\ span[r].first \in Nat /\ f[v].second \in Nat
  BY <1>2 DEF Pair
<1>4. /\ Max({f[v].second, liveNumber[v] + 2}) \in Nat /\ Max({f[v].second, liveNumber[v] + 2}) >= f[v].second
      /\ Max({f[v].second, liveNumber[v] + 2}) >= liveNumber[v] + 2
  BY <1>3, BothFacts
<1>5. /\ e \in [Values -> Pair] /\ e[v].first = liveNumber[v]
      /\ e[v].second >= f[v].second /\ e[v].second >= liveNumber[v] + 2
      /\ \A u \in Values : u # v => e[u] = f[u]
  <2>1. e = [u \in Values |-> IF u = v THEN [first |-> liveNumber[v], second |-> Max({f[v].second, liveNumber[v] + 2})]
                              ELSE f[u]]
    BY DEF Starting
  <2>2. [first |-> liveNumber[v], second |-> Max({f[v].second, liveNumber[v] + 2})] \in Pair
    BY <1>3, <1>4 DEF Pair
  <2>. HIDE DEF e
  <2>. QED
    BY <1>2, <1>4, <2>1, <2>2
<1>. HIDE DEF e
<1>6. /\ w \in [Values -> Pair]
      /\ \A u \in Values : /\ w[u].first <= e[u].first /\ w[u].second >= e[u].second
                           /\ u \in code.args[v] => w[u].first <= span[r].first /\ w[u].second >= liveNumber[v]
  BY <1>3, <1>5, WidenedFacts
<1>. HIDE DEF w
<1>7. ASSUME NEW u \in Values
      PROVE  /\ f[u].first \in Nat /\ f[u].second \in Nat /\ e[u].first \in Nat /\ e[u].second \in Nat
             /\ w[u].first \in Nat /\ w[u].second \in Nat /\ liveNumber[u] \in Nat
             /\ f[u].second <= e[u].second /\ e[u].second <= w[u].second /\ f[u].second <= w[u].second
             /\ w[u].first <= e[u].first
  <2>1. /\ f[u].first \in Nat /\ f[u].second \in Nat /\ e[u].first \in Nat /\ e[u].second \in Nat
        /\ w[u].first \in Nat /\ w[u].second \in Nat /\ liveNumber[u] \in Nat
    BY <1>5, <1>6 DEF Pair
  <2>2. f[u].second <= e[u].second
    BY <1>5, <2>1
  <2>. QED
    BY <1>6, <2>1, <2>2
<1>8. ASSUME NEW u \in S \cup {v}
      PROVE  w[u].first <= liveNumber[u] /\ liveNumber[u] + 2 <= w[u].second
  <2>1. CASE u = v
    BY <1>2, <1>5, <1>7, <2>1
  <2>2. CASE u # v
    <3>1. u \in Values /\ u \in S /\ e[u] = f[u]
      BY <1>2, <1>5, <2>2
    <3>2. f[u].first <= liveNumber[u] /\ liveNumber[u] + 2 <= f[u].second
      BY <3>1 DEF HoldsUses
    <3>. QED
      BY <1>7, <3>1, <3>2
  <2>. QED
    BY <2>1, <2>2
<1>9. ASSUME NEW u \in S \cup {v}, NEW a \in code.args[u]
      PROVE  liveNumber[u] <= w[a].second /\ (a \in S \cup {v} => w[a].first <= liveNumber[u])
  <2>1. u \in Values /\ a \in Values
    BY <1>2
  <2>2. CASE u = v
    <3>1. w[a].first <= span[r].first /\ w[a].second >= liveNumber[v]
      BY <1>6, <2>1, <2>2
    <3>. QED
      BY <1>3, <1>7, <2>1, <2>2, <3>1
  <2>3. CASE u # v
    <3>1. u \in S
      BY <2>3
    <3>2. liveNumber[u] <= f[a].second /\ (a \in S => f[a].first <= liveNumber[u])
      BY <3>1 DEF HoldsUses
    <3>3. CASE a = v
      <4>1. liveNumber[v] <= liveNumber[u]
        BY <3>1, <3>3
      <4>. QED
        BY <1>5, <1>7, <2>1, <3>2, <3>3, <4>1
    <3>4. CASE a # v
      <4>1. e[a] = f[a]
        BY <1>5, <2>1, <3>4
      <4>. QED
        BY <1>7, <2>1, <3>2, <3>4, <4>1
    <3>. QED
      BY <3>3, <3>4
  <2>. QED
    BY <2>2, <2>3
<1>10. HoldsUses(w, S \cup {v})
  BY <1>8, <1>9 DEF HoldsUses
<1>. QED
  BY <1>1, <1>6, <1>10

(* A region as dataSchedule and _liveNumbers leave it. *)
InReach(r) ==
  /\ result[r] \in Seq(Values) /\ ToSet(result[r]) \subseteq Computed
  /\ OperandsComeFirst(result[r]) /\ NumberedIn(r) /\ span[r] \in Pair

LEMMA ReachFacts ==
  ASSUME CodeIsGiven, liveNumber \in [Values -> Nat], NEW r, InReach(r)
  PROVE  /\ Len(result[r]) \in Nat
         /\ \A i \in 1..Len(result[r]) : /\ result[r][i] \in Computed /\ span[r].first <= liveNumber[result[r][i]]
                                         /\ result[r][i] \notin code.args[result[r][i]]
         /\ \A v, u \in ToSet(result[r]) : v \in code.args[u] => liveNumber[v] <= liveNumber[u]
<1>1. /\ result[r] \in Seq(Values) /\ Len(result[r]) \in Nat /\ DOMAIN result[r] = 1..Len(result[r])
      /\ ToSet(result[r]) = {result[r][i] : i \in DOMAIN result[r]}
      /\ span[r].first \in Nat
  BY DEF InReach, Pair, ToSet
<1>2. ASSUME NEW v \in ToSet(result[r])
      PROVE  /\ v \in Computed /\ v \in Values
             /\ \E k \in DOMAIN result[r] : result[r][k] = v /\ liveNumber[v] = span[r].first + 2 * k
  BY ProgramFacts DEF InReach, NumberedIn
<1>3. ASSUME NEW v \in ToSet(result[r]), NEW u \in ToSet(result[r]), v \in code.args[u]
      PROVE  liveNumber[v] <= liveNumber[u]
  <2>1. PICK k \in 1..Len(result[r]) : result[r][k] = v /\ liveNumber[v] = span[r].first + 2 * k
    BY <1>1, <1>2
  <2>2. PICK l \in 1..Len(result[r]) : result[r][l] = u /\ liveNumber[u] = span[r].first + 2 * l
    BY <1>1, <1>2
  <2>3. k < l
    BY <1>1, <1>3, <2>1, <2>2 DEF InReach, OperandsComeFirst
  <2>4. k \in Nat /\ l \in Nat /\ span[r].first \in Nat
    BY <1>1
  <2>. QED
    BY <2>1, <2>2, <2>3, <2>4
<1>4. ASSUME NEW i \in 1..Len(result[r])
      PROVE  /\ result[r][i] \in Computed /\ span[r].first <= liveNumber[result[r][i]]
             /\ result[r][i] \notin code.args[result[r][i]]
  <2>. DEFINE v == result[r][i]
  <2>1. v \in ToSet(result[r])
    BY <1>1
  <2>2. v \notin code.args[v]
    <3>. SUFFICES ASSUME v \in code.args[v] PROVE FALSE
      OBVIOUS
    <3>1. i < i
      BY <1>1 DEF InReach, OperandsComeFirst
    <3>. QED
      BY <3>1
  <2>3. PICK k \in 1..Len(result[r]) : liveNumber[v] = span[r].first + 2 * k
    BY <1>1, <1>2, <2>1
  <2>4. span[r].first <= liveNumber[v]
    <3>. HIDE DEF v
    <3>. QED
      BY <1>1, <2>3
  <2>. QED
    BY <1>2, <2>1, <2>2, <2>4
<1>. QED
  BY <1>1, <1>3, <1>4

MetSteps(met, r, start) ==
  /\ met[0] = start
  /\ \A k \in 1..Len(result[r]) : met[k] = Met(result[r][Len(result[r]) + 1 - k], r, met[k - 1])

LEMMA MetUnfolds ==
  ASSUME CodeIsGiven, liveNumber \in [Values -> Nat], NEW r, InReach(r),
         NEW start, NEW U, Values \subseteq U,
         start \in [live : SUBSET U, intervals : [Values -> Pair]]
  PROVE  \E met : MetSteps(met, r, start) /\ MetAll(r, start) = met[Len(result[r])]
<1>. DEFINE T == [live : SUBSET U, intervals : [Values -> Pair]]
            list == result[r]
            n == Len(list)
            nth(k) == list[n + 1 - k]
            step == [k \in Nat |-> [m \in T |-> IF k < n THEN Met(list[n - k], r, m) ELSE m]]
            IsIt(f) == f = [k \in 0..n |-> IF k = 0 THEN start ELSE Met(nth(k), r, f[k - 1])]
            f0 == CHOOSE f : IsIt(f)
<1>1. MetAll(r, start) = f0[n]
  BY Zenon DEF MetAll
<1>2. n \in Nat /\ \A i \in 1..n : list[i] \in Computed /\ span[r].first <= liveNumber[list[i]] /\ list[i] \notin code.args[list[i]]
  BY ReachFacts
<1>3. ASSUME NEW m \in T, NEW i \in 1..n
      PROVE  Met(list[i], r, m) \in T
  <2>1. HoldsUses(m.intervals, {}) /\ span[r] \in Pair
    BY DEF HoldsUses, InReach
  <2>2. Met(list[i], r, m).intervals \in [Values -> Pair]
    <3>. DEFINE f == m.intervals
    <3>. DEFINE none == {}
    <3>1. /\ f \in [Values -> Pair] /\ m.intervals = f /\ HoldsUses(f, none) /\ none \subseteq Computed
          /\ \A u : u \notin none
      BY <2>1
    <3>. DEFINE v == list[i]
    <3>2. v \in Computed /\ span[r].first <= liveNumber[v] /\ v \notin code.args[v]
      BY <1>2
    <3>. HIDE DEF f, v, none
    <3>3. Met(v, r, m).intervals \in [Values -> Pair]
      BY <2>1, <3>1, <3>2, MetHolds
    <3>. QED
      BY <3>3 DEF v
  <2>3. code.args[list[i]] \subseteq Values
    BY <1>2, ProgramFacts
  <2>4. /\ Met(list[i], r, m) = [live |-> Met(list[i], r, m).live, intervals |-> Met(list[i], r, m).intervals]
        /\ Met(list[i], r, m).live = (m.live \ {list[i]}) \cup code.args[list[i]]
    BY DEF Met
  <2>5. Met(list[i], r, m).live \in SUBSET U
    BY <2>3, <2>4
  <2>. QED
    BY <2>2, <2>4, <2>5
<1>4. step \in Steps(T)
  <2>1. ASSUME NEW k \in Nat, NEW m \in T
        PROVE  (IF k < n THEN Met(list[n - k], r, m) ELSE m) \in T
    <3>1. CASE k < n
      <4>1. n - k \in 1..n
        BY <1>2, <3>1
      <4>. QED
        BY <1>3, <3>1, <4>1
    <3>. QED
      BY <3>1
  <2>. HIDE DEF T, list, n
  <2>. QED
    BY <2>1 DEF Steps
<1>5. PICK g \in [Nat -> T] : Follows(g, start, step)
  <2>1. start \in T
    OBVIOUS
  <2>. HIDE DEF T, step
  <2>. QED
    BY <1>4, <2>1, RecursionExists
<1>6. g[0] = start /\ \A k \in 1..n : g[k] = Met(nth(k), r, g[k - 1])
  <2>1. g[0] = start /\ \A k \in Nat : g[k + 1] = step[k][g[k]]
    BY <1>5 DEF Follows
  <2>2. ASSUME NEW k \in 1..n PROVE g[k] = Met(nth(k), r, g[k - 1])
    <3>1. k - 1 \in Nat /\ (k - 1) + 1 = k /\ k - 1 < n /\ n - (k - 1) = n + 1 - k
      BY <1>2
    <3>2. g[k] = step[k - 1][g[k - 1]] /\ g[k - 1] \in T
      BY <2>1, <3>1
    <3>. HIDE DEF T, n
    <3>3. step[k - 1][g[k - 1]] = Met(list[n - (k - 1)], r, g[k - 1])
      BY <3>1, <3>2
    <3>. QED
      BY <3>1, <3>2, <3>3
  <2>. QED
    BY <2>1, <2>2
<1>. DEFINE h == [k \in 0..n |-> g[k]]
<1>7. IsIt(h)
  <2>1. ASSUME NEW k \in 0..n PROVE h[k] = IF k = 0 THEN start ELSE Met(nth(k), r, h[k - 1])
    <3>1. CASE k = 0
      BY <1>6, <3>1
    <3>2. CASE k # 0
      <4>1. k \in 1..n /\ k - 1 \in 0..n /\ h[k] = g[k] /\ h[k - 1] = g[k - 1]
        BY <1>2, <3>2
      <4>. HIDE DEF h, n, list
      <4>. QED
        BY <1>6, <3>2, <4>1
    <3>. QED
      BY <3>1, <3>2
  <2>2. h = [k \in 0..n |-> h[k]]
    OBVIOUS
  <2>. HIDE DEF h, n, list
  <2>. QED
    BY <2>1, <2>2
<1>8. IsIt(f0)
  <2>. HIDE DEF IsIt
  <2>. QED
    BY <1>7
<1>. HIDE DEF f0
<1>9. f0[0] = start /\ \A k \in 1..n : f0[k] = Met(nth(k), r, f0[k - 1])
  <2>. HIDE DEF n, list
  <2>. QED
    BY <1>2, <1>8
<1>10. MetSteps(f0, r, start)
  BY <1>9 DEF MetSteps
<1>. QED
  BY <1>1, <1>10

(* When all instructions of a region are met, their intervals hold them    *)
(* as well.                                                                *)
LEMMA MetAllHolds ==
  ASSUME CodeIsGiven, liveNumber \in [Values -> Nat], NEW r, InReach(r),
         NEW start, NEW U, Values \subseteq U,
         start \in [live : SUBSET U, intervals : [Values -> Pair]],
         NEW S, S \subseteq Computed, HoldsUses(start.intervals, S),
         \A v \in ToSet(result[r]) : \A u \in S : v \in code.args[u] => liveNumber[v] <= liveNumber[u]
  PROVE  /\ MetAll(r, start).intervals \in [Values -> Pair]
         /\ HoldsUses(MetAll(r, start).intervals, S \cup ToSet(result[r]))
<1>. DEFINE list == result[r]
            n == Len(list)
            Met1(k) == {list[i] : i \in (n + 1 - k)..n}
<1>1. PICK met : MetSteps(met, r, start) /\ MetAll(r, start) = met[n]
  BY MetUnfolds
<1>2. /\ n \in Nat
      /\ \A i \in 1..n : list[i] \in Computed /\ span[r].first <= liveNumber[list[i]] /\ list[i] \notin code.args[list[i]]
      /\ \A v, u \in ToSet(list) : v \in code.args[u] => liveNumber[v] <= liveNumber[u]
  BY ReachFacts
<1>3. ToSet(list) = {list[i] : i \in 1..n} /\ span[r] \in Pair
  BY DEF InReach, ToSet
<1>. HIDE DEF list, n
<1>. DEFINE Good == {k \in Nat : k <= n => /\ met[k].intervals \in [Values -> Pair]
                                          /\ HoldsUses(met[k].intervals, S \cup Met1(k))}
<1>4. 0 \in Good
  <2>1. Met1(0) = {}
    BY <1>2
  <2>2. met[0] = start /\ S \cup {} = S
    BY <1>1 DEF MetSteps
  <2>. QED
    BY <2>1, <2>2
<1>5. ASSUME NEW k \in Nat, k \in Good PROVE k + 1 \in Good
  <2>. SUFFICES ASSUME k + 1 <= n
                PROVE  /\ met[k + 1].intervals \in [Values -> Pair]
                       /\ HoldsUses(met[k + 1].intervals, S \cup Met1(k + 1))
    OBVIOUS
  <2>. DEFINE v == list[n - k]
  <2>1. n - k \in 1..n /\ k + 1 \in 1..n /\ (k + 1) - 1 = k /\ n + 1 - (k + 1) = n - k /\ k <= n
    BY <1>2
  <2>2. met[k + 1] = Met(v, r, met[k])
    <3>1. met[k + 1] = Met(list[n + 1 - (k + 1)], r, met[(k + 1) - 1])
      BY <1>1, <2>1 DEF MetSteps, list, n
    <3>. QED
      BY <2>1, <3>1
  <2>3. met[k].intervals \in [Values -> Pair] /\ HoldsUses(met[k].intervals, S \cup Met1(k))
    BY <1>5, <2>1
  <2>4. Met1(k) \subseteq ToSet(list) /\ Met1(k + 1) = Met1(k) \cup {v} /\ v \in ToSet(list)
    <3>1. (n + 1 - k)..n \subseteq 1..n /\ (n + 1 - (k + 1))..n = ((n + 1 - k)..n) \cup {n - k}
      BY <1>2, <2>1
    <3>. QED
      BY <1>3, <2>1, <3>1
  <2>5. S \cup Met1(k) \subseteq Computed /\ ToSet(list) \subseteq Computed
    BY <1>2, <1>3, <2>4
  <2>6. v \in Computed /\ span[r].first <= liveNumber[v] /\ v \notin code.args[v]
    BY <1>2, <2>1
  <2>7. \A u \in S \cup Met1(k) : v \in code.args[u] => liveNumber[v] <= liveNumber[u]
    BY <1>2, <2>4 DEF list
  <2>. HIDE DEF v, Met1
  <2>8. /\ Met(v, r, met[k]).intervals \in [Values -> Pair]
        /\ HoldsUses(Met(v, r, met[k]).intervals, (S \cup Met1(k)) \cup {v})
    BY <1>3, <2>3, <2>5, <2>6, <2>7, MetHolds
  <2>9. (S \cup Met1(k)) \cup {v} = S \cup Met1(k + 1)
    BY <2>4
  <2>. QED
    BY <2>2, <2>8, <2>9
<1>6. n \in Good
  <2>. HIDE DEF Good
  <2>. QED
    BY <1>2, <1>4, <1>5, Induction
<1>7. Met1(n) = ToSet(list)
  <2>1. (n + 1 - n)..n = 1..n
    BY <1>2
  <2>. QED
    BY <1>3, <2>1
<1>8. /\ met[n].intervals \in [Values -> Pair]
      /\ HoldsUses(met[n].intervals, S \cup ToSet(list))
  <2>. HIDE DEF Met1
  <2>1. n <= n
    BY <1>2
  <2>. QED
    BY <1>6, <1>7, <2>1
<1>. QED
  BY <1>1, <1>8 DEF list, n

-----------------------------------------------------------------------------
(* What _liveNumbers and the analysis are given. *)
GivenLine ==
  /\ line \in Seq(Regions)
  /\ \A i, j \in DOMAIN line : line[i] = line[j] => i = j
  /\ \A i \in DOMAIN line : loopOf[line[i]] # 0 =>
       /\ line[i] \in ToSet(loops[loopOf[line[i]]].blocks)
       /\ ToSet(loops[loopOf[line[i]]].blocks) \subseteq ToSet(line)

GivenLists ==
  /\ CodeIsGiven
  /\ \A r \in Regions : /\ result[r] \in Seq(Values) /\ ToSet(result[r]) \subseteq Computed
                        /\ OperandsComeFirst(result[r])
  /\ \A r, q \in Regions : \A v \in ToSet(result[r]) : v \in ToSet(result[q]) => r = q

LEMMA LineIsGiven ==
  ASSUME LoopInv, pass = "linearized"
  PROVE  GivenLine /\ ToSet(line) = Visited
<1>1. LineIsComplete /\ LineGrows /\ OwnersAgree
  BY LineLemma DEF LoopInv
<1>2. /\ line \in Seq(Regions) /\ seen = ToSet(line)
      /\ \A i, j \in DOMAIN line : line[i] = line[j] => i = j
      /\ \A r \in seen : loopOf[r] # 0 => ToSet(loops[loopOf[r]].blocks) \subseteq seen
  BY <1>1 DEF LineGrows
<1>3. \A i \in DOMAIN line : line[i] \in Regions /\ line[i] \in seen
  BY <1>2 DEF ToSet
<1>4. \A i \in DOMAIN line : loopOf[line[i]] # 0 => line[i] \in ToSet(loops[loopOf[line[i]]].blocks)
  BY <1>1, <1>3 DEF OwnersAgree
<1>5. ToSet(line) = Visited
  BY <1>1 DEF LineIsComplete
<1>. QED
  BY <1>2, <1>3, <1>4, <1>5 DEF GivenLine

LEMMA ListsAreGiven ==
  ASSUME SchedInv, Scheduled
  PROVE  GivenLists
<1>1. /\ CodeIsGiven /\ SchedTypes /\ ListsAreMapped /\ ListsAreOrdered /\ stage = "scheduled"
      /\ \A r \in Regions : result[r] \in Seq(Values)
  BY DEF SchedInv, SchedTypes, Scheduled
<1>2. \A r \in Regions : ToSet(result[r]) \subseteq Values
  BY <1>1 DEF ToSet
<1>3. \A r \in Regions : \A v \in ToSet(result[r]) : v \in Computed /\ mapped[v] = r
  BY <1>1, <1>2 DEF ListsAreMapped
<1>4. \A r \in Regions : OperandsComeFirst(result[r])
  BY <1>1 DEF ListsAreOrdered
<1>. QED
  BY <1>1, <1>3, <1>4 DEF GivenLists

(* In the end all instructions were met. *)
LEMMA AllAreBehind ==
  ASSUME LoopInv, SchedInv, Scheduled, pass = "linearized"
  PROVE  Behind(0) = Computed \cap DOMAIN mapped
<1>1. ToSet(line) = Visited /\ line \in Seq(Regions)
  BY LineIsGiven DEF GivenLine
<1>2. DomInv /\ Built /\ SchedTypes /\ ListsAreMapped /\ CodeIsGiven
  BY DEF LoopInv, SchedInv, LoopTypes
<1>3. ASSUME NEW v \in Behind(0) PROVE v \in Computed \cap DOMAIN mapped
  <2>1. PICK i \in DOMAIN line : v \in ToSet(result[line[i]])
    BY DEF Behind
  <2>2. line[i] \in Regions /\ v \in Values
    BY <1>1, <1>2, <1>3, <2>1, ProgramFacts DEF Behind
  <2>. QED
    BY <1>2, <2>1, <2>2 DEF ListsAreMapped
<1>4. ASSUME NEW v \in Computed \cap DOMAIN mapped PROVE v \in Behind(0)
  <2>1. v \in Values /\ mapped[v] \in HomesIn(flow)
    BY <1>2, ProgramFacts DEF SchedTypes
  <2>2. mapped[v] \in Visited /\ mapped[v] \in Regions
    <3>1. WalkInv /\ Walked
      BY <1>2, BuiltFacts
    <3>. QED
      BY <1>1, <1>2, <2>1, HomeFacts DEF ToSet
  <2>3. PICK i \in DOMAIN line : line[i] = mapped[v]
    BY <1>1, <2>2 DEF ToSet
  <2>4. v \in ToSet(result[line[i]])
    BY <1>2, <2>1, <2>2, <2>3 DEF ListsAreMapped
  <2>5. i \in Nat /\ i > 0
    BY <1>1
  <2>. QED
    BY <2>4, <2>5 DEF Behind
<1>. QED
  BY <1>3, <1>4

LEMMA CurFacts ==
  ASSUME GivenLine, LiveTypes, NumbersAscend(position), Numbering
  PROVE  /\ CurLiveNum \in Nat
         /\ \A j \in DOMAIN line : j < position => span[line[j]].second <= CurLiveNum
<1>1. /\ line \in Seq(Regions) /\ Len(line) \in Nat /\ DOMAIN line = 1..Len(line)
      /\ position \in 1..Len(line) /\ position \in Nat
      /\ \A i \in 1..Len(line) : /\ line[i] \in Regions /\ span[line[i]].first \in Nat
                                 /\ span[line[i]].second \in Nat
  BY DEF GivenLine, LiveTypes, Numbering, Pair
<1>2. CASE position = 1
  BY <1>1, <1>2 DEF CurLiveNum
<1>3. CASE position # 1
  <2>1. position - 1 \in 1..Len(line) /\ CurLiveNum = span[line[position - 1]].second
    BY <1>1, <1>3 DEF CurLiveNum
  <2>2. ASSUME NEW j \in DOMAIN line, j < position
        PROVE  span[line[j]].second <= CurLiveNum
    <3>1. CASE j = position - 1
      BY <1>1, <2>1, <3>1
    <3>2. CASE j # position - 1
      <4>1. j < position - 1 /\ position - 1 < position /\ j \in 1..Len(line)
        BY <1>1, <2>2, <3>2
      <4>2. /\ span[line[j]].second <= span[line[position - 1]].first
            /\ span[line[position - 1]].first <= span[line[position - 1]].second
        BY <1>1, <2>1, <4>1 DEF NumbersAscend, NumberedIn
      <4>. QED
        BY <1>1, <2>1, <4>1, <4>2
    <3>. QED
      BY <3>1, <3>2
  <2>. QED
    BY <1>1, <2>1, <2>2
<1>. QED
  BY <1>2, <1>3

LEMMA NumberKeeps ==
  ASSUME GivenLine, GivenLists, LiveTypes, NumbersAscend(position), NumberRegion
  PROVE  LiveTypes' /\ NumbersAscend(position)'
<1>0. PICK r, c : r = line[position] /\ c = CurLiveNum
  OBVIOUS
<1>. DEFINE list == result[r]
            end == c + 2 * (Len(list) + 1)
            last == IF list = <<>> THEN c ELSE end
<1>1. /\ c \in Nat /\ \A j \in DOMAIN line : j < position => span[line[j]].second <= c
      /\ Numbering
  BY <1>0, CurFacts DEF NumberRegion
<1>2. /\ Len(line) \in Nat /\ DOMAIN line = 1..Len(line) /\ position \in 1..Len(line) /\ position \in Nat
      /\ \A i \in 1..Len(line) : line[i] \in Regions
      /\ \A i \in 1..Len(line) : line[i] = r => i = position
      /\ analysis = "numbers" /\ r \in Regions
  BY <1>0, <1>1 DEF GivenLine, LiveTypes, Numbering
<1>3. /\ list \in Seq(Values) /\ Len(list) \in Nat /\ DOMAIN list = 1..Len(list)
      /\ \A v \in ToSet(list) : v \in Computed /\ v \in Values
      /\ ToSet(list) = {list[i] : i \in 1..Len(list)} /\ CodeIsGiven
  BY <1>2, ProgramFacts DEF GivenLists, ToSet
<1>4. UNCHANGED <<line, result, code, analysis, interval, stage>> /\ position' = position + 1
  BY DEF NumberRegion, allVars, loopVars, scheduleVars
<1>5. last \in Nat /\ c <= last /\ end \in Nat /\ (list # <<>> => last = end)
  BY <1>1, <1>3
<1>6. span' = [span EXCEPT ![r] = [first |-> c, second |-> last]]
  BY <1>0 DEF NumberRegion
<1>7. liveNumber' = IF list = <<>> THEN liveNumber ELSE NumbersIn(r)
  BY <1>0 DEF NumberRegion
<1>. HIDE DEF last
<1>8. /\ span' \in [Regions -> Pair]
      /\ span'[r].first = c /\ span'[r].second = last
      /\ \A q \in Regions : q # r => span'[q] = span[q]
  <2>1. [first |-> c, second |-> last] \in Pair
    BY <1>1, <1>5 DEF Pair
  <2>. QED
    BY <1>2, <1>6, <2>1 DEF LiveTypes
<1>9. ASSUME NEW v \in ToSet(list)
      PROVE  \E k \in DOMAIN list : list[k] = v /\ liveNumber'[v] = c + 2 * k /\ k <= Len(list) /\ k \in Nat
  <2>. DEFINE k == IndexIn(list, v)
  <2>1. k \in DOMAIN list /\ list[k] = v
    <3>1. \E i \in DOMAIN list : list[i] = v
      BY <1>3
    <3>. QED
      BY <3>1 DEF IndexIn
  <2>2. list # <<>> /\ v \notin PhisOf(r) /\ v \in Values
    BY <1>3, <2>1 DEF Computed, PhisOf
  <2>3. liveNumber'[v] = c + 2 * k
    BY <1>0, <1>7, <2>2 DEF NumbersIn
  <2>. HIDE DEF k
  <2>4. k \in 1..Len(list)
    BY <1>3, <2>1
  <2>. QED
    BY <1>3, <2>1, <2>3, <2>4
<1>10. ASSUME NEW v \in Values, v \in Computed, v \notin ToSet(list)
       PROVE  liveNumber'[v] = liveNumber[v]
  BY <1>7, <1>10 DEF NumbersIn, PhisOf, Computed
<1>11. liveNumber' \in [Values -> Nat]
  <2>1. CASE list = <<>>
    BY <1>7, <2>1 DEF LiveTypes
  <2>2. CASE list # <<>>
    <3>1. liveNumber' = [v \in Values |-> IF v \in PhisOf(r) THEN c
                                          ELSE IF v \in ToSet(list) THEN c + 2 * IndexIn(list, v)
                                          ELSE liveNumber[v]]
      BY <1>0, <1>7, <2>2 DEF NumbersIn
    <3>2. ASSUME NEW v \in ToSet(list) PROVE IndexIn(list, v) \in Nat
      <4>1. \E i \in DOMAIN list : list[i] = v
        BY <1>3
      <4>2. IndexIn(list, v) \in DOMAIN list
        BY <4>1 DEF IndexIn
      <4>. QED
        BY <1>3, <4>2
    <3>3. \A v \in Values : liveNumber[v] \in Nat
      BY DEF LiveTypes
    <3>. HIDE DEF list
    <3>4. ASSUME NEW v \in Values PROVE liveNumber'[v] \in Nat
      <4>1. CASE v \in PhisOf(r)
        BY <1>1, <3>1, <4>1
      <4>2. CASE v \notin PhisOf(r) /\ v \in ToSet(list)
        <5>1. liveNumber'[v] = c + 2 * IndexIn(list, v)
          BY <3>1, <4>2
        <5>. QED
          BY <1>1, <3>2, <4>2, <5>1
      <4>3. CASE v \notin PhisOf(r) /\ v \notin ToSet(list)
        BY <3>1, <3>3, <4>3
      <4>. QED
        BY <4>1, <4>2, <4>3
    <3>. QED
      BY <3>1, <3>4
  <2>. QED
    BY <2>1, <2>2
<1>12. LiveTypes'
  <2>1. position + 1 \in Nat /\ position + 1 \in 1..(Len(line) + 1)
    BY <1>2
  <2>. QED
    BY <1>2, <1>4, <1>8, <1>11, <2>1 DEF LiveTypes, Values
<1>13. NumberedIn(r)'
  <2>2. span'[r].first <= span'[r].second
    BY <1>1, <1>5, <1>8
  <2>3. ASSUME NEW v \in ToSet(list)
        PROVE  \E k \in DOMAIN list : list[k] = v /\ liveNumber'[v] = span'[r].first + 2 * k
                                      /\ liveNumber'[v] + 2 <= span'[r].second
    <3>1. PICK k \in DOMAIN list : list[k] = v /\ liveNumber'[v] = c + 2 * k /\ k <= Len(list) /\ k \in Nat
      BY <1>9
    <3>2. last = end /\ end = c + 2 * (Len(list) + 1)
      BY <1>3, <1>5, <3>1
    <3>3. (c + 2 * k) + 2 <= c + 2 * (Len(list) + 1)
      BY <1>1, <1>3, <3>1
    <3>. HIDE DEF list, end
    <3>. QED
      BY <1>8, <3>1, <3>2, <3>3
  <2>. QED
    BY <1>4, <2>2, <2>3 DEF NumberedIn
<1>14. ASSUME NEW i \in DOMAIN line, i < position
       PROVE  NumberedIn(line[i])' /\ span'[line[i]] = span[line[i]]
  <2>1. PICK q : q = line[i]
    OBVIOUS
  <2>2. NumberedIn(q) /\ q \in Regions /\ q # r /\ span'[q] = span[q]
    BY <1>2, <1>8, <1>14, <2>1 DEF NumbersAscend
  <2>3. ASSUME NEW v \in ToSet(result[q]) PROVE liveNumber'[v] = liveNumber[v]
    <3>1. v \in Computed /\ v \in Values /\ v \notin ToSet(list)
      BY <1>2, <1>3, <2>2, ProgramFacts DEF GivenLists
    <3>. QED
      BY <1>10, <3>1
  <2>4. NumberedIn(q)'
    BY <1>4, <2>2, <2>3 DEF NumberedIn
  <2>. QED
    BY <1>4, <2>1, <2>2, <2>4
<1>15. NumbersAscend(position)'
  <2>1. ASSUME NEW i \in DOMAIN line, i < position + 1
        PROVE  NumberedIn(line[i])'
    <3>1. CASE i = position
      BY <1>0, <1>4, <1>13, <3>1
    <3>2. CASE i # position
      <4>1. i < position
        BY <1>2, <2>1, <3>2
      <4>. QED
        BY <1>14, <4>1
    <3>. QED
      BY <3>1, <3>2
  <2>2. ASSUME NEW i \in DOMAIN line, NEW j \in DOMAIN line, i < j, j < position + 1
        PROVE  span'[line[i]].second <= span'[line[j]].first
    <3>1. i < position /\ span'[line[i]] = span[line[i]]
      BY <1>2, <1>14, <2>2
    <3>2. CASE j = position
      BY <1>0, <1>1, <1>8, <3>1, <3>2
    <3>3. CASE j # position
      <4>1. j < position
        BY <1>2, <2>2, <3>3
      <4>2. span'[line[j]] = span[line[j]]
        BY <1>14, <4>1
      <4>. QED
        BY <2>2, <3>1, <4>1, <4>2 DEF NumbersAscend
    <3>. QED
      BY <3>2, <3>3
  <2>. QED
    BY <1>4, <2>1, <2>2 DEF NumbersAscend
<1>. QED
  BY <1>12, <1>15

(* The end of a loop is the end of its last block. *)
LEMMA LoopEndFacts ==
  ASSUME GivenLine, LiveTypes, NumbersAscend(Len(line) + 1), NEW i \in DOMAIN line, loopOf[line[i]] # 0
  PROVE  LET blocks == ToSet(loops[loopOf[line[i]]].blocks)
         IN  /\ Max({span[b].second : b \in blocks}) \in Nat
             /\ \A b \in blocks : span[b].second <= Max({span[q].second : q \in blocks})
             /\ \E b \in blocks : Max({span[q].second : q \in blocks}) = span[b].second
<1>. DEFINE blocks == ToSet(loops[loopOf[line[i]]].blocks)
            ends == {span[b].second : b \in blocks}
            n == Len(line)
<1>1. /\ n \in Nat /\ DOMAIN line = 1..n /\ n \in 1..n
      /\ \A j \in 1..n : line[j] \in Regions /\ span[line[j]].first \in Nat /\ span[line[j]].second \in Nat
  BY DEF GivenLine, LiveTypes, Pair
<1>2. \A b \in blocks : \E j \in 1..n : line[j] = b
  BY <1>1 DEF GivenLine, ToSet
<1>3. ends # {}
  <2>1. line[i] \in blocks
    BY DEF GivenLine
  <2>2. span[line[i]].second \in ends
    BY <2>1
  <2>. QED
    BY <2>2
<1>4. \A x \in ends : x \in Nat /\ x <= span[line[n]].second
  <2>1. ASSUME NEW j \in 1..n PROVE span[line[j]].second <= span[line[n]].second
    <3>. HIDE DEF n
    <3>1. CASE j = n
      BY <1>1, <3>1
    <3>2. CASE j # n
      <4>1. j < n /\ n < n + 1
        BY <1>1, <3>2
      <4>2. span[line[j]].second <= span[line[n]].first /\ span[line[n]].first <= span[line[n]].second
        BY <1>1, <4>1 DEF NumbersAscend, NumberedIn, n
      <4>. QED
        BY <1>1, <4>2
    <3>. QED
      BY <3>1, <3>2
  <2>. QED
    BY <1>1, <1>2, <2>1
<1>5. span[line[n]].second \in Nat
  BY <1>1
<1>. HIDE DEF ends
<1>6. Max(ends) \in Nat /\ Max(ends) \in ends /\ \A x \in ends : x <= Max(ends)
  BY <1>3, <1>4, <1>5, MaxFacts
<1>. QED
  BY <1>6 DEF ends

(* Phis start at the number of their region; instructions stay. *)
LEMMA WithPhisFacts ==
  ASSUME liveNumber \in [Values -> Nat], NEW r, NEW f \in [Values -> Pair]
  PROVE  /\ WithPhis(f, r) \in [Values -> Pair]
         /\ \A v \in Values : /\ WithPhis(f, r)[v].second = f[v].second
                              /\ v \notin PhisOf(r) => WithPhis(f, r)[v] = f[v]
                              /\ v \in PhisOf(r) => v \notin Computed /\ WithPhis(f, r)[v].first = liveNumber[v]
<1>1. ASSUME NEW v \in Values
      PROVE  /\ WithPhis(f, r)[v] \in Pair /\ WithPhis(f, r)[v].second = f[v].second
             /\ v \notin PhisOf(r) => WithPhis(f, r)[v] = f[v]
             /\ v \in PhisOf(r) => v \notin Computed /\ WithPhis(f, r)[v].first = liveNumber[v]
  <2>1. f[v] \in Pair /\ liveNumber[v] \in Nat
    OBVIOUS
  <2>2. CASE v \in PhisOf(r)
    <3>1. WithPhis(f, r)[v] = [f[v] EXCEPT !.first = liveNumber[v]] /\ v \notin Computed
      BY <2>2 DEF WithPhis, PhisOf, Computed
    <3>2. f[v].first \in Nat /\ f[v].second \in Nat /\ f[v] = [first |-> f[v].first, second |-> f[v].second]
      BY ONLY <2>1 DEF Pair
    <3>3. WithPhis(f, r)[v] = [first |-> liveNumber[v], second |-> f[v].second]
      BY <3>1, <3>2
    <3>. QED
      BY <2>1, <2>2, <3>1, <3>2, <3>3 DEF Pair
  <2>3. CASE v \notin PhisOf(r)
    BY <2>1, <2>3 DEF WithPhis
  <2>. QED
    BY <2>2, <2>3
<1>2. WithPhis(f, r) \in [Values -> Pair]
  BY <1>1 DEF WithPhis
<1>. QED
  BY <1>1, <1>2

LEMMA AroundLoopFacts ==
  ASSUME GivenLine, LiveTypes, NumbersAscend(Len(line) + 1), NEW i \in DOMAIN line,
         NEW f \in [Values -> Pair], NEW S
  PROVE  /\ AroundLoop(f, line[i], S) \in [Values -> Pair]
         /\ \A v \in Values : /\ AroundLoop(f, line[i], S)[v].first <= f[v].first
                              /\ f[v].second <= AroundLoop(f, line[i], S)[v].second
                              /\ v \in S /\ loopOf[line[i]] # 0 /\ loops[loopOf[line[i]]].header = line[i] =>
                                   \A b \in ToSet(loops[loopOf[line[i]]].blocks) :
                                     span[b].second <= AroundLoop(f, line[i], S)[v].second
<1>. DEFINE last == Max({span[b].second : b \in ToSet(loops[loopOf[line[i]]].blocks)})
<1>1. span[line[i]].first \in Nat
  BY DEF GivenLine, LiveTypes, Pair
<1>2. \A v \in Values : f[v].first \in Nat /\ f[v].second \in Nat
  BY DEF Pair
<1>3. CASE loopOf[line[i]] = 0 \/ loops[loopOf[line[i]]].header # line[i]
  <2>1. AroundLoop(f, line[i], S) = f
    BY <1>3 DEF AroundLoop
  <2>. QED
    BY <1>2, <1>3, <2>1
<1>4. CASE ~(loopOf[line[i]] = 0 \/ loops[loopOf[line[i]]].header # line[i])
  <2>1. AroundLoop(f, line[i], S) = Widened(f, S, span[line[i]].first, last)
    BY <1>4 DEF AroundLoop
  <2>2. /\ last \in Nat
        /\ \A b \in ToSet(loops[loopOf[line[i]]].blocks) : span[b].second <= last
    BY <1>4, LoopEndFacts
  <2>. HIDE DEF last
  <2>. DEFINE w == Widened(f, S, span[line[i]].first, last)
  <2>3. /\ w \in [Values -> Pair]
        /\ \A v \in Values : /\ w[v].first <= f[v].first /\ w[v].second >= f[v].second
                             /\ v \in S => w[v].second >= last
    BY <1>1, <2>2, WidenedFacts
  <2>4. \A b \in ToSet(loops[loopOf[line[i]]].blocks) : span[b].second \in Nat
    <3>1. ToSet(loops[loopOf[line[i]]].blocks) \subseteq ToSet(line) /\ line \in Seq(Regions)
      BY <1>4 DEF GivenLine
    <3>2. ToSet(line) \subseteq Regions
      BY <3>1 DEF ToSet
    <3>. QED
      BY <3>1, <3>2 DEF LiveTypes, Pair
  <2>. HIDE DEF w
  <2>5. ASSUME NEW v \in Values
        PROVE  /\ w[v].first <= f[v].first /\ f[v].second <= w[v].second
               /\ v \in S => \A b \in ToSet(loops[loopOf[line[i]]].blocks) : span[b].second <= w[v].second
    <3>1. w[v].second \in Nat
      BY <2>3 DEF Pair
    <3>. QED
      BY <1>2, <2>2, <2>3, <2>4, <3>1
  <2>. QED
    BY <2>1, <2>3, <2>5 DEF w
<1>. QED
  BY <1>3, <1>4

LEMMA BehindFacts ==
  ASSUME GivenLine, GivenLists, LiveTypes, NumbersAscend(Len(line) + 1), NEW p \in DOMAIN line
  PROVE  /\ InReach(line[p]) /\ Behind(p) \subseteq Computed
         /\ Behind(p - 1) = Behind(p) \cup ToSet(result[line[p]])
         /\ \A v \in ToSet(result[line[p]]) : \A u \in Behind(p) : liveNumber[v] <= liveNumber[u]
<1>1. /\ line \in Seq(Regions) /\ Len(line) \in Nat /\ DOMAIN line = 1..Len(line) /\ p \in Nat /\ p < Len(line) + 1
      /\ \A i \in DOMAIN line : i \in Nat /\ i < Len(line) + 1 /\ line[i] \in Regions
  BY DEF GivenLine
<1>2. \A i \in DOMAIN line : NumberedIn(line[i])
  BY <1>1 DEF NumbersAscend
<1>3. InReach(line[p])
  BY <1>1, <1>2 DEF InReach, GivenLists, LiveTypes
<1>4. Behind(p) \subseteq Computed
  BY DEF Behind
<1>5. Behind(p - 1) = Behind(p) \cup ToSet(result[line[p]])
  <2>1. \A i \in DOMAIN line : i > p - 1 <=> i > p \/ i = p
    BY <1>1
  <2>2. ToSet(result[line[p]]) \subseteq Computed
    BY <1>3 DEF InReach
  <2>. QED
    BY <2>1, <2>2 DEF Behind
<1>6. ASSUME NEW v \in ToSet(result[line[p]]), NEW u \in Behind(p)
      PROVE  liveNumber[v] <= liveNumber[u]
  <2>1. PICK i \in DOMAIN line : i > p /\ u \in ToSet(result[line[i]])
    BY DEF Behind
  <2>2. v \in Values /\ u \in Values
    BY <1>1, <2>1, ProgramFacts DEF GivenLists
  <2>3. /\ span[line[p]].first \in Nat /\ span[line[p]].second \in Nat /\ span[line[i]].first \in Nat
        /\ liveNumber[u] \in Nat /\ liveNumber[v] \in Nat
    BY <1>1, <2>2 DEF LiveTypes, Pair
  <2>4. liveNumber[v] + 2 <= span[line[p]].second
    BY <1>2 DEF NumberedIn
  <2>5. PICK k \in DOMAIN result[line[i]] : liveNumber[u] = span[line[i]].first + 2 * k
    BY <1>2, <2>1 DEF NumberedIn
  <2>6. k \in Nat
    BY <1>1 DEF GivenLists
  <2>7. span[line[p]].second <= span[line[i]].first
    BY <1>1, <2>1 DEF NumbersAscend
  <2>. QED
    BY <2>3, <2>4, <2>5, <2>6, <2>7
<1>. QED
  BY <1>3, <1>4, <1>5, <1>6

LEMMA AnalyseKeeps ==
  ASSUME GivenLine, GivenLists, LiveTypes, NumbersAscend(Len(line) + 1), HoldsUses(interval, Behind(position)),
         AnalyseRegion
  PROVE  LiveTypes' /\ HoldsUses(interval, Behind(position))'
<1>0. PICK p, r, S : p = position /\ r = line[p] /\ S = Behind(p)
  OBVIOUS
<1>. DEFINE out == LiveOut(r)
            start == [live |-> out, intervals |-> Widened(interval, out, span[r].first, span[r].second)]
            met == MetAll(r, start)
            live == Entering(met.live, r)
            U == Values \cup out
            wide == WithPhis(met.intervals, r)
<1>1. /\ Len(line) \in Nat /\ DOMAIN line = 1..Len(line) /\ p \in DOMAIN line /\ p \in Nat /\ p > 0 /\ r \in Regions
      /\ CodeIsGiven /\ liveNumber \in [Values -> Nat] /\ interval \in [Values -> Pair]
      /\ span[r].first \in Nat /\ span[r].second \in Nat
  BY <1>0 DEF AnalyseRegion, GivenLine, GivenLists, LiveTypes, Pair
<1>2. /\ UNCHANGED <<line, result, code, analysis, liveNumber, span>> /\ position' = position - 1
      /\ analysis = "intervals"
      /\ interval' = AroundLoop(WithPhis(met.intervals, r), r, live)
  BY <1>0 DEF AnalyseRegion, allVars, loopVars, scheduleVars
<1>3. /\ InReach(r) /\ S \subseteq Computed /\ Behind(p - 1) = S \cup ToSet(result[r])
      /\ \A v \in ToSet(result[r]) : \A u \in S : liveNumber[v] <= liveNumber[u]
      /\ \A v \in Computed : v \in Values
      /\ ToSet(result[r]) \subseteq Computed
  BY <1>0, <1>1, BehindFacts, ProgramFacts DEF InReach
<1>4. start.intervals \in [Values -> Pair] /\ HoldsUses(start.intervals, S)
  <2>1. start.intervals = Widened(interval, out, span[r].first, span[r].second)
    OBVIOUS
  <2>. DEFINE w == Widened(interval, out, span[r].first, span[r].second)
  <2>2. /\ w \in [Values -> Pair]
        /\ \A v \in Values : w[v].first <= interval[v].first /\ w[v].second >= interval[v].second
    <3>. HIDE DEF out
    <3>. QED
      BY <1>1, WidenedFacts
  <2>. HIDE DEF w
  <2>3. \A v \in Values : interval[v].second \in Nat /\ w[v].second \in Nat
    BY <1>1, <2>2 DEF Pair
  <2>4. \A v \in Values : interval[v].second <= w[v].second
    BY <2>2, <2>3
  <2>5. HoldsUses(interval, S)
    BY <1>0
  <2>6. HoldsUses(w, S)
    BY <1>1, <1>3, <2>2, <2>4, <2>5, WiderHolds
  <2>. QED
    BY <2>1, <2>2, <2>6 DEF w
<1>5. /\ met.intervals \in [Values -> Pair]
      /\ HoldsUses(met.intervals, S \cup ToSet(result[r]))
  <2>1. Values \subseteq U /\ start.live \in SUBSET U /\ start = [live |-> start.live, intervals |-> start.intervals]
    OBVIOUS
  <2>2. start \in [live : SUBSET U, intervals : [Values -> Pair]]
    BY <1>4, <2>1
  <2>. HIDE DEF start, U
  <2>. QED
    BY <1>1, <1>3, <1>4, <2>1, <2>2, MetAllHolds
<1>. HIDE DEF met, live
<1>6. /\ wide \in [Values -> Pair]
      /\ \A v \in Values : wide[v].second = met.intervals[v].second /\ (v \in Computed => wide[v] = met.intervals[v])
  BY <1>1, <1>5, WithPhisFacts
<1>. HIDE DEF wide
<1>7. /\ AroundLoop(wide, r, live) \in [Values -> Pair]
      /\ \A v \in Values : /\ AroundLoop(wide, r, live)[v].first <= wide[v].first
                           /\ wide[v].second <= AroundLoop(wide, r, live)[v].second
  BY <1>0, <1>1, <1>6, AroundLoopFacts
<1>8. interval' = AroundLoop(wide, r, live)
  BY <1>2 DEF wide
<1>9. HoldsUses(interval', S \cup ToSet(result[r]))
  <2>1. \A v \in Values : v \in S \cup ToSet(result[r]) => interval'[v].first <= met.intervals[v].first
    BY <1>3, <1>6, <1>7, <1>8
  <2>2. \A v \in Values : met.intervals[v].second <= interval'[v].second
    BY <1>6, <1>7, <1>8
  <2>3. S \cup ToSet(result[r]) \subseteq Computed /\ interval' \in [Values -> Pair]
    BY <1>3, <1>7, <1>8
  <2>. QED
    BY <1>1, <1>5, <2>1, <2>2, <2>3, WiderHolds
<1>10. Behind(position)' = Behind(p - 1)
  BY <1>0, <1>2 DEF Behind, Computed, Phis, Values
<1>11. HoldsUses(interval, Behind(position))'
  <2>1. HoldsUses(interval', Behind(p - 1))
    BY <1>3, <1>9
  <2>. QED
    BY <1>2, <1>10, <2>1 DEF HoldsUses
<1>12. LiveTypes'
  <2>1. position - 1 \in Nat /\ position - 1 \in 0..Len(line)
    BY <1>0, <1>1
  <2>. QED
    BY <1>2, <1>7, <1>8, <2>1 DEF LiveTypes, Values
<1>. QED
  BY <1>11, <1>12

-----------------------------------------------------------------------------
LEMMA IntervalsStart ==
  ASSUME LiveInit
  PROVE  IntervalInv
<1>1. analysis = "passes" /\ position = 1 /\ pass = "tree"
  BY DEF LiveInit, LoopInit
<1>2. LiveTypes
  BY <1>1 DEF LiveTypes, LiveInit, Pair, Unset
<1>. QED
  BY <1>1, <1>2 DEF IntervalInv, PassesComeFirst, NumbersAreGiven, MetAreHeld

(* While the passes run, nothing is numbered. *)
LEMMA PassesKeepIntervals ==
  ASSUME IntervalInv, Analyses
  PROVE  IntervalInv'
<1>1. analysis = "passes" /\ UNCHANGED liveVars
  BY DEF Analyses
<1>2. analysis' = "passes" /\ position' = position /\ liveNumber' = liveNumber /\ span' = span /\ interval' = interval
  BY <1>1 DEF liveVars
<1>3. LiveTypes'
  BY <1>1, <1>2 DEF IntervalInv, LiveTypes, Values
<1>4. (pass # "tree" => Scheduled)'
  <2>1. pass # "tree" => Scheduled
    BY DEF IntervalInv, PassesComeFirst
  <2>2. CASE Tree /\ UNCHANGED scheduleVars
    BY <2>1, <2>2 DEF Tree, loopVars, scheduleVars, Scheduled
  <2>3. CASE ScheduleNext /\ UNCHANGED loopVars
    <3>1. stage # "scheduled"
      BY <2>3 DEF ScheduleNext, StartSchedule, Place, PassOver, SweepAgain, ScheduleDone, Sweeping, Swept
    <3>. QED
      BY <2>1, <2>3, <3>1 DEF loopVars, Scheduled
  <2>4. CASE Scheduled /\ UNCHANGED scheduleVars
    BY <2>4 DEF scheduleVars, Scheduled
  <2>. QED
    BY <2>2, <2>3, <2>4 DEF Analyses
<1>. QED
  BY <1>2, <1>3, <1>4 DEF IntervalInv, PassesComeFirst, NumbersAreGiven, MetAreHeld

LEMMA IntervalsStay ==
  ASSUME IntervalInv, UNCHANGED everything
  PROVE  IntervalInv'
<1>1. UNCHANGED <<analysis, position, liveNumber, span, interval, pass, line, loopOf, loops, code, result, stage>>
  BY DEF everything, liveVars, scheduleVars, allVars, loopVars
<1>2. LiveTypes' /\ PassesComeFirst'
  BY <1>1 DEF IntervalInv, LiveTypes, PassesComeFirst, Scheduled, Values
<1>3. NumbersAreGiven'
  BY <1>1 DEF IntervalInv, NumbersAreGiven, NumbersAscend, NumberedIn
<1>4. Behind(position)' = Behind(position) /\ Behind(0)' = Behind(0)
  BY <1>1 DEF Behind, Computed, Phis, Values
<1>5. MetAreHeld'
  BY <1>1, <1>4 DEF IntervalInv, MetAreHeld, HoldsUses
<1>. QED
  BY <1>2, <1>3, <1>5 DEF IntervalInv

LEMMA IntervalSteps ==
  ASSUME LiveInv, IntervalInv, [LiveNext]_everything
  PROVE  IntervalInv'
<1>1. /\ LiveTypes /\ PassesComeFirst /\ NumbersAreGiven /\ MetAreHeld
      /\ LoopInv /\ SchedInv
  BY DEF LiveInv, IntervalInv
<1>2. ASSUME analysis # "passes"
      PROVE  GivenLine /\ GivenLists /\ Scheduled /\ pass = "linearized" /\ Len(line) \in Nat
  <2>1. pass = "linearized" /\ Scheduled
    BY <1>1, <1>2 DEF PassesComeFirst
  <2>2. GivenLine /\ GivenLists
    BY <1>1, <2>1, LineIsGiven, ListsAreGiven
  <2>. QED
    BY <2>1, <2>2 DEF GivenLine
<1>3. CASE Analyses
  BY <1>3, PassesKeepIntervals
<1>4. CASE StartNumbers
  <2>1. /\ UNCHANGED <<position, liveNumber, span, interval, pass, line, stage>> /\ analysis' = "numbers"
        /\ pass = "linearized" /\ position = 1 /\ Scheduled /\ line \in Seq(Regions)
    <3>1. pass = "linearized" /\ position = 1
      BY <1>1, <1>4 DEF StartNumbers, LiveTypes
    <3>2. Scheduled /\ line \in Seq(Regions)
      BY <1>1, <3>1, LineIsGiven DEF PassesComeFirst, GivenLine
    <3>. QED
      BY <1>4, <3>1, <3>2 DEF StartNumbers, allVars, loopVars, scheduleVars
  <2>2. LiveTypes'
    <3>1. 1 \in 1..(Len(line) + 1)
      BY <2>1
    <3>. QED
      BY <1>1, <2>1, <3>1 DEF LiveTypes, Values
  <2>3. NumbersAscend(position)'
    <3>1. \A i \in DOMAIN line : i \in Nat /\ i >= 1
      BY <2>1
    <3>. QED
      BY <2>1, <3>1 DEF NumbersAscend
  <2>. QED
    BY <2>1, <2>2, <2>3 DEF IntervalInv, PassesComeFirst, NumbersAreGiven, MetAreHeld, Scheduled
<1>5. CASE NumberRegion
  <2>1. analysis = "numbers" /\ UNCHANGED <<analysis, pass, stage>> /\ NumbersAscend(position)
    BY <1>1, <1>5 DEF NumberRegion, Numbering, NumbersAreGiven, allVars, loopVars, scheduleVars
  <2>2. LiveTypes' /\ NumbersAscend(position)'
    BY <1>1, <1>2, <1>5, <2>1, NumberKeeps
  <2>. QED
    BY <1>2, <2>1, <2>2 DEF IntervalInv, PassesComeFirst, NumbersAreGiven, MetAreHeld, Scheduled
<1>6. CASE StartIntervals
  <2>1. /\ UNCHANGED <<liveNumber, span, interval, pass, line, stage, result, code>>
        /\ analysis' = "intervals" /\ position' = Len(line)
        /\ analysis = "numbers" /\ position > Len(line)
    BY <1>6 DEF StartIntervals, allVars, loopVars, scheduleVars
  <2>2. position = Len(line) + 1 /\ Len(line) \in Nat /\ line \in Seq(Regions)
    BY <1>1, <1>2, <2>1 DEF LiveTypes, GivenLine
  <2>3. LiveTypes'
    BY <1>1, <2>1, <2>2 DEF LiveTypes, Values
  <2>4. NumbersAscend(Len(line) + 1)
    BY <1>1, <2>1, <2>2 DEF NumbersAreGiven
  <2>5. NumbersAscend(Len(line) + 1)'
    BY <2>1, <2>4 DEF NumbersAscend, NumberedIn
  <2>6. Behind(position)' = {}
    BY <2>1, <2>2 DEF Behind
  <2>7. HoldsUses(interval, Behind(position))'
    BY <2>6 DEF HoldsUses
  <2>. QED
    BY <1>2, <2>1, <2>3, <2>5, <2>7 DEF IntervalInv, PassesComeFirst, NumbersAreGiven, MetAreHeld, Scheduled
<1>7. CASE AnalyseRegion
  <2>1. /\ analysis = "intervals" /\ UNCHANGED <<analysis, pass, stage, line, result, liveNumber, span>>
        /\ NumbersAscend(Len(line) + 1) /\ HoldsUses(interval, Behind(position))
    BY <1>1, <1>7 DEF AnalyseRegion, NumbersAreGiven, MetAreHeld, allVars, loopVars, scheduleVars
  <2>2. LiveTypes' /\ HoldsUses(interval, Behind(position))'
    BY <1>1, <1>2, <1>7, <2>1, AnalyseKeeps
  <2>3. NumbersAscend(Len(line) + 1)'
    BY <2>1 DEF NumbersAscend, NumberedIn
  <2>. QED
    BY <1>2, <2>1, <2>2, <2>3 DEF IntervalInv, PassesComeFirst, NumbersAreGiven, MetAreHeld, Scheduled
<1>8. CASE LiveDone
  <2>1. /\ analysis = "intervals" /\ position = 0 /\ analysis' = "done"
        /\ UNCHANGED <<position, liveNumber, span, interval, pass, line, stage, result, code>>
        /\ NumbersAscend(Len(line) + 1) /\ HoldsUses(interval, Behind(0))
    BY <1>1, <1>8 DEF LiveDone, NumbersAreGiven, MetAreHeld, allVars, loopVars, scheduleVars
  <2>2. LiveTypes'
    BY <1>1, <2>1 DEF LiveTypes, Values
  <2>3. NumbersAscend(Len(line) + 1)'
    BY <2>1 DEF NumbersAscend, NumberedIn
  <2>4. Behind(0)' = Behind(0)
    BY <2>1 DEF Behind, Computed, Phis, Values
  <2>5. HoldsUses(interval, Behind(0))'
    BY <2>1, <2>4 DEF HoldsUses
  <2>. QED
    BY <1>2, <2>1, <2>2, <2>3, <2>5 DEF IntervalInv, PassesComeFirst, NumbersAreGiven, MetAreHeld, Scheduled
<1>9. CASE Recalc
  <2>1. /\ analysis = "done" /\ analysis' = "numbers" /\ position' = 1 /\ liveNumber' = [v \in Values |-> 0]
        /\ UNCHANGED <<span, interval, pass, line, stage>>
    BY <1>9 DEF Recalc, allVars, loopVars, scheduleVars
  <2>2. LiveTypes'
    <3>1. 1 \in 1..(Len(line) + 1) /\ [v \in Values |-> 0] \in [Values -> Nat]
      BY <1>2, <2>1
    <3>. QED
      BY <1>1, <2>1, <3>1 DEF LiveTypes, Values
  <2>3. NumbersAscend(position)'
    <3>1. \A i \in DOMAIN line : i \in Nat /\ i >= 1
      BY <1>2, <2>1 DEF GivenLine
    <3>. QED
      BY <2>1, <3>1 DEF NumbersAscend
  <2>. QED
    BY <1>2, <2>1, <2>2, <2>3 DEF IntervalInv, PassesComeFirst, NumbersAreGiven, MetAreHeld, Scheduled
<1>10. CASE UNCHANGED everything
  BY <1>10, IntervalsStay
<1>. QED
  BY <1>3, <1>4, <1>5, <1>6, <1>7, <1>8, <1>9, <1>10 DEF LiveNext, LiveReturned

(* Whatever the linear order, the interval that recalc gives a value holds *)
(* the instruction that computes it, with the point after it, and each one *)
(* that uses it, after the first call and after the second.                *)
THEOREM IntervalsHoldAllUses == LiveSpec => []IntervalsHoldUses
<1>1. LiveInit => IntervalInv
  BY IntervalsStart
<1>2. LiveInv /\ IntervalInv /\ [LiveNext]_everything => IntervalInv'
  BY IntervalSteps
<1>3. ASSUME LiveInv, IntervalInv PROVE IntervalsHoldUses
  <2>. SUFFICES ASSUME analysis = "done", NEW v \in Computed \cap DOMAIN mapped
                PROVE  /\ interval[v].first <= liveNumber[v] /\ liveNumber[v] + 2 <= interval[v].second
                       /\ \A u \in Consumers(v) \cap DOMAIN mapped :
                            interval[v].first <= liveNumber[u] /\ liveNumber[u] <= interval[v].second
    BY DEF IntervalsHoldUses, Analysed
  <2>1. Behind(0) = Computed \cap DOMAIN mapped
    BY <1>3, AllAreBehind DEF LiveInv, IntervalInv, PassesComeFirst
  <2>2. HoldsUses(interval, Behind(0))
    BY <1>3 DEF IntervalInv, MetAreHeld
  <2>. QED
    BY <2>1, <2>2 DEF HoldsUses, Consumers
<1>. QED
  BY <1>1, <1>2, <1>3, LiveInvariant, PTL DEF LiveSpec

-----------------------------------------------------------------------------
(* Where values are live: what the analysis of the regions behind a        *)
(* position says in the live-in sets and in the intervals.                 *)
IsHeader(r) == loopOf[r] # 0 /\ loops[loopOf[r]].header = r

LoopBlocks(r) == ToSet(loops[loopOf[r]].blocks)

(* What is live at the entry of a region has an interval that starts       *)
(* there, and at the entry of a loop one that holds the blocks of the loop. *)
EntryHolds(f, live, r, v) ==
  v \in live =>
    /\ r # mapped[v] => f[v].first <= span[r].first
    /\ IsHeader(r) => \A b \in LoopBlocks(r) : span[b].second <= f[v].second

(* What a phi takes from a region, or what is live where the region goes   *)
(* forward on the line.                                                    *)
LeavesFor(live, i, v) ==
  \/ OneValueEach /\ UsedAtEnd(v, line[i])
  \/ \E j \in DOMAIN line : j > i /\ GoesTo(flow, line[i], line[j]) /\ line[j] # mapped[v] /\ v \in live[line[j]]

ExitHolds(f, live, i, v) ==
  /\ LeavesFor(live, i, v) => span[line[i]].second <= f[v].second
  /\ line[i] # mapped[v] /\ (LeavesFor(live, i, v) \/ UsedIn(v, line[i])) => v \in live[line[i]]

LivesHeld(f, live, n) ==
  \A i \in DOMAIN line : i > n => \A v \in DOMAIN mapped :
    EntryHolds(f, live[line[i]], line[i], v) /\ ExitHolds(f, live, i, v)

(* A phi has the number that its region starts with, or none.              *)
PhisStartRegions(n) ==
  \A v \in Phis :
    \/ liveNumber[v] = 0
    \/ \E i \in DOMAIN line : i < n /\ line[i] = code.phis[v].region /\ liveNumber[v] <= span[line[i]].first

LivesInv ==
  /\ DOMAIN liveIn = Regions
  /\ analysis = "passes" => \A v \in Phis : liveNumber[v] = 0
  /\ analysis = "numbers" => PhisStartRegions(position)
  /\ analysis \in {"intervals", "done"} => PhisStartRegions(Len(line) + 1)
  /\ analysis = "intervals" => LivesHeld(interval, liveIn, position)
  /\ analysis = "done" => LivesHeld(interval, liveIn, 0)

LEMMA TargetFacts ==
  ASSUME NEW r, NEW s
  PROVE  s \in ToSet(Successors(flow, r)) <=> GoesTo(flow, r, s)
BY DEF ToSet, Successors, GoesTo

(* An instruction is met: what is live before it, and from where.          *)
LEMMA MetPasses ==
  ASSUME CodeIsGiven, liveNumber \in [Values -> Nat], NEW r, span[r] \in Pair,
         NEW u \in Computed, NEW m, m.intervals \in [Values -> Pair]
  PROVE  /\ Met(u, r, m).intervals \in [Values -> Pair]
         /\ Met(u, r, m).live = (m.live \ {u}) \cup code.args[u]
         /\ \A v \in Values :
              /\ m.intervals[v].second <= Met(u, r, m).intervals[v].second
              /\ v # u => Met(u, r, m).intervals[v].first <= m.intervals[v].first
              /\ v \in code.args[u] => Met(u, r, m).intervals[v].first <= span[r].first
<1>. DEFINE f == m.intervals
            e == Starting(f, u)
            w == Widened(e, code.args[u], span[r].first, liveNumber[u])
<1>1. Met(u, r, m).intervals = w /\ Met(u, r, m).live = (m.live \ {u}) \cup code.args[u]
  BY DEF Met, Starting
<1>2. u \in Values /\ f \in [Values -> Pair]
  BY ProgramFacts
<1>. HIDE DEF f
<1>3. liveNumber[u] \in Nat /\ span[r].first \in Nat /\ f[u].second \in Nat
  BY <1>2 DEF Pair
<1>4. Max({f[u].second, liveNumber[u] + 2}) \in Nat /\ Max({f[u].second, liveNumber[u] + 2}) >= f[u].second
  BY <1>3, BothFacts
<1>5. e \in [Values -> Pair] /\ e[u].second >= f[u].second /\ \A v \in Values : v # u => e[v] = f[v]
  <2>1. e = [v \in Values |-> IF v = u THEN [first |-> liveNumber[u], second |-> Max({f[u].second, liveNumber[u] + 2})]
                              ELSE f[v]]
    BY <1>2 DEF Starting
  <2>2. [first |-> liveNumber[u], second |-> Max({f[u].second, liveNumber[u] + 2})] \in Pair
    BY <1>3, <1>4 DEF Pair
  <2>. HIDE DEF e
  <2>. QED
    BY <1>2, <1>4, <2>1, <2>2
<1>. HIDE DEF e
<1>6. /\ w \in [Values -> Pair]
      /\ \A v \in Values : /\ w[v].first <= e[v].first /\ w[v].second >= e[v].second
                           /\ v \in code.args[u] => w[v].first <= span[r].first
  BY <1>3, <1>5, WidenedFacts
<1>. HIDE DEF w
<1>7. ASSUME NEW v \in Values
      PROVE  /\ f[v].second <= w[v].second
             /\ v # u => w[v].first <= f[v].first
             /\ v \in code.args[u] => w[v].first <= span[r].first
  <2>1. f[v].second \in Nat /\ e[v].second \in Nat /\ w[v].second \in Nat
    BY <1>2, <1>5, <1>6 DEF Pair
  <2>2. e[v].second >= f[v].second
    BY <1>5, <2>1
  <2>. QED
    BY <1>5, <1>6, <2>1, <2>2
<1>. QED
  BY <1>1, <1>6, <1>7 DEF f

(* All the instructions of a region are met.                               *)
Passed(r, start, end) ==
  \A v \in Values :
    /\ start.intervals[v].second <= end.intervals[v].second
    /\ v \notin ToSet(result[r]) =>
         /\ end.intervals[v].first <= start.intervals[v].first
         /\ v \in start.live \/ UsedIn(v, r) => v \in end.live
         /\ v \in end.live => v \in start.live \/ end.intervals[v].first <= span[r].first

LEMMA MetAllPasses ==
  ASSUME CodeIsGiven, liveNumber \in [Values -> Nat], NEW r, InReach(r),
         NEW start, NEW U, Values \subseteq U,
         start \in [live : SUBSET U, intervals : [Values -> Pair]]
  PROVE  Passed(r, start, MetAll(r, start))
<1>. DEFINE list == result[r]
            n == Len(list)
<1>1. PICK met : MetSteps(met, r, start) /\ MetAll(r, start) = met[n]
  BY MetUnfolds
<1>2. n \in Nat /\ (\A i \in 1..n : list[i] \in Computed) /\ span[r] \in Pair /\ ToSet(list) = {list[i] : i \in 1..n}
  BY ReachFacts DEF InReach, ToSet
<1>3. \A k \in 1..n : met[k] = Met(list[n + 1 - k], r, met[k - 1])
  BY <1>1 DEF MetSteps
<1>4. met[0] = start /\ start.intervals \in [Values -> Pair]
  BY <1>1 DEF MetSteps
<1>. HIDE DEF list, n
<1>. DEFINE Fair(k, v) ==
              /\ start.intervals[v].second <= met[k].intervals[v].second
              /\ v \notin ToSet(list) =>
                   /\ met[k].intervals[v].first <= start.intervals[v].first
                   /\ v \in start.live \/ (\E i \in (n + 1 - k)..n : v \in code.args[list[i]]) => v \in met[k].live
                   /\ v \in met[k].live => v \in start.live \/ met[k].intervals[v].first <= span[r].first
            Good == {k \in Nat : k <= n => /\ met[k].intervals \in [Values -> Pair]
                                           /\ \A v \in Values : Fair(k, v)}
<1>5. 0 \in Good
  <2>1. (n + 1 - 0)..n = {}
    BY <1>2
  <2>2. ASSUME NEW v \in Values PROVE Fair(0, v)
    <3>1. start.intervals[v].first \in Nat /\ start.intervals[v].second \in Nat
      BY <1>4 DEF Pair
    <3>. QED
      BY <1>4, <2>1, <3>1
  <2>. QED
    BY <1>4, <2>2
<1>6. ASSUME NEW k \in Nat, k \in Good PROVE k + 1 \in Good
  <2>. SUFFICES ASSUME k + 1 <= n
                PROVE  /\ met[k + 1].intervals \in [Values -> Pair]
                       /\ \A v \in Values : Fair(k + 1, v)
    OBVIOUS
  <2>. DEFINE u == list[n - k]
  <2>1. n - k \in 1..n /\ k + 1 \in 1..n /\ (k + 1) - 1 = k /\ n + 1 - (k + 1) = n - k /\ k <= n
    BY <1>2
  <2>2. met[k + 1] = Met(u, r, met[k])
    BY <1>3, <2>1
  <2>3. met[k].intervals \in [Values -> Pair] /\ \A v \in Values : Fair(k, v)
    BY <1>6, <2>1
  <2>4. u \in Computed /\ u \in ToSet(list)
    BY <1>2, <2>1
  <2>5. \A i \in (n + 1 - (k + 1))..n : i = n - k \/ i \in (n + 1 - k)..n
    BY <1>2, <2>1
  <2>6. \A v : (\E i \in (n + 1 - (k + 1))..n : v \in code.args[list[i]])
                 => v \in code.args[u] \/ (\E i \in (n + 1 - k)..n : v \in code.args[list[i]])
    BY <2>5
  <2>. HIDE DEF u, Fair
  <2>7. /\ met[k + 1].intervals \in [Values -> Pair]
        /\ met[k + 1].live = (met[k].live \ {u}) \cup code.args[u]
        /\ \A v \in Values :
             /\ met[k].intervals[v].second <= met[k + 1].intervals[v].second
             /\ v # u => met[k + 1].intervals[v].first <= met[k].intervals[v].first
             /\ v \in code.args[u] => met[k + 1].intervals[v].first <= span[r].first
    BY <1>2, <2>2, <2>3, <2>4, MetPasses
  <2>8. ASSUME NEW v \in Values PROVE Fair(k + 1, v)
    <3>1. /\ start.intervals[v].first \in Nat /\ start.intervals[v].second \in Nat
          /\ met[k].intervals[v].first \in Nat /\ met[k].intervals[v].second \in Nat
          /\ met[k + 1].intervals[v].first \in Nat /\ met[k + 1].intervals[v].second \in Nat
          /\ span[r].first \in Nat
      BY <1>2, <1>4, <2>3, <2>7 DEF Pair
    <3>2. start.intervals[v].second <= met[k + 1].intervals[v].second
      BY <2>3, <2>7, <3>1 DEF Fair
    <3>3. CASE v \in ToSet(list)
      BY <3>2, <3>3 DEF Fair
    <3>4. CASE v \notin ToSet(list)
      <4>1. /\ v # u /\ met[k].intervals[v].first <= start.intervals[v].first
            /\ met[k + 1].intervals[v].first <= met[k].intervals[v].first
        BY <2>3, <2>4, <2>7, <3>4 DEF Fair
      <4>2. met[k + 1].intervals[v].first <= start.intervals[v].first
        BY <3>1, <4>1
      <4>3. ASSUME v \in start.live \/ (\E i \in (n + 1 - (k + 1))..n : v \in code.args[list[i]])
            PROVE  v \in met[k + 1].live
        <5>1. v \in code.args[u] \/ v \in met[k].live
          BY <2>3, <2>6, <3>4, <4>3 DEF Fair
        <5>. QED
          BY <2>7, <4>1, <5>1
      <4>4. ASSUME v \in met[k + 1].live
            PROVE  v \in start.live \/ met[k + 1].intervals[v].first <= span[r].first
        <5>1. CASE v \in code.args[u]
          BY <2>7, <5>1
        <5>2. CASE v \notin code.args[u]
          <6>1. v \in met[k].live
            BY <2>7, <4>4, <5>2
          <6>2. v \in start.live \/ met[k].intervals[v].first <= span[r].first
            BY <2>3, <3>4, <6>1 DEF Fair
          <6>. QED
            BY <3>1, <4>1, <6>2
        <5>. QED
          BY <5>1, <5>2
      <4>. QED
        BY <3>2, <4>2, <4>3, <4>4 DEF Fair
    <3>. QED
      BY <3>3, <3>4
  <2>. QED
    BY <2>7, <2>8
<1>7. n \in Good
  <2>. HIDE DEF Good
  <2>. QED
    BY <1>2, <1>5, <1>6, Induction
<1>8. \A v \in Values : Fair(n, v)
  <2>. HIDE DEF Fair
  <2>1. n <= n
    BY <1>2
  <2>. QED
    BY <1>7, <2>1
<1>9. ASSUME NEW v, UsedIn(v, r) PROVE \E i \in (n + 1 - n)..n : v \in code.args[list[i]]
  <2>1. n + 1 - n = 1
    BY <1>2
  <2>2. PICK u \in ToSet(list) : v \in code.args[u]
    BY <1>9 DEF UsedIn, list
  <2>. QED
    BY <1>2, <2>1, <2>2
<1>. QED
  BY <1>1, <1>8, <1>9 DEF Passed, list

(* What the round of a region r does to the intervals f, which it leaves   *)
(* as g: out is live at the end of r and live at its entry.                *)
RegionPassed(r, out, live, f, g) ==
  \A v \in Values :
    /\ f[v].second <= g[v].second
    /\ v \in out => span[r].second <= g[v].second
    /\ v \in live /\ IsHeader(r) => \A b \in LoopBlocks(r) : span[b].second <= g[v].second
    /\ v \in PhisOf(r) => g[v].first <= liveNumber[v]
    /\ v \notin ToSet(result[r]) \cup PhisOf(r) =>
         /\ g[v].first <= f[v].first
         /\ v \in out \/ UsedIn(v, r) => v \in live
         /\ v \in live => g[v].first <= span[r].first

LEMMA RegionPasses ==
  ASSUME GivenLine, GivenLists, LiveTypes, NumbersAscend(Len(line) + 1), DOMAIN liveIn = Regions, AnalyseRegion
  PROVE  /\ position \in DOMAIN line /\ DOMAIN liveIn' = Regions
         /\ \A q \in Regions : q # line[position] => liveIn'[q] = liveIn[q]
         /\ RegionPassed(line[position], LiveOut(line[position]), liveIn'[line[position]], interval, interval')
<1>0. PICK p, r : p = position /\ r = line[p]
  OBVIOUS
<1>. DEFINE out == LiveOut(r)
            begun == Widened(interval, out, span[r].first, span[r].second)
            start == [live |-> out, intervals |-> begun]
            met == MetAll(r, start)
            live == Entering(met.live, r)
            U == Values \cup out
            wide == WithPhis(met.intervals, r)
<1>1. /\ Len(line) \in Nat /\ DOMAIN line = 1..Len(line) /\ p \in DOMAIN line /\ p \in Nat /\ p > 0 /\ r \in Regions
      /\ CodeIsGiven /\ liveNumber \in [Values -> Nat] /\ interval \in [Values -> Pair]
      /\ span[r].first \in Nat /\ span[r].second \in Nat
  BY <1>0 DEF AnalyseRegion, GivenLine, GivenLists, LiveTypes, Pair
<1>2. /\ interval' = AroundLoop(wide, r, live)
      /\ liveIn' = [liveIn EXCEPT ![r] = live]
  BY <1>0 DEF AnalyseRegion
<1>3. InReach(r)
  BY <1>0, <1>1, BehindFacts
<1>. HIDE DEF out
<1>4. /\ begun \in [Values -> Pair]
      /\ \A v \in Values : /\ begun[v].first <= interval[v].first /\ begun[v].second >= interval[v].second
                           /\ v \in out => begun[v].first <= span[r].first /\ begun[v].second >= span[r].second
  BY <1>1, WidenedFacts
<1>. HIDE DEF begun
<1>5. Passed(r, start, met) /\ met.intervals \in [Values -> Pair]
  <2>1. Values \subseteq U /\ start.live \in SUBSET U /\ start.intervals = begun
    OBVIOUS
  <2>2. start \in [live : SUBSET U, intervals : [Values -> Pair]]
    BY <1>4, <2>1
  <2>3. HoldsUses(start.intervals, {}) /\ {} \subseteq Computed
    BY DEF HoldsUses
  <2>. DEFINE none == {}
  <2>4. HoldsUses(start.intervals, none) /\ none \subseteq Computed /\ \A u : u \notin none
    BY <2>3
  <2>. HIDE DEF start, U, none
  <2>5. Passed(r, start, met)
    BY <1>1, <1>3, <2>1, <2>2, MetAllPasses
  <2>6. met.intervals \in [Values -> Pair]
    BY <1>1, <1>3, <2>1, <2>2, <2>4, MetAllHolds
  <2>. QED
    BY <2>5, <2>6
<1>6. start.live = out /\ start.intervals = begun
  OBVIOUS
<1>. HIDE DEF met, start
<1>7. /\ wide \in [Values -> Pair]
      /\ \A v \in Values : /\ wide[v].second = met.intervals[v].second
                           /\ v \notin PhisOf(r) => wide[v] = met.intervals[v]
                           /\ v \in PhisOf(r) => wide[v].first = liveNumber[v]
  BY <1>1, <1>5, WithPhisFacts
<1>. HIDE DEF wide
<1>8. live = met.live \ PhisOf(r)
  BY DEF Entering
<1>. HIDE DEF live
<1>9. /\ interval' \in [Values -> Pair]
      /\ \A v \in Values : /\ interval'[v].first <= wide[v].first /\ wide[v].second <= interval'[v].second
                           /\ v \in live /\ IsHeader(r) => \A b \in LoopBlocks(r) : span[b].second <= interval'[v].second
  BY <1>0, <1>1, <1>2, <1>7, AroundLoopFacts DEF IsHeader, LoopBlocks
<1>10. ASSUME NEW v \in Values
       PROVE  /\ interval[v].second <= interval'[v].second
              /\ v \in out => span[r].second <= interval'[v].second
              /\ v \in PhisOf(r) => interval'[v].first <= liveNumber[v]
              /\ v \notin ToSet(result[r]) \cup PhisOf(r) =>
                   /\ interval'[v].first <= interval[v].first
                   /\ v \in out \/ UsedIn(v, r) => v \in live
                   /\ v \in live => interval'[v].first <= span[r].first
  <2>1. /\ interval[v].first \in Nat /\ interval[v].second \in Nat /\ begun[v].first \in Nat /\ begun[v].second \in Nat
        /\ met.intervals[v].first \in Nat /\ met.intervals[v].second \in Nat
        /\ wide[v].first \in Nat /\ wide[v].second \in Nat /\ interval'[v].first \in Nat /\ interval'[v].second \in Nat
        /\ span[r].first \in Nat /\ span[r].second \in Nat
    BY <1>1, <1>4, <1>5, <1>7, <1>9 DEF Pair
  <2>a. /\ begun[v].first <= interval[v].first /\ interval[v].second <= begun[v].second
        /\ v \in out => begun[v].first <= span[r].first /\ span[r].second <= begun[v].second
    <3>1. begun[v].first <= interval[v].first /\ begun[v].second >= interval[v].second
      BY <1>4
    <3>2. v \in out => begun[v].first <= span[r].first /\ begun[v].second >= span[r].second
      BY <1>4
    <3>. QED
      BY ONLY <2>1, <3>1, <3>2
  <2>2. begun[v].second <= met.intervals[v].second
    BY <1>5, <1>6 DEF Passed
  <2>3. begun[v].second <= interval'[v].second
    BY <1>7, <1>9, <2>1, <2>2
  <2>4. interval[v].second <= interval'[v].second /\ (v \in out => span[r].second <= interval'[v].second)
    BY ONLY <2>1, <2>a, <2>3
  <2>5. v \in PhisOf(r) => interval'[v].first <= liveNumber[v]
    BY <1>7, <1>9
  <2>6. ASSUME v \notin ToSet(result[r]) \cup PhisOf(r)
        PROVE  /\ interval'[v].first <= interval[v].first
               /\ v \in out \/ UsedIn(v, r) => v \in live
               /\ v \in live => interval'[v].first <= span[r].first
    <3>1. /\ met.intervals[v].first <= begun[v].first
          /\ v \in out \/ UsedIn(v, r) => v \in met.live
          /\ v \in met.live => v \in out \/ met.intervals[v].first <= span[r].first
      BY <1>5, <1>6, <2>6 DEF Passed
    <3>2. interval'[v].first <= met.intervals[v].first
      BY <1>7, <1>9, <2>1, <2>6
    <3>3. v \in live <=> v \in met.live
      BY <1>8, <2>6
    <3>4. interval'[v].first <= begun[v].first
      BY ONLY <2>1, <3>1, <3>2
    <3>5. v \in live => interval'[v].first <= span[r].first
      BY ONLY <2>1, <2>a, <3>1, <3>2, <3>3, <3>4
    <3>6. interval'[v].first <= interval[v].first
      BY ONLY <2>1, <2>a, <3>4
    <3>. QED
      BY <3>1, <3>3, <3>5, <3>6
  <2>. QED
    BY <2>4, <2>5, <2>6
<1>11. RegionPassed(r, out, live, interval, interval')
  BY <1>9, <1>10 DEF RegionPassed
<1>12. DOMAIN liveIn' = Regions /\ liveIn'[r] = live /\ \A q \in Regions : q # r => liveIn'[q] = liveIn[q]
  BY <1>1, <1>2
<1>. QED
  BY <1>0, <1>1, <1>11, <1>12 DEF out

(* Where the nodes are. *)
GivenMap ==
  /\ DOMAIN mapped \subseteq Values /\ Phis \subseteq DOMAIN mapped
  /\ \A v \in DOMAIN mapped :
       /\ mapped[v] \in Regions
       /\ \A r \in Regions : mapped[v] = r <=> v \in ToSet(result[r]) \cup PhisOf(r)
  /\ \A r \in Regions : ToSet(result[r]) \subseteq DOMAIN mapped

LEMMA MapIsGiven ==
  ASSUME DomInv, SchedInv, Scheduled
  PROVE  GivenMap
<1>1. /\ SchedTypes /\ ListsAreMapped /\ CodeIsGiven /\ Built /\ stage # "tree"
      /\ Phis \subseteq DOMAIN mapped /\ \A v \in Phis : mapped[v] = code.phis[v].region
  BY DEF SchedInv, SchedStarts, Scheduled
<1>2. DOMAIN mapped \subseteq Values
  BY <1>1 DEF SchedTypes
<1>3. ASSUME NEW v \in DOMAIN mapped
      PROVE  mapped[v] \in Regions
  <2>1. mapped[v] \in HomesIn(flow)
    BY <1>1 DEF SchedTypes
  <2>2. mapped[v] \in Visited
    BY <1>1, <2>1, HomeFacts
  <2>3. Visited \subseteq Regions
    BY VisitedIsFinite
  <2>. QED
    BY <2>2, <2>3
<1>4. ASSUME NEW v \in DOMAIN mapped, NEW r \in Regions
      PROVE  mapped[v] = r <=> v \in ToSet(result[r]) \cup PhisOf(r)
  <2>1. v \in ToSet(result[r]) <=> v \in Computed /\ mapped[v] = r
    BY <1>1, <1>2 DEF ListsAreMapped
  <2>2. v \in PhisOf(r) <=> v \in Phis /\ mapped[v] = r
    BY <1>1 DEF PhisOf
  <2>3. v \in Computed \/ v \in Phis
    BY <1>2 DEF Computed
  <2>. QED
    BY <2>1, <2>2, <2>3
<1>5. ASSUME NEW r \in Regions PROVE ToSet(result[r]) \subseteq DOMAIN mapped
  <2>1. ToSet(result[r]) \subseteq Values
    BY <1>1 DEF SchedTypes, ToSet
  <2>. QED
    BY <1>1, <2>1 DEF ListsAreMapped
<1>. QED
  BY <1>1, <1>2, <1>3, <1>4, <1>5 DEF GivenMap

(* A node has its number before the regions that follow its own start.     *)
LEMMA StartsBefore ==
  ASSUME GivenLine, GivenLists, GivenMap, LiveTypes, NumbersAscend(Len(line) + 1), PhisStartRegions(Len(line) + 1),
         NEW v \in DOMAIN mapped, NEW p \in DOMAIN line, mapped[v] = line[p], NEW i \in DOMAIN line, p < i
  PROVE  liveNumber[v] <= span[line[i]].first
<1>1. /\ Len(line) \in Nat /\ \A k \in DOMAIN line : k \in Nat /\ k < Len(line) + 1 /\ line[k] \in Regions
      /\ v \in Values
  BY DEF GivenLine, GivenMap
<1>2. /\ span[line[p]].first \in Nat /\ span[line[p]].second \in Nat /\ span[line[i]].first \in Nat
      /\ liveNumber[v] \in Nat
  BY <1>1 DEF LiveTypes, Pair
<1>3. span[line[p]].first <= span[line[p]].second /\ span[line[p]].second <= span[line[i]].first
  BY <1>1 DEF NumbersAscend, NumberedIn
<1>4. CASE v \in ToSet(result[line[p]])
  <2>1. liveNumber[v] + 2 <= span[line[p]].second
    BY <1>1, <1>4 DEF NumbersAscend, NumberedIn
  <2>. QED
    BY ONLY <1>2, <1>3, <2>1
<1>5. CASE v \in PhisOf(line[p])
  <2>1. v \in Phis /\ code.phis[v].region = line[p]
    BY <1>5 DEF PhisOf
  <2>2. liveNumber[v] = 0 \/ liveNumber[v] <= span[line[p]].first
    <3>1. liveNumber[v] = 0 \/ \E k \in DOMAIN line : line[k] = line[p] /\ liveNumber[v] <= span[line[k]].first
      BY <2>1 DEF PhisStartRegions
    <3>. QED
      BY <3>1
  <2>. QED
    BY <1>2, <1>3, <2>2
<1>. QED
  BY <1>1, <1>4, <1>5 DEF GivenMap

(* What leaves a region is live at its end. *)
LEMMA LeavesAreOut ==
  ASSUME CodeIsGiven, NEW i \in DOMAIN line, NEW v, LeavesFor(liveIn, i, v)
  PROVE  v \in LiveOut(line[i])
<1>. DEFINE r == line[i]
<1>1. CASE OneValueEach /\ UsedAtEnd(v, r)
  <2>1. PICK phi \in Phis : \E k \in DOMAIN code.phis[phi].vals :
          code.phis[phi].vals[k] = v /\ code.inputs[code.phis[phi].region][k] = r
    BY <1>1 DEF UsedAtEnd
  <2>2. PICK k \in DOMAIN code.phis[phi].vals :
          code.phis[phi].vals[k] = v /\ code.inputs[code.phis[phi].region][k] = r
    BY <2>1
  <2>. DEFINE s == code.phis[phi].region
              j == IndexIn(code.inputs[s], r)
  <2>3. DOMAIN code.phis[phi].vals = DOMAIN code.inputs[s] /\ GoesTo(flow, r, s)
    BY <2>2, ProgramFacts
  <2>4. j \in DOMAIN code.inputs[s] /\ code.inputs[s][j] = r
    BY <2>2, <2>3 DEF IndexIn
  <2>5. code.phis[phi].vals[j] = v
    BY <1>1, <2>2, <2>3, <2>4 DEF OneValueEach
  <2>6. ValOf(phi, r) = v
    BY <2>5 DEF ValOf
  <2>7. phi \in PhisOf(s) /\ s \in ToSet(Successors(flow, r))
    BY <2>3, TargetFacts DEF PhisOf
  <2>. QED
    BY <2>6, <2>7 DEF LiveOut
<1>2. CASE \E j \in DOMAIN line : GoesTo(flow, r, line[j]) /\ v \in liveIn[line[j]]
  BY <1>2, TargetFacts DEF LiveOut
<1>. QED
  BY <1>1, <1>2 DEF LeavesFor

(* What is met before its region keeps what it says of the regions behind. *)
LEMMA AnalyseLives ==
  ASSUME GivenLine, GivenLists, GivenMap, LiveTypes, LiveTypes', NumbersAscend(Len(line) + 1),
         PhisStartRegions(Len(line) + 1), DOMAIN liveIn = Regions,
         LivesHeld(interval, liveIn, position), HoldsUses(interval, Behind(position))', AnalyseRegion
  PROVE  DOMAIN liveIn' = Regions /\ LivesHeld(interval', liveIn', position - 1)
<1>0. PICK p, r : p = position /\ r = line[p]
  OBVIOUS
<1>1. /\ p \in DOMAIN line /\ DOMAIN liveIn' = Regions
      /\ \A q \in Regions : q # r => liveIn'[q] = liveIn[q]
      /\ RegionPassed(r, LiveOut(r), liveIn'[r], interval, interval')
  BY <1>0, RegionPasses
<1>2. /\ p \in Nat /\ \A i \in DOMAIN line : i \in Nat /\ i < Len(line) + 1 /\ line[i] \in Regions
      /\ CodeIsGiven /\ r \in Regions /\ Len(line) \in Nat
      /\ \A i \in DOMAIN line : line[i] = r => i = p
  BY <1>0, <1>1 DEF GivenLine, GivenLists
<1>3. UNCHANGED <<line, result, code, liveNumber, span, mapped>> /\ position' = p - 1
  BY <1>0 DEF AnalyseRegion, allVars, loopVars, scheduleVars
<1>4. ASSUME NEW i \in DOMAIN line, i > p PROVE liveIn'[line[i]] = liveIn[line[i]]
  BY <1>1, <1>2, <1>4
<1>5. ASSUME NEW i \in DOMAIN line, i > p - 1, NEW v
      PROVE  LeavesFor(liveIn', i, v) <=> LeavesFor(liveIn, i, v)
  <2>1. \A j \in DOMAIN line : j > i => liveIn'[line[j]] = liveIn[line[j]]
    BY <1>2, <1>4, <1>5
  <2>. QED
    BY <2>1 DEF LeavesFor
<1>6. ASSUME NEW v \in DOMAIN mapped
      PROVE  EntryHolds(interval', liveIn'[r], r, v) /\ ExitHolds(interval', liveIn', p, v)
  <2>1. v \in Values /\ (mapped[v] = r <=> v \in ToSet(result[r]) \cup PhisOf(r))
    BY <1>2 DEF GivenMap
  <2>2. LeavesFor(liveIn', p, v) => v \in LiveOut(r)
    <3>1. p > p - 1
      BY <1>2
    <3>. QED
      BY <1>0, <1>1, <1>2, <1>5, <3>1, LeavesAreOut
  <2>3. EntryHolds(interval', liveIn'[r], r, v)
    BY <1>1, <2>1 DEF RegionPassed, EntryHolds
  <2>4. ExitHolds(interval', liveIn', p, v)
    BY <1>0, <1>1, <2>1, <2>2 DEF RegionPassed, ExitHolds
  <2>. QED
    BY <2>3, <2>4
<1>7. ASSUME NEW i \in DOMAIN line, i > p, NEW v \in DOMAIN mapped
      PROVE  EntryHolds(interval', liveIn'[line[i]], line[i], v) /\ ExitHolds(interval', liveIn', i, v)
  <2>1. /\ v \in Values /\ (mapped[v] = r <=> v \in ToSet(result[r]) \cup PhisOf(r))
        /\ (mapped[v] = line[i] => v \notin ToSet(result[r]) \cup PhisOf(r))
    BY <1>2, <1>7 DEF GivenMap
  <2>2. EntryHolds(interval, liveIn[line[i]], line[i], v) /\ ExitHolds(interval, liveIn, i, v)
    BY <1>0, <1>7 DEF LivesHeld
  <2>3. /\ interval[v].first \in Nat /\ interval[v].second \in Nat
        /\ interval'[v].first \in Nat /\ interval'[v].second \in Nat
        /\ span[line[i]].first \in Nat /\ span[line[i]].second \in Nat /\ liveNumber[v] \in Nat
    BY <1>2, <2>1 DEF LiveTypes, Pair
  <2>4. interval[v].second <= interval'[v].second
    BY <1>1, <2>1 DEF RegionPassed
  <2>5. ASSUME v \in liveIn[line[i]], line[i] # mapped[v]
        PROVE  interval'[v].first <= span[line[i]].first
    <3>1. interval[v].first <= span[line[i]].first
      BY <2>2, <2>5 DEF EntryHolds
    <3>2. CASE v \notin ToSet(result[r]) \cup PhisOf(r)
      <4>1. interval'[v].first <= interval[v].first
        BY <1>1, <2>1, <3>2 DEF RegionPassed
      <4>. QED
        BY ONLY <2>3, <3>1, <4>1
    <3>3. CASE v \in ToSet(result[r]) \cup PhisOf(r)
      <4>1. liveNumber[v] <= span[line[i]].first
        BY <1>0, <1>1, <1>2, <1>7, <2>1, <3>3, StartsBefore
      <4>2. CASE v \in PhisOf(r)
        <5>1. interval'[v].first <= liveNumber[v]
          BY <1>1, <2>1, <4>2 DEF RegionPassed
        <5>. QED
          BY ONLY <2>3, <4>1, <5>1
      <4>3. CASE v \in ToSet(result[r])
        <5>1. v \in Computed
          BY <1>2, <4>3 DEF GivenLists
        <5>2. p > p - 1
          BY <1>2
        <5>3. v \in Behind(position)'
          BY <1>0, <1>1, <1>3, <4>3, <5>1, <5>2 DEF Behind, Computed, Phis, Values
        <5>4. interval'[v].first <= liveNumber[v]
          BY <1>3, <5>3 DEF HoldsUses
        <5>. QED
          BY ONLY <2>3, <4>1, <5>4
      <4>. QED
        BY <3>3, <4>2, <4>3
    <3>. QED
      BY <3>2, <3>3
  <2>6. ASSUME v \in liveIn[line[i]], IsHeader(line[i]), NEW b \in LoopBlocks(line[i])
        PROVE  span[b].second <= interval'[v].second
    <3>1. span[b].second <= interval[v].second
      BY <2>2, <2>6 DEF EntryHolds
    <3>2. b \in Regions
      <4>1. LoopBlocks(line[i]) \subseteq ToSet(line)
        BY <2>6 DEF GivenLine, LoopBlocks, IsHeader
      <4>. QED
        BY <1>2, <4>1 DEF ToSet
    <3>3. span[b].second \in Nat
      BY <3>2 DEF LiveTypes, Pair
    <3>. QED
      BY <2>3, <2>4, <3>1, <3>3
  <2>7. EntryHolds(interval', liveIn'[line[i]], line[i], v)
    BY <1>4, <1>7, <2>5, <2>6 DEF EntryHolds
  <2>8. ExitHolds(interval', liveIn', i, v)
    <3>1. i > p - 1 /\ liveIn'[line[i]] = liveIn[line[i]]
      BY <1>2, <1>4, <1>7
    <3>2. LeavesFor(liveIn', i, v) <=> LeavesFor(liveIn, i, v)
      BY <1>5, <3>1
    <3>3. LeavesFor(liveIn, i, v) => span[line[i]].second <= interval'[v].second
      <4>1. LeavesFor(liveIn, i, v) => span[line[i]].second <= interval[v].second
        BY <2>2 DEF ExitHolds
      <4>. QED
        BY <2>3, <2>4, <4>1
    <3>. QED
      BY <2>2, <3>1, <3>2, <3>3 DEF ExitHolds
  <2>. QED
    BY <2>7, <2>8
<1>8. \A i \in DOMAIN line : i > p - 1 => i = p \/ i > p
  BY <1>2
<1>. QED
  BY <1>0, <1>1, <1>6, <1>7, <1>8 DEF LivesHeld

LEMMA LivesStay ==
  ASSUME UNCHANGED <<flow, line, loops, loopOf, code, result, mapped, span>>, NEW f, NEW live, NEW n,
         LivesHeld(f, live, n)
  PROVE  LivesHeld(f, live, n)'
<1>1. ASSUME NEW i, NEW v
      PROVE  LeavesFor(live, i, v)' <=> LeavesFor(live, i, v)
  <2>1. OneValueEach' <=> OneValueEach
    BY DEF OneValueEach, Phis
  <2>2. \A r : UsedAtEnd(v, r)' <=> UsedAtEnd(v, r)
    BY DEF UsedAtEnd, Phis
  <2>. QED
    BY <2>1, <2>2 DEF LeavesFor
<1>2. ASSUME NEW i, NEW v, ExitHolds(f, live, i, v) PROVE ExitHolds(f, live, i, v)'
  <2>1. \A r : UsedIn(v, r)' <=> UsedIn(v, r)
    BY DEF UsedIn
  <2>. QED
    BY <1>1, <1>2, <2>1 DEF ExitHolds
<1>3. ASSUME NEW S, NEW r, NEW v, EntryHolds(f, S, r, v) PROVE EntryHolds(f, S, r, v)'
  BY <1>3 DEF EntryHolds, IsHeader, LoopBlocks
<1>. QED
  BY <1>2, <1>3 DEF LivesHeld

LEMMA NumberPhis ==
  ASSUME GivenLine, GivenLists, PhisStartRegions(position), NumberRegion, LiveTypes
  PROVE  PhisStartRegions(position)'
<1>0. PICK r, c, p : r = line[position] /\ c = CurLiveNum /\ p = position
  OBVIOUS
<1>1. /\ p \in DOMAIN line /\ r \in Regions /\ CodeIsGiven /\ p < p + 1
      /\ \A i \in DOMAIN line : i \in Nat /\ line[i] \in Regions /\ (line[i] = r => i = p)
      /\ \A i \in DOMAIN line : i < p => i < p + 1 /\ line[i] # r
  <2>1. p \in Nat /\ Len(line) \in Nat /\ DOMAIN line = 1..Len(line) /\ p \in 1..Len(line)
    BY <1>0 DEF NumberRegion, Numbering, LiveTypes, GivenLine
  <2>. QED
    BY <1>0, <2>1 DEF GivenLine, GivenLists
<1>2. UNCHANGED <<line, code>> /\ position' = p + 1
  BY <1>0 DEF NumberRegion, allVars, loopVars, scheduleVars
<1>3. \E x : span' = [span EXCEPT ![r] = [first |-> c, second |-> x]]
  BY <1>0 DEF NumberRegion
<1>4. span'[r].first = c /\ \A q \in Regions : q # r => span'[q] = span[q]
  BY <1>1, <1>3 DEF LiveTypes
<1>5. liveNumber' = IF result[r] = <<>> THEN liveNumber ELSE NumbersIn(r)
  BY <1>0 DEF NumberRegion
<1>6. ASSUME NEW v \in Phis
      PROVE  \/ liveNumber'[v] = 0
             \/ \E i \in DOMAIN line : i < p + 1 /\ line[i] = code.phis[v].region /\ liveNumber'[v] <= span'[line[i]].first
  <2>1. v \in Values /\ v \notin ToSet(result[r])
    BY <1>1, ProgramFacts DEF GivenLists, Computed
  <2>2. liveNumber[v] = 0 \/ \E i \in DOMAIN line : i < p /\ line[i] = code.phis[v].region /\ liveNumber[v] <= span[line[i]].first
    BY <1>0 DEF PhisStartRegions
  <2>3. CASE liveNumber'[v] = liveNumber[v]
    <3>1. ASSUME NEW i \in DOMAIN line, i < p PROVE span'[line[i]] = span[line[i]] /\ i < p + 1
      BY <1>1, <1>4, <3>1
    <3>. QED
      BY <2>2, <2>3, <3>1
  <2>4. CASE liveNumber'[v] # liveNumber[v]
    <3>1. result[r] # <<>> /\ v \in PhisOf(r) /\ liveNumber'[v] = c
      BY <1>0, <1>5, <2>1, <2>4 DEF NumbersIn
    <3>2. span'[line[p]].first = c /\ c <= c /\ line[p] = code.phis[v].region
      <4>1. span'[line[p]].first = c /\ line[p] = code.phis[v].region
        BY <1>0, <1>4, <3>1 DEF PhisOf
      <4>2. c \in Nat
        <5>1. CASE p = 1
          BY <1>0, <5>1 DEF CurLiveNum
        <5>2. CASE p # 1
          <6>1. p - 1 \in DOMAIN line
            BY <1>1, <5>2 DEF GivenLine
          <6>2. c = span[line[p - 1]].second /\ line[p - 1] \in Regions
            BY <1>0, <1>1, <5>2, <6>1 DEF CurLiveNum
          <6>. QED
            BY <6>2 DEF LiveTypes, Pair
        <5>. QED
          BY <5>1, <5>2
      <4>. QED
        BY <4>1, <4>2
    <3>. QED
      BY <1>1, <3>1, <3>2
  <2>. QED
    BY <2>3, <2>4
<1>7. Phis' = Phis
  BY <1>2 DEF Phis
<1>. QED
  BY <1>2, <1>6, <1>7 DEF PhisStartRegions

LEMMA LivesStart ==
  ASSUME LiveInit
  PROVE  LivesInv
<1>1. analysis = "passes" /\ liveNumber = [v \in Values |-> 0] /\ liveIn = [r \in Regions |-> {}] /\ CodeIsGiven
  BY ScheduleStarts DEF LiveInit, SchedInv
<1>2. \A v \in Phis : v \in Values
  BY <1>1, ProgramFacts
<1>. QED
  BY <1>1, <1>2 DEF LivesInv

LEMMA LivesSteps ==
  ASSUME LiveInv, IntervalInv, IntervalInv', LivesInv, [LiveNext]_everything
  PROVE  LivesInv'
<1>1. /\ LiveTypes /\ PassesComeFirst /\ NumbersAreGiven /\ LoopInv /\ SchedInv /\ DomInv
      /\ LiveTypes' /\ MetAreHeld' /\ DOMAIN liveIn = Regions
  BY DEF LiveInv, IntervalInv, LoopInv, LivesInv
<1>2. ASSUME analysis # "passes"
      PROVE  GivenLine /\ GivenLists /\ GivenMap
  <2>1. pass = "linearized" /\ Scheduled
    BY <1>1, <1>2 DEF PassesComeFirst
  <2>. QED
    BY <1>1, <2>1, LineIsGiven, ListsAreGiven, MapIsGiven
<1>3. CASE Analyses
  <2>1. analysis = "passes" /\ UNCHANGED <<analysis, liveNumber, liveIn>> /\ code' = code
    BY <1>3 DEF Analyses, liveVars, scheduleVars, ScheduleNext, StartSchedule, Place, PassOver, SweepAgain, ScheduleDone
  <2>. QED
    BY <1>1, <2>1 DEF LivesInv, Phis
<1>4. CASE StartNumbers
  <2>1. analysis = "passes" /\ analysis' = "numbers" /\ UNCHANGED <<liveNumber, liveIn, code>>
    BY <1>4 DEF StartNumbers, scheduleVars
  <2>. QED
    BY <1>1, <2>1 DEF LivesInv, PhisStartRegions, Phis
<1>5. CASE NumberRegion
  <2>1. analysis = "numbers" /\ UNCHANGED <<analysis, liveIn>>
    BY <1>5 DEF NumberRegion, Numbering
  <2>2. PhisStartRegions(position)'
    BY <1>1, <1>2, <1>5, <2>1, NumberPhis DEF LivesInv
  <2>. QED
    BY <1>1, <2>1, <2>2 DEF LivesInv
<1>6. CASE StartIntervals
  <2>1. /\ analysis = "numbers" /\ analysis' = "intervals" /\ position > Len(line) /\ position' = Len(line)
        /\ UNCHANGED <<line, code, liveNumber, span, liveIn>>
    BY <1>6 DEF StartIntervals, allVars, loopVars, scheduleVars
  <2>2. position = Len(line) + 1 /\ Len(line) \in Nat /\ DOMAIN line = 1..Len(line)
    BY <1>1, <1>2, <2>1 DEF LiveTypes, GivenLine
  <2>3. PhisStartRegions(Len(line) + 1)
    BY <2>1, <2>2 DEF LivesInv
  <2>4. PhisStartRegions(Len(line) + 1)'
    BY <2>1, <2>3 DEF PhisStartRegions, Phis
  <2>5. LivesHeld(interval, liveIn, position)'
    BY <2>1, <2>2 DEF LivesHeld
  <2>. QED
    BY <1>1, <2>1, <2>4, <2>5 DEF LivesInv
<1>7. CASE AnalyseRegion
  <2>1. /\ analysis = "intervals" /\ analysis' = analysis /\ position' = position - 1
        /\ UNCHANGED <<flow, line, loops, loopOf, code, result, mapped, span, liveNumber>>
    BY <1>7 DEF AnalyseRegion, allVars, loopVars, scheduleVars, domVars
  <2>2. LivesHeld(interval, liveIn, position) /\ PhisStartRegions(Len(line) + 1) /\ NumbersAscend(Len(line) + 1)
    BY <1>1, <2>1 DEF LivesInv, NumbersAreGiven
  <2>3. HoldsUses(interval, Behind(position))'
    BY <1>1, <2>1 DEF MetAreHeld
  <2>4. DOMAIN liveIn' = Regions /\ LivesHeld(interval', liveIn', position - 1)
    BY <1>1, <1>2, <1>7, <2>1, <2>2, <2>3, AnalyseLives
  <2>5. LivesHeld(interval, liveIn, position)'
    BY <2>1, <2>4, LivesStay
  <2>6. PhisStartRegions(Len(line) + 1)'
    BY <2>1, <2>2 DEF PhisStartRegions, Phis
  <2>. QED
    BY <2>1, <2>4, <2>5, <2>6 DEF LivesInv
<1>8. CASE LiveDone
  <2>1. /\ analysis = "intervals" /\ analysis' = "done" /\ position = 0
        /\ UNCHANGED <<flow, line, loops, loopOf, code, result, mapped, span, liveNumber, interval, liveIn>>
    BY <1>8 DEF LiveDone, allVars, loopVars, scheduleVars, domVars
  <2>2. LivesHeld(interval, liveIn, 0) /\ PhisStartRegions(Len(line) + 1)
    BY <2>1 DEF LivesInv
  <2>3. LivesHeld(interval, liveIn, 0)'
    BY <2>1, <2>2, LivesStay
  <2>4. PhisStartRegions(Len(line) + 1)'
    BY <2>1, <2>2 DEF PhisStartRegions, Phis
  <2>. QED
    BY <1>1, <2>1, <2>3, <2>4 DEF LivesInv
<1>9. CASE Recalc
  <2>1. /\ analysis' = "numbers" /\ liveNumber' = [v \in Values |-> 0] /\ UNCHANGED <<liveIn, code>>
        /\ analysis = "done"
    BY <1>9 DEF Recalc, scheduleVars
  <2>2. \A v \in Phis : v \in Values
    BY <1>2, <2>1, ProgramFacts DEF GivenLists
  <2>. QED
    BY <1>1, <2>1, <2>2 DEF LivesInv, PhisStartRegions, Phis
<1>10. CASE UNCHANGED everything
  <2>1. /\ UNCHANGED <<flow, line, loops, loopOf, code, result, mapped, span, liveNumber, interval, liveIn>>
        /\ UNCHANGED <<analysis, position>>
    BY <1>10 DEF everything, liveVars, allVars, loopVars, scheduleVars, domVars
  <2>4. PhisStartRegions(position) => PhisStartRegions(position)'
    BY <2>1 DEF PhisStartRegions, Phis
  <2>5. PhisStartRegions(Len(line) + 1) => PhisStartRegions(Len(line) + 1)'
    BY <2>1 DEF PhisStartRegions, Phis
  <2>6. LivesHeld(interval, liveIn, position) => LivesHeld(interval, liveIn, position)'
    BY <2>1, LivesStay
  <2>7. LivesHeld(interval, liveIn, 0) => LivesHeld(interval, liveIn, 0)'
    BY <2>1, LivesStay
  <2>8. Phis' = Phis
    BY <2>1 DEF Phis
  <2>. QED
    BY <2>1, <2>4, <2>5, <2>6, <2>7, <2>8 DEF LivesInv
<1>. QED
  BY <1>3, <1>4, <1>5, <1>6, <1>7, <1>8, <1>9, <1>10 DEF LiveNext, LiveReturned

-----------------------------------------------------------------------------
(* Loops that are not nested: who is around whom. *)
LEMMA NestLiveSteps ==
  ASSUME LiveInv, NestInv, WalkOrder, [LiveNext]_everything
  PROVE  NestInv' /\ WalkOrder'
<1>1. LoopInv /\ DomInv
  BY DEF LiveInv, LoopInv
<1>2. [LoopNext]_allVars
  <2>1. CASE ScheduleNext /\ UNCHANGED loopVars
    BY <2>1 DEF ScheduleNext, StartSchedule, Place, PassOver, SweepAgain, ScheduleDone, allVars
  <2>2. CASE Analyses
    BY <2>1, <2>2 DEF Analyses, LoopNext
  <2>3. CASE StartNumbers \/ NumberRegion \/ StartIntervals \/ AnalyseRegion \/ LiveDone \/ Recalc \/ LiveReturned
    BY <2>3 DEF StartNumbers, NumberRegion, StartIntervals, AnalyseRegion, LiveDone, Recalc, LiveReturned, everything
  <2>4. CASE UNCHANGED everything
    BY <2>4 DEF everything
  <2>. QED
    BY <2>2, <2>3, <2>4 DEF LiveNext
<1>. QED
  BY <1>1, <1>2, NestSteps, LoopStepIsDomStep, OrderSteps

(* The end leads nowhere, and so to no latch. *)
LEMMA BodyIsNotTheEnd ==
  ASSUME LoopTypes, HeadersLead, DomInv, NEW i \in DOMAIN loops, NEW s \in NatBody(i)
  PROVE  s # End
<1>. DEFINE C == Regions \ {End}
<1>1. flow \in Flows
  BY DEF DomInv, WalkInv, TypeOK
<1>2. ASSUME NEW q, NEW u \in Predecessors(flow, q) PROVE u \in C
  <2>1. u \in Regions /\ GoesTo(flow, u, q)
    BY <1>2 DEF Predecessors
  <2>. QED
    BY <1>1, <2>1, EndLeadsNowhere
<1>3. loops[i].latches \subseteq C
  BY <1>2 DEF HeadersLead, Latches
<1>4. NatBody(i) \subseteq C
  <2>. HIDE DEF C
  <2>. QED
    BY <1>2, <1>3, BodyIsLeast
<1>. QED
  BY <1>4

(* A loop that is in no other has all that leads to its blocks.            *)
LEMMA LoopIsClosed ==
  ASSUME LoopInv, NestInv, pass = "linearized", \A i \in DOMAIN loops : loops[i].parent = 0,
         NEW s \in Regions, loopOf[s] # 0, NEW r \in Regions, GoesTo(flow, r, s),
         s # loops[loopOf[s]].header \/ r \in loops[loopOf[s]].latches
  PROVE  loopOf[r] = loopOf[s]
<1>. DEFINE l == loopOf[s]
            h == loops[l].header
<1>1. /\ LoopTypes /\ OwnersAgree /\ HeadersLead /\ BlocksBelong /\ BodiesAreMet /\ DomInv
  BY DEF LoopInv, NestInv
<1>2. l \in DOMAIN loops /\ Len(loops) \in Nat /\ DOMAIN loops = 1..Len(loops)
  <2>1. loopOf[s] \in 0..Len(loops) /\ loops \in Seq(Loop)
    BY <1>1 DEF LoopTypes
  <2>. QED
    BY <2>1
<1>3. Over = Len(loops)
  BY DEF Over
<1>4. ASSUME NEW q \in NatBody(l) PROVE loopOf[q] = l
  <2>1. MetBy(q, l) /\ q \in Regions
    BY <1>1, <1>2, <1>3, BodyFacts DEF BodiesAreMet
  <2>2. loopOf[q] \in DOMAIN loops
    <3>1. loopOf[q] \in 0..Len(loops) /\ loopOf[q] # 0
      BY <1>1, <2>1 DEF LoopTypes, MetBy
    <3>. QED
      BY <1>2, <3>1
  <2>3. loops[loopOf[q]].parent = 0
    BY <2>2
  <2>. QED
    BY <1>2, <2>1, <2>3 DEF MetBy
<1>5. loopOf[h] = l
  <2>1. loops[l].blocks # <<>> /\ loops[l].blocks[1] = h /\ loops[l].blocks \in Seq(Regions)
    BY <1>1, <1>2, LoopFields DEF HeadersLead
  <2>2. h \in ToSet(loops[l].blocks)
    BY <2>1 DEF ToSet
  <2>. QED
    BY <1>1, <1>2, <2>2 DEF OwnersAgree, OwnedOnce
<1>6. CASE r = h
  BY <1>5, <1>6
<1>7. CASE r # h /\ r \in loops[l].latches
  <2>1. r \in NatBody(l)
    BY <1>1, <1>2, <1>7, BodyFacts
  <2>. QED
    BY <1>4, <2>1
<1>8. CASE r # h /\ s # h
  <2>1. s \in ToSet(loops[l].blocks)
    BY <1>1 DEF OwnersAgree
  <2>2. s \in NatBody(l)
    BY <1>1, <1>2, <1>8, <2>1 DEF BlocksBelong
  <2>3. r \in Predecessors(flow, s)
    <3>1. flow[r].kind # "ret"
      <4>1. flow \in Flows
        BY <1>1 DEF DomInv, WalkInv, TypeOK
      <4>2. s # End
        BY <1>1, <1>2, <2>2, BodyIsNotTheEnd
      <4>3. flow[r] \in Terminators \cup {EndTerminator}
        BY <4>1 DEF Flows
      <4>. QED
        BY <4>2, <4>3 DEF Terminators, EndTerminator, GoesTo
    <3>. QED
      BY <3>1 DEF Predecessors
  <2>4. r \in NatBody(l)
    BY <1>1, <1>2, <1>8, <2>2, <2>3, BodyFacts
  <2>. QED
    BY <1>4, <2>4
<1>. QED
  BY <1>6, <1>7, <1>8

-----------------------------------------------------------------------------
(* Where a value is live, by paths, when the analysis is over. *)
LineIsMade ==
  /\ LoopInv /\ NestInv /\ GivenLine /\ GivenLists /\ GivenMap /\ LiveTypes
  /\ pass = "linearized" /\ ToSet(line) = Visited
  /\ NumbersAscend(Len(line) + 1) /\ InOrder

WhenAnalysed == LineIsMade /\ LivesHeld(interval, liveIn, 0) /\ OneValueEach

(* A region has v in its live-in set, or its loop is entered with v live.  *)
IsLiveIn(v, r) ==
  \/ v \in liveIn[r]
  \/ loopOf[r] # 0 /\ loops[loopOf[r]].header # mapped[v] /\ v \in liveIn[loops[loopOf[r]].header]

Lives(v) == {r \in Visited \ {mapped[v]} : IsLiveIn(v, r)}

LEMMA PlaceOnLine ==
  ASSUME LineIsMade, NEW r \in Visited
  PROVE  /\ r \in Regions /\ span[r].first \in Nat /\ span[r].second \in Nat
         /\ IndexIn(line, r) \in DOMAIN line /\ line[IndexIn(line, r)] = r /\ IndexIn(line, r) > 0
         /\ \A i \in DOMAIN line : line[i] = r => i = IndexIn(line, r)
<1>1. line \in Seq(Regions) /\ \E i \in DOMAIN line : line[i] = r
  BY DEF LineIsMade, GivenLine, ToSet
<1>2. IndexIn(line, r) \in DOMAIN line /\ line[IndexIn(line, r)] = r
  BY <1>1 DEF IndexIn
<1>3. r \in Regions /\ IndexIn(line, r) > 0
  BY <1>1, <1>2
<1>4. span[r].first \in Nat /\ span[r].second \in Nat
  BY <1>3 DEF LineIsMade, LiveTypes, Pair
<1>5. \A i, j \in DOMAIN line : line[i] = line[j] => i = j
  BY DEF LineIsMade, GivenLine
<1>. QED
  BY <1>2, <1>3, <1>4, <1>5

(* The loop of a region starts at its header, and the header is reached.   *)
LEMMA HeaderOnLine ==
  ASSUME LineIsMade, NEW r \in Visited, loopOf[r] # 0
  PROVE  /\ loops[loopOf[r]].header \in Visited
         /\ IndexIn(line, loops[loopOf[r]].header) <= IndexIn(line, r)
         /\ span[loops[loopOf[r]].header].first <= span[r].first
         /\ IsHeader(loops[loopOf[r]].header) /\ r \in LoopBlocks(loops[loopOf[r]].header)
<1>. DEFINE l == loopOf[r]
            h == loops[l].header
            k == IndexIn(line, r)
<1>1. /\ r \in Regions /\ span[r].first \in Nat /\ k \in DOMAIN line /\ line[k] = r
      /\ line \in Seq(Regions) /\ Len(line) \in Nat
      /\ pass = "linearized" /\ LoopTypes /\ LineLeads /\ HeadersLead /\ OwnersAgree
  BY PlaceOnLine DEF LineIsMade, GivenLine, NestInv, LoopInv
<1>2. PICK j \in DOMAIN line : j <= k /\ line[j] = h
  BY <1>1 DEF LineLeads
<1>3. h \in Visited /\ IndexIn(line, h) <= k
  <2>1. h \in Visited
    BY <1>2 DEF LineIsMade, ToSet
  <2>2. IndexIn(line, h) = j
    BY <1>2, <2>1, PlaceOnLine
  <2>. QED
    BY <1>2, <2>1, <2>2
<1>4. span[h].first <= span[r].first
  <2>1. CASE j = k
    BY <1>1, <1>2, <2>1
  <2>2. CASE j # k
    <3>1. j < k /\ k < Len(line) + 1 /\ j < Len(line) + 1
      BY <1>1, <1>2, <2>2
    <3>2. span[h].second <= span[r].first /\ span[h].first <= span[h].second
      BY <1>1, <1>2, <3>1 DEF LineIsMade, NumbersAscend, NumberedIn
    <3>3. span[h].first \in Nat /\ span[h].second \in Nat
      BY <1>3, PlaceOnLine
    <3>. QED
      BY ONLY <1>1, <3>2, <3>3
  <2>. QED
    BY <2>1, <2>2
<1>5. l \in DOMAIN loops
  <2>1. loopOf[r] \in 0..Len(loops) /\ loops \in Seq(Loop)
    BY <1>1 DEF LoopTypes
  <2>. QED
    BY <2>1
<1>6. loopOf[h] = l
  <2>1. loops[l].blocks # <<>> /\ loops[l].blocks[1] = h /\ loops[l].blocks \in Seq(Regions)
    BY <1>1, <1>5, LoopFields DEF HeadersLead
  <2>2. h \in ToSet(loops[l].blocks)
    BY <2>1 DEF ToSet
  <2>. QED
    BY <1>1, <1>5, <2>2 DEF OwnersAgree, OwnedOnce
<1>7. r \in ToSet(loops[l].blocks)
  BY <1>1 DEF OwnersAgree
<1>. QED
  BY <1>3, <1>4, <1>6, <1>7 DEF IsHeader, LoopBlocks

(* Before a region where v is live, v is live on the line at the end of    *)
(* the region, or all through the loop of both.                            *)
LEMMA LivesGoUp ==
  ASSUME WhenAnalysed, NEW v \in DOMAIN mapped, NEW s \in Lives(v), NEW r \in Visited, GoesTo(flow, r, s)
  PROVE  \/ LeavesFor(liveIn, IndexIn(line, r), v)
         \/ /\ loopOf[r] # 0 /\ loops[loopOf[r]].header # mapped[v]
            /\ v \in liveIn[loops[loopOf[r]].header]
<1>1. /\ s \in Visited /\ s # mapped[v] /\ IsLiveIn(v, s)
      /\ s \in Regions /\ r \in Regions
  BY PlaceOnLine DEF Lives, WhenAnalysed
<1>2. /\ LoopInv /\ NestInv /\ pass = "linearized" /\ InOrder
      /\ \A i \in DOMAIN loops : loops[i].parent = 0
  BY DEF WhenAnalysed, LineIsMade, InOrder
<1>3. CASE v \in liveIn[s] /\ ~IsBackEdge(r, s)
  <2>1. IndexIn(line, r) < IndexIn(line, s)
    BY <1>1, <1>2, <1>3 DEF InOrder
  <2>2. /\ IndexIn(line, r) \in DOMAIN line /\ line[IndexIn(line, r)] = r
        /\ IndexIn(line, s) \in DOMAIN line /\ line[IndexIn(line, s)] = s /\ line \in Seq(Regions)
    BY <1>1, PlaceOnLine DEF WhenAnalysed, LineIsMade, GivenLine
  <2>3. IndexIn(line, s) > IndexIn(line, r)
    BY <2>1, <2>2
  <2>. QED
    BY <1>1, <1>3, <2>2, <2>3 DEF LeavesFor
<1>4. CASE v \in liveIn[s] /\ IsBackEdge(r, s)
  <2>1. loopOf[s] # 0 /\ loops[loopOf[s]].header = s /\ r \in loops[loopOf[s]].latches
    BY <1>4 DEF IsBackEdge
  <2>2. loopOf[r] = loopOf[s]
    BY <1>1, <1>2, <2>1, LoopIsClosed
  <2>. QED
    BY <1>1, <1>4, <2>1, <2>2
<1>5. CASE v \notin liveIn[s]
  <2>1. /\ loopOf[s] # 0 /\ loops[loopOf[s]].header # mapped[v] /\ v \in liveIn[loops[loopOf[s]].header]
        /\ s # loops[loopOf[s]].header
    BY <1>1, <1>5 DEF IsLiveIn
  <2>2. loopOf[r] = loopOf[s]
    BY <1>1, <1>2, <2>1, LoopIsClosed
  <2>. QED
    BY <2>1, <2>2
<1>. QED
  BY <1>3, <1>4, <1>5

(* What is live by paths is in the live-in sets, or around the loop.       *)
EntryLeads(v, F) ==
  /\ F[0] = {r \in Visited \ {mapped[v]} : UsedIn(v, r) \/ UsedAtEnd(v, r)}
  /\ \A k \in Nat : F[k + 1] = F[k] \cup ((Visited \ {mapped[v]}) \cap Before(F[k]))

LEMMA EntryUnfolds ==
  ASSUME NEW v
  PROVE  \E F : EntryLeads(v, F) /\ EntryLive(v) = F[Cardinality(Regions)]
<1>. DEFINE T == SUBSET Visited
            elsewhere == Visited \ {mapped[v]}
            S0 == {r \in elsewhere : UsedIn(v, r) \/ UsedAtEnd(v, r)}
            step == [k \in Nat |-> [B \in T |-> B \cup (elsewhere \cap Before(B))]]
            IsIt(f) == f = [k \in Nat |-> IF k = 0 THEN S0
                                          ELSE f[k - 1] \cup (elsewhere \cap Before(f[k - 1]))]
            f0 == CHOOSE f : IsIt(f)
<1>1. EntryLive(v) = f0[Cardinality(Regions)]
  BY Zenon DEF EntryLive
<1>2. PICK g \in [Nat -> T] : Follows(g, S0, step)
  <2>1. S0 \in T
    OBVIOUS
  <2>2. step \in Steps(T)
    <3>1. \A B \in T : B \cup (elsewhere \cap Before(B)) \in T
      OBVIOUS
    <3>. HIDE DEF elsewhere, T
    <3>. QED
      BY <3>1 DEF Steps
  <2>. HIDE DEF T, S0, step
  <2>. QED
    BY <2>1, <2>2, RecursionExists
<1>3. g[0] = S0 /\ \A k \in Nat : g[k + 1] = g[k] \cup (elsewhere \cap Before(g[k]))
  <2>1. g[0] = S0 /\ \A k \in Nat : g[k + 1] = step[k][g[k]]
    BY <1>2 DEF Follows
  <2>. HIDE DEF S0, elsewhere, T
  <2>. QED
    BY <1>2, <2>1
<1>4. IsIt(g)
  <2>1. ASSUME NEW k \in Nat
        PROVE  g[k] = IF k = 0 THEN S0 ELSE g[k - 1] \cup (elsewhere \cap Before(g[k - 1]))
    <3>1. CASE k = 0
      BY <1>3, <3>1
    <3>2. CASE k # 0
      <4>1. k - 1 \in Nat /\ (k - 1) + 1 = k
        BY <3>2
      <4>. HIDE DEF S0, elsewhere
      <4>. QED
        BY <1>3, <3>2, <4>1
    <3>. QED
      BY <3>1, <3>2
  <2>. HIDE DEF S0, elsewhere, T
  <2>. QED
    BY <1>2, <2>1
<1>5. IsIt(f0)
  <2>. HIDE DEF IsIt
  <2>. QED
    BY <1>4
<1>. HIDE DEF f0
<1>6. EntryLeads(v, f0)
  <2>1. f0[0] = S0
    BY <1>5
  <2>2. ASSUME NEW k \in Nat PROVE f0[k + 1] = f0[k] \cup (elsewhere \cap Before(f0[k]))
    <3>1. k + 1 \in Nat /\ k + 1 # 0 /\ (k + 1) - 1 = k
      OBVIOUS
    <3>. HIDE DEF S0, elsewhere
    <3>. QED
      BY <1>5, <3>1
  <2>. QED
    BY <2>1, <2>2 DEF EntryLeads
<1>. QED
  BY <1>1, <1>6

LEMMA EntryIsLive ==
  ASSUME WhenAnalysed, NEW v \in DOMAIN mapped
  PROVE  EntryLive(v) \subseteq Lives(v)
<1>1. PICK F : EntryLeads(v, F) /\ EntryLive(v) = F[Cardinality(Regions)]
  BY EntryUnfolds
<1>2. ASSUME NEW r \in Visited, r # mapped[v], LeavesFor(liveIn, IndexIn(line, r), v) \/ UsedIn(v, r)
      PROVE  v \in liveIn[r]
  BY <1>2, PlaceOnLine DEF WhenAnalysed, LineIsMade, LivesHeld, ExitHolds
<1>3. ASSUME NEW r \in Visited, r # mapped[v], UsedIn(v, r) \/ UsedAtEnd(v, r)
      PROVE  r \in Lives(v)
  <2>1. r \in Regions /\ line[IndexIn(line, r)] = r /\ CodeIsGiven /\ OneValueEach
    BY PlaceOnLine DEF WhenAnalysed, LineIsMade, GivenLists
  <2>2. v \in liveIn[r]
    BY <1>2, <1>3, <2>1 DEF LeavesFor
  <2>. QED
    BY <1>3, <2>2 DEF Lives, IsLiveIn
<1>4. ASSUME NEW r \in Visited, r # mapped[v], r \in Before(Lives(v))
      PROVE  r \in Lives(v)
  <2>1. PICK s \in Lives(v) : GoesTo(flow, r, s)
    BY <1>4, TargetFacts DEF Before
  <2>2. IsLiveIn(v, r)
    BY <1>2, <1>4, <2>1, LivesGoUp DEF IsLiveIn
  <2>. QED
    BY <1>4, <2>2 DEF Lives
<1>. DEFINE Good == {k \in Nat : F[k] \subseteq Lives(v)}
<1>5. 0 \in Good
  BY <1>1, <1>3 DEF EntryLeads
<1>6. ASSUME NEW k \in Nat, k \in Good PROVE k + 1 \in Good
  <2>1. F[k] \subseteq Lives(v) /\ F[k + 1] = F[k] \cup ((Visited \ {mapped[v]}) \cap Before(F[k]))
    BY <1>1, <1>6 DEF EntryLeads
  <2>2. Before(F[k]) \subseteq Before(Lives(v)) /\ Before(Lives(v)) \subseteq Visited
    BY <2>1 DEF Before
  <2>3. F[k + 1] \subseteq Lives(v)
    BY <1>4, <2>1, <2>2
  <2>. QED
    BY <2>3
<1>7. Cardinality(Regions) \in Good
  <2>1. Cardinality(Regions) \in Nat
    BY RegionsAssumption, FS_CardinalityType
  <2>. HIDE DEF Good
  <2>. QED
    BY <1>5, <1>6, <2>1, Induction
<1>. QED
  BY <1>1, <1>7

(* On an order that recalc is made for, an interval starts no later than   *)
(* any region in which the value is live at the entry and ends no earlier  *)
(* than any at whose end it is live, around loops included, after the      *)
(* first call and after the second.                                        *)
THEOREM IntervalsHoldAllLives == LiveSpec => []IntervalsHoldLives
<1>. DEFINE Inv == LiveInv /\ IntervalInv /\ LivesInv /\ NestInv /\ WalkOrder
<1>1. LiveInit => Inv
  BY LiveStartsWell, IntervalsStart, LivesStart, NestStarts, OrderStarts DEF LiveInit, LoopInit, DomInit
<1>2. Inv /\ [LiveNext]_everything => Inv'
  <2>. SUFFICES ASSUME Inv, [LiveNext]_everything PROVE Inv'
    OBVIOUS
  <2>1. LiveInv' /\ IntervalInv'
    BY LiveSteps, IntervalSteps
  <2>2. LivesInv' /\ NestInv' /\ WalkOrder'
    BY <2>1, LivesSteps, NestLiveSteps
  <2>. QED
    BY <2>1, <2>2
<1>3. Inv => IntervalsHoldLives
  <2>. SUFFICES ASSUME Inv, analysis = "done", InOrder, OneValueEach, NEW v \in DOMAIN mapped
                PROVE  /\ \A r \in EntryLive(v) : interval[v].first <= span[r].first
                       /\ \A r \in ExitLive(v) : span[r].second <= interval[v].second
    BY DEF IntervalsHoldLives, Analysed
  <2>1. WhenAnalysed
    <3>1. LoopInv /\ SchedInv /\ DomInv /\ pass = "linearized" /\ Scheduled /\ LiveTypes
      BY DEF LiveInv, IntervalInv, LoopInv, PassesComeFirst
    <3>2. NumbersAscend(Len(line) + 1) /\ LivesHeld(interval, liveIn, 0)
      BY DEF IntervalInv, NumbersAreGiven, LivesInv
    <3>. QED
      BY <3>1, <3>2, LineIsGiven, ListsAreGiven, MapIsGiven DEF WhenAnalysed, LineIsMade
  <2>2. v \in Values /\ interval[v].first \in Nat /\ interval[v].second \in Nat
    BY <2>1 DEF WhenAnalysed, LineIsMade, GivenMap, LiveTypes, Pair
  <2>3. ASSUME NEW r \in Visited, v \in liveIn[r]
        PROVE  EntryHolds(interval, liveIn[r], r, v)
    BY <2>1, <2>3, PlaceOnLine DEF WhenAnalysed, LineIsMade, LivesHeld
  <2>4. ASSUME NEW r \in EntryLive(v) PROVE interval[v].first <= span[r].first
    <3>1. r \in Visited /\ r # mapped[v] /\ IsLiveIn(v, r)
      BY <2>1, EntryIsLive DEF Lives
    <3>2. CASE v \in liveIn[r]
      BY <2>3, <3>1, <3>2 DEF EntryHolds
    <3>3. CASE v \notin liveIn[r]
      <4>. DEFINE h == loops[loopOf[r]].header
      <4>1. loopOf[r] # 0 /\ h # mapped[v] /\ v \in liveIn[h]
        BY <3>1, <3>3 DEF IsLiveIn
      <4>2. h \in Visited /\ span[h].first <= span[r].first
        BY <2>1, <3>1, <4>1, HeaderOnLine DEF WhenAnalysed
      <4>3. interval[v].first <= span[h].first
        BY <2>3, <4>1, <4>2 DEF EntryHolds
      <4>4. span[h].first \in Nat /\ span[r].first \in Nat
        BY <2>1, <3>1, <4>2, PlaceOnLine DEF WhenAnalysed
      <4>. QED
        BY ONLY <2>2, <4>2, <4>3, <4>4
    <3>. QED
      BY <3>2, <3>3
  <2>5. ASSUME NEW r \in ExitLive(v) PROVE span[r].second <= interval[v].second
    <3>1. r \in Visited
      BY DEF ExitLive, Before
    <3>2. /\ IndexIn(line, r) \in DOMAIN line /\ line[IndexIn(line, r)] = r /\ IndexIn(line, r) > 0
      BY <2>1, <3>1, PlaceOnLine DEF WhenAnalysed
    <3>3. CASE LeavesFor(liveIn, IndexIn(line, r), v)
      BY <2>1, <3>2, <3>3 DEF WhenAnalysed, LineIsMade, LivesHeld, ExitHolds
    <3>4. CASE ~LeavesFor(liveIn, IndexIn(line, r), v)
      <4>. DEFINE h == loops[loopOf[r]].header
      <4>1. ~UsedAtEnd(v, r)
        BY <3>2, <3>4 DEF LeavesFor
      <4>2. PICK s \in EntryLive(v) : GoesTo(flow, r, s)
        BY <4>1, TargetFacts DEF ExitLive, Before
      <4>3. loopOf[r] # 0 /\ v \in liveIn[h]
        BY <2>1, <3>1, <3>4, <4>2, EntryIsLive, LivesGoUp
      <4>4. h \in Visited /\ IsHeader(h) /\ r \in LoopBlocks(h)
        BY <2>1, <3>1, <4>3, HeaderOnLine DEF WhenAnalysed
      <4>. QED
        BY <2>3, <4>3, <4>4 DEF EntryHolds
    <3>. QED
      BY <3>3, <3>4
  <2>. QED
    BY <2>4, <2>5
<1>. QED
  BY <1>1, <1>2, <1>3, PTL DEF LiveSpec

-----------------------------------------------------------------------------
(* What a round makes of the intervals exactly: a value that the region    *)
(* defines starts at its number, one that is live at the entry where it    *)
(* did or where the region does, and no interval ends later than it has to. *)
LEMMA WidenedExactly ==
  ASSUME NEW intervals \in [Values -> Pair], NEW S, NEW a \in Nat, NEW b \in Nat
  PROVE  \A v \in Values :
           /\ v \notin S => Widened(intervals, S, a, b)[v] = intervals[v]
           /\ Widened(intervals, S, a, b)[v].first \in {a, intervals[v].first}
           /\ Widened(intervals, S, a, b)[v].second = intervals[v].second
              \/ (v \in S /\ Widened(intervals, S, a, b)[v].second = b)
<1>. TAKE v \in Values
<1>. DEFINE w == Widened(intervals, S, a, b)[v]
            c == intervals[v].first
            d == intervals[v].second
<1>1. intervals[v].first \in Nat /\ intervals[v].second \in Nat
  BY DEF Pair
<1>2. CASE v \notin S
  <2>1. w = intervals[v]
    BY <1>2 DEF Widened
  <2>. QED
    BY <1>2, <2>1
<1>3. CASE v \in S
  <2>1. w.first = Min({a, c}) /\ w.second = Max({b, d})
    BY <1>3 DEF Widened
  <2>. HIDE DEF w, c, d
  <2>2. \E x \in {a, c} : \A y \in {a, c} : x =< y
    <3>1. a <= c \/ c <= a
      BY <1>1 DEF c
    <3>. QED
      BY <1>1, <3>1 DEF c
  <2>3. Min({a, c}) \in {a, c}
    BY <2>2 DEF Min
  <2>4. \E x \in {b, d} : \A y \in {b, d} : x >= y
    <3>1. b <= d \/ d <= b
      BY <1>1 DEF d
    <3>. QED
      BY <1>1, <3>1 DEF d
  <2>5. Max({b, d}) \in {b, d}
    BY <2>4 DEF Max
  <2>. QED
    BY <1>3, <2>1, <2>3, <2>5 DEF w, c, d
<1>. QED
  BY <1>2, <1>3

OneMet(u, r, m, met) ==
  /\ met.intervals[u].first = liveNumber[u] /\ u \notin met.live
  /\ \A v \in Values :
       /\ met.intervals[v].second = m.intervals[v].second
          \/ (v = u /\ met.intervals[v].second = liveNumber[u] + 2)
          \/ (v \in code.args[u] /\ met.intervals[v].second = liveNumber[u])
       /\ v # u => /\ v \in met.live <=> v \in m.live \cup code.args[u]
                   /\ met.intervals[v].first \in {m.intervals[v].first, span[r].first}
                   /\ v \notin code.args[u] => met.intervals[v].first = m.intervals[v].first

LEMMA MetExactly ==
  ASSUME CodeIsGiven, liveNumber \in [Values -> Nat], NEW r, span[r] \in Pair,
         NEW u \in Computed, u \notin code.args[u], NEW m, m.intervals \in [Values -> Pair]
  PROVE  OneMet(u, r, m, Met(u, r, m))
<1>. DEFINE f == m.intervals
            late == [first |-> liveNumber[u], second |-> Max({f[u].second, liveNumber[u] + 2})]
            e == Starting(f, u)
            w == Widened(e, code.args[u], span[r].first, liveNumber[u])
<1>1. Met(u, r, m).intervals = w /\ Met(u, r, m).live = (m.live \ {u}) \cup code.args[u]
  BY DEF Met, Starting
<1>2. u \in Values /\ f \in [Values -> Pair]
  BY ProgramFacts
<1>. HIDE DEF f
<1>3. liveNumber[u] \in Nat /\ span[r].first \in Nat /\ f[u].second \in Nat
  BY <1>2 DEF Pair
<1>4. Max({f[u].second, liveNumber[u] + 2}) \in {f[u].second, liveNumber[u] + 2}
  <2>1. PICK a, b : a = f[u].second /\ b = liveNumber[u] + 2
    OBVIOUS
  <2>2. a \in Nat /\ b \in Nat
    BY <1>3, <2>1
  <2>3. \E x \in {a, b} : \A y \in {a, b} : x >= y
    <3>1. a >= b \/ b >= a
      BY <2>2
    <3>. QED
      BY <2>2, <3>1
  <2>4. Max({a, b}) \in {a, b}
    BY <2>3 DEF Max
  <2>. QED
    BY <2>1, <2>4
<1>5. e \in [Values -> Pair] /\ e[u] = late /\ \A v \in Values : v # u => e[v] = f[v]
  <2>1. e = [v \in Values |-> IF v = u THEN late ELSE f[v]]
    BY <1>2 DEF Starting
  <2>2. late \in Pair
    BY <1>3, <1>4 DEF Pair
  <2>. HIDE DEF e, late
  <2>. QED
    BY <1>2, <2>1, <2>2
<1>6. e[u].first = liveNumber[u] /\ e[u].second \in {f[u].second, liveNumber[u] + 2}
  BY <1>4, <1>5
<1>. HIDE DEF e, late
<1>7. \A v \in Values :
        /\ v \notin code.args[u] => w[v] = e[v]
        /\ w[v].first \in {span[r].first, e[v].first}
        /\ w[v].second = e[v].second \/ (v \in code.args[u] /\ w[v].second = liveNumber[u])
  BY <1>3, <1>5, WidenedExactly
<1>. HIDE DEF w
<1>8. w[u].first = liveNumber[u] /\ u \notin Met(u, r, m).live
  BY <1>1, <1>2, <1>6, <1>7
<1>9. ASSUME NEW v \in Values
      PROVE  /\ w[v].second = f[v].second \/ (v = u /\ w[v].second = liveNumber[u] + 2)
                                          \/ (v \in code.args[u] /\ w[v].second = liveNumber[u])
             /\ v # u => /\ v \in Met(u, r, m).live <=> v \in m.live \cup code.args[u]
                         /\ w[v].first \in {f[v].first, span[r].first}
                         /\ v \notin code.args[u] => w[v].first = f[v].first
  <2>1. CASE v = u
    BY <1>6, <1>7, <2>1
  <2>2. CASE v # u
    BY <1>1, <1>5, <1>7, <2>2
  <2>. QED
    BY <2>1, <2>2
<1>. QED
  BY <1>1, <1>8, <1>9 DEF f, OneMet

(* The numbers of v, and of what uses it in r, ask for no more than B. *)
NumbersWithin(r, v, B) ==
  /\ \A u \in ToSet(result[r]) : v \in code.args[u] => liveNumber[u] <= B
  /\ v \in ToSet(result[r]) => liveNumber[v] + 2 <= B

AllMet(r, start, end) ==
  \A v \in Values :
    /\ v \in ToSet(result[r]) => end.intervals[v].first = liveNumber[v] /\ v \notin end.live
    /\ v \notin ToSet(result[r]) =>
         /\ v \in end.live <=> v \in start.live \/ UsedIn(v, r)
         /\ end.intervals[v].first \in {start.intervals[v].first, span[r].first}
         /\ ~UsedIn(v, r) => end.intervals[v].first = start.intervals[v].first
    /\ \A B \in Nat : start.intervals[v].second <= B /\ NumbersWithin(r, v, B) => end.intervals[v].second <= B

LEMMA MetAllExactly ==
  ASSUME CodeIsGiven, liveNumber \in [Values -> Nat], NEW r, InReach(r),
         NEW start, NEW U, Values \subseteq U,
         start \in [live : SUBSET U, intervals : [Values -> Pair]]
  PROVE  AllMet(r, start, MetAll(r, start))
<1>. DEFINE list == result[r]
            n == Len(list)
<1>1. PICK met : MetSteps(met, r, start) /\ MetAll(r, start) = met[n]
  BY MetUnfolds
<1>2. /\ n \in Nat /\ \A i \in 1..n : list[i] \in Computed /\ list[i] \notin code.args[list[i]]
      /\ span[r] \in Pair /\ ToSet(list) = {list[i] : i \in 1..n}
      /\ \A i, j \in 1..n : list[i] \in code.args[list[j]] => i < j
  <2>1. DOMAIN list = 1..n
    BY DEF InReach
  <2>. QED
    BY <2>1, ReachFacts DEF InReach, ToSet, OperandsComeFirst
<1>3. \A k \in 1..n : met[k] = Met(list[n + 1 - k], r, met[k - 1])
  BY <1>1 DEF MetSteps
<1>4. met[0] = start /\ start.intervals \in [Values -> Pair]
  BY <1>1 DEF MetSteps
<1>. HIDE DEF list, n
<1>. DEFINE Late(k) == (n + 1 - k)..n
            Used(k, v) == \E i \in Late(k) : v \in code.args[list[i]]
            Is(k, v) == \E i \in Late(k) : list[i] = v
            Begin(v) == start.intervals[v].first
            Fair(k, v) ==
              /\ Is(k, v) => met[k].intervals[v].first = liveNumber[v] /\ v \notin met[k].live
              /\ v \notin ToSet(list) =>
                   /\ v \in met[k].live <=> v \in start.live \/ Used(k, v)
                   /\ met[k].intervals[v].first \in {Begin(v), span[r].first}
                   /\ ~Used(k, v) => met[k].intervals[v].first = Begin(v)
              /\ \A B \in Nat : start.intervals[v].second <= B /\ NumbersWithin(r, v, B) => met[k].intervals[v].second <= B
            Good == {k \in Nat : k <= n => met[k].intervals \in [Values -> Pair] /\ \A v \in Values : Fair(k, v)}
<1>5. 0 \in Good
  <2>1. Late(0) = {}
    BY <1>2
  <2>. HIDE DEF Late
  <2>2. ASSUME NEW v \in Values PROVE Fair(0, v)
    BY <1>4, <2>1
  <2>. QED
    BY <1>4, <2>2
<1>6. ASSUME NEW k \in Nat, k \in Good PROVE k + 1 \in Good
  <2>. SUFFICES ASSUME k + 1 <= n
                PROVE  met[k + 1].intervals \in [Values -> Pair] /\ \A v \in Values : Fair(k + 1, v)
    OBVIOUS
  <2>. DEFINE u == list[n - k]
  <2>1. n - k \in 1..n /\ k + 1 \in 1..n /\ (k + 1) - 1 = k /\ n + 1 - (k + 1) = n - k /\ k <= n
    BY <1>2
  <2>2. met[k + 1] = Met(u, r, met[k])
    BY <1>3, <2>1
  <2>3. met[k].intervals \in [Values -> Pair] /\ \A v \in Values : Fair(k, v)
    BY <1>6, <2>1
  <2>4. u \in Computed /\ u \in ToSet(list) /\ u \notin code.args[u] /\ u \in Values
    BY <1>2, <2>1, ProgramFacts
  <2>5. Late(k + 1) = Late(k) \cup {n - k}
    BY <1>2, <2>1
  <2>6. \A v : Used(k + 1, v) <=> v \in code.args[u] \/ Used(k, v)
    <3>. HIDE DEF Late
    <3>. QED
      BY <2>5
  <2>7. \A v : Is(k + 1, v) <=> v = u \/ Is(k, v)
    <3>. HIDE DEF Late
    <3>. QED
      BY <2>5
  <2>8. ASSUME NEW v, Is(k, v) PROVE v \notin code.args[u]
    <3>1. PICK i \in Late(k) : list[i] = v
      BY <2>8
    <3>2. i \in 1..n /\ ~(i < n - k)
      BY <1>2, <2>1, <3>1
    <3>. QED
      BY <1>2, <2>1, <3>1, <3>2
  <2>. HIDE DEF u, Fair, Used, Is, Late, Begin
  <2>9. met[k + 1].intervals \in [Values -> Pair]
    BY <1>2, <2>2, <2>3, <2>4, MetPasses
  <2>10. /\ met[k + 1].intervals[u].first = liveNumber[u] /\ u \notin met[k + 1].live
         /\ \A v \in Values :
              /\ met[k + 1].intervals[v].second = met[k].intervals[v].second
                 \/ (v = u /\ met[k + 1].intervals[v].second = liveNumber[u] + 2)
                 \/ (v \in code.args[u] /\ met[k + 1].intervals[v].second = liveNumber[u])
              /\ v # u => /\ v \in met[k + 1].live <=> v \in met[k].live \cup code.args[u]
                          /\ met[k + 1].intervals[v].first \in {met[k].intervals[v].first, span[r].first}
                          /\ v \notin code.args[u] => met[k + 1].intervals[v].first = met[k].intervals[v].first
    <3>1. OneMet(u, r, met[k], met[k + 1])
      BY <1>2, <2>2, <2>3, <2>4, MetExactly
    <3>. QED
      BY <3>1 DEF OneMet
  <2>11. ASSUME NEW v \in Values PROVE Fair(k + 1, v)
    <3>1. ASSUME Is(k + 1, v)
          PROVE  met[k + 1].intervals[v].first = liveNumber[v] /\ v \notin met[k + 1].live
      <4>1. CASE v = u
        BY <2>10, <4>1
      <4>2. CASE v # u
        <5>1. Is(k, v) /\ v \notin code.args[u]
          BY <2>7, <2>8, <3>1, <4>2
        <5>2. met[k].intervals[v].first = liveNumber[v] /\ v \notin met[k].live
          BY <2>3, <5>1 DEF Fair
        <5>. QED
          BY <2>10, <4>2, <5>1, <5>2
      <4>. QED
        BY <4>1, <4>2
    <3>2. ASSUME v \notin ToSet(list)
          PROVE  /\ v \in met[k + 1].live <=> v \in start.live \/ Used(k + 1, v)
                 /\ met[k + 1].intervals[v].first \in {Begin(v), span[r].first}
                 /\ ~Used(k + 1, v) => met[k + 1].intervals[v].first = Begin(v)
      <4>1. /\ v \in met[k].live <=> v \in start.live \/ Used(k, v)
            /\ met[k].intervals[v].first \in {Begin(v), span[r].first}
            /\ ~Used(k, v) => met[k].intervals[v].first = Begin(v)
        BY <2>3, <3>2 DEF Fair
      <4>2. v # u
        BY <2>4, <3>2
      <4>. QED
        BY <2>6, <2>10, <4>1, <4>2
    <3>3. ASSUME NEW B \in Nat, start.intervals[v].second <= B, NumbersWithin(r, v, B)
          PROVE  met[k + 1].intervals[v].second <= B
      <4>1. met[k].intervals[v].second <= B
        BY <2>3, <3>3 DEF Fair
      <4>2. /\ v \in code.args[u] => liveNumber[u] <= B
            /\ v = u => liveNumber[u] + 2 <= B
        BY <2>4, <3>3 DEF NumbersWithin, list
      <4>. QED
        BY <2>10, <4>1, <4>2
    <3>. QED
      BY <3>1, <3>2, <3>3 DEF Fair
  <2>. QED
    BY <2>9, <2>11
<1>7. n \in Good
  <2>. HIDE DEF Good
  <2>. QED
    BY <1>2, <1>5, <1>6, Induction
<1>8. \A v \in Values : Fair(n, v)
  <2>. HIDE DEF Fair
  <2>1. n <= n
    BY <1>2
  <2>. QED
    BY <1>7, <2>1
<1>9. Late(n) = 1..n
  BY <1>2
<1>. HIDE DEF Late
<1>10. \A v : /\ UsedIn(v, r) <=> Used(n, v)
              /\ v \in ToSet(list) <=> Is(n, v)
  BY <1>2, <1>9 DEF UsedIn, list
<1>. QED
  BY <1>1, <1>8, <1>10 DEF AllMet, list

AllAround(r, S, f, g) ==
  \A v \in Values :
    /\ v \notin S => g[v] = f[v]
    /\ g[v].first \in {f[v].first, span[r].first}
    /\ g[v].second = f[v].second
       \/ (v \in S /\ IsHeader(r) /\ \E b \in LoopBlocks(r) : g[v].second = span[b].second)

LEMMA AroundLoopExactly ==
  ASSUME GivenLine, LiveTypes, NumbersAscend(Len(line) + 1), NEW i \in DOMAIN line,
         NEW f \in [Values -> Pair], NEW S
  PROVE  AllAround(line[i], S, f, AroundLoop(f, line[i], S))
<1>. DEFINE last == Max({span[b].second : b \in ToSet(loops[loopOf[line[i]]].blocks)})
<1>1. span[line[i]].first \in Nat
  BY DEF GivenLine, LiveTypes, Pair
<1>2. CASE loopOf[line[i]] = 0 \/ loops[loopOf[line[i]]].header # line[i]
  <2>1. AroundLoop(f, line[i], S) = f
    BY <1>2 DEF AroundLoop
  <2>. QED
    BY <2>1 DEF AllAround
<1>3. CASE ~(loopOf[line[i]] = 0 \/ loops[loopOf[line[i]]].header # line[i])
  <2>1. AroundLoop(f, line[i], S) = Widened(f, S, span[line[i]].first, last)
    BY <1>3 DEF AroundLoop
  <2>2. last \in Nat /\ \E b \in LoopBlocks(line[i]) : last = span[b].second
    BY <1>3, LoopEndFacts DEF LoopBlocks
  <2>. HIDE DEF last
  <2>. DEFINE w == Widened(f, S, span[line[i]].first, last)
  <2>3. \A v \in Values : /\ v \notin S => w[v] = f[v]
                          /\ w[v].first \in {span[line[i]].first, f[v].first}
                          /\ w[v].second = f[v].second \/ (v \in S /\ w[v].second = last)
    BY <1>1, <2>2, WidenedExactly
  <2>. HIDE DEF w
  <2>4. IsHeader(line[i])
    BY <1>3 DEF IsHeader
  <2>5. ASSUME NEW v \in Values
        PROVE  /\ v \notin S => w[v] = f[v]
               /\ w[v].first \in {f[v].first, span[line[i]].first}
               /\ w[v].second = f[v].second
                  \/ (v \in S /\ IsHeader(line[i]) /\ \E b \in LoopBlocks(line[i]) : w[v].second = span[b].second)
    BY <2>2, <2>3, <2>4
  <2>6. AroundLoop(f, line[i], S) = w
    BY <2>1 DEF w
  <2>. QED
    BY <2>5, <2>6 DEF AllAround
<1>. QED
  BY <1>2, <1>3

DefinedIn(r) == ToSet(result[r]) \cup PhisOf(r)

(* What the round of r asks of the end of v's interval is no more than B.  *)
AsksWithin(r, out, live, v, B) ==
  /\ v \in out => span[r].second <= B
  /\ NumbersWithin(r, v, B)
  /\ v \in live /\ IsHeader(r) => \A b \in LoopBlocks(r) : span[b].second <= B

RegionMet(r, out, live, f, g) ==
  \A v \in Values :
    /\ v \in live <=> v \notin DefinedIn(r) /\ (v \in out \/ UsedIn(v, r))
    /\ v \in DefinedIn(r) => g[v].first = liveNumber[v]
    /\ v \notin DefinedIn(r) => g[v].first = f[v].first \/ (v \in live /\ g[v].first = span[r].first)
    /\ \A B \in Nat : f[v].second <= B /\ AsksWithin(r, out, live, v, B) => g[v].second <= B

LEMMA RegionExactly ==
  ASSUME GivenLine, GivenLists, LiveTypes, NumbersAscend(Len(line) + 1), DOMAIN liveIn = Regions, AnalyseRegion
  PROVE  RegionMet(line[position], LiveOut(line[position]), liveIn'[line[position]], interval, interval')
<1>0. PICK p, r : p = position /\ r = line[p]
  OBVIOUS
<1>. DEFINE out == LiveOut(r)
            begun == Widened(interval, out, span[r].first, span[r].second)
            start == [live |-> out, intervals |-> begun]
            met == MetAll(r, start)
            live == Entering(met.live, r)
            U == Values \cup out
            wide == WithPhis(met.intervals, r)
<1>1. /\ p \in DOMAIN line /\ r \in Regions
      /\ CodeIsGiven /\ liveNumber \in [Values -> Nat] /\ interval \in [Values -> Pair]
      /\ span[r].first \in Nat /\ span[r].second \in Nat
  BY <1>0 DEF AnalyseRegion, GivenLine, GivenLists, LiveTypes, Pair
<1>2. /\ interval' = AroundLoop(wide, r, live)
      /\ liveIn' = [liveIn EXCEPT ![r] = live]
  BY <1>0 DEF AnalyseRegion
<1>3. InReach(r) /\ \A v \in ToSet(result[r]) : v \notin PhisOf(r)
  BY <1>0, <1>1, BehindFacts DEF InReach, PhisOf, Computed
<1>. HIDE DEF out
<1>4. /\ begun \in [Values -> Pair]
      /\ \A v \in Values : /\ v \notin out => begun[v] = interval[v]
                           /\ begun[v].first \in {span[r].first, interval[v].first}
                           /\ begun[v].second = interval[v].second \/ (v \in out /\ begun[v].second = span[r].second)
  <2>1. begun \in [Values -> Pair]
    BY <1>1, WidenedFacts
  <2>. QED
    BY <1>1, <2>1, WidenedExactly
<1>. HIDE DEF begun
<1>5. AllMet(r, start, met) /\ met.intervals \in [Values -> Pair]
  <2>1. Values \subseteq U /\ start.live \in SUBSET U /\ start.intervals = begun
    OBVIOUS
  <2>2. start \in [live : SUBSET U, intervals : [Values -> Pair]]
    BY <1>4, <2>1
  <2>3. HoldsUses(start.intervals, {}) /\ {} \subseteq Computed
    BY DEF HoldsUses
  <2>. DEFINE none == {}
  <2>4. HoldsUses(start.intervals, none) /\ none \subseteq Computed /\ \A u : u \notin none
    BY <2>3
  <2>. HIDE DEF start, U, none
  <2>5. AllMet(r, start, met)
    BY <1>1, <1>3, <2>1, <2>2, MetAllExactly
  <2>6. met.intervals \in [Values -> Pair]
    BY <1>1, <1>3, <2>1, <2>2, <2>4, MetAllHolds
  <2>. QED
    BY <2>5, <2>6
<1>6. start.live = out /\ start.intervals = begun
  OBVIOUS
<1>. HIDE DEF met, start
<1>7. /\ wide \in [Values -> Pair]
      /\ \A v \in Values : /\ wide[v].second = met.intervals[v].second
                           /\ v \notin PhisOf(r) => wide[v] = met.intervals[v]
                           /\ v \in PhisOf(r) => wide[v].first = liveNumber[v]
  BY <1>1, <1>5, WithPhisFacts
<1>. HIDE DEF wide
<1>8. live = met.live \ PhisOf(r)
  BY DEF Entering
<1>. HIDE DEF live
<1>9. \A v \in Values :
        /\ v \notin live => interval'[v] = wide[v]
        /\ interval'[v].first \in {wide[v].first, span[r].first}
        /\ interval'[v].second = wide[v].second
           \/ (v \in live /\ IsHeader(r) /\ \E b \in LoopBlocks(r) : interval'[v].second = span[b].second)
  <2>1. AllAround(r, live, wide, interval')
    BY <1>0, <1>1, <1>2, <1>7, AroundLoopExactly
  <2>. QED
    BY <2>1 DEF AllAround
<1>10. ASSUME NEW v \in Values
       PROVE  /\ v \in live <=> v \notin DefinedIn(r) /\ (v \in out \/ UsedIn(v, r))
              /\ v \in DefinedIn(r) => interval'[v].first = liveNumber[v]
              /\ v \notin DefinedIn(r) => interval'[v].first = interval[v].first \/ (v \in live /\ interval'[v].first = span[r].first)
  <2>1. CASE v \in ToSet(result[r])
    <3>1. met.intervals[v].first = liveNumber[v] /\ v \notin met.live
      BY <1>5, <2>1 DEF AllMet
    <3>. QED
      BY <1>3, <1>7, <1>8, <1>9, <2>1, <3>1 DEF DefinedIn
  <2>2. CASE v \in PhisOf(r)
    BY <1>7, <1>8, <1>9, <2>2 DEF DefinedIn
  <2>3. CASE v \notin DefinedIn(r)
    <3>1. /\ v \in met.live <=> v \in out \/ UsedIn(v, r)
          /\ met.intervals[v].first \in {begun[v].first, span[r].first}
          /\ ~UsedIn(v, r) => met.intervals[v].first = begun[v].first
      BY <1>5, <1>6, <2>3 DEF AllMet, DefinedIn
    <3>2. /\ v \in live <=> v \in out \/ UsedIn(v, r)
          /\ wide[v] = met.intervals[v]
      BY <1>7, <1>8, <2>3, <3>1 DEF DefinedIn
    <3>. QED
      BY <1>4, <1>9, <2>3, <3>1, <3>2
  <2>. QED
    BY <2>1, <2>2, <2>3 DEF DefinedIn
<1>11. ASSUME NEW v \in Values, NEW B \in Nat, interval[v].second <= B, AsksWithin(r, out, live, v, B)
       PROVE  interval'[v].second <= B
  <2>1. begun[v].second <= B
    BY <1>4, <1>11 DEF AsksWithin
  <2>2. met.intervals[v].second <= B
    BY <1>5, <1>6, <1>11, <2>1 DEF AllMet, AsksWithin
  <2>3. wide[v].second <= B
    BY <1>7, <2>2
  <2>. QED
    BY <1>9, <1>11, <2>3 DEF AsksWithin
<1>12. RegionMet(r, out, live, interval, interval')
  BY <1>10, <1>11 DEF RegionMet
<1>13. liveIn'[r] = live
  BY <1>1, <1>2
<1>. QED
  BY <1>0, <1>12, <1>13 DEF out

-----------------------------------------------------------------------------
(* The numbers are the same each time: they follow from the line and the   *)
(* schedule, and the second call finds the spans of the first.             *)
SpanAt(i) ==
  LET c == IF i = 1 THEN 0 ELSE span[line[i - 1]].second
  IN  [first |-> c, second |-> IF result[line[i]] = <<>> THEN c ELSE c + 2 * (Len(result[line[i]]) + 1)]

SpansGiven(n) == \A i \in DOMAIN line : i < n => span[line[i]] = SpanAt(i)

NumberOf(v) ==
  IF v \notin Phis THEN span[mapped[v]].first + 2 * IndexIn(result[mapped[v]], v)
  ELSE IF result[mapped[v]] = <<>> THEN 0 ELSE span[mapped[v]].first

Numbered(n) ==
  \A i \in DOMAIN line : \A v \in DefinedIn(line[i]) :
    liveNumber[v] = IF i < n THEN NumberOf(v) ELSE 0

NumbersInv ==
  /\ analysis = "passes" => earlier = <<>> /\ liveNumber = [v \in Values |-> 0]
  /\ analysis = "numbers" =>
       Numbered(position) /\ SpansGiven(IF earlier = <<>> THEN position ELSE Len(line) + 1)
  /\ analysis \in {"intervals", "done"} => Numbered(Len(line) + 1) /\ SpansGiven(Len(line) + 1)

LEMMA NumbersStay ==
  ASSUME UNCHANGED <<line, code, result, mapped, span, liveNumber>>
  PROVE  /\ \A n : Numbered(n) => Numbered(n)'
         /\ \A n : SpansGiven(n) => SpansGiven(n)'
         /\ \A v : NumberOf(v)' = NumberOf(v)
<1>1. \A r : DefinedIn(r)' = DefinedIn(r)
  BY DEF DefinedIn, PhisOf, Phis
<1>2. \A v : NumberOf(v)' = NumberOf(v)
  BY DEF NumberOf, Phis
<1>. QED
  BY <1>1, <1>2 DEF Numbered, SpansGiven, SpanAt

(* The next region gets the span that the call before gave it, if it did.  *)
LEMMA SpanIsGiven ==
  ASSUME GivenLine, LiveTypes, NumberRegion
  PROVE  /\ position \in DOMAIN line /\ position' = position + 1 /\ line[position] \in Regions
         /\ span' = [span EXCEPT ![line[position]] = SpanAt(position)]
         /\ SpansGiven(position) => SpansGiven(position)'
         /\ SpansGiven(Len(line) + 1) => span' = span
<1>0. PICK p, r : p = position /\ r = line[p]
  OBVIOUS
<1>1. /\ p \in Nat /\ Len(line) \in Nat /\ DOMAIN line = 1..Len(line) /\ p \in 1..Len(line)
      /\ \A i \in DOMAIN line : i \in Nat /\ line[i] \in Regions /\ (line[i] = r => i = p)
      /\ span \in [Regions -> Pair]
  BY <1>0 DEF NumberRegion, Numbering, LiveTypes, GivenLine
<1>2. UNCHANGED <<line, result>> /\ position' = p + 1
  BY <1>0 DEF NumberRegion, allVars, loopVars, scheduleVars
<1>3. span' = [span EXCEPT ![r] = SpanAt(p)]
  BY <1>0 DEF NumberRegion, SpanAt, CurLiveNum
<1>4. ASSUME SpansGiven(p) PROVE SpansGiven(p + 1)'
  <2>1. ASSUME NEW i \in DOMAIN line, i < p + 1 PROVE span'[line[i]] = SpanAt(i)'
    <3>1. i - 1 \in DOMAIN line \/ i = 1
      BY <1>1
    <3>2. i - 1 # p
      BY <1>1, <2>1
    <3>3. SpanAt(i)' = SpanAt(i)
      <4>1. CASE i = 1
        BY <1>2, <4>1 DEF SpanAt
      <4>2. CASE i # 1
        <5>1. span'[line[i - 1]] = span[line[i - 1]]
          BY <1>1, <1>3, <3>1, <3>2, <4>2
        <5>. QED
          BY <1>2, <4>2, <5>1 DEF SpanAt
      <4>. QED
        BY <4>1, <4>2
    <3>4. CASE i = p
      BY <1>0, <1>1, <1>3, <3>3, <3>4
    <3>5. CASE i # p
      <4>1. i < p
        BY <1>1, <2>1, <3>5
      <4>2. span'[line[i]] = span[line[i]]
        BY <1>1, <1>3, <3>5
      <4>. QED
        BY <1>4, <3>3, <4>1, <4>2 DEF SpansGiven
    <3>. QED
      BY <3>4, <3>5
  <2>. QED
    BY <1>2, <2>1 DEF SpansGiven
<1>5. ASSUME SpansGiven(Len(line) + 1) PROVE span' = span
  <2>1. p < Len(line) + 1
    BY <1>1
  <2>2. span[r] = SpanAt(p)
    BY <1>0, <1>1, <1>5, <2>1 DEF SpansGiven
  <2>. QED
    BY <1>0, <1>1, <1>3, <2>2
<1>. QED
  <2>1. SpansGiven(p) => SpansGiven(position)'
    BY <1>2, <1>4 DEF SpansGiven
  <2>. QED
    BY <1>0, <1>1, <1>2, <1>3, <1>5, <2>1

LEMMA NumberExactly ==
  ASSUME GivenLine, GivenLists, GivenMap, LiveTypes, NumberRegion, Numbered(position)
  PROVE  Numbered(position)'
<1>0. PICK p, r : p = position /\ r = line[p]
  OBVIOUS
<1>1. /\ p \in Nat /\ p \in DOMAIN line /\ r \in Regions /\ position' = p + 1 /\ p < p + 1
      /\ span' = [span EXCEPT ![r] = SpanAt(p)]
      /\ \A i \in DOMAIN line : i \in Nat /\ line[i] \in Regions /\ (line[i] = r => i = p)
      /\ span \in [Regions -> Pair] /\ liveNumber \in [Values -> Nat] /\ CodeIsGiven
  BY <1>0, SpanIsGiven DEF LiveTypes, GivenLine, GivenLists
<1>2. UNCHANGED <<line, result, mapped, code>>
  BY DEF NumberRegion, allVars, loopVars, scheduleVars
<1>3. /\ SpanAt(p).first = CurLiveNum
      /\ liveNumber' = IF result[r] = <<>> THEN liveNumber ELSE NumbersIn(r)
  BY <1>0 DEF NumberRegion, SpanAt, CurLiveNum
<1>4. \A q : DefinedIn(q)' = DefinedIn(q)
  BY <1>2 DEF DefinedIn, PhisOf, Phis
<1>5. ASSUME NEW i \in DOMAIN line, NEW v \in DefinedIn(line[i])
      PROVE  liveNumber'[v] = IF i < p + 1 THEN NumberOf(v)' ELSE 0
  <2>1. v \in Values /\ v \in DOMAIN mapped /\ mapped[v] = line[i]
    <3>1. v \in DOMAIN mapped
      <4>1. CASE v \in ToSet(result[line[i]])
        BY <1>1, <4>1 DEF GivenMap
      <4>2. CASE v \in PhisOf(line[i])
        BY <1>1, <4>2 DEF PhisOf, GivenMap
      <4>. QED
        BY <4>1, <4>2 DEF DefinedIn
    <3>. QED
      BY <1>1, <3>1 DEF GivenMap, DefinedIn
  <2>2. liveNumber[v] = IF i < p THEN NumberOf(v) ELSE 0
    BY <1>0 DEF Numbered
  <2>3. CASE i # p
    <3>1. line[i] # r /\ span'[mapped[v]] = span[mapped[v]]
      BY <1>1, <2>1, <2>3
    <3>2. v \notin ToSet(result[r]) \cup PhisOf(r)
      BY <1>1, <2>1, <3>1 DEF GivenMap
    <3>3. liveNumber'[v] = liveNumber[v]
      BY <1>3, <2>1, <3>2 DEF NumbersIn
    <3>4. NumberOf(v)' = NumberOf(v)
      BY <1>2, <3>1 DEF NumberOf, Phis
    <3>5. i < p + 1 <=> i < p
      BY <1>1, <2>3
    <3>. QED
      BY <2>2, <3>3, <3>4, <3>5
  <2>4. CASE i = p
    <3>1. mapped'[v] = r /\ span'[r].first = CurLiveNum /\ liveNumber[v] = 0 /\ Phis' = Phis /\ result' = result
      BY <1>0, <1>1, <1>2, <1>3, <2>1, <2>2, <2>4 DEF Phis
    <3>2. CASE v \in PhisOf(r)
      <4>1. v \in Phis
        BY <3>2 DEF PhisOf
      <4>2. NumberOf(v)' = IF result[r] = <<>> THEN 0 ELSE CurLiveNum
        BY <3>1, <4>1 DEF NumberOf
      <4>3. liveNumber'[v] = IF result[r] = <<>> THEN 0 ELSE CurLiveNum
        BY <1>3, <2>1, <3>1, <3>2 DEF NumbersIn
      <4>. QED
        BY <1>1, <2>4, <4>2, <4>3
    <3>3. CASE v \notin PhisOf(r)
      <4>1. v \in ToSet(result[r]) /\ v \notin Phis /\ result[r] # <<>>
        <5>1. v \in ToSet(result[r])
          BY <1>0, <2>4, <3>3 DEF DefinedIn
        <5>2. v \in Computed
          BY <1>1, <5>1 DEF GivenLists
        <5>. QED
          BY <5>1, <5>2 DEF Computed, ToSet
      <4>2. NumberOf(v)' = CurLiveNum + 2 * IndexIn(result[r], v)
        BY <3>1, <4>1 DEF NumberOf, IndexIn
      <4>3. liveNumber'[v] = CurLiveNum + 2 * IndexIn(result[r], v)
        BY <1>3, <2>1, <3>3, <4>1 DEF NumbersIn
      <4>. QED
        BY <1>1, <2>4, <4>2, <4>3
    <3>. QED
      BY <3>2, <3>3
  <2>. QED
    BY <2>3, <2>4
<1>. QED
  BY <1>1, <1>2, <1>4, <1>5 DEF Numbered

-----------------------------------------------------------------------------
(* What the first call leaves.  Behind n, a region has live what it uses   *)
(* and what is live where it goes forward, and the intervals hold no more  *)
(* at their starts than one such region, or the number of the value.       *)
PhiTakes(r, v) == \E phi \in Phis : GoesTo(flow, r, code.phis[phi].region) /\ ValOf(phi, r) = v

Forward(live, i, v) ==
  \/ PhiTakes(line[i], v)
  \/ \E j \in DOMAIN line : j > i /\ GoesTo(flow, line[i], line[j]) /\ v \in live[line[j]]

EndHeld(f, live, i, v) ==
  /\ v \in live[line[i]] <=> v \notin DefinedIn(line[i]) /\ (Forward(live, i, v) \/ UsedIn(v, line[i]))
  /\ Forward(live, i, v) => span[line[i]].second <= f[v].second
  /\ \A u \in ToSet(result[line[i]]) : v \in code.args[u] => NumberOf(u) <= f[v].second
  /\ v \in ToSet(result[line[i]]) => NumberOf(v) + 2 <= f[v].second
  /\ v \in live[line[i]] /\ IsHeader(line[i]) => \A b \in LoopBlocks(line[i]) : span[b].second <= f[v].second

Between(n, i, d) == n < i /\ i < d

StartHeld(f, live, n, d, v) ==
  /\ f[v].first <= NumberOf(v)
  /\ \A i \in DOMAIN line : Between(n, i, d) /\ v \in live[line[i]] => f[v].first <= span[line[i]].first
  /\ \/ f[v].first = NumberOf(v)
     \/ \E i \in DOMAIN line : Between(n, i, d) /\ v \in live[line[i]] /\ f[v].first = span[line[i]].first

IsOff(s, n) == \A i \in DOMAIN line : i > n => line[i] # s

FirstHeld(f, live, n) ==
  /\ \A s \in Regions : IsOff(s, n) => live[s] = {}
  /\ \A i \in DOMAIN line : i > n => \A v \in DOMAIN mapped :
       EndHeld(f, live, i, v) /\ (v \in DefinedIn(line[i]) => StartHeld(f, live, n, i, v))

RoundGiven ==
  /\ GivenLine /\ GivenLists /\ GivenMap /\ LiveTypes
  /\ NumbersAscend(Len(line) + 1) /\ Numbered(Len(line) + 1) /\ DOMAIN liveIn = Regions

(* What a round of r does to the interval of v, and by which numbers.      *)
OneRound(r, out, live, f, g, v) ==
  /\ f[v].first \in Nat /\ f[v].second \in Nat /\ g[v].first \in Nat /\ g[v].second \in Nat
  /\ v \in live <=> v \notin DefinedIn(r) /\ (v \in out \/ UsedIn(v, r))
  /\ f[v].second <= g[v].second
  /\ v \in out => span[r].second <= g[v].second
  /\ v \in live /\ IsHeader(r) => \A b \in LoopBlocks(r) : span[b].second <= g[v].second
  /\ \A u \in ToSet(result[r]) : v \in code.args[u] => NumberOf(u) <= g[v].second
  /\ v \in ToSet(result[r]) => NumberOf(v) + 2 <= g[v].second
  /\ v \in DefinedIn(r) => g[v].first = NumberOf(v)
  /\ v \notin DefinedIn(r) =>
       /\ g[v].first <= f[v].first /\ (v \in live => g[v].first <= span[r].first)
       /\ g[v].first = f[v].first \/ (v \in live /\ g[v].first = span[r].first)
  /\ \A B \in Nat : f[v].second <= B /\ AsksWithin(r, out, live, v, B) => g[v].second <= B

LEMMA PlacesOfNumbers ==
  ASSUME RoundGiven, NEW i \in DOMAIN line
  PROVE  /\ i \in Nat /\ i > 0 /\ line[i] \in Regions /\ span[line[i]].first \in Nat /\ span[line[i]].second \in Nat
         /\ \A j \in DOMAIN line : line[j] = line[i] => j = i
         /\ \A v \in DefinedIn(line[i]) : /\ v \in DOMAIN mapped /\ v \in Values /\ mapped[v] = line[i]
                                          /\ NumberOf(v) = liveNumber[v] /\ NumberOf(v) \in Nat
         /\ \A j \in DOMAIN line : i < j => span[line[i]].first <= span[line[j]].first
<1>1. /\ i \in Nat /\ i > 0 /\ Len(line) \in Nat /\ line[i] \in Regions
      /\ \A j \in DOMAIN line : j \in Nat /\ j < Len(line) + 1 /\ line[j] \in Regions /\ (line[j] = line[i] => j = i)
      /\ \A r \in Regions : span[r].first \in Nat /\ span[r].second \in Nat
  BY DEF RoundGiven, GivenLine, LiveTypes, Pair
<1>2. ASSUME NEW v \in DefinedIn(line[i])
      PROVE  /\ v \in DOMAIN mapped /\ v \in Values /\ mapped[v] = line[i]
             /\ NumberOf(v) = liveNumber[v] /\ NumberOf(v) \in Nat
  <2>1. v \in DOMAIN mapped
    <3>1. CASE v \in ToSet(result[line[i]])
      BY <1>1, <3>1 DEF RoundGiven, GivenMap
    <3>2. CASE v \in PhisOf(line[i])
      BY <1>1, <3>2 DEF PhisOf, RoundGiven, GivenMap
    <3>. QED
      BY <3>1, <3>2 DEF DefinedIn
  <2>2. v \in Values /\ mapped[v] = line[i]
    BY <1>1, <2>1 DEF RoundGiven, GivenMap, DefinedIn
  <2>3. NumberOf(v) = liveNumber[v]
    BY <1>1 DEF RoundGiven, Numbered
  <2>. QED
    BY <2>1, <2>2, <2>3 DEF RoundGiven, LiveTypes
<1>3. ASSUME NEW j \in DOMAIN line, i < j
      PROVE  span[line[i]].first <= span[line[j]].first
  <2>1. span[line[i]].first <= span[line[i]].second /\ span[line[i]].second <= span[line[j]].first
    BY <1>1, <1>3 DEF RoundGiven, NumbersAscend, NumberedIn
  <2>2. PICK a, b, c : a = span[line[i]].first /\ b = span[line[i]].second /\ c = span[line[j]].first
    OBVIOUS
  <2>3. a \in Nat /\ b \in Nat /\ c \in Nat
    BY <1>1, <2>2
  <2>. QED
    BY <2>1, <2>2, <2>3
<1>. QED
  BY <1>1, <1>2, <1>3

LEMMA RoundFacts ==
  ASSUME RoundGiven, AnalyseRegion, LiveTypes', HoldsUses(interval, Behind(position))'
  PROVE  /\ position \in DOMAIN line /\ DOMAIN liveIn' = Regions
         /\ \A q \in Regions : q # line[position] => liveIn'[q] = liveIn[q]
         /\ \A v \in DOMAIN mapped :
              OneRound(line[position], LiveOut(line[position]), liveIn'[line[position]], interval, interval', v)
<1>0. PICK p, r, L : p = position /\ r = line[p] /\ L = liveIn'[r]
  OBVIOUS
<1>1. /\ p \in DOMAIN line /\ DOMAIN liveIn' = Regions
      /\ \A q \in Regions : q # r => liveIn'[q] = liveIn[q]
      /\ RegionPassed(r, LiveOut(r), L, interval, interval')
  BY <1>0, RegionPasses DEF RoundGiven
<1>2. RegionMet(r, LiveOut(r), L, interval, interval')
  BY <1>0, RegionExactly DEF RoundGiven
<1>3. UNCHANGED <<line, result, code, liveNumber, span, mapped>> /\ position' = p - 1
  BY <1>0 DEF AnalyseRegion, allVars, loopVars, scheduleVars
<1>4. /\ p \in Nat /\ p > p - 1 /\ r \in Regions /\ span[r].first \in Nat /\ span[r].second \in Nat
      /\ \A v \in DefinedIn(r) : /\ v \in DOMAIN mapped /\ v \in Values /\ mapped[v] = r
                                 /\ NumberOf(v) = liveNumber[v] /\ NumberOf(v) \in Nat
  BY <1>0, <1>1, PlacesOfNumbers
<1>5. ASSUME NEW u \in ToSet(result[r])
      PROVE  /\ liveNumber[u] + 2 <= interval'[u].second /\ NumberOf(u) = liveNumber[u]
             /\ \A v \in code.args[u] : liveNumber[u] <= interval'[v].second
  <2>1. u \in Computed
    BY <1>4 DEF RoundGiven, GivenLists
  <2>2. u \in Behind(position)'
    BY <1>0, <1>1, <1>3, <1>4, <2>1 DEF Behind, Computed, Phis, Values
  <2>3. NumberOf(u) = liveNumber[u]
    BY <1>4 DEF DefinedIn
  <2>. QED
    BY <1>3, <2>2, <2>3 DEF HoldsUses
<1>6. ASSUME NEW v \in DOMAIN mapped
      PROVE  OneRound(r, LiveOut(r), L, interval, interval', v)
  <2>1. v \in Values
    BY DEF RoundGiven, GivenMap
  <2>2. interval[v].first \in Nat /\ interval[v].second \in Nat /\ interval'[v].first \in Nat /\ interval'[v].second \in Nat
    BY <1>3, <2>1 DEF RoundGiven, LiveTypes, Pair, Values
  <2>3. \A u \in ToSet(result[r]) : v \in code.args[u] => NumberOf(u) <= interval'[v].second
    BY <1>5
  <2>4. v \in ToSet(result[r]) => NumberOf(v) + 2 <= interval'[v].second
    BY <1>5
  <2>5. v \in DefinedIn(r) => interval'[v].first = NumberOf(v)
    BY <1>2, <1>4, <2>1 DEF RegionMet
  <2>6. v \in L <=> v \notin DefinedIn(r) /\ (v \in LiveOut(r) \/ UsedIn(v, r))
    BY <1>2, <2>1 DEF RegionMet
  <2>7. v \notin DefinedIn(r) =>
       /\ interval'[v].first <= interval[v].first /\ (v \in L => interval'[v].first <= span[r].first)
       /\ interval'[v].first = interval[v].first \/ (v \in L /\ interval'[v].first = span[r].first)
    BY <1>1, <1>2, <2>1 DEF RegionPassed, RegionMet, DefinedIn
  <2>8. /\ interval[v].second <= interval'[v].second
        /\ v \in LiveOut(r) => span[r].second <= interval'[v].second
        /\ v \in L /\ IsHeader(r) => \A b \in LoopBlocks(r) : span[b].second <= interval'[v].second
    BY <1>1, <2>1 DEF RegionPassed
  <2>9. \A B \in Nat : interval[v].second <= B /\ AsksWithin(r, LiveOut(r), L, v, B) => interval'[v].second <= B
    BY <1>2, <2>1 DEF RegionMet
  <2>. QED
    BY <2>2, <2>3, <2>4, <2>5, <2>6, <2>7, <2>8, <2>9 DEF OneRound
<1>. QED
  BY <1>0, <1>1, <1>6

(* What is taken at the end of a region, before the regions it goes back   *)
(* to are met.                                                             *)
LEMMA OutFacts ==
  ASSUME CodeIsGiven, NEW r, NEW v
  PROVE  v \in LiveOut(r) <=> PhiTakes(r, v) \/ \E s : GoesTo(flow, r, s) /\ v \in liveIn[s]
<1>1. ASSUME v \in LiveOut(r)
      PROVE  PhiTakes(r, v) \/ \E s : GoesTo(flow, r, s) /\ v \in liveIn[s]
  <2>1. PICK s \in ToSet(Successors(flow, r)) : v \in liveIn[s] \cup {ValOf(phi, r) : phi \in PhisOf(s)}
    BY <1>1 DEF LiveOut
  <2>2. GoesTo(flow, r, s)
    BY <2>1, TargetFacts
  <2>3. CASE v \in liveIn[s]
    BY <2>2, <2>3
  <2>4. CASE v \in {ValOf(phi, r) : phi \in PhisOf(s)}
    <3>1. PICK phi \in PhisOf(s) : v = ValOf(phi, r)
      BY <2>4
    <3>2. phi \in Phis /\ code.phis[phi].region = s
      BY DEF PhisOf
    <3>. QED
      BY <2>2, <3>1, <3>2 DEF PhiTakes
  <2>. QED
    BY <2>1, <2>3, <2>4
<1>2. ASSUME PhiTakes(r, v)
      PROVE  v \in LiveOut(r)
  <2>1. PICK phi \in Phis : GoesTo(flow, r, code.phis[phi].region) /\ ValOf(phi, r) = v
    BY <1>2 DEF PhiTakes
  <2>2. phi \in PhisOf(code.phis[phi].region) /\ code.phis[phi].region \in ToSet(Successors(flow, r))
    BY <2>1, TargetFacts DEF PhisOf
  <2>. QED
    BY <2>1, <2>2 DEF LiveOut
<1>3. ASSUME NEW s, GoesTo(flow, r, s), v \in liveIn[s]
      PROVE  v \in LiveOut(r)
  <2>1. s \in ToSet(Successors(flow, r))
    BY <1>3, TargetFacts
  <2>. QED
    BY <1>3, <2>1 DEF LiveOut
<1>. QED
  BY <1>1, <1>2, <1>3

LEMMA TargetsAreRegions ==
  ASSUME DomInv, NEW r \in Regions, NEW s, GoesTo(flow, r, s)
  PROVE  s \in Regions /\ r # End
<1>1. flow \in Flows
  BY DEF DomInv, WalkInv, TypeOK
<1>2. r # End
  BY <1>1 DEF Flows, EndTerminator, GoesTo
<1>. QED
  BY <1>1, <1>2, FlowFacts DEF Targets

(* The regions behind the next one have what they had. *)
LEMMA ForwardStays ==
  ASSUME RoundGiven, NEW p \in DOMAIN line, NEW live, NEW later,
         \A q \in Regions : q # line[p] => later[q] = live[q],
         NEW i \in DOMAIN line, i > p - 1, NEW v
  PROVE  Forward(later, i, v) <=> Forward(live, i, v)
<1>1. ASSUME NEW j \in DOMAIN line, j > i PROVE later[line[j]] = live[line[j]]
  <2>1. line[j] \in Regions /\ (line[j] = line[p] => j = p) /\ j \in Nat /\ i \in Nat /\ p \in Nat
    BY PlacesOfNumbers
  <2>2. j # p
    BY <1>1, <2>1
  <2>. QED
    BY <2>1, <2>2
<1>. QED
  BY <1>1 DEF Forward

LEMMA FirstRound ==
  ASSUME RoundGiven, DomInv, AnalyseRegion, LiveTypes', HoldsUses(interval, Behind(position))',
         FirstHeld(interval, liveIn, position)
  PROVE  FirstHeld(interval', liveIn', position - 1)
<1>0. PICK p, r, f, g, K, L : /\ p = position /\ r = line[p] /\ f = interval /\ g = interval'
                              /\ K = liveIn /\ L = liveIn'
  OBVIOUS
<1>1. /\ p \in DOMAIN line /\ \A q \in Regions : q # r => L[q] = K[q]
      /\ \A v \in DOMAIN mapped : OneRound(r, LiveOut(r), L[r], f, g, v)
  BY <1>0, RoundFacts
<1>2. /\ p \in Nat /\ r \in Regions /\ span[r].first \in Nat /\ span[r].second \in Nat /\ CodeIsGiven
      /\ \A i \in DOMAIN line : i \in Nat /\ line[i] \in Regions /\ (line[i] = r => i = p)
      /\ \A i \in DOMAIN line : span[line[i]].first \in Nat /\ span[line[i]].second \in Nat
      /\ \A i \in DOMAIN line : i > p - 1 <=> i = p \/ i > p
  <2>1. /\ p \in Nat /\ r \in Regions /\ span[r].first \in Nat /\ span[r].second \in Nat /\ CodeIsGiven
        /\ \A i \in DOMAIN line : i \in Nat /\ line[i] \in Regions /\ (line[i] = r => i = p)
        /\ \A i \in DOMAIN line : span[line[i]].first \in Nat /\ span[line[i]].second \in Nat
    BY <1>0, <1>1, PlacesOfNumbers DEF RoundGiven, GivenLists
  <2>. QED
    BY <2>1
<1>3. /\ \A s \in Regions : IsOff(s, p) => K[s] = {}
      /\ \A i \in DOMAIN line : i > p => \A v \in DOMAIN mapped :
           EndHeld(f, K, i, v) /\ (v \in DefinedIn(line[i]) => StartHeld(f, K, p, i, v))
  BY <1>0 DEF FirstHeld
<1>4. ASSUME NEW s \in Regions, IsOff(s, p - 1) PROVE L[s] = {}
  <2>1. IsOff(s, p) /\ s # r
    BY <1>0, <1>1, <1>2, <1>4 DEF IsOff
  <2>. QED
    BY <1>1, <1>3, <2>1
<1>5. ASSUME NEW i \in DOMAIN line, i > p - 1, NEW v PROVE Forward(L, i, v) <=> Forward(K, i, v)
  BY <1>0, <1>1, <1>5, ForwardStays
<1>6. ASSUME NEW v PROVE Forward(K, p, v) <=> v \in LiveOut(r)
  <2>1. ASSUME NEW s, GoesTo(flow, r, s), v \in K[s]
        PROVE  \E j \in DOMAIN line : j > p /\ GoesTo(flow, line[p], line[j]) /\ v \in K[line[j]]
    <3>1. s \in Regions
      BY <1>2, <2>1, TargetsAreRegions
    <3>2. ~IsOff(s, p)
      BY <1>3, <2>1, <3>1
    <3>. QED
      BY <1>0, <2>1, <3>2 DEF IsOff
  <2>2. v \in LiveOut(r) <=> PhiTakes(r, v) \/ \E s : GoesTo(flow, r, s) /\ v \in K[s]
    BY <1>0, <1>2, OutFacts
  <2>. QED
    BY <1>0, <2>1, <2>2 DEF Forward
<1>7. ASSUME NEW v \in DOMAIN mapped
      PROVE  EndHeld(g, L, p, v) /\ (v \in DefinedIn(r) => StartHeld(g, L, p - 1, p, v))
  <2>1. OneRound(r, LiveOut(r), L[r], f, g, v) /\ (Forward(L, p, v) <=> v \in LiveOut(r))
    BY <1>1, <1>2, <1>5, <1>6
  <2>2. EndHeld(g, L, p, v)
    BY <1>0, <2>1 DEF OneRound, EndHeld
  <2>3. \A i \in DOMAIN line : ~Between(p - 1, i, p)
    BY <1>2 DEF Between
  <2>4. v \in DefinedIn(r) => StartHeld(g, L, p - 1, p, v)
    BY <2>1, <2>3 DEF OneRound, StartHeld
  <2>. QED
    BY <2>2, <2>4
<1>8. ASSUME NEW i \in DOMAIN line, i > p, NEW v \in DOMAIN mapped
      PROVE  EndHeld(g, L, i, v) /\ (v \in DefinedIn(line[i]) => StartHeld(g, L, p - 1, i, v))
  <2>1. OneRound(r, LiveOut(r), L[r], f, g, v) /\ L[line[i]] = K[line[i]] /\ line[i] \in Regions
    BY <1>1, <1>2, <1>8
  <2>2. EndHeld(f, K, i, v) /\ (v \in DefinedIn(line[i]) => StartHeld(f, K, p, i, v))
    BY <1>3, <1>8
  <2>3. f[v].first \in Nat /\ g[v].first \in Nat /\ f[v].second \in Nat /\ g[v].second \in Nat /\ f[v].second <= g[v].second
    BY <2>1 DEF OneRound
  <2>4. EndHeld(g, L, i, v)
    <3>1. \A x \in Nat : x <= f[v].second => x <= g[v].second
      BY <2>3
    <3>2. \A u \in ToSet(result[line[i]]) : NumberOf(u) \in Nat
      BY <1>0, PlacesOfNumbers DEF DefinedIn
    <3>3. v \in ToSet(result[line[i]]) => NumberOf(v) + 2 \in Nat
      BY <3>2
    <3>4. v \in L[line[i]] /\ IsHeader(line[i]) => \A b \in LoopBlocks(line[i]) : span[b].second \in Nat
      <4>1. IsHeader(line[i]) => LoopBlocks(line[i]) \subseteq ToSet(line)
        BY DEF RoundGiven, GivenLine, LoopBlocks, IsHeader
      <4>. QED
        BY <1>2, <4>1 DEF ToSet
    <3>5. Forward(L, i, v) <=> Forward(K, i, v)
      BY <1>2, <1>5, <1>8
    <3>6. span[line[i]].second \in Nat
      BY <1>2
    <3>. QED
      BY <2>1, <2>2, <3>1, <3>2, <3>3, <3>4, <3>5, <3>6 DEF EndHeld
  <2>5. ASSUME v \in DefinedIn(line[i])
        PROVE  StartHeld(g, L, p - 1, i, v)
    <3>1. /\ v \notin DefinedIn(r) /\ NumberOf(v) \in Nat
      <4>1. mapped[v] = line[i] /\ NumberOf(v) \in Nat
        BY <2>5, PlacesOfNumbers
      <4>2. v \in DefinedIn(r) => mapped[v] = r
        BY <1>0, <1>1, PlacesOfNumbers
      <4>. QED
        BY <1>2, <1>8, <4>1, <4>2
    <3>2. /\ g[v].first <= f[v].first /\ (v \in L[r] => g[v].first <= span[r].first)
          /\ g[v].first = f[v].first \/ (v \in L[r] /\ g[v].first = span[r].first)
      BY <2>1, <3>1 DEF OneRound
    <3>3. StartHeld(f, K, p, i, v)
      BY <2>2, <2>5
    <3>4. \A j \in DOMAIN line : /\ Between(p - 1, j, i) <=> j = p \/ Between(p, j, i)
                                 /\ Between(p, j, i) => L[line[j]] = K[line[j]]
      <4>1. \A j \in DOMAIN line : Between(p - 1, j, i) <=> j = p \/ Between(p, j, i)
        BY <1>2, <1>8 DEF Between
      <4>2. \A j \in DOMAIN line : Between(p, j, i) => line[j] # r /\ line[j] \in Regions
        BY <1>2 DEF Between
      <4>. QED
        BY <1>1, <4>1, <4>2
    <3>5. g[v].first <= NumberOf(v)
      BY <2>3, <3>1, <3>2, <3>3 DEF StartHeld
    <3>6. ASSUME NEW j \in DOMAIN line, Between(p - 1, j, i), v \in L[line[j]]
          PROVE  g[v].first <= span[line[j]].first
      <4>1. CASE j = p
        BY <1>0, <3>2, <3>6, <4>1
      <4>2. CASE Between(p, j, i)
        <5>1. f[v].first <= span[line[j]].first
          BY <3>3, <3>4, <3>6, <4>2 DEF StartHeld
        <5>2. PICK a : a = span[line[j]].first
          OBVIOUS
        <5>3. a \in Nat /\ f[v].first <= a /\ g[v].first <= f[v].first
          BY <1>2, <3>2, <5>1, <5>2
        <5>. QED
          BY <2>3, <5>2, <5>3
      <4>. QED
        BY <3>4, <3>6, <4>1, <4>2
    <3>7. \/ g[v].first = NumberOf(v)
          \/ \E j \in DOMAIN line : Between(p - 1, j, i) /\ v \in L[line[j]] /\ g[v].first = span[line[j]].first
      <4>1. CASE v \in L[r] /\ g[v].first = span[r].first
        BY <1>0, <1>1, <3>4, <4>1
      <4>2. CASE g[v].first = f[v].first
        BY <3>3, <3>4, <4>2 DEF StartHeld
      <4>. QED
        BY <3>2, <4>1, <4>2
    <3>. QED
      BY <3>5, <3>6, <3>7 DEF StartHeld
  <2>. QED
    BY <2>4, <2>5
<1>9. FirstHeld(g, L, p - 1)
  <2>1. ASSUME NEW i \in DOMAIN line, i > p - 1, NEW v \in DOMAIN mapped
        PROVE  EndHeld(g, L, i, v) /\ (v \in DefinedIn(line[i]) => StartHeld(g, L, p - 1, i, v))
    <3>1. CASE i = p
      BY <1>0, <1>7, <3>1
    <3>2. CASE i > p
      BY <1>8, <3>2
    <3>. QED
      BY <1>2, <2>1, <3>1, <3>2
  <2>. QED
    BY <1>4, <2>1 DEF FirstHeld
<1>. QED
  BY <1>0, <1>9

-----------------------------------------------------------------------------
(* What the second call finds and leaves: the live-in sets of the first,   *)
(* and in a loop those of its header with them; the same ends, and starts  *)
(* that come from the same regions.                                        *)
AroundIn(first, r, v) == loopOf[r] # 0 /\ v \in first[loops[loopOf[r]].header]

LiveGrew(live, first, i, v) ==
  /\ v \in first[line[i]] => v \in live[line[i]]
  /\ v \in live[line[i]] => v \in first[line[i]] \/ AroundIn(first, line[i], v)

StartKept(f, first, n, d, v) ==
  /\ earlier[v].first <= f[v].first /\ f[v].first <= NumberOf(v)
  /\ \A i \in DOMAIN line : Between(n, i, d) /\ v \in first[line[i]] => f[v].first <= span[line[i]].first

SecondHeld(f, live, first, n) ==
  /\ \A s \in Regions : IsOff(s, n) => live[s] = first[s]
  /\ \A i \in DOMAIN line : i > n => \A v \in DOMAIN mapped :
       LiveGrew(live, first, i, v) /\ (v \in DefinedIn(line[i]) => StartKept(f, first, n, i, v))
  /\ \A v \in DOMAIN mapped : f[v].second = earlier[v].second

IsEarlier(first) == earlier \in [Values -> Pair] /\ FirstHeld(earlier, first, 0)

(* What a region takes at its end in the second call: what it took in the  *)
(* first, or what is live all around its loop.                             *)
LEMMA OutGrew ==
  ASSUME RoundGiven, LineIsMade, DomInv, NEW f, NEW p \in DOMAIN line, NEW first,
         FirstHeld(f, first, 0), NEW old, SecondHeld(old, liveIn, first, p), NEW v \in DOMAIN mapped
  PROVE  /\ Forward(first, p, v) => v \in LiveOut(line[p])
         /\ v \in LiveOut(line[p]) => Forward(first, p, v) \/ AroundIn(first, line[p], v)
<1>0. PICK r : r = line[p]
  OBVIOUS
<1>1. /\ r \in Regions /\ r \in Visited /\ CodeIsGiven /\ IndexIn(line, r) = p
      /\ p \in Nat /\ \A i \in DOMAIN line : i \in Nat /\ line[i] \in Visited /\ IndexIn(line, line[i]) = i
  <2>1. \A i \in DOMAIN line : line[i] \in Visited
    BY DEF LineIsMade, ToSet
  <2>2. \A i \in DOMAIN line : i \in Nat /\ IndexIn(line, line[i]) = i
    BY <2>1, PlaceOnLine, PlacesOfNumbers
  <2>. QED
    BY <1>0, <2>1, <2>2, PlacesOfNumbers DEF RoundGiven, GivenLists
<1>2. v \in LiveOut(r) <=> PhiTakes(r, v) \/ \E s : GoesTo(flow, r, s) /\ v \in liveIn[s]
  BY <1>1, OutFacts
<1>3. ASSUME Forward(first, p, v) PROVE v \in LiveOut(r)
  <2>1. CASE PhiTakes(r, v)
    BY <1>2, <2>1
  <2>2. CASE \E j \in DOMAIN line : j > p /\ GoesTo(flow, r, line[j]) /\ v \in first[line[j]]
    <3>1. PICK j \in DOMAIN line : j > p /\ GoesTo(flow, r, line[j]) /\ v \in first[line[j]]
      BY <2>2
    <3>2. v \in liveIn[line[j]]
      BY <3>1 DEF SecondHeld, LiveGrew
    <3>. QED
      BY <1>2, <3>1, <3>2
  <2>. QED
    BY <1>0, <1>3, <2>1, <2>2 DEF Forward
<1>4. ASSUME NEW s, GoesTo(flow, r, s), v \in liveIn[s]
      PROVE  Forward(first, p, v) \/ AroundIn(first, r, v)
  <2>1. s \in Regions /\ r # End
    BY <1>1, <1>4, TargetsAreRegions
  <2>2. CASE IsOff(s, 0)
    <3>1. IsOff(s, p)
      BY <1>1, <2>2 DEF IsOff
    <3>2. liveIn[s] = {}
      BY <2>1, <2>2, <3>1 DEF SecondHeld, FirstHeld
    <3>. QED
      BY <1>4, <3>2
  <2>3. CASE ~IsOff(s, 0)
    <3>1. PICK j \in DOMAIN line : line[j] = s
      BY <2>3 DEF IsOff
    <3>2. v \in first[s] \/ AroundIn(first, s, v)
      <4>1. CASE j > p
        BY <1>4, <3>1, <4>1 DEF SecondHeld, LiveGrew
      <4>2. CASE ~(j > p)
        <5>1. IsOff(s, p)
          BY <1>1, <3>1, <4>2, PlacesOfNumbers DEF IsOff
        <5>. QED
          BY <1>4, <2>1, <5>1 DEF SecondHeld
      <4>. QED
        BY <4>1, <4>2
    <3>4. CASE v \in first[s] /\ j > p
      BY <1>0, <1>4, <3>1, <3>4 DEF Forward
    <3>5. CASE v \in first[s] /\ ~(j > p)
      <4>1. IsBackEdge(r, s)
        <5>1. ~(p < j) /\ IndexIn(line, s) = j /\ s \in Visited
          BY <1>1, <3>1, <3>5
        <5>. QED
          BY <1>1, <1>4, <5>1 DEF LineIsMade, InOrder
      <4>2. loopOf[s] # 0 /\ loops[loopOf[s]].header = s /\ r \in loops[loopOf[s]].latches
        BY <4>1 DEF IsBackEdge
      <4>3. loopOf[r] = loopOf[s]
        BY <1>1, <1>4, <2>1, <4>2, LoopIsClosed DEF LineIsMade, InOrder
      <4>. QED
        BY <2>1, <3>5, <4>2, <4>3 DEF AroundIn
    <3>6. CASE v \notin first[s]
      <4>1. AroundIn(first, s, v) /\ s # loops[loopOf[s]].header
        BY <3>2, <3>6 DEF AroundIn
      <4>2. loopOf[r] = loopOf[s]
        BY <1>1, <1>4, <2>1, <4>1, LoopIsClosed DEF AroundIn, LineIsMade, InOrder
      <4>. QED
        BY <2>1, <4>1, <4>2 DEF AroundIn
    <3>. QED
      BY <3>4, <3>5, <3>6
  <2>. QED
    BY <2>2, <2>3
<1>5. PhiTakes(r, v) => Forward(first, p, v)
  BY <1>0 DEF Forward
<1>. QED
  BY <1>0, <1>2, <1>3, <1>4, <1>5

(* What is live all around the loop of a region, was live at its header.   *)
LEMMA AroundFacts ==
  ASSUME RoundGiven, LineIsMade, NEW f, NEW first, FirstHeld(f, first, 0), NEW p \in DOMAIN line,
         NEW v \in DOMAIN mapped, AroundIn(first, line[p], v)
  PROVE  /\ \E j \in DOMAIN line : /\ j > 0 /\ j <= p /\ v \in first[line[j]]
                                   /\ span[line[j]].first <= span[line[p]].first
         /\ span[line[p]].second <= f[v].second
         /\ IsHeader(line[p]) => v \in first[line[p]]
<1>0. PICK r, h : r = line[p] /\ h = loops[loopOf[r]].header
  OBVIOUS
<1>1. r \in Visited /\ loopOf[r] # 0 /\ v \in first[h] /\ IndexIn(line, r) = p
  <2>1. r \in Visited
    BY <1>0 DEF LineIsMade, ToSet
  <2>. QED
    BY <1>0, <2>1, PlaceOnLine DEF AroundIn
<1>2. /\ h \in Visited /\ IndexIn(line, h) <= p /\ span[h].first <= span[r].first
      /\ IsHeader(h) /\ r \in LoopBlocks(h)
  BY <1>0, <1>1, HeaderOnLine
<1>3. PICK j \in DOMAIN line : line[j] = h /\ j > 0 /\ j <= p
  BY <1>2, PlaceOnLine
<1>4. EndHeld(f, first, j, v)
  BY <1>3 DEF FirstHeld
<1>5. span[r].second <= f[v].second
  BY <1>1, <1>2, <1>3, <1>4 DEF EndHeld
<1>6. IsHeader(r) => v \in first[r]
  BY <1>0, <1>1 DEF IsHeader
<1>. QED
  BY <1>0, <1>1, <1>2, <1>3, <1>5, <1>6

LEMMA SecondRound ==
  ASSUME RoundGiven, LineIsMade, DomInv, AnalyseRegion, LiveTypes', HoldsUses(interval, Behind(position))',
         NEW first, IsEarlier(first), SecondHeld(interval, liveIn, first, position)
  PROVE  SecondHeld(interval', liveIn', first, position - 1)
<1>0. PICK p, r, e, f, g, K, L : /\ p = position /\ r = line[p] /\ f = interval /\ g = interval'
                                 /\ K = liveIn /\ L = liveIn' /\ e = earlier
  OBVIOUS
<1>1. /\ p \in DOMAIN line /\ \A q \in Regions : q # r => L[q] = K[q]
      /\ \A v \in DOMAIN mapped : OneRound(r, LiveOut(r), L[r], f, g, v)
  BY <1>0, RoundFacts
<1>2. /\ p \in Nat /\ p > 0 /\ r \in Regions /\ span[r].first \in Nat /\ span[r].second \in Nat
      /\ \A i \in DOMAIN line : i \in Nat /\ line[i] \in Regions /\ (line[i] = r => i = p)
      /\ \A i \in DOMAIN line : span[line[i]].first \in Nat /\ span[line[i]].second \in Nat
      /\ \A i \in DOMAIN line : i > p - 1 <=> i = p \/ i > p
  <2>1. /\ p \in Nat /\ p > 0 /\ r \in Regions /\ span[r].first \in Nat /\ span[r].second \in Nat
        /\ \A i \in DOMAIN line : i \in Nat /\ line[i] \in Regions /\ (line[i] = r => i = p)
        /\ \A i \in DOMAIN line : span[line[i]].first \in Nat /\ span[line[i]].second \in Nat
    BY <1>0, <1>1, PlacesOfNumbers
  <2>. QED
    BY <2>1
<1>3. /\ \A s \in Regions : IsOff(s, p) => K[s] = first[s]
      /\ \A i \in DOMAIN line : i > p => \A v \in DOMAIN mapped :
           LiveGrew(K, first, i, v) /\ (v \in DefinedIn(line[i]) => StartKept(f, first, p, i, v))
      /\ \A v \in DOMAIN mapped : f[v].second = e[v].second
  BY <1>0 DEF SecondHeld
<1>4. FirstHeld(e, first, 0) /\ e \in [Values -> Pair]
  BY <1>0 DEF IsEarlier
<1>5. ASSUME NEW s \in Regions, IsOff(s, p - 1) PROVE L[s] = first[s]
  <2>1. IsOff(s, p) /\ s # r
    BY <1>0, <1>1, <1>2, <1>5 DEF IsOff
  <2>. QED
    BY <1>1, <1>3, <2>1
<1>6. ASSUME NEW v \in DOMAIN mapped
      PROVE  /\ EndHeld(e, first, p, v) /\ e[v].first \in Nat /\ e[v].second \in Nat
             /\ Forward(first, p, v) => v \in LiveOut(r)
             /\ v \in LiveOut(r) => Forward(first, p, v) \/ AroundIn(first, r, v)
             /\ AroundIn(first, r, v) =>
                  /\ \E j \in DOMAIN line : /\ j > 0 /\ j <= p /\ v \in first[line[j]]
                                            /\ span[line[j]].first <= span[r].first
                  /\ span[r].second <= e[v].second
                  /\ IsHeader(r) => v \in first[r]
  <2>1. EndHeld(e, first, p, v) /\ e[v].first \in Nat /\ e[v].second \in Nat
    <3>1. v \in Values
      BY DEF RoundGiven, GivenMap
    <3>. QED
      BY <1>1, <1>2, <1>4, <3>1 DEF FirstHeld, Pair
  <2>2. /\ Forward(first, p, v) => v \in LiveOut(r)
        /\ v \in LiveOut(r) => Forward(first, p, v) \/ AroundIn(first, r, v)
    BY <1>0, <1>1, <1>4, OutGrew
  <2>3. AroundIn(first, r, v) =>
                  /\ \E j \in DOMAIN line : /\ j > 0 /\ j <= p /\ v \in first[line[j]]
                                            /\ span[line[j]].first <= span[r].first
                  /\ span[r].second <= e[v].second
                  /\ IsHeader(r) => v \in first[r]
    BY <1>0, <1>1, <1>4, AroundFacts
  <2>. QED
    BY <2>1, <2>2, <2>3
<1>7. ASSUME NEW v \in DOMAIN mapped PROVE LiveGrew(L, first, p, v)
  <2>1. OneRound(r, LiveOut(r), L[r], f, g, v)
    BY <1>1
  <2>2. v \in L[r] <=> v \notin DefinedIn(r) /\ (v \in LiveOut(r) \/ UsedIn(v, r))
    BY <2>1 DEF OneRound
  <2>3. v \in first[r] <=> v \notin DefinedIn(r) /\ (Forward(first, p, v) \/ UsedIn(v, r))
    BY <1>0, <1>6 DEF EndHeld
  <2>. QED
    BY <1>0, <1>6, <2>2, <2>3 DEF LiveGrew
<1>8. ASSUME NEW v \in DOMAIN mapped PROVE g[v].second = e[v].second
  <2>1. OneRound(r, LiveOut(r), L[r], f, g, v) /\ EndHeld(e, first, p, v) /\ e[v].second \in Nat
    BY <1>1, <1>6
  <2>2. v \in LiveOut(r) => span[r].second <= e[v].second
    BY <1>0, <1>6, <2>1 DEF EndHeld
  <2>3. NumbersWithin(r, v, e[v].second)
    <3>1. \A u \in ToSet(result[r]) : NumberOf(u) = liveNumber[u]
      BY <1>0, <1>1, PlacesOfNumbers DEF DefinedIn
    <3>. QED
      BY <1>0, <2>1, <3>1 DEF EndHeld, NumbersWithin
  <2>4. v \in L[r] /\ IsHeader(r) => \A b \in LoopBlocks(r) : span[b].second <= e[v].second
    <3>1. v \in L[r] => v \in first[r] \/ AroundIn(first, r, v)
      BY <1>0, <1>7 DEF LiveGrew
    <3>2. v \in L[r] /\ IsHeader(r) => v \in first[r]
      BY <1>6, <3>1
    <3>. QED
      BY <1>0, <2>1, <3>2 DEF EndHeld
  <2>5. AsksWithin(r, LiveOut(r), L[r], v, e[v].second)
    BY <2>2, <2>3, <2>4 DEF AsksWithin
  <2>6. f[v].second = e[v].second /\ f[v].second <= g[v].second /\ f[v].second \in Nat /\ g[v].second \in Nat
    BY <1>3, <2>1 DEF OneRound
  <2>7. g[v].second <= e[v].second
    <3>1. f[v].second <= e[v].second
      BY <2>6
    <3>. QED
      BY <2>1, <2>5, <3>1 DEF OneRound
  <2>. QED
    BY <2>1, <2>6, <2>7
<1>9. ASSUME NEW v \in DefinedIn(r), v \in DOMAIN mapped PROVE StartKept(g, first, p - 1, p, v)
  <2>1. g[v].first = NumberOf(v) /\ g[v].first \in Nat
    <3>1. OneRound(r, LiveOut(r), L[r], f, g, v)
      BY <1>1, <1>9
    <3>. QED
      BY <1>9, <3>1 DEF OneRound
  <2>2. StartHeld(e, first, 0, p, v)
    BY <1>0, <1>1, <1>2, <1>4, <1>9 DEF FirstHeld
  <2>3. e[v].first <= NumberOf(v)
    BY <2>2 DEF StartHeld
  <2>4. \A i \in DOMAIN line : ~Between(p - 1, i, p)
    BY <1>2 DEF Between
  <2>. QED
    BY <1>0, <2>1, <2>3, <2>4 DEF StartKept
<1>10. ASSUME NEW d \in DOMAIN line, d > p, NEW v \in DOMAIN mapped, v \in DefinedIn(line[d])
       PROVE  StartKept(g, first, p - 1, d, v)
  <2>1. OneRound(r, LiveOut(r), L[r], f, g, v) /\ StartKept(f, first, p, d, v) /\ StartHeld(e, first, 0, d, v)
    <3>1. d > 0
      BY <1>2, <1>10
    <3>. QED
      BY <1>1, <1>3, <1>4, <1>10, <3>1 DEF FirstHeld
  <2>2. v \notin DefinedIn(r) /\ NumberOf(v) \in Nat
    <3>1. mapped[v] = line[d] /\ NumberOf(v) \in Nat
      BY <1>10, PlacesOfNumbers
    <3>2. v \in DefinedIn(r) => mapped[v] = r
      BY <1>0, <1>1, PlacesOfNumbers
    <3>. QED
      BY <1>2, <1>10, <3>1, <3>2
  <2>3. /\ f[v].first \in Nat /\ g[v].first \in Nat
        /\ g[v].first <= f[v].first /\ (v \in L[r] => g[v].first <= span[r].first)
        /\ g[v].first = f[v].first \/ (v \in L[r] /\ g[v].first = span[r].first)
    BY <2>1, <2>2 DEF OneRound
  <2>4. e[v].first <= f[v].first /\ f[v].first <= NumberOf(v) /\ e[v].first \in Nat
    BY <1>0, <1>6, <2>1 DEF StartKept
  <2>5. ASSUME NEW j \in DOMAIN line, j > 0, j <= p, v \in first[line[j]]
        PROVE  e[v].first <= span[line[j]].first
    <3>1. Between(0, j, d)
      BY <1>2, <1>10, <2>5 DEF Between
    <3>. QED
      BY <2>1, <2>5, <3>1 DEF StartHeld
  <2>6. ASSUME v \in L[r] PROVE e[v].first <= span[r].first
    <3>1. v \in first[r] \/ AroundIn(first, r, v)
      BY <1>0, <1>7, <2>6 DEF LiveGrew
    <3>2. CASE v \in first[r]
      BY <1>0, <1>1, <1>2, <2>5, <3>2
    <3>3. CASE AroundIn(first, r, v)
      <4>1. PICK j \in DOMAIN line : /\ j > 0 /\ j <= p /\ v \in first[line[j]]
                                     /\ span[line[j]].first <= span[r].first
        BY <1>6, <3>3
      <4>2. PICK a, b : a = span[line[j]].first /\ b = span[r].first
        OBVIOUS
      <4>3. e[v].first <= a /\ a <= b /\ a \in Nat /\ b \in Nat
        BY <1>2, <2>5, <4>1, <4>2
      <4>. QED
        BY <2>4, <4>2, <4>3
    <3>. QED
      BY <3>1, <3>2, <3>3
  <2>7. e[v].first <= g[v].first /\ g[v].first <= NumberOf(v)
    BY <2>2, <2>3, <2>4, <2>6
  <2>8. ASSUME NEW i \in DOMAIN line, Between(p - 1, i, d), v \in first[line[i]]
        PROVE  g[v].first <= span[line[i]].first
    <3>1. i = p \/ Between(p, i, d)
      BY <1>2, <1>10, <2>8 DEF Between
    <3>2. CASE i = p
      <4>1. v \in L[r]
        BY <1>0, <1>7, <2>8, <3>2 DEF LiveGrew
      <4>. QED
        BY <1>0, <2>3, <3>2, <4>1
    <3>3. CASE Between(p, i, d)
      <4>1. f[v].first <= span[line[i]].first
        BY <2>1, <2>8, <3>3 DEF StartKept
      <4>2. PICK a : a = span[line[i]].first
        OBVIOUS
      <4>3. a \in Nat /\ f[v].first <= a
        BY <1>2, <4>1, <4>2
      <4>. QED
        BY <2>3, <4>2, <4>3
    <3>. QED
      BY <3>1, <3>2, <3>3
  <2>. QED
    BY <1>0, <2>7, <2>8 DEF StartKept
<1>11. ASSUME NEW i \in DOMAIN line, i > p - 1, NEW v \in DOMAIN mapped
       PROVE  LiveGrew(L, first, i, v) /\ (v \in DefinedIn(line[i]) => StartKept(g, first, p - 1, i, v))
  <2>1. CASE i = p
    BY <1>0, <1>7, <1>9, <2>1
  <2>2. CASE i > p
    <3>1. L[line[i]] = K[line[i]] /\ LiveGrew(K, first, i, v)
      BY <1>1, <1>2, <1>3, <2>2
    <3>2. LiveGrew(L, first, i, v)
      BY <3>1 DEF LiveGrew
    <3>. QED
      BY <1>10, <2>2, <3>2
  <2>. QED
    BY <1>2, <1>11, <2>1, <2>2
<1>12. SecondHeld(g, L, first, p - 1)
  BY <1>0, <1>5, <1>8, <1>11 DEF SecondHeld
<1>. QED
  BY <1>0, <1>12

-----------------------------------------------------------------------------
LEMMA HeldStays ==
  ASSUME UNCHANGED <<flow, line, loops, loopOf, code, result, mapped, span>>, NEW f, NEW live, NEW n
  PROVE  /\ FirstHeld(f, live, n) => FirstHeld(f, live, n)'
         /\ \A first : SecondHeld(f, live, first, n) /\ earlier' = earlier => SecondHeld(f, live, first, n)'
<1>1. \A v : NumberOf(v)' = NumberOf(v)
  BY DEF NumberOf, Phis
<1>2. \A r : DefinedIn(r)' = DefinedIn(r)
  BY DEF DefinedIn, PhisOf, Phis
<1>3. /\ \A m, i, d : Between(m, i, d)' <=> Between(m, i, d)
      /\ \A s, m : IsOff(s, m)' <=> IsOff(s, m)
  BY DEF Between, IsOff
<1>4. ASSUME NEW L, NEW i, NEW v PROVE Forward(L, i, v)' <=> Forward(L, i, v)
  <2>1. \A r : PhiTakes(r, v)' <=> PhiTakes(r, v)
    BY DEF PhiTakes, Phis, ValOf
  <2>. QED
    BY <2>1 DEF Forward
<1>5. ASSUME NEW L, NEW i, NEW v, EndHeld(f, L, i, v) PROVE EndHeld(f, L, i, v)'
  <2>1. \A r : UsedIn(v, r)' <=> UsedIn(v, r)
    BY DEF UsedIn
  <2>2. \A r : (IsHeader(r)' <=> IsHeader(r)) /\ LoopBlocks(r)' = LoopBlocks(r)
    BY DEF IsHeader, LoopBlocks
  <2>. QED
    BY <1>1, <1>2, <1>4, <1>5, <2>1, <2>2 DEF EndHeld
<1>6. ASSUME NEW m, NEW d, NEW v, StartHeld(f, live, m, d, v) PROVE StartHeld(f, live, m, d, v)'
  BY <1>1, <1>3, <1>6 DEF StartHeld
<1>7. ASSUME FirstHeld(f, live, n) PROVE FirstHeld(f, live, n)'
  BY <1>2, <1>3, <1>5, <1>6, <1>7 DEF FirstHeld
<1>8. ASSUME NEW first, SecondHeld(f, live, first, n), earlier' = earlier PROVE SecondHeld(f, live, first, n)'
  <2>1. ASSUME NEW i, NEW v, LiveGrew(live, first, i, v) PROVE LiveGrew(live, first, i, v)'
    BY <2>1 DEF LiveGrew, AroundIn
  <2>2. ASSUME NEW d, NEW v, StartKept(f, first, n, d, v) PROVE StartKept(f, first, n, d, v)'
    BY <1>1, <1>3, <1>8, <2>2 DEF StartKept
  <2>. QED
    BY <1>2, <1>3, <1>8, <2>1, <2>2 DEF SecondHeld
<1>. QED
  BY <1>7, <1>8

LEMMA InOrderStays ==
  ASSUME UNCHANGED allVars
  PROVE  InOrder' <=> InOrder
<1>1. UNCHANGED <<flow, line, loops, loopOf, number>>
  BY DEF allVars, loopVars, domVars
<1>2. Visited' = Visited
  BY <1>1 DEF Visited
<1>. QED
  BY <1>1, <1>2 DEF InOrder, IsBackEdge

(* At the end of the second call the intervals are those of the first.     *)
LEMMA SameAgain ==
  ASSUME RoundGiven, NEW first, IsEarlier(first), SecondHeld(interval, liveIn, first, 0),
         NEW v \in DOMAIN mapped, mapped[v] \in ToSet(line)
  PROVE  interval[v] = earlier[v]
<1>1. PICK d \in DOMAIN line : line[d] = mapped[v]
  BY DEF ToSet
<1>2. d > 0 /\ line[d] \in Regions
  BY PlacesOfNumbers
<1>3. v \in DefinedIn(line[d]) /\ v \in Values
  BY <1>1, <1>2 DEF RoundGiven, GivenMap, DefinedIn
<1>4. interval[v] \in Pair /\ earlier[v] \in Pair
  BY <1>3 DEF RoundGiven, LiveTypes, IsEarlier
<1>5. interval[v].second = earlier[v].second /\ StartKept(interval, first, 0, d, v)
  BY <1>2, <1>3 DEF SecondHeld
<1>6. StartHeld(earlier, first, 0, d, v)
  BY <1>2, <1>3 DEF IsEarlier, FirstHeld
<1>7. NumberOf(v) \in Nat
  BY <1>3, PlacesOfNumbers
<1>8. interval[v].first = earlier[v].first
  <2>1. earlier[v].first <= interval[v].first /\ interval[v].first \in Nat /\ earlier[v].first \in Nat
    BY <1>4, <1>5 DEF StartKept, Pair
  <2>2. interval[v].first <= earlier[v].first
    <3>1. CASE earlier[v].first = NumberOf(v)
      BY <1>5, <3>1 DEF StartKept
    <3>2. CASE \E i \in DOMAIN line : Between(0, i, d) /\ v \in first[line[i]] /\ earlier[v].first = span[line[i]].first
      BY <1>5, <3>2 DEF StartKept
    <3>. QED
      BY <1>6, <3>1, <3>2 DEF StartHeld
  <2>. QED
    BY <2>1, <2>2
<1>. QED
  BY <1>4, <1>5, <1>8 DEF Pair

(* What is known from one call to the next of the intervals.               *)
StableInv ==
  Values # {} =>
    /\ analysis = "passes" \/ (analysis = "numbers" /\ earlier = <<>>) => \A r \in Regions : liveIn[r] = {}
    /\ analysis = "intervals" /\ earlier = <<>> => FirstHeld(interval, liveIn, position)
    /\ analysis = "done" /\ earlier = <<>> => FirstHeld(interval, liveIn, 0)
    /\ analysis = "numbers" /\ earlier # <<>> => earlier = interval /\ FirstHeld(interval, liveIn, 0)
    /\ analysis = "intervals" /\ earlier # <<>> /\ InOrder =>
         \E first : IsEarlier(first) /\ SecondHeld(interval, liveIn, first, position)
    /\ analysis = "done" => RecalcIsStable

LEMMA StableStart ==
  ASSUME LiveInit
  PROVE  NumbersInv /\ StableInv
BY DEF LiveInit, NumbersInv, StableInv

LEMMA NumberSteps ==
  ASSUME LiveInv, IntervalInv, NumbersInv, [LiveNext]_everything
  PROVE  NumbersInv'
<1>1. /\ LiveTypes /\ PassesComeFirst /\ LoopInv /\ SchedInv /\ DomInv
  BY DEF LiveInv, IntervalInv, LoopInv
<1>2. ASSUME analysis # "passes"
      PROVE  /\ GivenLine /\ GivenLists /\ GivenMap /\ Len(line) \in Nat /\ DOMAIN line = 1..Len(line)
             /\ \A i \in DOMAIN line : \A v \in DefinedIn(line[i]) : v \in Values
  <2>1. pass = "linearized" /\ Scheduled
    BY <1>1, <1>2 DEF PassesComeFirst
  <2>2. GivenLine /\ GivenLists /\ GivenMap
    BY <1>1, <2>1, LineIsGiven, ListsAreGiven, MapIsGiven
  <2>3. Len(line) \in Nat /\ DOMAIN line = 1..Len(line) /\ \A i \in DOMAIN line : line[i] \in Regions
    BY <2>2 DEF GivenLine
  <2>4. \A i \in DOMAIN line : \A v \in DefinedIn(line[i]) : v \in Values
    BY <2>2, <2>3 DEF DefinedIn, GivenMap, PhisOf
  <2>. QED
    BY <2>2, <2>3, <2>4
<1>3. CASE Analyses
  <2>1. analysis = "passes" /\ UNCHANGED <<analysis, liveNumber, earlier>> /\ code' = code
    BY <1>3 DEF Analyses, liveVars, scheduleVars, ScheduleNext, StartSchedule, Place, PassOver, SweepAgain, ScheduleDone
  <2>. QED
    BY <2>1 DEF NumbersInv, Values, Phis
<1>4. CASE StartNumbers
  <2>1. /\ analysis = "passes" /\ analysis' = "numbers" /\ position = 1 /\ pass = "linearized"
        /\ UNCHANGED <<line, code, result, mapped, span, liveNumber, position, earlier, allVars, scheduleVars>>
    BY <1>1, <1>4 DEF StartNumbers, allVars, loopVars, scheduleVars, LiveTypes
  <2>2. GivenLine /\ GivenMap
    <3>1. Scheduled
      BY <1>1, <2>1 DEF PassesComeFirst
    <3>. QED
      BY <1>1, <2>1, <3>1, LineIsGiven, MapIsGiven
  <2>3. \A i \in DOMAIN line : ~(i < 1) /\ line[i] \in Regions
    BY <2>2 DEF GivenLine
  <2>4. \A i \in DOMAIN line : \A v \in DefinedIn(line[i]) : v \in Values
    BY <2>2, <2>3 DEF DefinedIn, GivenMap, PhisOf
  <2>5. Numbered(position) /\ SpansGiven(position) /\ earlier = <<>>
    BY <2>1, <2>3, <2>4 DEF NumbersInv, Numbered, SpansGiven
  <2>6. Numbered(position)' /\ SpansGiven(position)'
    <3>1. PICK p : p = position
      OBVIOUS
    <3>2. Numbered(p)' /\ SpansGiven(p)'
      BY <2>1, <2>5, <3>1, NumbersStay
    <3>. QED
      BY <2>1, <3>1, <3>2
  <2>. QED
    BY <2>1, <2>5, <2>6 DEF NumbersInv
<1>5. CASE NumberRegion
  <2>1. /\ analysis = "numbers" /\ UNCHANGED <<analysis, earlier, line, code, result, mapped>>
    BY <1>5 DEF NumberRegion, Numbering, allVars, loopVars, scheduleVars
  <2>2. Numbered(position)'
    BY <1>1, <1>2, <1>5, <2>1, NumberExactly DEF NumbersInv
  <2>3. CASE earlier = <<>>
    <3>1. SpansGiven(position)
      BY <2>1, <2>3 DEF NumbersInv
    <3>2. SpansGiven(position)'
      BY <1>1, <1>2, <1>5, <2>1, <3>1, SpanIsGiven
    <3>. QED
      BY <2>1, <2>2, <2>3, <3>2 DEF NumbersInv
  <2>4. CASE earlier # <<>>
    <3>1. SpansGiven(Len(line) + 1)
      BY <2>1, <2>4 DEF NumbersInv
    <3>2. span' = span
      BY <1>1, <1>2, <1>5, <2>1, <3>1, SpanIsGiven
    <3>3. SpansGiven(Len(line) + 1)'
      BY <2>1, <3>1, <3>2 DEF SpansGiven, SpanAt
    <3>. QED
      BY <2>1, <2>2, <2>4, <3>3 DEF NumbersInv
  <2>. QED
    BY <2>3, <2>4
<1>6. CASE StartIntervals
  <2>1. /\ analysis = "numbers" /\ analysis' = "intervals" /\ position > Len(line)
        /\ UNCHANGED <<line, code, result, mapped, span, liveNumber>>
    BY <1>6 DEF StartIntervals, allVars, loopVars, scheduleVars
  <2>2. position = Len(line) + 1
    BY <1>1, <1>2, <2>1 DEF LiveTypes
  <2>3. Numbered(Len(line) + 1) /\ SpansGiven(Len(line) + 1)
    BY <2>1, <2>2 DEF NumbersInv
  <2>4. Numbered(Len(line) + 1)' /\ SpansGiven(Len(line) + 1)'
    <3>1. PICK n : n = Len(line) + 1
      OBVIOUS
    <3>2. Numbered(n)' /\ SpansGiven(n)'
      BY <2>1, <2>3, <3>1, NumbersStay
    <3>. QED
      BY <2>1, <3>1, <3>2
  <2>. QED
    BY <2>1, <2>4 DEF NumbersInv
<1>7. CASE AnalyseRegion \/ LiveDone
  <2>1. /\ analysis = "intervals" /\ analysis' \in {"intervals", "done"}
        /\ UNCHANGED <<line, code, result, mapped, span, liveNumber>>
    BY <1>7 DEF AnalyseRegion, LiveDone, allVars, loopVars, scheduleVars
  <2>2. Numbered(Len(line) + 1) /\ SpansGiven(Len(line) + 1)
    BY <2>1 DEF NumbersInv
  <2>3. Numbered(Len(line) + 1)' /\ SpansGiven(Len(line) + 1)'
    <3>1. PICK n : n = Len(line) + 1
      OBVIOUS
    <3>2. Numbered(n)' /\ SpansGiven(n)'
      BY <2>1, <2>2, <3>1, NumbersStay
    <3>. QED
      BY <2>1, <3>1, <3>2
  <2>. QED
    BY <2>1, <2>3 DEF NumbersInv
<1>8. CASE Recalc
  <2>1. /\ analysis = "done" /\ analysis' = "numbers" /\ position' = 1 /\ liveNumber' = [v \in Values |-> 0]
        /\ UNCHANGED <<line, code, result, mapped, span>>
    BY <1>8 DEF Recalc, allVars, loopVars, scheduleVars
  <2>2. SpansGiven(Len(line) + 1)
    BY <2>1 DEF NumbersInv
  <2>3. SpansGiven(Len(line) + 1)'
    BY <2>1, <2>2 DEF SpansGiven, SpanAt
  <2>4. \A i \in DOMAIN line : ~(i < 1)
    BY <1>2, <2>1
  <2>5. SpansGiven(1)' /\ Numbered(1)'
    <3>1. \A r : DefinedIn(r)' = DefinedIn(r)
      BY <2>1 DEF DefinedIn, PhisOf, Phis
    <3>2. SpansGiven(1)'
      BY <2>1, <2>4 DEF SpansGiven
    <3>3. ASSUME NEW i \in DOMAIN line, NEW v \in DefinedIn(line[i])
          PROVE  liveNumber'[v] = 0
      BY <1>2, <2>1
    <3>4. Numbered(1)'
      BY <2>1, <2>4, <3>1, <3>3 DEF Numbered
    <3>. QED
      BY <3>2, <3>4
  <2>. QED
    BY <2>1, <2>3, <2>5 DEF NumbersInv
<1>9. CASE UNCHANGED everything
  <2>1. /\ UNCHANGED <<line, code, result, mapped, span, liveNumber, analysis, position, earlier>>
    BY <1>9 DEF everything, liveVars, allVars, loopVars, scheduleVars
  <2>2. /\ \A n : Numbered(n) => Numbered(n)'
        /\ \A n : SpansGiven(n) => SpansGiven(n)'
    BY <2>1, NumbersStay
  <2>3. PICK m, p : m = Len(line) + 1 /\ p = position
    OBVIOUS
  <2>4. /\ Numbered(m) => Numbered(m)'
        /\ Numbered(p) => Numbered(p)'
        /\ SpansGiven(m) => SpansGiven(m)'
        /\ SpansGiven(p) => SpansGiven(p)'
    BY <2>2
  <2>5. Values' = Values
    BY <2>1 DEF Values, Phis
  <2>. QED
    BY <2>1, <2>3, <2>4, <2>5 DEF NumbersInv
<1>. QED
  BY <1>3, <1>4, <1>5, <1>6, <1>7, <1>8, <1>9 DEF LiveNext, LiveReturned

LEMMA LineWasMade ==
  ASSUME LiveInv, IntervalInv, NestInv, analysis # "passes"
  PROVE  /\ GivenLine /\ GivenLists /\ GivenMap /\ LiveTypes /\ DomInv /\ Len(line) \in Nat /\ DOMAIN line = 1..Len(line)
         /\ \A v \in DOMAIN mapped : mapped[v] \in ToSet(line)
         /\ analysis \in {"intervals", "done"} /\ InOrder => LineIsMade
<1>1. /\ LiveTypes /\ pass = "linearized" /\ Scheduled /\ LoopInv /\ SchedInv /\ DomInv
  BY DEF LiveInv, IntervalInv, LoopInv, PassesComeFirst
<1>2. GivenLine /\ GivenLists /\ GivenMap /\ ToSet(line) = Visited
  BY <1>1, LineIsGiven, ListsAreGiven, MapIsGiven
<1>3. ASSUME NEW v \in DOMAIN mapped PROVE mapped[v] \in Visited
  <2>1. SchedTypes /\ Built /\ stage # "tree"
    BY <1>1 DEF SchedInv, SchedStarts, Scheduled
  <2>2. mapped[v] \in HomesIn(flow)
    BY <2>1 DEF SchedTypes
  <2>. QED
    BY <1>1, <2>1, <2>2, HomeFacts
<1>4. Len(line) \in Nat /\ DOMAIN line = 1..Len(line)
  BY <1>2 DEF GivenLine
<1>5. analysis \in {"intervals", "done"} => NumbersAscend(Len(line) + 1)
  BY DEF IntervalInv, NumbersAreGiven
<1>. QED
  BY <1>1, <1>2, <1>3, <1>4, <1>5 DEF LineIsMade

LEMMA RoundWasGiven ==
  ASSUME LiveInv, IntervalInv, NestInv, LivesInv, NumbersInv, analysis \in {"intervals", "done"}
  PROVE  RoundGiven
<1>1. GivenLine /\ GivenLists /\ GivenMap /\ LiveTypes
  BY LineWasMade
<1>2. NumbersAscend(Len(line) + 1) /\ Numbered(Len(line) + 1) /\ DOMAIN liveIn = Regions
  BY DEF IntervalInv, NumbersAreGiven, NumbersInv, LivesInv
<1>. QED
  BY <1>1, <1>2 DEF RoundGiven

LEMMA StableSteps ==
  ASSUME LiveInv, IntervalInv, IntervalInv', LivesInv, NestInv, NumbersInv, StableInv, [LiveNext]_everything
  PROVE  StableInv'
<1>1. LiveTypes /\ LiveTypes' /\ MetAreHeld'
  BY DEF IntervalInv
<1>2. SUFFICES ASSUME Values # {} PROVE StableInv'
  <2>1. Values' = Values
    BY DEF Values
  <2>. QED
    BY <2>1 DEF StableInv
<1>3. CASE Analyses
  <2>1. analysis = "passes" /\ analysis' = "passes" /\ liveIn' = liveIn
    BY <1>3 DEF Analyses, liveVars
  <2>. QED
    BY <1>2, <2>1 DEF StableInv
<1>4. CASE StartNumbers
  <2>1. analysis = "passes" /\ analysis' = "numbers" /\ liveIn' = liveIn /\ earlier' = earlier /\ earlier = <<>>
    BY <1>4 DEF StartNumbers, NumbersInv
  <2>. QED
    BY <1>2, <2>1 DEF StableInv
<1>5. CASE NumberRegion
  <2>1. /\ analysis = "numbers" /\ analysis' = "numbers"
        /\ UNCHANGED <<earlier, liveIn, interval, flow, line, loops, loopOf, code, result, mapped>>
    BY <1>5 DEF NumberRegion, Numbering, allVars, loopVars, domVars, scheduleVars
  <2>2. CASE earlier = <<>>
    BY <1>2, <2>1, <2>2 DEF StableInv
  <2>3. CASE earlier # <<>>
    <3>1. SpansGiven(Len(line) + 1)
      BY <2>1, <2>3 DEF NumbersInv
    <3>2. span' = span
      BY <1>1, <1>5, <2>1, <3>1, SpanIsGiven, LineWasMade
    <3>3. earlier = interval /\ FirstHeld(interval, liveIn, 0)
      BY <1>2, <2>1, <2>3 DEF StableInv
    <3>4. FirstHeld(interval, liveIn, 0)'
      <4>1. PICK f, live : f = interval /\ live = liveIn
        OBVIOUS
      <4>2. FirstHeld(f, live, 0)'
        BY <2>1, <3>2, <3>3, <4>1, HeldStays
      <4>. QED
        BY <2>1, <4>1, <4>2
    <3>. QED
      BY <2>1, <2>3, <3>3, <3>4 DEF StableInv
  <2>. QED
    BY <2>2, <2>3
<1>6. CASE StartIntervals
  <2>1. /\ analysis = "numbers" /\ analysis' = "intervals" /\ position' = Len(line)
        /\ UNCHANGED <<earlier, liveIn, interval, flow, line, loops, loopOf, code, result, mapped, span, allVars>>
    BY <1>6 DEF StartIntervals, allVars, loopVars, domVars, scheduleVars
  <2>2. /\ Len(line) \in Nat /\ \A i \in DOMAIN line : ~(i > Len(line))
    BY <2>1, LineWasMade
  <2>3. CASE earlier = <<>>
    <3>1. \A r \in Regions : liveIn[r] = {}
      BY <1>2, <2>1, <2>3 DEF StableInv
    <3>2. FirstHeld(interval, liveIn, Len(line))
      BY <2>2, <3>1 DEF FirstHeld
    <3>3. FirstHeld(interval, liveIn, position)'
      <4>1. PICK f, live, n : f = interval /\ live = liveIn /\ n = Len(line)
        OBVIOUS
      <4>2. FirstHeld(f, live, n)'
        BY <2>1, <3>2, <4>1, HeldStays
      <4>. QED
        BY <2>1, <4>1, <4>2
    <3>. QED
      BY <2>1, <2>3, <3>3 DEF StableInv
  <2>4. CASE earlier # <<>>
    <3>1. earlier = interval /\ FirstHeld(interval, liveIn, 0) /\ interval \in [Values -> Pair]
      BY <1>1, <1>2, <2>1, <2>4 DEF StableInv, LiveTypes
    <3>2. PICK f, live, n : f = interval /\ live = liveIn /\ n = Len(line)
      OBVIOUS
    <3>3. SecondHeld(f, live, live, n)
      BY <2>2, <3>1, <3>2 DEF SecondHeld
    <3>4. SecondHeld(f, live, live, n)' /\ FirstHeld(f, live, 0)'
      BY <2>1, <3>1, <3>2, <3>3, HeldStays
    <3>5. IsEarlier(live)' /\ SecondHeld(interval, liveIn, live, position)'
      <4>1. Values' = Values
        BY DEF Values
      <4>. QED
        BY <2>1, <3>1, <3>2, <3>4, <4>1 DEF IsEarlier
    <3>. QED
      BY <2>1, <2>4, <3>5 DEF StableInv
  <2>. QED
    BY <2>3, <2>4
<1>7. CASE AnalyseRegion
  <2>1. /\ analysis = "intervals" /\ analysis' = "intervals" /\ position' = position - 1
        /\ UNCHANGED <<earlier, flow, line, loops, loopOf, code, result, mapped, span, allVars>>
    BY <1>7 DEF AnalyseRegion, allVars, loopVars, domVars, scheduleVars
  <2>2. RoundGiven /\ DomInv /\ HoldsUses(interval, Behind(position))' /\ (InOrder => LineIsMade)
    BY <1>1, <2>1, RoundWasGiven, LineWasMade DEF MetAreHeld
  <2>3. PICK f, live, n : f = interval' /\ live = liveIn' /\ n = position - 1
    OBVIOUS
  <2>4. CASE earlier = <<>>
    <3>1. FirstHeld(interval, liveIn, position)
      BY <1>2, <2>1, <2>4 DEF StableInv
    <3>2. FirstHeld(interval', liveIn', position - 1)
      BY <1>1, <1>7, <2>2, <3>1, FirstRound
    <3>3. FirstHeld(f, live, n)'
      BY <2>1, <2>3, <3>2, HeldStays
    <3>. QED
      BY <2>1, <2>3, <2>4, <3>3 DEF StableInv
  <2>5. CASE earlier # <<>>
    <3>1. ASSUME InOrder
          PROVE  \E first : IsEarlier(first)' /\ SecondHeld(f, live, first, n)'
      <4>1. PICK first : IsEarlier(first) /\ SecondHeld(interval, liveIn, first, position)
        BY <1>2, <2>1, <2>5, <3>1 DEF StableInv
      <4>2. SecondHeld(interval', liveIn', first, position - 1)
        BY <1>1, <1>7, <2>2, <3>1, <4>1, SecondRound
      <4>3. SecondHeld(f, live, first, n)'
        BY <2>1, <2>3, <4>2, HeldStays
      <4>4. PICK e : e = earlier
        OBVIOUS
      <4>5. FirstHeld(e, first, 0)'
        BY <2>1, <4>1, <4>4, HeldStays DEF IsEarlier
      <4>6. IsEarlier(first)'
        <5>1. Values' = Values
          BY DEF Values
        <5>. QED
          BY <2>1, <4>1, <4>4, <4>5, <5>1 DEF IsEarlier
      <4>. QED
        BY <4>3, <4>6
    <3>2. InOrder' <=> InOrder
      BY <2>1, InOrderStays
    <3>. QED
      BY <2>1, <2>3, <2>5, <3>1, <3>2 DEF StableInv
  <2>. QED
    BY <2>4, <2>5
<1>8. CASE LiveDone
  <2>1. /\ analysis = "intervals" /\ analysis' = "done" /\ position = 0
        /\ UNCHANGED <<earlier, liveIn, interval, flow, line, loops, loopOf, code, result, mapped, span, allVars>>
    BY <1>8 DEF LiveDone, allVars, loopVars, domVars, scheduleVars
  <2>2. CASE earlier = <<>>
    <3>1. FirstHeld(interval, liveIn, 0)
      BY <1>2, <2>1, <2>2 DEF StableInv
    <3>2. PICK f, live : f = interval /\ live = liveIn
      OBVIOUS
    <3>3. FirstHeld(f, live, 0)'
      BY <2>1, <3>1, <3>2, HeldStays
    <3>. QED
      BY <2>1, <2>2, <3>2, <3>3 DEF StableInv, RecalcIsStable
  <2>3. CASE earlier # <<>>
    <3>1. InOrder' <=> InOrder
      BY <2>1, InOrderStays
    <3>2. ASSUME InOrder, NEW v \in DOMAIN mapped PROVE interval[v] = earlier[v]
      <4>1. PICK first : IsEarlier(first) /\ SecondHeld(interval, liveIn, first, 0)
        BY <1>2, <2>1, <2>3, <3>2 DEF StableInv
      <4>2. RoundGiven /\ mapped[v] \in ToSet(line)
        BY <2>1, RoundWasGiven, LineWasMade
      <4>. QED
        BY <4>1, <4>2, SameAgain
    <3>3. RecalcIsStable'
      BY <2>1, <3>1, <3>2 DEF RecalcIsStable
    <3>. QED
      BY <2>1, <2>3, <3>3 DEF StableInv
  <2>. QED
    BY <2>2, <2>3
<1>9. CASE Recalc
  <2>1. /\ analysis = "done" /\ analysis' = "numbers" /\ earlier = <<>> /\ earlier' = interval
        /\ UNCHANGED <<liveIn, interval, flow, line, loops, loopOf, code, result, mapped, span>>
    BY <1>9 DEF Recalc, allVars, loopVars, domVars, scheduleVars
  <2>2. FirstHeld(interval, liveIn, 0)
    BY <1>2, <2>1 DEF StableInv
  <2>3. PICK f, live : f = interval /\ live = liveIn
    OBVIOUS
  <2>4. FirstHeld(f, live, 0)'
    BY <2>1, <2>2, <2>3, HeldStays
  <2>5. interval # <<>>
    BY <1>1, <1>2 DEF LiveTypes
  <2>. QED
    BY <2>1, <2>3, <2>4, <2>5 DEF StableInv
<1>10. CASE UNCHANGED everything
  <2>1. /\ UNCHANGED <<earlier, liveIn, interval, flow, line, loops, loopOf, code, result, mapped, span, allVars>>
        /\ UNCHANGED <<analysis, position>>
    BY <1>10 DEF everything, liveVars, allVars, loopVars, scheduleVars, domVars
  <2>2. PICK f, live, n, e : f = interval /\ live = liveIn /\ n = position /\ e = earlier
    OBVIOUS
  <2>3. /\ FirstHeld(f, live, n) => FirstHeld(f, live, n)'
        /\ FirstHeld(f, live, 0) => FirstHeld(f, live, 0)'
        /\ \A first : FirstHeld(e, first, 0) => FirstHeld(e, first, 0)'
        /\ \A first : SecondHeld(f, live, first, n) => SecondHeld(f, live, first, n)'
    BY <2>1, HeldStays
  <2>4. InOrder' <=> InOrder
    BY <2>1, InOrderStays
  <2>5. \A first : IsEarlier(first) => IsEarlier(first)'
    <3>1. Values' = Values
      BY DEF Values
    <3>. QED
      BY <2>1, <2>2, <2>3, <3>1 DEF IsEarlier
  <2>6. RecalcIsStable => RecalcIsStable'
    BY <2>1, <2>4 DEF RecalcIsStable, Analysed
  <2>. QED
    BY <1>2, <2>1, <2>2, <2>3, <2>4, <2>5, <2>6 DEF StableInv
<1>. QED
  BY <1>3, <1>4, <1>5, <1>6, <1>7, <1>8, <1>9, <1>10 DEF LiveNext, LiveReturned

(* A second call for the same function, which starts from the live-in sets *)
(* and intervals that the first one left, leaves every interval as it was, *)
(* on an order that recalc is made for.                                    *)
THEOREM RecalcKeepsIntervals == LiveSpec => []RecalcIsStable
<1>. DEFINE Inv == LiveInv /\ IntervalInv /\ LivesInv /\ NestInv /\ WalkOrder /\ NumbersInv /\ StableInv
<1>1. LiveInit => Inv
  BY LiveStartsWell, IntervalsStart, LivesStart, NestStarts, OrderStarts, StableStart DEF LiveInit, LoopInit, DomInit
<1>2. Inv /\ [LiveNext]_everything => Inv'
  <2>. SUFFICES ASSUME Inv, [LiveNext]_everything PROVE Inv'
    OBVIOUS
  <2>1. LiveInv' /\ IntervalInv'
    BY LiveSteps, IntervalSteps
  <2>2. LivesInv' /\ NestInv' /\ WalkOrder'
    BY <2>1, LivesSteps, NestLiveSteps
  <2>3. NumbersInv' /\ StableInv'
    BY <2>1, NumberSteps, StableSteps
  <2>. QED
    BY <2>1, <2>2, <2>3
<1>3. Inv => RecalcIsStable
  <2>1. CASE Values = {}
    <3>1. ASSUME LiveInv, IntervalInv, NestInv, analysis = "done" PROVE DOMAIN mapped = {}
      BY <2>1, <3>1, LineWasMade DEF GivenMap
    <3>. QED
      BY <3>1 DEF RecalcIsStable, Analysed
  <2>2. CASE Values # {}
    BY <2>2 DEF StableInv, RecalcIsStable, Analysed
  <2>. QED
    BY <2>1, <2>2
<1>. QED
  BY <1>1, <1>2, <1>3, PTL DEF LiveSpec
=============================================================================

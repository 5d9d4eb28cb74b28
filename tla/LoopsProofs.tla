----------------------------- MODULE LoopsProofs -----------------------------
(***************************************************************************)
(* The loops and the linear order of every function.                       *)
(***************************************************************************)
EXTENDS Loops, DomTreeProofs

(* What the tree leaves alone, and the positions of the passes.            *)
LoopStarts ==
  pass = "tree" =>
    /\ next = 1 /\ loops = <<>> /\ stack = <<>> /\ seen = {} /\ line = <<>>
    /\ loopOf = [r \in Regions |-> 0]

LoopTypes ==
  /\ pass \in Passes /\ next \in Nat
  /\ loops \in Seq(Loop) /\ loopOf \in [Regions -> 0..Len(loops)]
  /\ stack \in Seq(Visited) /\ seen \subseteq Visited
  /\ pass # "tree" => Built
  /\ pass = "find" => next >= 1
  /\ pass = "fill" => next \in DOMAIN loops
  /\ pass = "linear" => next <= Len(rpo)
  /\ pass = "linearized" => next = 0

OwnedOnce(i) ==
  /\ loops[i].latches \subseteq Visited
  /\ \A r \in ToSet(loops[i].blocks) : loopOf[r] = i
  /\ \A j, k \in DOMAIN loops[i].blocks : loops[i].blocks[j] = loops[i].blocks[k] => j = k

(* m_BBMap and the blocks are inverse to each other.                       *)
OwnersAgree ==
  /\ \A i \in DOMAIN loops : OwnedOnce(i)
  /\ \A r \in Regions : loopOf[r] # 0 => r \in Visited /\ r \in ToSet(loops[loopOf[r]].blocks)

(* A header has been found, up to n, and no region with latches twice.     *)
FoundBefore(r, n) == \E i \in DOMAIN rpo : i < n /\ rpo[i] = r /\ Latches(r) # {}

Once(n) == \A i, j \in DOMAIN rpo : i < j /\ j < n /\ rpo[i] = rpo[j] => Latches(rpo[i]) = {}

HeadersFound ==
  /\ pass = "find" =>
       Once(next) /\ \A r \in Regions : loopOf[r] # 0 <=> FoundBefore(r, next)
  /\ pass \in {"fill", "linear", "linearized"} => Once(Len(rpo) + 1)
  /\ pass = "aborted" =>
       \E i, j \in DOMAIN rpo : i # j /\ rpo[i] = rpo[j] /\ Latches(rpo[i]) # {}

(* The line so far has whole loops and all that comes later in rpo.        *)
LineGrows ==
  /\ pass \notin {"linear", "linearized"} => line = <<>>
  /\ pass \in {"linear", "linearized"} =>
       /\ line \in Seq(Regions) /\ seen = ToSet(line)
       /\ \A i, j \in DOMAIN line : line[i] = line[j] => i = j
       /\ \A r \in seen : loopOf[r] # 0 => ToSet(loops[loopOf[r]].blocks) \subseteq seen
       /\ \A k \in DOMAIN rpo : k > next => rpo[k] \in seen

LoopInv ==
  DomInv /\ LoopStarts /\ LoopTypes /\ OwnersAgree /\ HeadersFound /\ LineGrows

-----------------------------------------------------------------------------
LEMMA SetToSeqsFacts ==
  ASSUME NEW S, IsFiniteSet(S), NEW ps \in SetToSeqs(S)
  PROVE  ps \in Seq(S)
<1>1. Cardinality(S) \in Nat
  BY FS_CardinalityType
<1>2. ps \in [1..Cardinality(S) -> S]
  BY DEF SetToSeqs
<1>. QED
  BY <1>1, <1>2

LEMMA FrontFacts ==
  ASSUME NEW T, NEW s \in Seq(T), s # <<>>
  PROVE  Front(s) \in Seq(T) /\ Last(s) \in T
<1>1. Len(s) \in Nat /\ Len(s) >= 1 /\ Len(s) \in 1..Len(s) /\ \A i \in 1..Len(s) : s[i] \in T
  OBVIOUS
<1>2. SubSeq(s, 1, Len(s) - 1) \in Seq(T)
  <2>1. \A i \in 1..(Len(s) - 1) : s[i] \in T
    BY <1>1
  <2>. QED
    BY <1>1, <2>1, SubSeqProperties
<1>. QED
  BY <1>1, <1>2 DEF Front, Last

(* Once the tree is built, every predecessor is known.                     *)
LEMMA KnownPredecessors ==
  ASSUME DomInv, Built
  PROVE  \A r \in Visited : Predecessors(flow, r) \subseteq Visited
<1>. SUFFICES ASSUME NEW r \in Visited PROVE Predecessors(flow, r) \subseteq Visited
  OBVIOUS
<1>1. /\ WalkInv /\ N \in Nat /\ N >= 1 /\ TypeOK
      /\ number[r] \in 0..(N - 1) /\ order[number[r] + 1] = r /\ order[1] = Start
  BY BuiltFacts, TreeFacts
<1>2. CASE number[r] = 0
  <2>1. r = Start
    BY <1>1, <1>2
  <2>2. \A u \in Regions : ~GoesTo(flow, u, r)
    BY <1>1, <2>1, FlowFacts DEF TypeOK, Targets
  <2>. QED
    BY <2>2 DEF Predecessors
<1>3. CASE number[r] # 0
  <2>1. number[r] \in 1..(N - 1)
    BY <1>1, <1>3
  <2>2. Preds(number[r]) \subseteq Visited
    BY <2>1, BuiltFacts
  <2>. QED
    BY <1>1, <2>2 DEF Preds
<1>. QED
  BY <1>2, <1>3

LEMMA VisitedIsFinite ==
  ASSUME DomInv
  PROVE  /\ Visited \subseteq Regions /\ rpo \in Seq(Visited) /\ Len(rpo) \in Nat /\ DOMAIN rpo = 1..Len(rpo)
         /\ \A S : S \subseteq Visited => IsFiniteSet(S)
<1>1. Visited \subseteq Regions /\ rpo \in Seq(Visited)
  BY DEF DomInv, WalkInv, TypeOK
<1>2. \A S : S \subseteq Visited => IsFiniteSet(S)
  BY <1>1, RegionsAssumption, FS_Subset
<1>. QED
  BY <1>1, <1>2

(* A step of the loop analysis leaves the walk and the tree alone.         *)
LEMMA TreeStays ==
  ASSUME DomInv, UNCHANGED domVars
  PROVE  /\ DomInv' /\ Visited' = Visited /\ rpo' = rpo /\ flow' = flow /\ (Built' <=> Built)
         /\ \A r : Latches(r)' = Latches(r)
         /\ \A n : Once(n)' <=> Once(n)
         /\ \A r, n : FoundBefore(r, n)' <=> FoundBefore(r, n)
<1>1. DomInv'
  BY DomSteps
<1>2. /\ flow' = flow /\ order' = order /\ parent' = parent /\ number' = number
      /\ work' = work /\ rpo' = rpo /\ phase' = phase /\ idom' = idom /\ Visited' = Visited
  BY DEF domVars, Visited
<1>3. \A r : Latches(r)' = Latches(r)
  BY <1>2 DEF Latches, Dominates
<1>. QED
  BY <1>1, <1>2, <1>3 DEF Once, FoundBefore, Built

LEMMA LoopStartsWell ==
  ASSUME LoopInit
  PROVE  LoopInv
<1>1. /\ DomInv /\ pass = "tree" /\ next = 1 /\ loops = <<>> /\ stack = <<>> /\ seen = {} /\ line = <<>>
      /\ loopOf = [r \in Regions |-> 0]
  BY DomStarts DEF LoopInit
<1>2. LoopStarts /\ LoopTypes /\ OwnersAgree /\ HeadersFound /\ LineGrows
  BY <1>1 DEF LoopStarts, LoopTypes, OwnersAgree, HeadersFound, LineGrows, Passes
<1>. QED
  BY <1>1, <1>2 DEF LoopInv

(* The searches for headers. *)
LEMMA FindKeeps ==
  ASSUME LoopInv, StartFind \/ FindNone \/ FindLoop \/ FindAgain
  PROVE  LoopInv'
<1>0. DomInv /\ LoopStarts /\ LoopTypes /\ OwnersAgree /\ HeadersFound /\ LineGrows
  BY DEF LoopInv
<1>1. UNCHANGED domVars /\ stack' = stack /\ seen' = seen /\ line' = line
  BY DEF StartFind, FindNone, FindLoop, FindAgain
<1>2. /\ DomInv' /\ Visited' = Visited /\ rpo' = rpo /\ (Built' <=> Built)
      /\ \A r : Latches(r)' = Latches(r)
      /\ \A n : Once(n)' <=> Once(n)
      /\ \A r, n : FoundBefore(r, n)' <=> FoundBefore(r, n)
  BY <1>0, <1>1, TreeStays
<1>3. Visited \subseteq Regions /\ rpo \in Seq(Visited) /\ Len(rpo) \in Nat /\ DOMAIN rpo = 1..Len(rpo)
  BY <1>0, VisitedIsFinite
<1>4. line = <<>> /\ LineGrows' /\ pass' \in {"find", "aborted"}
  BY <1>0, <1>1 DEF LineGrows, StartFind, FindNone, FindLoop, FindAgain, Finding
<1>5. LoopStarts'
  BY <1>4 DEF LoopStarts
<1>6. CASE StartFind
  <2>1. /\ pass = "tree" /\ Built /\ pass' = "find" /\ next' = 1 /\ loops' = <<>> /\ loopOf' = loopOf
        /\ loops = <<>> /\ loopOf = [r \in Regions |-> 0]
    BY <1>0, <1>6 DEF StartFind, LoopStarts
  <2>2. LoopTypes'
    BY <1>0, <1>1, <1>2, <2>1 DEF LoopTypes, Passes
  <2>3. OwnersAgree'
    BY <2>1 DEF OwnersAgree
  <2>4. Once(1) /\ \A r : ~FoundBefore(r, 1)
    BY <1>3 DEF Once, FoundBefore
  <2>5. HeadersFound'
    BY <1>2, <2>1, <2>4 DEF HeadersFound, Once, FoundBefore, Latches
  <2>. QED
    BY <1>2, <1>4, <1>5, <2>2, <2>3, <2>5 DEF LoopInv
<1>7. ASSUME Finding, pass' = pass, next' = next + 1
      PROVE  \A i, j \in DOMAIN rpo : (i < next' <=> i < next \/ i = next)
  BY <1>0, <1>3, <1>7 DEF LoopTypes
<1>8. CASE FindNone
  <2>1. /\ pass = "find" /\ next \in DOMAIN rpo /\ Latches(rpo[next]) = {} /\ next' = next + 1
        /\ pass' = pass /\ loops' = loops /\ loopOf' = loopOf /\ next \in Nat /\ next >= 1
    BY <1>0, <1>3, <1>8 DEF FindNone, Finding, LoopTypes
  <2>2. LoopTypes'
    BY <1>0, <1>1, <1>2, <2>1 DEF LoopTypes
  <2>3. OwnersAgree'
    BY <1>0, <1>2, <2>1 DEF OwnersAgree, OwnedOnce
  <2>4. \A i \in DOMAIN rpo : i < next + 1 <=> i < next \/ i = next
    BY <1>3, <2>1
  <2>5. Once(next + 1)
    BY <1>0, <2>1, <2>4 DEF HeadersFound, Once
  <2>6. \A r : FoundBefore(r, next + 1) <=> FoundBefore(r, next)
    BY <2>1, <2>4 DEF FoundBefore
  <2>7. HeadersFound'
    <3>1. Once(next') /\ \A r \in Regions : loopOf'[r] # 0 <=> FoundBefore(r, next')
      BY <1>0, <2>1, <2>5, <2>6 DEF HeadersFound
    <3>. QED
      BY <1>2, <2>1, <3>1 DEF HeadersFound, Once, FoundBefore
  <2>. QED
    BY <1>2, <1>4, <1>5, <2>2, <2>3, <2>7 DEF LoopInv
<1>9. CASE FindLoop
  <2>. DEFINE r == rpo[next]
  <2>1. PICK h, L : h = rpo[next] /\ L = Len(loops) + 1
    OBVIOUS
  <2>2. /\ pass = "find" /\ next \in DOMAIN rpo /\ Latches(h) # {} /\ loopOf[h] = 0 /\ next' = next + 1
        /\ pass' = pass /\ next \in Nat /\ next >= 1 /\ h \in Visited /\ h \in Regions
        /\ loops' = Append(loops, [header |-> h, latches |-> Latches(h), blocks |-> <<h>>, parent |-> 0])
        /\ loopOf' = [loopOf EXCEPT ![h] = Len(loops')]
    BY <1>0, <1>3, <1>9, <2>1 DEF FindLoop, Finding, LoopTypes, Owned
  <2>3. Latches(h) \subseteq Visited
    BY <1>0, <2>2, KnownPredecessors DEF LoopTypes, Latches
  <2>4. /\ loops \in Seq(Loop) /\ Len(loops) \in Nat /\ L \in Nat /\ DOMAIN loops = 1..Len(loops)
        /\ loopOf \in [Regions -> 0..Len(loops)]
    BY <1>0, <2>1 DEF LoopTypes
  <2>5. PICK e : e = [header |-> h, latches |-> Latches(h), blocks |-> <<h>>, parent |-> 0]
    OBVIOUS
  <2>6. e \in Loop /\ e.blocks = <<h>> /\ e.latches = Latches(h)
    BY <1>3, <2>2, <2>3, <2>5 DEF Loop
  <2>7. /\ loops' \in Seq(Loop) /\ Len(loops') = L /\ loops'[L] = e
        /\ \A i \in 1..Len(loops) : loops'[i] = loops[i]
    BY <2>1, <2>2, <2>4, <2>5, <2>6, AppendProperties
  <2>8. /\ loopOf' \in [Regions -> 0..L] /\ loopOf'[h] = L
        /\ \A s \in Regions : s # h => loopOf'[s] = loopOf[s]
    BY <2>1, <2>2, <2>4, <2>7
  <2>9. LoopTypes'
    BY <1>0, <1>1, <1>2, <2>2, <2>7, <2>8 DEF LoopTypes
  <2>10. DOMAIN loops' = 1..L /\ \A i \in 1..L : i \in 1..Len(loops) \/ i = L
    BY <2>1, <2>4, <2>7
  <2>11. ASSUME NEW i \in 1..L PROVE OwnedOnce(i)'
    <3>1. CASE i = L
      <4>1. /\ loops'[i].blocks = <<h>> /\ loops'[i].latches \subseteq Visited
            /\ DOMAIN loops'[i].blocks = {1} /\ ToSet(loops'[i].blocks) = {h}
        BY <2>3, <2>6, <2>7, <3>1 DEF ToSet
      <4>. QED
        BY <1>2, <2>8, <3>1, <4>1 DEF OwnedOnce
    <3>2. CASE i \in 1..Len(loops)
      <4>1. OwnedOnce(i) /\ loops'[i] = loops[i]
        BY <1>0, <2>4, <2>7, <3>2 DEF OwnersAgree
      <4>2. \A s \in ToSet(loops[i].blocks) : s \in Regions /\ s # h
        <5>0. loops[i] \in Loop
          BY <2>4, <3>2
        <5>1. loops[i].blocks \in Seq(Regions)
          BY ONLY <5>0 DEF Loop
        <5>2. ToSet(loops[i].blocks) \subseteq Regions
          BY <5>1 DEF ToSet
        <5>3. h \notin ToSet(loops[i].blocks)
          BY <2>2, <3>2, <4>1 DEF OwnedOnce
        <5>. QED
          BY <5>2, <5>3
      <4>. QED
        BY <1>2, <2>8, <4>1, <4>2 DEF OwnedOnce
    <3>. QED
      BY <2>10, <3>1, <3>2
  <2>12. ASSUME NEW s \in Regions, loopOf'[s] # 0
         PROVE  s \in Visited /\ s \in ToSet(loops'[loopOf'[s]].blocks)
    <3>1. CASE s = h
      <4>1. loops'[loopOf'[s]].blocks = <<h>>
        BY <2>6, <2>7, <2>8, <3>1
      <4>2. ToSet(<<h>>) = {h}
        BY DEF ToSet
      <4>. QED
        BY ONLY <2>2, <3>1, <4>1, <4>2
    <3>2. CASE s # h
      <4>1. s \in Visited /\ s \in ToSet(loops[loopOf[s]].blocks) /\ loopOf'[s] = loopOf[s] /\ loopOf[s] # 0
        BY <1>0, <2>8, <2>12, <3>2 DEF OwnersAgree
      <4>2. loopOf[s] \in 1..Len(loops)
        BY <2>4, <4>1
      <4>. QED
        BY <2>7, <4>1, <4>2
    <3>. QED
      BY <3>1, <3>2
  <2>13. OwnersAgree'
    BY <1>2, <2>10, <2>11, <2>12 DEF OwnersAgree
  <2>14. \A i \in DOMAIN rpo : i < next + 1 <=> i < next \/ i = next
    BY <1>3, <2>2
  <2>15. ~FoundBefore(h, next)
    BY <1>0, <2>2 DEF HeadersFound
  <2>16. Once(next + 1)
    <3>. SUFFICES ASSUME NEW i \in DOMAIN rpo, NEW j \in DOMAIN rpo, i < j, j < next + 1, rpo[i] = rpo[j],
                         Latches(rpo[i]) # {}
                  PROVE  FALSE
      BY DEF Once
    <3>1. CASE j < next
      BY <1>0, <2>2, <3>1 DEF HeadersFound, Once
    <3>2. CASE j = next
      BY <2>1, <2>15, <3>2 DEF FoundBefore
    <3>. QED
      BY <2>14, <3>1, <3>2
  <2>17. \A s \in Regions : loopOf'[s] # 0 <=> FoundBefore(s, next + 1)
    <3>1. loopOf'[h] # 0 /\ FoundBefore(h, next + 1)
      BY <2>1, <2>2, <2>4, <2>8, <2>14 DEF FoundBefore
    <3>2. ASSUME NEW s \in Regions, s # h PROVE loopOf'[s] # 0 <=> FoundBefore(s, next + 1)
      <4>1. FoundBefore(s, next + 1) <=> FoundBefore(s, next)
        BY <2>1, <2>14, <3>2 DEF FoundBefore
      <4>. QED
        BY <1>0, <2>2, <2>8, <3>2, <4>1 DEF HeadersFound
    <3>. QED
      BY <3>1, <3>2
  <2>18. HeadersFound'
    <3>1. Once(next') /\ \A s \in Regions : loopOf'[s] # 0 <=> FoundBefore(s, next')
      BY <2>2, <2>16, <2>17
    <3>. QED
      BY <1>2, <2>2, <3>1 DEF HeadersFound, Once, FoundBefore
  <2>. QED
    BY <1>2, <1>4, <1>5, <2>9, <2>13, <2>18 DEF LoopInv
<1>10. CASE FindAgain
  <2>1. /\ pass = "find" /\ next \in DOMAIN rpo /\ Latches(rpo[next]) # {} /\ loopOf[rpo[next]] # 0
        /\ pass' = "aborted" /\ next' = next /\ loops' = loops /\ loopOf' = loopOf /\ rpo[next] \in Regions
    BY <1>0, <1>3, <1>10 DEF FindAgain, Finding, LoopTypes
  <2>2. LoopTypes'
    BY <1>0, <1>1, <1>2, <2>1 DEF LoopTypes, Passes
  <2>3. OwnersAgree'
    BY <1>0, <1>2, <2>1 DEF OwnersAgree, OwnedOnce
  <2>4. PICK i \in DOMAIN rpo : i < next /\ rpo[i] = rpo[next]
    BY <1>0, <2>1 DEF HeadersFound, FoundBefore
  <2>5. i # next
    BY <1>3, <2>1, <2>4
  <2>6. HeadersFound'
    BY <1>2, <2>1, <2>4, <2>5 DEF HeadersFound
  <2>. QED
    BY <1>2, <1>4, <1>5, <2>2, <2>3, <2>6 DEF LoopInv
<1>. QED
  BY <1>6, <1>8, <1>9, <1>10

(* What every step after the tree starts from.                             *)
LEMMA StepFacts ==
  ASSUME LoopInv, UNCHANGED domVars
  PROVE  /\ DomInv /\ LoopStarts /\ LoopTypes /\ OwnersAgree /\ HeadersFound /\ LineGrows
         /\ DomInv' /\ Visited' = Visited /\ rpo' = rpo /\ (Built' <=> Built)
         /\ \A r : Latches(r)' = Latches(r)
         /\ \A n : Once(n)' <=> Once(n)
         /\ Visited \subseteq Regions /\ rpo \in Seq(Visited) /\ Len(rpo) \in Nat /\ DOMAIN rpo = 1..Len(rpo)
         /\ \A S : S \subseteq Visited => IsFiniteSet(S)
         /\ pass # "tree" => \A r \in Visited : Predecessors(flow, r) \subseteq Visited
<1>1. DomInv /\ LoopStarts /\ LoopTypes /\ OwnersAgree /\ HeadersFound /\ LineGrows
  BY DEF LoopInv
<1>2. pass # "tree" => \A r \in Visited : Predecessors(flow, r) \subseteq Visited
  BY <1>1, KnownPredecessors DEF LoopTypes
<1>. QED
  BY <1>1, <1>2, TreeStays, VisitedIsFinite

(* The work of a loop starts with its latches; after the last loop comes   *)
(* the linear order.                                                       *)
LEMMA EntryKeeps ==
  ASSUME LoopInv, StartFill \/ FillNext
  PROVE  LoopInv'
<1>1. /\ UNCHANGED domVars /\ loops' = loops /\ loopOf' = loopOf /\ line' = line /\ pass \in {"find", "fill"}
      /\ seen' = {}
  BY DEF StartFill, FillNext, Enter, EnterLinear
<1>2. /\ DomInv /\ LoopStarts /\ LoopTypes /\ OwnersAgree /\ HeadersFound /\ LineGrows
      /\ DomInv' /\ Visited' = Visited /\ rpo' = rpo /\ (Built' <=> Built)
      /\ \A r : Latches(r)' = Latches(r)
      /\ \A n : Once(n)' <=> Once(n)
      /\ Visited \subseteq Regions /\ rpo \in Seq(Visited) /\ Len(rpo) \in Nat /\ DOMAIN rpo = 1..Len(rpo)
      /\ \A S : S \subseteq Visited => IsFiniteSet(S)
  BY <1>1, StepFacts
<1>3. PICK i \in Nat : i >= 1 /\ (Enter(i) \/ EnterLinear(i))
  <2>1. CASE StartFill
    BY <2>1 DEF StartFill
  <2>2. CASE FillNext
    <3>1. next + 1 \in Nat /\ next + 1 >= 1 /\ (Enter(next + 1) \/ EnterLinear(next + 1))
      BY <1>2, <2>2 DEF FillNext, LoopTypes
    <3>. QED
      BY <3>1
  <2>. QED
    BY <2>1, <2>2
<1>4. loops \in Seq(Loop) /\ Len(loops) \in Nat /\ DOMAIN loops = 1..Len(loops) /\ Built /\ line = <<>>
  BY <1>1, <1>2 DEF LoopTypes, LineGrows
<1>5. Once(Len(rpo) + 1)
  <2>1. CASE StartFill
    <3>1. pass = "find" /\ next > Len(rpo) /\ next \in Nat /\ Once(next)
      BY <1>2, <2>1 DEF StartFill, HeadersFound, LoopTypes
    <3>2. \A j \in DOMAIN rpo : j < next
      BY <1>2, <3>1
    <3>. QED
      BY <3>1, <3>2 DEF Once
  <2>2. CASE FillNext
    BY <1>2, <2>2 DEF FillNext, HeadersFound
  <2>. QED
    BY <2>1, <2>2
<1>6. OwnersAgree'
  BY <1>1, <1>2 DEF OwnersAgree, OwnedOnce
<1>7. CASE Enter(i)
  <2>1. i \in DOMAIN loops /\ pass' = "fill" /\ next' = i /\ stack' \in SetToSeqs(loops[i].latches)
    BY <1>3, <1>4, <1>7 DEF Enter
  <2>2. loops[i].latches \subseteq Visited
    BY <1>2, <2>1 DEF OwnersAgree, OwnedOnce
  <2>3. stack' \in Seq(loops[i].latches)
    BY <1>2, <2>1, <2>2, SetToSeqsFacts
  <2>4. stack' \in Seq(Visited)
    BY ONLY <2>2, <2>3
  <2>5. LoopTypes'
    BY <1>1, <1>2, <1>3, <1>4, <2>1, <2>4 DEF LoopTypes, Passes
  <2>6. LoopStarts' /\ LineGrows' /\ HeadersFound'
    BY <1>1, <1>2, <1>4, <1>5, <2>1 DEF LoopStarts, LineGrows, HeadersFound
  <2>. QED
    BY <1>2, <1>6, <2>5, <2>6 DEF LoopInv
<1>8. CASE EnterLinear(i)
  <2>1. pass' = "linear" /\ next' = Len(rpo) /\ stack' = <<>>
    BY <1>8 DEF EnterLinear
  <2>2. LoopTypes'
    BY <1>1, <1>2, <1>4, <2>1 DEF LoopTypes, Passes
  <2>3. LoopStarts' /\ HeadersFound'
    BY <1>1, <1>2, <1>5, <2>1 DEF LoopStarts, HeadersFound
  <2>4. ToSet(line) = {} /\ \A k \in DOMAIN rpo : ~(k > Len(rpo))
    BY <1>2, <1>4 DEF ToSet
  <2>5. LineGrows'
    BY <1>1, <1>2, <1>4, <2>1, <2>4 DEF LineGrows
  <2>. QED
    BY <1>2, <1>6, <2>2, <2>3, <2>5 DEF LoopInv
<1>. QED
  BY <1>3, <1>7, <1>8

(* One entry of the work of a loop. *)
LEMMA StackFacts ==
  ASSUME LoopInv, Filling
  PROVE  /\ pass = "fill" /\ next \in DOMAIN loops /\ line = <<>> /\ Last(stack) \in Visited
         /\ Front(stack) \in Seq(Visited)
         /\ Once(Len(rpo) + 1)
<1>1. pass = "fill" /\ stack # <<>> /\ stack \in Seq(Visited) /\ next \in DOMAIN loops /\ line = <<>>
  BY DEF LoopInv, Filling, LoopTypes, LineGrows
<1>2. Once(Len(rpo) + 1)
  BY <1>1 DEF LoopInv, HeadersFound
<1>. QED
  BY <1>1, <1>2, FrontFacts

LEMMA SkipKeeps ==
  ASSUME LoopInv, Skip
  PROVE  LoopInv'
<1>1. UNCHANGED <<domVars, pass, next, loops, loopOf, seen, line>> /\ Filling /\ stack' = Front(stack)
  BY DEF Skip
<1>2. /\ DomInv /\ LoopStarts /\ LoopTypes /\ OwnersAgree /\ HeadersFound /\ LineGrows
      /\ DomInv' /\ Visited' = Visited /\ rpo' = rpo /\ (Built' <=> Built)
      /\ \A r : Latches(r)' = Latches(r)
      /\ \A n : Once(n)' <=> Once(n)
  BY <1>1, StepFacts
<1>3. /\ pass = "fill" /\ line = <<>> /\ Front(stack) \in Seq(Visited) /\ Once(Len(rpo) + 1)
  BY <1>1, StackFacts
<1>4. LoopTypes'
  BY <1>1, <1>2, <1>3 DEF LoopTypes
<1>5. OwnersAgree'
  BY <1>1, <1>2 DEF OwnersAgree, OwnedOnce
<1>6. LoopStarts' /\ HeadersFound' /\ LineGrows'
  BY <1>1, <1>2, <1>3 DEF LoopStarts, HeadersFound, LineGrows
<1>. QED
  BY <1>2, <1>4, <1>5, <1>6 DEF LoopInv

LEMMA PushFacts ==
  ASSUME LoopInv, UNCHANGED domVars, Filling, PushAbove(Last(stack))
  PROVE  stack' \in Seq(Visited) /\ seen' \subseteq Visited
<1>1. /\ pass = "fill" /\ Last(stack) \in Visited /\ Front(stack) \in Seq(Visited)
  BY StackFacts
<1>2. seen \subseteq Visited /\ seen' = seen \cup {Last(stack)}
  BY DEF LoopInv, LoopTypes, PushAbove
<1>3. PICK ps \in SetToSeqs(Above(Last(stack))) : stack' = Front(stack) \o ps
  BY DEF PushAbove
<1>4. Above(Last(stack)) \subseteq Visited /\ IsFiniteSet(Above(Last(stack)))
  BY <1>1, StepFacts DEF Above
<1>5. ps \in Seq(Above(Last(stack)))
  BY <1>4, SetToSeqsFacts
<1>6. ps \in Seq(Visited)
  BY ONLY <1>4, <1>5
<1>7. stack' \in Seq(Visited)
  BY ONLY <1>1, <1>3, <1>6
<1>. QED
  BY <1>1, <1>2, <1>7

LEMMA IncludeKeeps ==
  ASSUME LoopInv, Include
  PROVE  LoopInv'
<1>1. PICK r, b : r = Last(stack) /\ b = loops[next].blocks
  OBVIOUS
<1>2. /\ UNCHANGED <<domVars, pass, next, line>> /\ Filling /\ PushAbove(Last(stack)) /\ loopOf[r] = 0
      /\ loops' = [loops EXCEPT ![next].blocks = Append(b, r)] /\ loopOf' = [loopOf EXCEPT ![r] = next]
  BY <1>1 DEF Include, Joined, Owned
<1>3. /\ DomInv /\ LoopStarts /\ LoopTypes /\ OwnersAgree /\ HeadersFound /\ LineGrows
      /\ DomInv' /\ Visited' = Visited /\ rpo' = rpo /\ (Built' <=> Built) /\ Visited \subseteq Regions
      /\ \A q : Latches(q)' = Latches(q)
      /\ \A n : Once(n)' <=> Once(n)
  BY <1>2, StepFacts
<1>4. /\ pass = "fill" /\ next \in DOMAIN loops /\ line = <<>> /\ r \in Visited /\ r \in Regions
      /\ Once(Len(rpo) + 1)
  BY <1>1, <1>2, <1>3, StackFacts
<1>5. stack' \in Seq(Visited) /\ seen' \subseteq Visited
  BY <1>2, PushFacts
<1>6. /\ loops \in Seq(Loop) /\ Len(loops) \in Nat /\ DOMAIN loops = 1..Len(loops)
      /\ loopOf \in [Regions -> 0..Len(loops)]
  BY <1>3 DEF LoopTypes
<1>7. loops[next] \in Loop /\ b \in Seq(Regions)
  <2>1. loops[next] \in Loop
    BY <1>4, <1>6
  <2>. QED
    BY ONLY <1>1, <2>1 DEF Loop
<1>8. /\ Append(b, r) \in Seq(Regions) /\ Len(Append(b, r)) = Len(b) + 1 /\ Append(b, r)[Len(b) + 1] = r
      /\ Len(b) \in Nat /\ DOMAIN b = 1..Len(b) /\ \A k \in 1..Len(b) : Append(b, r)[k] = b[k]
  BY ONLY <1>4, <1>7
<1>9. PICK e : e = [loops[next] EXCEPT !.blocks = Append(b, r)]
  OBVIOUS
<1>10. e \in Loop /\ e.blocks = Append(b, r) /\ e.latches = loops[next].latches
  BY ONLY <1>7, <1>8, <1>9 DEF Loop
<1>11. loops' = [loops EXCEPT ![next] = e]
  BY <1>1, <1>2, <1>9
<1>12. /\ loops' \in Seq(Loop) /\ DOMAIN loops' = DOMAIN loops /\ Len(loops') = Len(loops) /\ loops'[next] = e
       /\ \A i \in DOMAIN loops : i # next => loops'[i] = loops[i]
  BY ONLY <1>4, <1>6, <1>10, <1>11
<1>13. /\ loopOf' \in [Regions -> 0..Len(loops)] /\ loopOf'[r] = next
       /\ \A q \in Regions : q # r => loopOf'[q] = loopOf[q]
  BY ONLY <1>2, <1>4, <1>6
<1>14. LoopTypes'
  BY <1>2, <1>3, <1>4, <1>5, <1>12, <1>13 DEF LoopTypes
<1>15. /\ OwnedOnce(next) /\ ToSet(b) \subseteq Regions /\ r \notin ToSet(b)
       /\ ToSet(Append(b, r)) = ToSet(b) \cup {r}
  <2>1. OwnedOnce(next)
    BY <1>3, <1>4 DEF OwnersAgree
  <2>2. ToSet(b) \subseteq Regions
    BY <1>7 DEF ToSet
  <2>3. next # 0
    BY <1>4, <1>6
  <2>4. r \notin ToSet(b)
    BY <1>1, <1>2, <2>1, <2>3 DEF OwnedOnce
  <2>5. ToSet(Append(b, r)) = ToSet(b) \cup {r}
    BY ONLY <1>8 DEF ToSet
  <2>. QED
    BY <2>1, <2>2, <2>4, <2>5
<1>16. ASSUME NEW i \in DOMAIN loops PROVE OwnedOnce(i)'
  <2>1. CASE i = next
    <3>1. loops'[i].blocks = Append(b, r) /\ loops'[i].latches = loops[next].latches
      BY <1>10, <1>12, <2>1
    <3>2. loops'[i].latches \subseteq Visited'
      BY <1>3, <1>15, <3>1 DEF OwnedOnce
    <3>3. \A q \in ToSet(Append(b, r)) : loopOf'[q] = i
      BY <1>1, <1>13, <1>15, <2>1 DEF OwnedOnce
    <3>4. \A j, k \in DOMAIN b : b[j] = b[k] => j = k
      BY <1>1, <1>15 DEF OwnedOnce
    <3>5. DOMAIN Append(b, r) = 1..(Len(b) + 1) /\ \A k \in DOMAIN b : b[k] # r
      BY <1>8, <1>15 DEF ToSet
    <3>6. \A k \in 1..(Len(b) + 1) : k \in 1..Len(b) \/ k = Len(b) + 1
      BY <1>8
    <3>7. \A j, k \in DOMAIN Append(b, r) : Append(b, r)[j] = Append(b, r)[k] => j = k
      BY ONLY <1>8, <3>4, <3>5, <3>6
    <3>. QED
      BY <3>1, <3>2, <3>3, <3>7 DEF OwnedOnce
  <2>2. CASE i # next
    <3>1. OwnedOnce(i) /\ loops'[i] = loops[i] /\ loops[i] \in Loop
      BY <1>3, <1>6, <1>12, <2>2 DEF OwnersAgree
    <3>2. loops[i].blocks \in Seq(Regions)
      BY ONLY <3>1 DEF Loop
    <3>3. ToSet(loops[i].blocks) \subseteq Regions
      BY <3>2 DEF ToSet
    <3>4. r \notin ToSet(loops[i].blocks)
      BY <1>2, <1>6, <3>1 DEF OwnedOnce
    <3>. QED
      BY <1>3, <1>13, <3>1, <3>3, <3>4 DEF OwnedOnce
  <2>. QED
    BY <2>1, <2>2
<1>17. ASSUME NEW q \in Regions, loopOf'[q] # 0 PROVE q \in Visited /\ q \in ToSet(loops'[loopOf'[q]].blocks)
  <2>1. CASE q = r
    BY <1>4, <1>10, <1>12, <1>13, <1>15, <2>1
  <2>2. CASE q # r
    <3>1. loopOf'[q] = loopOf[q] /\ q \in Visited /\ q \in ToSet(loops[loopOf[q]].blocks) /\ loopOf[q] # 0
      BY <1>3, <1>13, <1>17, <2>2 DEF OwnersAgree
    <3>2. loopOf[q] \in DOMAIN loops
      BY <1>6, <3>1
    <3>3. CASE loopOf[q] = next
      BY <1>1, <1>10, <1>12, <1>15, <3>1, <3>3
    <3>4. CASE loopOf[q] # next
      BY <1>12, <3>1, <3>2, <3>4
    <3>. QED
      BY <3>3, <3>4
  <2>. QED
    BY <2>1, <2>2
<1>18. OwnersAgree'
  BY <1>3, <1>12, <1>16, <1>17 DEF OwnersAgree
<1>19. LoopStarts' /\ HeadersFound' /\ LineGrows'
  BY <1>2, <1>3, <1>4 DEF LoopStarts, HeadersFound, LineGrows
<1>. QED
  BY <1>3, <1>14, <1>18, <1>19 DEF LoopInv

LEMMA AbsorbKeeps ==
  ASSUME LoopInv, Absorb
  PROVE  LoopInv'
<1>1. PICK l, p : l = loopOf[Last(stack)] /\ p = AdoptedBy(l)
  OBVIOUS
<1>2. /\ UNCHANGED <<domVars, pass, next, line, loopOf>> /\ Filling /\ PushAbove(Last(stack)) /\ l # 0
      /\ loops' = [loops EXCEPT ![l].parent = p]
  BY <1>1 DEF Absorb
<1>3. /\ DomInv /\ LoopStarts /\ LoopTypes /\ OwnersAgree /\ HeadersFound /\ LineGrows
      /\ DomInv' /\ Visited' = Visited /\ rpo' = rpo /\ (Built' <=> Built) /\ Visited \subseteq Regions
      /\ \A q : Latches(q)' = Latches(q)
      /\ \A n : Once(n)' <=> Once(n)
  BY <1>2, StepFacts
<1>4. /\ pass = "fill" /\ next \in Nat /\ line = <<>> /\ Last(stack) \in Regions
      /\ Once(Len(rpo) + 1)
  BY <1>2, <1>3, StackFacts DEF LoopTypes
<1>5. stack' \in Seq(Visited) /\ seen' \subseteq Visited
  BY <1>2, PushFacts
<1>6. /\ loops \in Seq(Loop) /\ Len(loops) \in Nat /\ DOMAIN loops = 1..Len(loops)
      /\ loopOf \in [Regions -> 0..Len(loops)] /\ l \in DOMAIN loops
  BY <1>1, <1>2, <1>3, <1>4 DEF LoopTypes
<1>7. loops[l] \in Loop /\ p \in Nat
  <2>1. loops[l] \in Loop
    BY <1>6
  <2>2. loops[l].parent \in Nat
    BY ONLY <2>1 DEF Loop
  <2>. QED
    BY <1>1, <1>4, <2>1, <2>2 DEF AdoptedBy
<1>8. PICK e : e = [loops[l] EXCEPT !.parent = p]
  OBVIOUS
<1>9. e \in Loop /\ e.blocks = loops[l].blocks /\ e.latches = loops[l].latches
  BY ONLY <1>7, <1>8 DEF Loop
<1>10. loops' = [loops EXCEPT ![l] = e]
  BY <1>2, <1>8
<1>11. /\ loops' \in Seq(Loop) /\ DOMAIN loops' = DOMAIN loops /\ Len(loops') = Len(loops)
       /\ \A i \in DOMAIN loops : loops'[i].blocks = loops[i].blocks /\ loops'[i].latches = loops[i].latches
  BY ONLY <1>6, <1>9, <1>10
<1>12. LoopTypes'
  BY <1>2, <1>3, <1>5, <1>11 DEF LoopTypes
<1>13. \A i \in DOMAIN loops : OwnedOnce(i)'
  BY <1>2, <1>3, <1>11 DEF OwnersAgree, OwnedOnce
<1>14. \A q \in Regions : loopOf[q] # 0 => loopOf[q] \in DOMAIN loops
  BY <1>6
<1>15. OwnersAgree'
  BY <1>2, <1>3, <1>11, <1>13, <1>14 DEF OwnersAgree
<1>16. LoopStarts' /\ HeadersFound' /\ LineGrows'
  BY <1>2, <1>3, <1>4 DEF LoopStarts, HeadersFound, LineGrows
<1>. QED
  BY <1>3, <1>12, <1>15, <1>16 DEF LoopInv

LEMMA JoinFacts ==
  ASSUME NEW T, NEW s \in Seq(T), NEW t \in Seq(T),
         \A i, j \in DOMAIN s : s[i] = s[j] => i = j,
         \A i, j \in DOMAIN t : t[i] = t[j] => i = j,
         ToSet(s) \cap ToSet(t) = {}
  PROVE  /\ s \o t \in Seq(T) /\ ToSet(s \o t) = ToSet(s) \cup ToSet(t)
         /\ \A i, j \in DOMAIN (s \o t) : (s \o t)[i] = (s \o t)[j] => i = j
<1>. DEFINE m == Len(s)
            n == Len(t)
            c == s \o t
<1>1. m \in Nat /\ n \in Nat /\ DOMAIN s = 1..m /\ DOMAIN t = 1..n
  OBVIOUS
<1>2. /\ c \in Seq(T) /\ Len(c) = m + n /\ DOMAIN c = 1..(m + n)
      /\ \A i \in 1..m : c[i] = s[i]
      /\ \A i \in 1..n : c[m + i] = t[i]
  BY ConcatProperties
<1>3. \A k \in 1..(m + n) : k \in 1..m \/ (k - m \in 1..n /\ k = m + (k - m))
  BY <1>1
<1>4. \A k \in 1..m : k \in 1..(m + n)
  BY <1>1
<1>5. \A k \in 1..n : m + k \in 1..(m + n)
  BY <1>1
<1>. HIDE DEF m, n, c
<1>6. \A k \in 1..m : s[k] \in ToSet(s)
  BY <1>1 DEF ToSet
<1>7. \A k \in 1..n : t[k] \in ToSet(t)
  BY <1>1 DEF ToSet
<1>8. ToSet(c) = ToSet(s) \cup ToSet(t)
  <2>1. ASSUME NEW k \in 1..(m + n) PROVE c[k] \in ToSet(s) \cup ToSet(t)
    <3>1. CASE k \in 1..m
      BY <1>2, <1>6, <3>1
    <3>2. CASE k \notin 1..m
      <4>1. k - m \in 1..n /\ k = m + (k - m)
        BY <1>3, <3>2
      <4>2. c[k] = t[k - m]
        BY <1>2, <4>1
      <4>. QED
        BY <1>7, <4>1, <4>2
    <3>. QED
      BY <3>1, <3>2
  <2>2. ASSUME NEW k \in 1..m PROVE s[k] \in ToSet(c)
    BY <1>2, <1>4 DEF ToSet
  <2>3. ASSUME NEW k \in 1..n PROVE t[k] \in ToSet(c)
    BY <1>2, <1>5 DEF ToSet
  <2>4. ToSet(c) \subseteq ToSet(s) \cup ToSet(t)
    BY <1>2, <2>1 DEF ToSet
  <2>5. ToSet(s) \subseteq ToSet(c) /\ ToSet(t) \subseteq ToSet(c)
    <3>1. ToSet(s) = {s[k] : k \in 1..m} /\ ToSet(t) = {t[k] : k \in 1..n}
      BY <1>1 DEF ToSet
    <3>. QED
      BY <2>2, <2>3, <3>1
  <2>. QED
    BY <2>4, <2>5
<1>9. ASSUME NEW i \in 1..(m + n), NEW j \in 1..(m + n), c[i] = c[j] PROVE i = j
  <2>1. CASE i \in 1..m /\ j \in 1..m
    BY <1>1, <1>2, <1>9, <2>1
  <2>2. CASE i \notin 1..m /\ j \notin 1..m
    <3>1. i - m \in 1..n /\ i = m + (i - m) /\ j - m \in 1..n /\ j = m + (j - m)
      BY <1>3, <2>2
    <3>2. c[i] = t[i - m] /\ c[j] = t[j - m]
      BY <1>2, <3>1
    <3>3. i - m = j - m
      BY <1>1, <1>9, <3>1, <3>2
    <3>. QED
      BY <3>1, <3>3
  <2>3. CASE i \in 1..m /\ j \notin 1..m
    <3>1. j - m \in 1..n /\ j = m + (j - m)
      BY <1>3, <2>3
    <3>2. c[i] = s[i] /\ c[j] = t[j - m]
      BY <1>2, <2>3, <3>1
    <3>. QED
      BY <1>6, <1>7, <1>9, <2>3, <3>1, <3>2
  <2>4. CASE i \notin 1..m /\ j \in 1..m
    <3>1. i - m \in 1..n /\ i = m + (i - m)
      BY <1>3, <2>4
    <3>2. c[j] = s[j] /\ c[i] = t[i - m]
      BY <1>2, <2>4, <3>1
    <3>. QED
      BY <1>6, <1>7, <1>9, <2>4, <3>1, <3>2
  <2>. QED
    BY <2>1, <2>2, <2>3, <2>4
<1>. QED
  BY <1>2, <1>8, <1>9 DEF c

(* What a round of the linear order emits is new and whole.                *)
LEMMA EmitFacts ==
  ASSUME LoopInv, pass = "linear", NEW r \in Visited
  PROVE  LET e == Emit(r)
         IN  /\ e \in Seq(Regions) /\ ToSet(e) \cap seen = {} /\ r \in seen \cup ToSet(e)
             /\ ToSet(e) \subseteq Visited
             /\ \A i, j \in DOMAIN e : e[i] = e[j] => i = j
             /\ \A q \in ToSet(e) : loopOf[q] # 0 => ToSet(loops[loopOf[q]].blocks) \subseteq ToSet(e)
<1>1. /\ OwnersAgree /\ LineGrows /\ LoopTypes
      /\ Visited \subseteq Regions /\ r \in Regions
  BY VisitedIsFinite DEF LoopInv
<1>2. \A q \in seen : loopOf[q] # 0 => ToSet(loops[loopOf[q]].blocks) \subseteq seen
  BY <1>1 DEF LineGrows
<1>3. CASE r \in seen
  <2>1. Emit(r) = <<>> /\ ToSet(<<>>) = {}
    BY <1>3 DEF Emit, ToSet
  <2>. QED
    BY <1>3, <2>1
<1>4. CASE r \notin seen /\ loopOf[r] = 0
  <2>1. Emit(r) = <<r>> /\ ToSet(<<r>>) = {r} /\ DOMAIN <<r>> = {1}
    BY <1>4 DEF Emit, ToSet
  <2>. QED
    BY <1>1, <1>4, <2>1
<1>5. CASE r \notin seen /\ loopOf[r] # 0
  <2>1. PICK l : l = loopOf[r]
    OBVIOUS
  <2>2. Emit(r) = loops[l].blocks /\ r \in ToSet(loops[l].blocks)
    BY <1>1, <1>5, <2>1 DEF Emit, OwnersAgree
  <2>3. l \in DOMAIN loops /\ loops[l] \in Loop /\ l # 0
    BY <1>1, <1>5, <2>1 DEF LoopTypes
  <2>4. loops[l].blocks \in Seq(Regions)
    BY ONLY <2>3 DEF Loop
  <2>5. OwnedOnce(l)
    BY <1>1, <2>3 DEF OwnersAgree
  <2>6. \A q \in ToSet(loops[l].blocks) : loopOf[q] = l /\ q \in Visited /\ q \notin seen
    <3>1. ToSet(loops[l].blocks) \subseteq Regions
      BY <2>4 DEF ToSet
    <3>2. \A q \in ToSet(loops[l].blocks) : loopOf[q] = l
      BY <2>5 DEF OwnedOnce
    <3>. QED
      BY <1>1, <1>2, <1>5, <2>2, <2>3, <3>1, <3>2 DEF OwnersAgree
  <2>7. \A i, j \in DOMAIN loops[l].blocks : loops[l].blocks[i] = loops[l].blocks[j] => i = j
    BY <2>5 DEF OwnedOnce
  <2>. QED
    BY <2>2, <2>4, <2>6, <2>7
<1>. QED
  BY <1>3, <1>4, <1>5

LEMMA LinearKeeps ==
  ASSUME LoopInv, LinearRound \/ LinearDone
  PROVE  LoopInv'
<1>1. UNCHANGED <<domVars, loops, loopOf, stack>> /\ pass = "linear" /\ pass' \in {"linear", "linearized"}
  BY DEF LinearRound, LinearDone
<1>2. /\ DomInv /\ LoopStarts /\ LoopTypes /\ OwnersAgree /\ HeadersFound /\ LineGrows
      /\ DomInv' /\ Visited' = Visited /\ rpo' = rpo /\ (Built' <=> Built) /\ Visited \subseteq Regions
      /\ \A q : Latches(q)' = Latches(q)
      /\ \A n : Once(n)' <=> Once(n)
      /\ rpo \in Seq(Visited) /\ Len(rpo) \in Nat /\ DOMAIN rpo = 1..Len(rpo)
  BY <1>1, StepFacts
<1>3. LoopStarts' /\ HeadersFound'
  BY <1>1, <1>2 DEF LoopStarts, HeadersFound
<1>4. OwnersAgree'
  BY <1>1, <1>2 DEF OwnersAgree, OwnedOnce
<1>5. CASE LinearDone
  <2>1. pass' = "linearized" /\ next = 0 /\ next' = next /\ seen' = seen /\ line' = line
    BY <1>5 DEF LinearDone
  <2>2. LoopTypes'
    BY <1>1, <1>2, <2>1 DEF LoopTypes, Passes
  <2>3. LineGrows'
    BY <1>1, <1>2, <2>1 DEF LineGrows
  <2>. QED
    BY <1>2, <1>3, <1>4, <2>2, <2>3 DEF LoopInv
<1>6. CASE LinearRound
  <2>1. PICK r, e : r = rpo[next] /\ e = Emit(r)
    OBVIOUS
  <2>2. /\ pass' = pass /\ next > 0 /\ next \in Nat /\ next <= Len(rpo) /\ next' = next - 1
        /\ line' = line \o e /\ seen' = seen \cup ToSet(e)
    BY <1>1, <1>2, <1>6, <2>1 DEF LinearRound, LoopTypes
  <2>3. next \in DOMAIN rpo /\ r \in Visited
    BY <1>2, <2>1, <2>2
  <2>4. /\ e \in Seq(Regions) /\ ToSet(e) \cap seen = {} /\ r \in seen \cup ToSet(e)
        /\ ToSet(e) \subseteq Visited
        /\ \A i, j \in DOMAIN e : e[i] = e[j] => i = j
        /\ \A q \in ToSet(e) : loopOf[q] # 0 => ToSet(loops[loopOf[q]].blocks) \subseteq ToSet(e)
    BY <1>1, <2>1, <2>3, EmitFacts
  <2>5. /\ line \in Seq(Regions) /\ seen = ToSet(line)
        /\ \A i, j \in DOMAIN line : line[i] = line[j] => i = j
        /\ \A q \in seen : loopOf[q] # 0 => ToSet(loops[loopOf[q]].blocks) \subseteq seen
        /\ \A k \in DOMAIN rpo : k > next => rpo[k] \in seen
    BY <1>1, <1>2 DEF LineGrows
  <2>6. ToSet(line) \cap ToSet(e) = {}
    BY <2>4, <2>5
  <2>7. /\ line \o e \in Seq(Regions) /\ ToSet(line \o e) = ToSet(line) \cup ToSet(e)
        /\ \A i, j \in DOMAIN (line \o e) : (line \o e)[i] = (line \o e)[j] => i = j
    BY ONLY <2>4, <2>5, <2>6, JoinFacts
  <2>8. \A q \in seen' : loopOf[q] # 0 => ToSet(loops[loopOf[q]].blocks) \subseteq seen'
    BY ONLY <2>2, <2>4, <2>5
  <2>9. \A k \in DOMAIN rpo : k > next - 1 => rpo[k] \in seen'
    <3>1. \A k \in DOMAIN rpo : k > next - 1 => k > next \/ k = next
      BY <1>2, <2>2
    <3>. QED
      BY <2>1, <2>2, <2>4, <2>5, <3>1
  <2>10. LineGrows'
    BY <1>1, <1>2, <2>2, <2>5, <2>7, <2>8, <2>9 DEF LineGrows
  <2>11. seen \subseteq Visited /\ next - 1 \in Nat /\ next - 1 <= Len(rpo)
    BY <1>2, <2>2 DEF LoopTypes
  <2>12. LoopTypes'
    BY <1>1, <1>2, <2>2, <2>4, <2>11 DEF LoopTypes
  <2>. QED
    BY <1>2, <1>3, <1>4, <2>10, <2>12 DEF LoopInv
<1>. QED
  BY <1>5, <1>6

LEMMA TreeKeeps ==
  ASSUME LoopInv, Tree
  PROVE  LoopInv'
<1>1. pass = "tree" /\ DomNext /\ UNCHANGED loopVars
  BY DEF Tree
<1>2. DomInv' /\ pass' = "tree"
  BY <1>1, DomSteps DEF LoopInv, loopVars
<1>3. /\ next' = 1 /\ loops' = <<>> /\ stack' = <<>> /\ seen' = {} /\ line' = <<>>
      /\ loopOf' = [r \in Regions |-> 0]
  BY <1>1 DEF LoopInv, LoopStarts, loopVars
<1>4. LoopStarts' /\ LoopTypes' /\ OwnersAgree' /\ HeadersFound' /\ LineGrows'
  BY <1>2, <1>3 DEF LoopStarts, LoopTypes, OwnersAgree, HeadersFound, LineGrows, Passes
<1>. QED
  BY <1>2, <1>4 DEF LoopInv

LEMMA StutterKeeps ==
  ASSUME LoopInv, UNCHANGED allVars
  PROVE  LoopInv'
<1>1. UNCHANGED domVars /\ UNCHANGED loopVars
  BY DEF allVars
<1>2. /\ DomInv /\ LoopStarts /\ LoopTypes /\ OwnersAgree /\ HeadersFound /\ LineGrows
      /\ DomInv' /\ Visited' = Visited /\ rpo' = rpo /\ (Built' <=> Built)
      /\ \A q : Latches(q)' = Latches(q)
      /\ \A n : Once(n)' <=> Once(n)
      /\ \A q, n : FoundBefore(q, n)' <=> FoundBefore(q, n)
  BY <1>1, StepFacts, TreeStays
<1>3. /\ pass' = pass /\ next' = next /\ loops' = loops /\ loopOf' = loopOf /\ stack' = stack
      /\ seen' = seen /\ line' = line
  BY <1>1 DEF loopVars
<1>4. LoopStarts' /\ LoopTypes' /\ OwnersAgree'
  BY <1>2, <1>3 DEF LoopStarts, LoopTypes, OwnersAgree, OwnedOnce
<1>5. LineGrows'
  BY <1>2, <1>3 DEF LineGrows
<1>6. HeadersFound'
  BY <1>2, <1>3 DEF HeadersFound
<1>. QED
  BY <1>2, <1>4, <1>5, <1>6 DEF LoopInv

LEMMA LoopSteps ==
  ASSUME LoopInv, [LoopNext]_allVars
  PROVE  LoopInv'
<1>1. CASE Tree
  BY <1>1, TreeKeeps
<1>2. CASE StartFind \/ FindNone \/ FindLoop \/ FindAgain
  BY <1>2, FindKeeps
<1>3. CASE StartFill \/ FillNext
  BY <1>3, EntryKeeps
<1>4. CASE Skip
  BY <1>4, SkipKeeps
<1>5. CASE Include
  BY <1>5, IncludeKeeps
<1>6. CASE Absorb
  BY <1>6, AbsorbKeeps
<1>7. CASE LinearRound \/ LinearDone
  BY <1>7, LinearKeeps
<1>8. CASE Returned \/ UNCHANGED allVars
  BY <1>8, StutterKeeps DEF Returned
<1>. QED
  BY <1>1, <1>2, <1>3, <1>4, <1>5, <1>6, <1>7, <1>8 DEF LoopNext

LEMMA LoopInvariant == LoopSpec => []LoopInv
<1>1. LoopInv /\ [LoopNext]_allVars => LoopInv'
  BY LoopSteps
<1>. QED
  BY <1>1, LoopStartsWell, PTL DEF LoopSpec

-----------------------------------------------------------------------------
(* The state keeps its type, and m_BBMap agrees with the blocks.           *)
THEOREM LoopsKeepTypes == LoopSpec => []LoopTypeOK
<1>1. ASSUME LoopInv PROVE LoopTypeOK
  <2>1. TypeOK /\ PassInv /\ LoopTypes /\ OwnersAgree /\ LineGrows
    BY <1>1 DEF LoopInv, DomInv, WalkInv
  <2>2. Visited \subseteq Regions /\ N \in Nat
    BY <1>1, <2>1 DEF TypeOK, N
  <2>3. DomTypeOK
    <3>1. phase \in Phases /\ at \in Nat
      BY <2>1 DEF PassInv
    <3>2. \A f \in [1..N -> 0..(N - 1)] : f \in Seq(Nat)
      <4>. SUFFICES ASSUME NEW f \in [1..N -> 0..(N - 1)] PROVE f \in Seq(Nat)
        OBVIOUS
      <4>1. f \in [1..N -> Nat]
        OBVIOUS
      <4>. QED
        BY <2>2, <4>1
    <3>3. semi \in Seq(Nat) /\ idom \in Seq(Nat)
      <4>1. semi = <<>> \/ semi \in [1..N -> 0..(N - 1)]
        BY <2>1 DEF PassInv
      <4>2. idom = <<>> \/ idom \in [1..N -> 0..(N - 1)]
        BY <2>1 DEF PassInv, Phases
      <4>3. <<>> \in Seq(Nat)
        OBVIOUS
      <4>. QED
        BY ONLY <3>2, <4>1, <4>2, <4>3
    <3>. QED
      BY <3>1, <3>3 DEF DomTypeOK
  <2>4. stack \in Seq(Regions) /\ seen \subseteq Regions
    <3>1. stack \in Seq(Visited) /\ seen \subseteq Visited
      BY <2>1 DEF LoopTypes
    <3>. QED
      BY ONLY <2>2, <3>1
  <2>5. line \in Seq(Regions)
    <3>1. <<>> \in Seq(Regions)
      OBVIOUS
    <3>. QED
      BY <2>1, <3>1 DEF LineGrows
  <2>6. \A i \in DOMAIN loops : \A r \in ToSet(loops[i].blocks) : loopOf[r] = i
    BY <2>1 DEF OwnersAgree, OwnedOnce
  <2>. QED
    BY <2>1, <2>3, <2>4, <2>5, <2>6 DEF LoopTypeOK, LoopTypes
<1>. QED
  BY <1>1, LoopInvariant, PTL

LEMMA LineLemma ==
  ASSUME LoopInv
  PROVE  LineIsComplete
<1>. SUFFICES ASSUME pass = "linearized"
              PROVE  /\ ToSet(line) = Visited
                     /\ \A i, j \in DOMAIN line : line[i] = line[j] => i = j
  BY DEF LineIsComplete
<1>1. /\ seen = ToSet(line) /\ \A i, j \in DOMAIN line : line[i] = line[j] => i = j
      /\ next = 0 /\ Built /\ seen \subseteq Visited
      /\ \A k \in DOMAIN rpo : k > next => rpo[k] \in seen
  BY DEF LoopInv, LineGrows, LoopTypes
<1>2. DOMAIN rpo = 1..Len(rpo) /\ Len(rpo) \in Nat
  BY VisitedIsFinite DEF LoopInv
<1>3. Visited = {rpo[k] : k \in DOMAIN rpo}
  <2>1. WalkInv /\ Walked
    BY <1>1, BuiltFacts DEF LoopInv
  <2>. QED
    BY <2>1, WalkedFacts DEF Left
<1>. QED
  BY <1>1, <1>2, <1>3

(* linearize returns every region that can be reached, and each one once.  *)
THEOREM NoRegionIsLost == LoopSpec => []LineIsComplete
<1>1. LoopInv => LineIsComplete
  BY LineLemma
<1>. QED
  BY <1>1, LoopInvariant, PTL

(* recalc throws exactly where an unreached region leads to a reached one, *)
(* and createLoop asserts exactly where a header is reported twice.        *)
THEOREM LoopFailuresAreKnown == LoopSpec => []FailuresAreKnown
<1>1. ASSUME LoopInv PROVE FailuresAreKnown
  <2>. DEFINE reached == ReachedWithout(flow, {})
              strays == \E r \in reached \ {Start} : ~(Predecessors(flow, r) \subseteq reached)
  <2>1. DomInv /\ LoopTypes /\ HeadersFound
    BY <1>1 DEF LoopInv
  <2>2. WalkInv /\ PassInv
    BY <2>1 DEF DomInv
  <2>3. Walked => Visited = reached
    BY <2>2, WalkedFacts
  <2>4. phase = "thrown" => strays
    <3>. SUFFICES ASSUME phase = "thrown" PROVE strays
      OBVIOUS
    <3>1. Walked /\ at \in Nat /\ at > 0 /\ at <= N - 1 /\ ~(Preds(at) \subseteq Visited)
      BY <2>2 DEF PassInv
    <3>2. N \in Nat /\ N >= 1
      BY <2>2, <3>1, WalkedFacts
    <3>3. order[at + 1] \in Visited /\ number[order[at + 1]] = at
      <4>1. at \in 0..(N - 1)
        BY <3>1, <3>2
      <4>. QED
        BY <2>2, <4>1, TreeFacts
    <3>4. order[1] \in Visited /\ number[order[1]] = 0 /\ order[1] = Start
      <4>1. 0 \in 0..(N - 1) /\ N > 0
        BY <3>2
      <4>. QED
        BY <2>2, <4>1, TreeFacts
    <3>5. order[at + 1] # Start
      BY <3>1, <3>3, <3>4
    <3>. QED
      BY <2>3, <3>1, <3>3, <3>5 DEF Preds
  <2>5. Built => ~strays
    <3>. SUFFICES ASSUME Built PROVE ~strays
      OBVIOUS
    <3>1. Walked
      BY <2>1, BuiltFacts
    <3>. QED
      BY <2>1, <2>3, <3>1, KnownPredecessors
  <2>6. pass = "aborted" =>
           \E i, j \in DOMAIN rpo : i # j /\ rpo[i] = rpo[j] /\ Latches(rpo[i]) # {}
    BY <2>1 DEF HeadersFound
  <2>7. pass \in {"linear", "linearized"} =>
           \A i, j \in DOMAIN rpo : i # j /\ rpo[i] = rpo[j] => Latches(rpo[i]) = {}
    <3>. SUFFICES ASSUME pass \in {"linear", "linearized"}, NEW i \in DOMAIN rpo, NEW j \in DOMAIN rpo,
                         i # j, rpo[i] = rpo[j]
                  PROVE  Latches(rpo[i]) = {}
      OBVIOUS
    <3>1. Once(Len(rpo) + 1)
      BY <2>1 DEF HeadersFound
    <3>2. DOMAIN rpo = 1..Len(rpo) /\ Len(rpo) \in Nat
      BY <2>1, VisitedIsFinite
    <3>3. (i < j \/ j < i) /\ i < Len(rpo) + 1 /\ j < Len(rpo) + 1
      BY <3>2
    <3>. QED
      BY <3>1, <3>3 DEF Once
  <2>. QED
    BY <2>4, <2>5, <2>6, <2>7 DEF FailuresAreKnown
<1>. QED
  BY <1>1, LoopInvariant, PTL

-----------------------------------------------------------------------------
(* A region stays on the stack of the walk while the regions it dominates  *)
(* are on it: these are left before it, each time they are.                *)
DominatorsAreOpen ==
  \A j \in DOMAIN work : \A h \in Regions :
    TrulyDominates(flow, h, On(j)) /\ h # On(j) => \E p \in DOMAIN work : Holds(p) /\ p < j /\ On(p) = h

DominatedLeaveFirst ==
  \A i, k \in DOMAIN rpo :
    TrulyDominates(flow, rpo[k], rpo[i]) /\ rpo[k] # rpo[i] => i < k

(* What leads to a latch of a loop without its header.                     *)
NatBody(i) == LeadsTo(flow, loops[i].latches \ {loops[i].header}, loops[i].header)

(* What the traversal of loop i does to the regions it meets.              *)
MetBy(r, i) == loopOf[r] # 0 /\ (loopOf[r] = i \/ loops[loopOf[r]].parent \in 1..i)

(* The loops whose traversal began, and those whose traversal is over.     *)
Begun ==
  IF pass = "fill" THEN next ELSE IF pass \in {"linear", "linearized"} THEN Len(loops) ELSE 0

Over ==
  IF pass = "fill" THEN next - 1 ELSE IF pass \in {"linear", "linearized"} THEN Len(loops) ELSE 0

HeadersLead ==
  \A i \in DOMAIN loops :
    /\ loops[i].blocks # <<>> /\ loops[i].blocks[1] = loops[i].header
    /\ loops[i].latches = Latches(loops[i].header) /\ loops[i].latches # {}

(* The loops come in the order in which their headers are left.            *)
HeadersAscend ==
  /\ \A i, j \in DOMAIN loops :
       i < j => \E a, b \in DOMAIN rpo : a < b /\ rpo[a] = loops[i].header /\ rpo[b] = loops[j].header
  /\ pass = "find" => \A i \in DOMAIN loops : \E a \in DOMAIN rpo : a < next /\ rpo[a] = loops[i].header

(* A block that is no header leads to a latch of its loop, and not to one  *)
(* of a loop before.                                                       *)
BlocksBelong ==
  \A l \in DOMAIN loops : \A r \in ToSet(loops[l].blocks) :
    r # loops[l].header => r \in NatBody(l) /\ \A i \in 1..(l - 1) : r \notin NatBody(i)

(* A loop whose traversal is ahead has its header only, and what the one   *)
(* that is underway has gained is seen.                                    *)
BlocksAreNew ==
  \A l \in DOMAIN loops : l > Over => \A r \in ToSet(loops[l].blocks) :
    r = loops[l].header \/ (pass = "fill" /\ l = next /\ r \in seen)

(* A parent met a block of its subloop. *)
ParentsMeet ==
  \A l \in DOMAIN loops : loops[l].parent # 0 =>
    /\ loops[l].parent \in 1..Begun /\ loops[l].parent # l
    /\ \E r \in ToSet(loops[l].blocks) : r \in NatBody(loops[l].parent)

BodiesAreMet == \A i \in 1..Over : \A r \in NatBody(i) : MetBy(r, i)

FillIsUnderway ==
  pass = "fill" =>
    /\ seen \subseteq NatBody(next)
    /\ ToSet(stack) \subseteq NatBody(next) \cup {loops[next].header}
    /\ loops[next].latches \ {loops[next].header} \subseteq seen \cup ToSet(stack)
    /\ \A r \in seen :
         MetBy(r, next) /\ Predecessors(flow, r) \ {loops[next].header} \subseteq seen \cup ToSet(stack)

(* A header comes first in the line, and if the tree is true, before all   *)
(* that leads to its latches.                                              *)
LineLeads ==
  pass \in {"linear", "linearized"} =>
    \A k \in DOMAIN line : loopOf[line[k]] # 0 =>
      \E j \in DOMAIN line : j <= k /\ line[j] = loops[loopOf[line[k]]].header

LineNests ==
  pass \in {"linear", "linearized"} /\ DominatorsAreTrue =>
    \A i \in DOMAIN loops : \A k \in DOMAIN line :
      line[k] \in NatBody(i) => \E j \in DOMAIN line : j <= k /\ line[j] = loops[i].header

NestInv ==
  /\ HeadersLead /\ HeadersAscend /\ BlocksBelong /\ BlocksAreNew /\ ParentsMeet /\ BodiesAreMet
  /\ FillIsUnderway /\ LineLeads /\ LineNests

-----------------------------------------------------------------------------
(* Who dominates the target of an edge is its source or dominates it.      *)
LEMMA DominatorOfEdge ==
  ASSUME NEW f, NEW h, NEW u, NEW r \in Regions, GoesTo(f, u, r), TrulyDominates(f, h, r), h # r
  PROVE  u = h \/ TrulyDominates(f, h, u)
<1>. SUFFICES ASSUME u \in ReachedWithout(f, {h}) PROVE FALSE
  BY DEF TrulyDominates
<1>1. r \in Regions \ {h}
  OBVIOUS
<1>2. r \in ReachedWithout(f, {h})
  BY <1>1, ReachedIsClosed
<1>. QED
  BY <1>2 DEF TrulyDominates

(* Only itself dominates the start. *)
LEMMA DominatorOfStart ==
  ASSUME NEW f, NEW h, TrulyDominates(f, h, Start)
  PROVE  h = Start
<1>. SUFFICES ASSUME Start \notin {h} PROVE FALSE
  OBVIOUS
<1>1. Start \in ReachedWithout(f, {h})
  BY ReachedBasics
<1>. QED
  BY <1>1 DEF TrulyDominates

LEMMA DominationIsAntisymmetric ==
  ASSUME NEW f, NEW a \in ReachedWithout(f, {}), NEW b, TrulyDominates(f, a, b), TrulyDominates(f, b, a)
  PROVE  a = b
<1>. SUFFICES ASSUME a # b PROVE FALSE
  OBVIOUS
<1>. DEFINE S == ReachedWithout(f, {a}) \cap ReachedWithout(f, {b})
<1>1. Start \in S
  <2>1. Start \notin {a} /\ Start \notin {b}
    BY DominatorOfStart
  <2>. QED
    BY <2>1, ReachedBasics
<1>2. ASSUME NEW u \in S, NEW r \in Regions \ {}, GoesTo(f, u, r) PROVE r \in S
  <2>1. r # a
    <3>. SUFFICES ASSUME r = a PROVE FALSE
      OBVIOUS
    <3>1. u \in ReachedWithout(f, {b}) /\ r \in Regions \ {b}
      BY <1>2
    <3>2. r \in ReachedWithout(f, {b})
      BY <1>2, <3>1, ReachedIsClosed
    <3>. QED
      BY <3>2 DEF TrulyDominates
  <2>2. r # b
    <3>. SUFFICES ASSUME r = b PROVE FALSE
      OBVIOUS
    <3>1. u \in ReachedWithout(f, {a}) /\ r \in Regions \ {a}
      BY <1>2
    <3>2. r \in ReachedWithout(f, {a})
      BY <1>2, <3>1, ReachedIsClosed
    <3>. QED
      BY <3>2 DEF TrulyDominates
  <2>3. r \in Regions \ {a} /\ r \in Regions \ {b}
    BY <1>2, <2>1, <2>2
  <2>. QED
    BY <1>2, <2>3, ReachedIsClosed
<1>3. ReachedWithout(f, {}) \subseteq S
  <2>. HIDE DEF S
  <2>. QED
    BY <1>1, <1>2, ReachedIsLeast
<1>4. a \in ReachedWithout(f, {a})
  BY <1>3
<1>. QED
  BY <1>4, ReachedBasics

(* A set that can be entered by h only: who dominates a region of it and   *)
(* is not in it dominates h.                                               *)
LEMMA DominatorIsAbove ==
  ASSUME NEW f, NEW B, NEW h, NEW d, NEW r \in B, r \in ReachedWithout(f, {}),
         \A s \in B : s # h => \A u \in ReachedWithout(f, {}) : GoesTo(f, u, s) => u \in B,
         d \notin B, TrulyDominates(f, d, r)
  PROVE  TrulyDominates(f, d, h)
<1>. SUFFICES ASSUME h \in ReachedWithout(f, {d}) PROVE FALSE
  BY DEF TrulyDominates
<1>. DEFINE X == {x \in ReachedWithout(f, {}) : x \in B => x \in ReachedWithout(f, {d})}
<1>1. Start \in X
  <2>1. Start \in ReachedWithout(f, {})
    BY ReachedBasics
  <2>2. Start \in B => Start \in ReachedWithout(f, {d})
    <3>. SUFFICES ASSUME Start \in B PROVE Start \in ReachedWithout(f, {d})
      OBVIOUS
    <3>1. Start \notin {d}
      OBVIOUS
    <3>. QED
      BY <3>1, ReachedBasics
  <2>. QED
    BY <2>1, <2>2
<1>2. ASSUME NEW u \in X, NEW x \in Regions \ {}, GoesTo(f, u, x) PROVE x \in X
  <2>1. x \in ReachedWithout(f, {}) /\ u \in ReachedWithout(f, {})
    BY <1>2, ReachedIsClosed
  <2>2. ASSUME x \in B PROVE x \in ReachedWithout(f, {d})
    <3>1. CASE x = h
      BY <3>1
    <3>2. CASE x # h
      <4>1. u \in B
        BY <1>2, <2>1, <2>2, <3>2
      <4>2. u \in ReachedWithout(f, {d}) /\ x \in Regions \ {d}
        BY <1>2, <2>2, <4>1
      <4>. QED
        BY <1>2, <4>2, ReachedIsClosed
    <3>. QED
      BY <3>1, <3>2
  <2>. QED
    BY <2>1, <2>2
<1>3. ReachedWithout(f, {}) \subseteq X
  <2>. HIDE DEF X
  <2>. QED
    BY <1>1, <1>2, ReachedIsLeast
<1>. QED
  BY <1>3 DEF TrulyDominates

-----------------------------------------------------------------------------
(* What leads to S without h, in k steps at most. *)
More(f, B, h) == B \cup ((UNION {Predecessors(f, r) : r \in B}) \ {h})

IsLeading(f, F, S, h) == F[0] = S /\ \A k \in Nat : F[k + 1] = More(f, F[k], h)

LEMMA LeadsUnfold ==
  ASSUME NEW f, NEW S, S \subseteq Regions, NEW h
  PROVE  \E F \in [Nat -> SUBSET Regions] : IsLeading(f, F, S, h) /\ LeadsTo(f, S, h) = F[Cardinality(Regions)]
<1>. DEFINE T == SUBSET Regions
            more == [B \in T |-> More(f, B, h)]
            IsIt(F) == F = [k \in Nat |->
              IF k = 0 THEN S
              ELSE LET before == F[k - 1]
                   IN  before \cup ((UNION {Predecessors(f, r) : r \in before}) \ {h})]
            F0 == CHOOSE F : IsIt(F)
<1>1. LeadsTo(f, S, h) = F0[Cardinality(Regions)]
  BY Zenon DEF LeadsTo
<1>2. S \in T /\ more \in [T -> T]
  BY DEF Predecessors, More
<1>3. PICK F \in [Nat -> T] : F[0] = S /\ \A k \in Nat : F[k + 1] = more[F[k]]
  <2>. HIDE DEF T, more
  <2>. QED
    BY <1>2, IterationExists
<1>4. IsIt(F)
  <2>1. \A k \in Nat \ {0} : k - 1 \in Nat /\ (k - 1) + 1 = k
    OBVIOUS
  <2>2. \A k \in Nat \ {0} : F[k] = more[F[k - 1]] /\ F[k - 1] \in T
    <3>. HIDE DEF more, T
    <3>. QED
      BY <1>3, <2>1
  <2>3. \A k \in Nat : F[k] = IF k = 0 THEN S
          ELSE F[k - 1] \cup ((UNION {Predecessors(f, r) : r \in F[k - 1]}) \ {h})
    BY <1>3, <2>2 DEF More
  <2>4. F = [k \in Nat |-> F[k]]
    BY <1>3
  <2>. HIDE DEF T, more
  <2>. QED
    BY <2>3, <2>4
<1>5. IsIt(F0)
  <2>. HIDE DEF IsIt
  <2>. QED
    BY <1>4
<1>. HIDE DEF F0
<1>6. ASSUME NEW k \in Nat
      PROVE  F0[k] = IF k = 0 THEN S ELSE More(f, F0[k - 1], h)
  BY <1>5 DEF More
<1>7. F0[0] = S
  BY <1>6
<1>8. ASSUME NEW k \in Nat PROVE F0[k + 1] = More(f, F0[k], h)
  <2>1. k + 1 \in Nat /\ k + 1 # 0 /\ (k + 1) - 1 = k
    OBVIOUS
  <2>2. F0[k + 1] = More(f, F0[(k + 1) - 1], h)
    BY <1>6, <2>1
  <2>. QED
    BY <2>1, <2>2
<1>9. IsLeading(f, F0, S, h)
  <2>. HIDE DEF IsIt
  <2>. QED
    BY <1>7, <1>8 DEF IsLeading
<1>10. F0 \in [Nat -> T]
  <2>. DEFINE Good == {k \in Nat : F0[k] \in T}
  <2>1. 0 \in Good
    BY <1>2, <1>7
  <2>2. ASSUME NEW k \in Nat, k \in Good PROVE k + 1 \in Good
    BY <1>8, <2>2 DEF More, Predecessors
  <2>3. \A k \in Nat : k \in Good
    <3>. HIDE DEF Good
    <3>. QED
      BY <2>1, <2>2, Induction
  <2>4. F0 = [k \in Nat |-> F0[k]]
    BY <1>5
  <2>. HIDE DEF IsIt, T
  <2>. QED
    BY <2>3, <2>4
<1>. QED
  BY <1>1, <1>9, <1>10

LEMMA LeadsIsLeast ==
  ASSUME NEW f, NEW S, S \subseteq Regions, NEW h, NEW C, S \subseteq C,
         \A r \in C \cap Regions : Predecessors(f, r) \ {h} \subseteq C
  PROVE  LeadsTo(f, S, h) \subseteq C
<1>1. PICK F \in [Nat -> SUBSET Regions] : IsLeading(f, F, S, h) /\ LeadsTo(f, S, h) = F[Cardinality(Regions)]
  BY LeadsUnfold
<1>. DEFINE Good == {k \in Nat : F[k] \subseteq C}
<1>2. 0 \in Good
  BY <1>1 DEF IsLeading
<1>3. ASSUME NEW k \in Nat, k \in Good PROVE k + 1 \in Good
  <2>1. F[k + 1] = More(f, F[k], h) /\ F[k] \subseteq C \cap Regions
    BY <1>1, <1>3 DEF IsLeading
  <2>2. ASSUME NEW x \in More(f, F[k], h) PROVE x \in C
    <3>1. x \in F[k] \/ \E r \in F[k] : x \in Predecessors(f, r) \ {h}
      BY <2>2 DEF More
    <3>. QED
      BY <2>1, <3>1
  <2>. QED
    BY <2>1, <2>2
<1>4. \A k \in Nat : k \in Good
  <2>. HIDE DEF Good
  <2>. QED
    BY <1>2, <1>3, Induction
<1>. QED
  BY <1>1, <1>4, RegionsAssumption, FS_CardinalityType

(* It is complete, and has the header only where it was given. *)
LEMMA LeadsIsClosed ==
  ASSUME NEW f, NEW S, S \subseteq Regions, NEW h
  PROVE  /\ S \subseteq LeadsTo(f, S, h) /\ LeadsTo(f, S, h) \subseteq Regions
         /\ \A r \in LeadsTo(f, S, h) : Predecessors(f, r) \ {h} \subseteq LeadsTo(f, S, h)
         /\ h \notin S => h \notin LeadsTo(f, S, h)
<1>1. PICK F \in [Nat -> SUBSET Regions] : IsLeading(f, F, S, h) /\ LeadsTo(f, S, h) = F[Cardinality(Regions)]
  BY LeadsUnfold
<1>. DEFINE K == Cardinality(Regions)
            Stable(k) == F[k + 1] = F[k]
            Good == {k \in Nat : S \subseteq F[k] /\ (Stable(k) \/ Cardinality(F[k]) >= k)}
<1>2. \A k \in Nat : F[k + 1] = More(f, F[k], h)
  BY <1>1 DEF IsLeading
<1>3. \A k \in Nat : F[k] \subseteq Regions /\ IsFiniteSet(F[k]) /\ Cardinality(F[k]) \in Nat
  BY RegionsAssumption, FS_Subset, FS_CardinalityType
<1>4. 0 \in Good
  BY <1>1, <1>3 DEF IsLeading
<1>5. ASSUME NEW k \in Nat, k \in Good PROVE k + 1 \in Good
  <2>0. S \subseteq F[k + 1]
    BY <1>2, <1>5 DEF More
  <2>1. CASE Stable(k)
    <3>1. F[(k + 1) + 1] = More(f, F[k + 1], h) /\ F[k + 1] = More(f, F[k], h) /\ F[k + 1] = F[k]
      BY <1>2, <2>1
    <3>2. F[(k + 1) + 1] = F[k + 1]
      BY ONLY <3>1
    <3>. QED
      BY <2>0, <3>2
  <2>2. CASE ~Stable(k)
    <3>1. F[k] \subseteq F[k + 1] /\ F[k] # F[k + 1]
      BY <1>2, <2>2 DEF More
    <3>2. Cardinality(F[k]) < Cardinality(F[k + 1])
      BY <1>3, <3>1, FS_Subset
    <3>. QED
      BY <1>3, <1>5, <2>0, <2>2, <3>2
  <2>. QED
    BY <2>1, <2>2
<1>6. \A k \in Nat : k \in Good
  <2>. HIDE DEF Good
  <2>. QED
    BY <1>4, <1>5, Induction
<1>7. K \in Nat
  BY RegionsAssumption, FS_CardinalityType
<1>8. \A r \in F[K] : Predecessors(f, r) \ {h} \subseteq F[K]
  <2>1. CASE Stable(K)
    <3>1. F[K] = More(f, F[K], h)
      BY <1>2, <1>7, <2>1
    <3>2. ASSUME NEW r \in F[K], NEW x \in Predecessors(f, r) \ {h} PROVE x \in More(f, F[K], h)
      BY <3>2 DEF More
    <3>. QED
      BY <3>1, <3>2
  <2>2. CASE Cardinality(F[K]) >= K
    <3>1. F[K] \subseteq Regions /\ Cardinality(F[K]) <= K /\ Cardinality(F[K]) \in Nat
      BY <1>3, <1>7, RegionsAssumption, FS_Subset
    <3>2. Cardinality(F[K]) = K
      BY <1>7, <2>2, <3>1
    <3>3. F[K] = Regions
      BY <3>1, <3>2, RegionsAssumption, FS_Subset
    <3>. QED
      BY <3>3 DEF Predecessors
  <2>. QED
    BY <1>6, <1>7, <2>1, <2>2
<1>9. S \subseteq LeadsTo(f, S, h) /\ LeadsTo(f, S, h) \subseteq Regions
  BY <1>1, <1>3, <1>6, <1>7
<1>10. h \notin S => h \notin LeadsTo(f, S, h)
  <2>. SUFFICES ASSUME h \notin S PROVE h \notin LeadsTo(f, S, h)
    OBVIOUS
  <2>1. LeadsTo(f, S, h) \subseteq Regions \ {h}
    <3>1. S \subseteq Regions \ {h} /\ \A r \in (Regions \ {h}) \cap Regions :
            Predecessors(f, r) \ {h} \subseteq Regions \ {h}
      BY DEF Predecessors
    <3>. QED
      BY <3>1, LeadsIsLeast
  <2>. QED
    BY <2>1
<1>. QED
  BY <1>1, <1>8, <1>9, <1>10

-----------------------------------------------------------------------------
WalkOrder == DominatorsAreOpen /\ DominatedLeaveFirst

LEMMA VisitOrders ==
  ASSUME WalkInv, WalkOrder, Visit
  PROVE  WalkOrder'
<1>p. PICK n, t : n = Len(work) /\ t = Top.region
  OBVIOUS
<1>1. /\ TypeOK /\ work # <<>> /\ flow' = flow /\ rpo' = rpo /\ n \in Nat /\ n \in DOMAIN work
      /\ DOMAIN work = 1..n /\ On(n) = t /\ t \in Regions
  BY <1>p, VisitFacts, TopFacts DEF WalkInv
<1>2. /\ Len(work') \in Nat /\ DOMAIN work' = 1..Len(work') /\ Len(work') >= n /\ work' \in Seq(Entry)
      /\ \A j \in 1..Len(work') : j > n => GoesTo(flow, t, work'[j].region)
  BY <1>1, <1>p, VisitPushes
<1>3. /\ \A j \in 1..n : On(j)' = On(j)
      /\ \A p : Holds(p)' <=> Holds(p) \/ p = n
  BY <1>1, <1>p, VisitHolds
<1>4. DominatedLeaveFirst'
  BY <1>1 DEF WalkOrder, DominatedLeaveFirst
<1>5. ASSUME NEW j \in DOMAIN work', NEW h \in Regions, TrulyDominates(flow, h, On(j)'), h # On(j)'
      PROVE  \E p \in DOMAIN work' : Holds(p)' /\ p < j /\ On(p)' = h
  <2>1. ASSUME NEW i \in 1..n, i <= j, TrulyDominates(flow, h, On(i)), h # On(i)
        PROVE  \E p \in DOMAIN work' : Holds(p)' /\ p < j /\ On(p)' = h
    <3>1. PICK p \in DOMAIN work : Holds(p) /\ p < i /\ On(p) = h
      BY <1>1, <2>1 DEF WalkOrder, DominatorsAreOpen
    <3>2. p \in DOMAIN work' /\ p < j /\ p \in 1..n
      BY <1>1, <1>2, <1>5, <2>1, <3>1
    <3>. QED
      BY <1>3, <3>1, <3>2
  <2>2. CASE j <= n
    <3>1. j \in 1..n /\ On(j)' = On(j)
      BY <1>1, <1>2, <1>3, <2>2
    <3>. QED
      BY <1>5, <2>1, <3>1
  <2>3. CASE ~(j <= n)
    <3>1. j > n /\ n \in 1..n /\ n <= j /\ n \in DOMAIN work' /\ n < j
      BY <1>1, <1>2, <2>3
    <3>2. GoesTo(flow, t, On(j)') /\ On(j)' \in Regions
      <4>1. work'[j] \in Entry
        BY <1>2, <1>5
      <4>2. work'[j].region \in Regions
        BY <4>1 DEF Entry
      <4>. QED
        BY <1>2, <3>1, <4>2 DEF On
    <3>3. t = h \/ TrulyDominates(flow, h, t)
      BY <1>5, <3>2, DominatorOfEdge
    <3>4. CASE t = h
      BY <1>1, <1>3, <3>1, <3>4
    <3>5. CASE t # h
      BY <1>1, <2>1, <3>1, <3>3, <3>5
    <3>. QED
      BY <3>4, <3>5
  <2>. QED
    BY <2>2, <2>3
<1>6. DominatorsAreOpen'
  BY <1>1, <1>5 DEF DominatorsAreOpen
<1>. QED
  BY <1>4, <1>6 DEF WalkOrder

LEMMA LeaveKeepsOrder ==
  ASSUME WalkInv, WalkOrder, Leave
  PROVE  WalkOrder'
<1>n. PICK n, m : n = Len(work) /\ m = Len(rpo)
  OBVIOUS
<1>t. PICK t : t = Top.region
  OBVIOUS
<1>p. n = Len(work) /\ m = Len(rpo) /\ t = Top.region
  BY <1>n, <1>t
<1>1. /\ TypeOK /\ work # <<>> /\ flow' = flow /\ n \in Nat /\ n \in DOMAIN work
      /\ DOMAIN work = 1..n /\ On(n) = t /\ t \in Regions
  BY <1>p, LeaveFacts, TopFacts DEF WalkInv
<1>2. /\ work' \in Seq(Entry) /\ Len(work') = n - 1
      /\ rpo' \in Seq(Visited) /\ m \in Nat /\ Len(rpo') = m + 1 /\ rpo'[m + 1] = t
      /\ \A j \in 1..m : rpo'[j] = rpo[j]
  <2>. TypeOK
    BY <1>1
  <2>. QED
    BY ONLY TypeOK, Leave, <1>p, LeaveFacts
<1>3. /\ \A j \in 1..(n - 1) : On(j)' = On(j)
      /\ \A p : Holds(p)' <=> Holds(p) /\ p # n
  BY <1>1, <1>p, LeaveHolds
<1>4. DOMAIN work' = 1..(n - 1) /\ DOMAIN rpo' = 1..(m + 1) /\ DOMAIN rpo = 1..m
      /\ rpo \in Seq(Visited) /\ Visited \subseteq Regions
  BY <1>1, <1>2, <1>p DEF TypeOK
<1>5. ASSUME NEW j \in DOMAIN work', NEW h \in Regions, TrulyDominates(flow, h, On(j)'), h # On(j)'
      PROVE  \E p \in DOMAIN work' : Holds(p)' /\ p < j /\ On(p)' = h
  <2>1. j \in 1..(n - 1) /\ j \in DOMAIN work /\ On(j)' = On(j)
    BY <1>1, <1>3, <1>4
  <2>2. PICK p \in DOMAIN work : Holds(p) /\ p < j /\ On(p) = h
    BY <1>5, <2>1 DEF WalkOrder, DominatorsAreOpen
  <2>3. p \in 1..(n - 1) /\ p # n
    BY <1>1, <2>1, <2>2
  <2>. QED
    BY <1>3, <1>4, <2>2, <2>3
<1>6. DominatorsAreOpen'
  BY <1>1, <1>5 DEF DominatorsAreOpen
<1>7. ASSUME NEW i \in DOMAIN rpo', NEW k \in DOMAIN rpo', TrulyDominates(flow, rpo'[k], rpo'[i]), rpo'[k] # rpo'[i]
      PROVE  i < k
  <2>1. CASE i \in 1..m /\ k \in 1..m
    BY <1>2, <1>4, <1>7, <2>1 DEF WalkOrder, DominatedLeaveFirst
  <2>2. CASE i \in 1..m /\ k = m + 1
    BY <1>2, <2>2
  <2>3. CASE i = m + 1 /\ k \in 1..m
    <3>0. k \in DOMAIN rpo
      BY <1>4, <2>3
    <3>1. rpo[k] \in Visited /\ rpo[k] \in Regions /\ rpo[k] \in Left
      <4>1. rpo[k] \in Visited
        BY ONLY <1>4, <1>p, <2>3, ElementOfSeq
      <4>. QED
        BY <1>4, <3>0, <4>1 DEF Left
    <3>2. TrulyDominates(flow, rpo[k], On(n)) /\ rpo[k] # On(n)
      BY <1>1, <1>2, <1>7, <2>3
    <3>3. PICK p \in DOMAIN work : Holds(p) /\ On(p) = rpo[k]
      BY <1>1, <3>1, <3>2 DEF WalkOrder, DominatorsAreOpen
    <3>. QED
      BY <3>1, <3>3 DEF Holds, Open
  <2>4. CASE i = m + 1 /\ k = m + 1
    BY <1>7, <2>4
  <2>5. \A x \in 1..(m + 1) : x \in 1..m \/ x = m + 1
    BY <1>2
  <2>. QED
    BY <1>4, <2>1, <2>2, <2>3, <2>4, <2>5
<1>8. DominatedLeaveFirst'
  BY <1>1, <1>7 DEF DominatedLeaveFirst
<1>. QED
  BY <1>6, <1>8 DEF WalkOrder

LEMMA OrderStarts ==
  ASSUME Init
  PROVE  WalkOrder
<1>1. rpo = <<>> /\ work = <<[from |-> 0, region |-> Start]>>
  BY DEF Init
<1>2. DOMAIN work = {1} /\ On(1) = Start
  BY <1>1 DEF On
<1>. QED
  BY <1>1, <1>2, DominatorOfStart DEF WalkOrder, DominatorsAreOpen, DominatedLeaveFirst

LEMMA OrderStays ==
  ASSUME WalkOrder, UNCHANGED walk
  PROVE  WalkOrder'
<1>1. flow' = flow /\ work' = work /\ rpo' = rpo /\ Visited' = Visited
  BY DEF walk, Visited
<1>2. Open' = Open
  BY <1>1 DEF Open, Left
<1>3. \A p : On(p)' = On(p) /\ (Holds(p)' <=> Holds(p))
  BY <1>1, <1>2 DEF On, Holds
<1>. QED
  BY <1>1, <1>3 DEF WalkOrder, DominatorsAreOpen, DominatedLeaveFirst

LEMMA OrderSteps ==
  ASSUME DomInv, WalkOrder, [DomNext]_domVars
  PROVE  WalkOrder'
<1>1. CASE Walk
  BY <1>1, VisitOrders, LeaveKeepsOrder DEF Walk, Next, DomInv
<1>2. CASE UNCHANGED walk
  BY <1>2, OrderStays
<1>3. CASE DomNext /\ ~Walk
  BY <1>2, <1>3 DEF DomNext, StartSemi, SemiRound, SemiThrows, StartIdom, IdomRound, StartAdjust, AdjustRound, AdjustDone
<1>4. CASE UNCHANGED domVars
  BY <1>2, <1>4 DEF domVars, walk
<1>. QED
  BY <1>1, <1>3, <1>4

-----------------------------------------------------------------------------
(* The nesting, step by step. *)
Ascend ==
  \A i, j \in DOMAIN loops :
    i < j => \E a, b \in DOMAIN rpo : a < b /\ rpo[a] = loops[i].header /\ rpo[b] = loops[j].header

LEMMA LoopFields ==
  ASSUME LoopTypes, NEW i \in DOMAIN loops
  PROVE  /\ i \in Nat /\ i >= 1 /\ i <= Len(loops) /\ Len(loops) \in Nat /\ DOMAIN loops = 1..Len(loops)
         /\ loops[i].header \in Regions /\ loops[i].latches \subseteq Regions
         /\ loops[i].blocks \in Seq(Regions) /\ loops[i].parent \in Nat
         /\ ToSet(loops[i].blocks) \subseteq Regions
<1>1. loops \in Seq(Loop)
  BY DEF LoopTypes
<1>2. loops[i] \in Loop /\ i \in Nat /\ i >= 1 /\ i <= Len(loops) /\ Len(loops) \in Nat /\ DOMAIN loops = 1..Len(loops)
  BY <1>1
<1>3. /\ loops[i].header \in Regions /\ loops[i].latches \subseteq Regions
      /\ loops[i].blocks \in Seq(Regions) /\ loops[i].parent \in Nat
  BY ONLY <1>2 DEF Loop
<1>4. ToSet(loops[i].blocks) \subseteq Regions
  BY <1>3 DEF ToSet
<1>. QED
  BY <1>2, <1>3, <1>4

LEMMA BodyFacts ==
  ASSUME LoopTypes, NEW i \in DOMAIN loops
  PROVE  /\ loops[i].latches \ {loops[i].header} \subseteq NatBody(i)
         /\ NatBody(i) \subseteq Regions /\ loops[i].header \notin NatBody(i)
         /\ \A r \in NatBody(i) : Predecessors(flow, r) \ {loops[i].header} \subseteq NatBody(i)
<1>. DEFINE S == loops[i].latches \ {loops[i].header}
            h == loops[i].header
<1>1. S \subseteq Regions /\ h \notin S
  BY LoopFields
<1>2. NatBody(i) = LeadsTo(flow, S, h)
  BY DEF NatBody
<1>. HIDE DEF S
<1>3. /\ S \subseteq LeadsTo(flow, S, h) /\ LeadsTo(flow, S, h) \subseteq Regions
      /\ \A r \in LeadsTo(flow, S, h) : Predecessors(flow, r) \ {h} \subseteq LeadsTo(flow, S, h)
      /\ h \notin LeadsTo(flow, S, h)
  BY ONLY <1>1, LeadsIsClosed
<1>. QED
  BY <1>2, <1>3 DEF S

LEMMA BodyIsLeast ==
  ASSUME LoopTypes, NEW i \in DOMAIN loops, NEW C, loops[i].latches \ {loops[i].header} \subseteq C,
         \A r \in C \cap Regions : Predecessors(flow, r) \ {loops[i].header} \subseteq C
  PROVE  NatBody(i) \subseteq C
<1>1. loops[i].latches \ {loops[i].header} \subseteq Regions
  BY LoopFields
<1>. QED
  BY <1>1, LeadsIsLeast DEF NatBody

LEMMA BodyStays ==
  ASSUME flow' = flow, NEW i, loops'[i].header = loops[i].header, loops'[i].latches = loops[i].latches
  PROVE  NatBody(i)' = NatBody(i)
BY DEF NatBody

(* What stays when the loops do. *)
LEMMA NestStays ==
  ASSUME LoopInv, NestInv, UNCHANGED <<domVars, loops, loopOf>>
  PROVE  /\ HeadersLead' /\ Ascend' /\ BlocksBelong'
         /\ rpo' = rpo /\ flow' = flow
         /\ \A i : NatBody(i)' = NatBody(i)
         /\ \A r, i : MetBy(r, i)' <=> MetBy(r, i)
<1>1. flow' = flow /\ loops' = loops /\ loopOf' = loopOf /\ rpo' = rpo /\ \A q : Latches(q)' = Latches(q)
  BY StepFacts DEF domVars
<1>2. \A i : NatBody(i)' = NatBody(i)
  BY <1>1, BodyStays
<1>3. HeadersLead'
  BY <1>1 DEF NestInv, HeadersLead
<1>4. Ascend'
  BY <1>1 DEF NestInv, HeadersAscend, Ascend
<1>5. BlocksBelong'
  BY <1>1, <1>2 DEF NestInv, BlocksBelong
<1>. QED
  BY <1>1, <1>2, <1>3, <1>4, <1>5 DEF MetBy

LEMMA QuietPasses ==
  ASSUME pass' \notin {"fill", "linear", "linearized"}
  PROVE  /\ Begun' = 0 /\ Over' = 0 /\ BodiesAreMet' /\ FillIsUnderway' /\ LineLeads' /\ LineNests'
<1>1. Begun' = 0 /\ Over' = 0
  BY DEF Begun, Over
<1>2. 1..Over' = {}
  BY <1>1
<1>3. BodiesAreMet'
  BY <1>2 DEF BodiesAreMet
<1>. QED
  BY <1>1, <1>3 DEF FillIsUnderway, LineLeads, LineNests

(* Without loops there is no nesting. *)
LEMMA TreeNests ==
  ASSUME LoopInv, Tree
  PROVE  NestInv'
<1>1. pass' = "tree" /\ loops' = <<>>
  BY DEF LoopInv, Tree, LoopStarts, loopVars
<1>2. HeadersLead' /\ HeadersAscend' /\ BlocksBelong' /\ BlocksAreNew' /\ ParentsMeet'
  BY <1>1 DEF HeadersLead, HeadersAscend, BlocksBelong, BlocksAreNew, ParentsMeet
<1>. QED
  BY <1>1, <1>2, QuietPasses DEF NestInv

LEMMA NestStarts ==
  ASSUME LoopInit
  PROVE  NestInv
<1>1. pass = "tree" /\ loops = <<>>
  BY DEF LoopInit
<1>2. 1..Over = {}
  BY <1>1 DEF Over
<1>. QED
  BY <1>1, <1>2 DEF NestInv, HeadersLead, HeadersAscend, BlocksBelong, BlocksAreNew, ParentsMeet, BodiesAreMet, FillIsUnderway, LineLeads, LineNests

LEMMA FindNests ==
  ASSUME LoopInv, NestInv, StartFind \/ FindNone \/ FindLoop \/ FindAgain
  PROVE  NestInv'
<1>1. UNCHANGED domVars /\ pass \in {"tree", "find"} /\ pass' \in {"find", "aborted"}
  BY DEF StartFind, FindNone, FindLoop, FindAgain, Finding
<1>2. /\ Begun' = 0 /\ Over' = 0 /\ BodiesAreMet' /\ FillIsUnderway' /\ LineLeads' /\ LineNests'
  BY <1>1, QuietPasses
<1>3. Begun = 0 /\ Over = 0
  BY <1>1 DEF Begun, Over
<1>4. /\ HeadersLead /\ HeadersAscend /\ BlocksBelong /\ BlocksAreNew /\ ParentsMeet
      /\ LoopTypes /\ LoopStarts
  BY DEF NestInv, LoopInv
<1>5. /\ rpo' = rpo /\ flow' = flow /\ \A q : Latches(q)' = Latches(q)
      /\ rpo \in Seq(Visited) /\ Len(rpo) \in Nat /\ DOMAIN rpo = 1..Len(rpo) /\ Visited \subseteq Regions
  BY <1>1, StepFacts DEF domVars
<1>6. \A l \in DOMAIN loops : loops[l].parent = 0 /\ \A r \in ToSet(loops[l].blocks) : r = loops[l].header
  <2>1. 1..Begun = {} /\ \A l \in DOMAIN loops : l > Over
    BY <1>3, <1>4, LoopFields
  <2>. QED
    BY <1>1, <1>4, <2>1 DEF ParentsMeet, BlocksAreNew
<1>7. CASE StartFind \/ FindNone \/ FindAgain
  <2>1. UNCHANGED <<domVars, loops, loopOf>>
    BY <1>7 DEF StartFind, FindNone, FindAgain
  <2>2. HeadersLead' /\ Ascend' /\ BlocksBelong'
    BY <2>1, NestStays
  <2>3. BlocksAreNew' /\ ParentsMeet'
    BY <1>6, <2>1 DEF BlocksAreNew, ParentsMeet
  <2>4. pass' = "find" => \A i \in DOMAIN loops' : \E a \in DOMAIN rpo' : a < next' /\ rpo'[a] = loops'[i].header
    <3>1. CASE StartFind
      BY <1>4, <3>1 DEF StartFind, LoopStarts
    <3>2. CASE FindNone
      <4>1. pass = "find" /\ next' = next + 1 /\ next \in Nat
        BY <1>4, <3>2 DEF FindNone, Finding, LoopTypes
      <4>2. \A i \in DOMAIN loops : \E a \in DOMAIN rpo : a < next /\ rpo[a] = loops[i].header
        BY <1>4, <4>1 DEF HeadersAscend
      <4>. QED
        BY <1>5, <2>1, <4>1, <4>2
    <3>3. CASE FindAgain
      BY <3>3 DEF FindAgain
    <3>. QED
      BY <1>7, <3>1, <3>2, <3>3
  <2>. QED
    BY <1>2, <2>2, <2>3, <2>4 DEF NestInv, HeadersAscend, Ascend
<1>8. CASE FindLoop
  <2>1. PICK h : h = rpo[next]
    OBVIOUS
  <2>2. PICK x : x = [header |-> h, latches |-> Latches(h), blocks |-> <<h>>, parent |-> 0]
    OBVIOUS
  <2>3. /\ pass = "find" /\ next \in DOMAIN rpo /\ Latches(h) # {} /\ next' = next + 1 /\ next \in Nat
        /\ loops' = Append(loops, x)
    BY <1>4, <1>5, <1>8, <2>1, <2>2 DEF FindLoop, Finding, LoopTypes
  <2>4. PICK m : m = Len(loops)
    OBVIOUS
  <2>5. /\ m \in Nat /\ DOMAIN loops = 1..m /\ DOMAIN loops' = 1..(m + 1)
        /\ \A i \in 1..m : loops'[i] = loops[i]
        /\ loops'[m + 1] = x
    BY <1>4, <2>3, <2>4, AppendProperties DEF LoopTypes
  <2>6. \A i \in 1..(m + 1) : i \in 1..m \/ i = m + 1
    BY <2>5
  <2>7. /\ x.header = h /\ x.latches = Latches(h) /\ x.blocks = <<h>> /\ x.parent = 0
        /\ ToSet(x.blocks) = {h}
    BY <2>2 DEF ToSet
  <2>8. HeadersLead'
    BY <1>4, <1>5, <2>3, <2>5, <2>6, <2>7 DEF HeadersLead
  <2>9. \A i \in 1..m : \E a \in DOMAIN rpo : a < next /\ rpo[a] = loops[i].header
    BY <1>4, <2>3, <2>5 DEF HeadersAscend
  <2>10. HeadersAscend'
    <3>1. ASSUME NEW i \in 1..(m + 1), NEW j \in 1..(m + 1), i < j
          PROVE  \E a, b \in DOMAIN rpo : a < b /\ rpo[a] = loops'[i].header /\ rpo[b] = loops'[j].header
      <4>1. i \in 1..m
        BY <2>5, <3>1
      <4>2. CASE j \in 1..m
        BY <1>4, <2>5, <3>1, <4>1, <4>2 DEF HeadersAscend
      <4>3. CASE j = m + 1
        BY <2>1, <2>3, <2>5, <2>7, <2>9, <4>1, <4>3
      <4>. QED
        BY <2>6, <4>2, <4>3
    <3>2. ASSUME NEW i \in 1..(m + 1)
          PROVE  \E a \in DOMAIN rpo : a < next + 1 /\ rpo[a] = loops'[i].header
      <4>1. next < next + 1 /\ \A a \in DOMAIN rpo : a < next => a < next + 1
        BY <1>5, <2>3
      <4>. QED
        BY <2>1, <2>3, <2>5, <2>6, <2>7, <2>9, <4>1
    <3>3. \A i, j \in DOMAIN loops' :
            i < j => \E a, b \in DOMAIN rpo' : a < b /\ rpo'[a] = loops'[i].header /\ rpo'[b] = loops'[j].header
      <4>. SUFFICES ASSUME NEW i \in DOMAIN loops', NEW j \in DOMAIN loops', i < j
                    PROVE  \E a, b \in DOMAIN rpo' : a < b /\ rpo'[a] = loops'[i].header /\ rpo'[b] = loops'[j].header
        OBVIOUS
      <4>1. i \in 1..(m + 1) /\ j \in 1..(m + 1)
        BY <2>5
      <4>2. \E a, b \in DOMAIN rpo : a < b /\ rpo[a] = loops'[i].header /\ rpo[b] = loops'[j].header
        BY <3>1, <4>1
      <4>. QED
        BY <1>5, <4>2
    <3>4. \A i \in DOMAIN loops' : \E a \in DOMAIN rpo' : a < next' /\ rpo'[a] = loops'[i].header
      BY <1>5, <2>3, <2>5, <3>2
    <3>. QED
      BY <3>3, <3>4 DEF HeadersAscend
  <2>11. \A l \in 1..(m + 1) : loops'[l].parent = 0 /\ \A r \in ToSet(loops'[l].blocks) : r = loops'[l].header
    BY <1>6, <2>5, <2>6, <2>7
  <2>12. BlocksBelong' /\ BlocksAreNew' /\ ParentsMeet'
    BY <2>5, <2>11 DEF BlocksBelong, BlocksAreNew, ParentsMeet
  <2>. QED
    BY <1>2, <2>8, <2>10, <2>12 DEF NestInv
<1>. QED
  BY <1>7, <1>8

LEMMA SetToSeqsIsWhole ==
  ASSUME NEW S, IsFiniteSet(S), NEW ps \in SetToSeqs(S)
  PROVE  ToSet(ps) = S
<1>1. PICK n : n = Cardinality(S)
  OBVIOUS
<1>2. n \in Nat
  BY <1>1, FS_CardinalityType
<1>3. ps \in [1..n -> S] /\ \A i, j \in 1..n : i # j => ps[i] # ps[j]
  BY <1>1 DEF SetToSeqs
<1>4. ps \in Injection(1..n, S)
  BY <1>3 DEF Injection, IsInjective
<1>5. Cardinality(1..n) = n
  <2>1. Cardinality(1..n) = IF 1 > n THEN 0 ELSE n - 1 + 1
    BY <1>2, FS_Interval
  <2>. QED
    BY <1>2, <2>1
<1>6. ps \in Surjection(1..n, S)
  BY <1>1, <1>4, <1>5, FS_Injection
<1>7. \A t \in S : \E i \in 1..n : ps[i] = t
  BY <1>6 DEF Surjection
<1>. QED
  BY <1>3, <1>7 DEF ToSet

LEMMA ConcatIsBoth ==
  ASSUME NEW T, NEW s \in Seq(T), NEW t \in Seq(T)
  PROVE  ToSet(s \o t) = ToSet(s) \cup ToSet(t)
<1>1. Range(s \o t) = Range(s) \cup Range(t)
  BY RangeConcatenation
<1>. QED
  BY <1>1 DEF ToSet, Range

LEMMA FrontAndLast ==
  ASSUME NEW T, NEW s \in Seq(T), s # <<>>
  PROVE  ToSet(s) = ToSet(Front(s)) \cup {Last(s)}
<1>1. Len(s) \in Nat /\ Len(s) >= 1 /\ DOMAIN s = 1..Len(s) /\ \A i \in 1..Len(s) : s[i] \in T
  OBVIOUS
<1>. DEFINE n == Len(s) - 1
<1>2. n \in Nat /\ \A i \in 1..n : s[i] \in T
  BY <1>1
<1>3. Len(SubSeq(s, 1, n)) = n /\ SubSeq(s, 1, n) \in Seq(T) /\ \A j \in 1..n : SubSeq(s, 1, n)[j] = s[j]
  <2>1. /\ SubSeq(s, 1, n) \in Seq(T)
        /\ Len(SubSeq(s, 1, n)) = IF 1 <= n THEN n - 1 + 1 ELSE 0
        /\ \A j \in 1..(n - 1 + 1) : SubSeq(s, 1, n)[j] = s[1 + j - 1]
    <3>. HIDE DEF n
    <3>. QED
      BY <1>2, SubSeqProperties
  <2>. HIDE DEF n
  <2>2. n - 1 + 1 = n /\ (~(1 <= n) => n = 0) /\ \A j \in 1..n : 1 + j - 1 = j
    BY <1>2
  <2>. QED
    BY <2>1, <2>2
<1>4. \A k \in 1..Len(s) : k \in 1..n \/ k = Len(s)
  <2>1. \A m \in Nat : \A k \in 1..m : k \in 1..(m - 1) \/ k = m
    OBVIOUS
  <2>2. Len(s) \in Nat
    BY <1>1
  <2>. QED
    BY ONLY <2>1, <2>2
<1>5. Len(s) \in 1..Len(s) /\ \A k \in 1..n : k \in 1..Len(s)
  BY <1>1
<1>6. Front(s) = SubSeq(s, 1, n) /\ Last(s) = s[Len(s)]
  BY DEF Front, Last
<1>. HIDE DEF n
<1>7. DOMAIN Front(s) = 1..n /\ \A j \in 1..n : Front(s)[j] = s[j]
  BY <1>2, <1>3, <1>6
<1>8. ToSet(s) = {s[k] : k \in 1..Len(s)} /\ ToSet(Front(s)) = {s[k] : k \in 1..n}
  <2>1. ToSet(s) = {s[k] : k \in 1..Len(s)}
    BY <1>1 DEF ToSet
  <2>2. ToSet(Front(s)) = {Front(s)[k] : k \in 1..n}
    BY <1>7 DEF ToSet
  <2>. QED
    BY <1>7, <2>1, <2>2
<1>. QED
  BY <1>4, <1>5, <1>6, <1>8

(* The work of a loop starts: nothing is seen, and its latches are next.   *)
LEMMA EntryNests ==
  ASSUME LoopInv, NestInv, StartFill \/ FillNext
  PROVE  NestInv'
<1>1. /\ UNCHANGED <<domVars, loops, loopOf>> /\ UNCHANGED domVars /\ line' = line /\ pass \in {"find", "fill"}
      /\ seen' = {} /\ loops' = loops
  BY DEF StartFill, FillNext, Enter, EnterLinear
<1>2. /\ HeadersLead' /\ Ascend' /\ BlocksBelong'
      /\ \A i : NatBody(i)' = NatBody(i)
      /\ \A r, i : MetBy(r, i)' <=> MetBy(r, i)
  BY <1>1, NestStays
<1>3. /\ LoopTypes /\ line = <<>> /\ OwnersAgree
      /\ \A S : S \subseteq Visited => IsFiniteSet(S)
  BY <1>1, StepFacts DEF LineGrows
<1>4. HeadersLead /\ BlocksBelong /\ BlocksAreNew /\ ParentsMeet /\ BodiesAreMet /\ FillIsUnderway
  BY DEF NestInv
<1>5. Len(loops) \in Nat /\ DOMAIN loops = 1..Len(loops) /\ next \in Nat
  BY <1>3 DEF LoopTypes
<1>6. PICK n \in Nat :
        /\ Enter(n + 1) \/ EnterLinear(n + 1)
        /\ Begun = n /\ n <= Len(loops)
        /\ pass = "fill" => n = next /\ n \in DOMAIN loops /\ stack = <<>> /\ Over = n - 1
        /\ pass = "find" => n = 0
  <2>1. CASE StartFill
    <3>1. pass = "find" /\ Begun = 0 /\ (Enter(0 + 1) \/ EnterLinear(0 + 1)) /\ 0 <= Len(loops)
      BY <1>5, <2>1 DEF StartFill, Begun
    <3>. QED
      BY <3>1
  <2>2. CASE FillNext
    <3>1. /\ pass = "fill" /\ Begun = next /\ (Enter(next + 1) \/ EnterLinear(next + 1)) /\ next <= Len(loops)
          /\ next \in DOMAIN loops /\ stack = <<>> /\ Over = next - 1
      BY <1>3, <1>5, <2>2 DEF FillNext, Begun, LoopTypes, Over
    <3>. QED
      BY <1>5, <3>1
  <2>. QED
    BY <2>1, <2>2
<1>7. /\ Over' = n /\ Begun' \in Nat /\ Begun' >= n /\ pass' \in {"fill", "linear"}
      /\ pass' = "fill" => next' = n + 1 /\ n + 1 \in DOMAIN loops /\ stack' \in SetToSeqs(loops[n + 1].latches)
  <2>1. CASE Enter(n + 1)
    BY <1>5, <2>1 DEF Enter, Over, Begun
  <2>2. CASE EnterLinear(n + 1)
    <3>1. pass' = "linear" /\ n + 1 > Len(loops) /\ loops' = loops
      BY <1>1, <2>2 DEF EnterLinear
    <3>2. n = Len(loops)
      <4>1. n \in Nat /\ n <= Len(loops) /\ Len(loops) \in Nat
        BY <1>5, <1>6
      <4>. QED
        BY ONLY <3>1, <4>1
    <3>3. Over' = n /\ Begun' = n
      BY <3>1, <3>2 DEF Over, Begun
    <3>. QED
      BY <3>1, <3>3
  <2>. QED
    BY <1>6, <2>1, <2>2
<1>8. ASSUME NEW i \in 1..n, NEW r \in NatBody(i) PROVE MetBy(r, i)
  <2>1. pass = "fill"
    BY <1>1, <1>6, <1>8
  <2>2. CASE i \in 1..(n - 1)
    BY <1>4, <1>6, <1>8, <2>1, <2>2 DEF BodiesAreMet
  <2>3. CASE i \notin 1..(n - 1)
    <3>1. i = n /\ n = next /\ n \in DOMAIN loops /\ ToSet(stack) = {}
      <4>1. \A m \in Nat : \A k \in 1..m : k \in 1..(m - 1) \/ k = m
        OBVIOUS
      <4>2. i = n
        BY <1>8, <2>3, <4>1
      <4>3. stack = <<>>
        BY <1>6, <2>1
      <4>. QED
        BY <1>6, <2>1, <4>2, <4>3 DEF ToSet
    <3>2. /\ loops[n].latches \ {loops[n].header} \subseteq seen
          /\ \A q \in seen : MetBy(q, n) /\ Predecessors(flow, q) \ {loops[n].header} \subseteq seen
      BY <1>4, <2>1, <3>1 DEF FillIsUnderway
    <3>3. NatBody(n) \subseteq seen
      BY <1>3, <3>1, <3>2, BodyIsLeast
    <3>. QED
      BY <1>8, <3>1, <3>2, <3>3
  <2>. QED
    BY <2>2, <2>3
<1>9. BodiesAreMet'
  <2>1. \A i \in 1..Over' : \A r \in NatBody(i)' : MetBy(r, i)'
    BY <1>2, <1>7, <1>8
  <2>. QED
    BY <2>1 DEF BodiesAreMet
<1>10. BlocksAreNew'
  <2>1. ASSUME NEW l \in DOMAIN loops, l > n, NEW r \in ToSet(loops[l].blocks) PROVE r = loops[l].header
    <3>1. l > Over /\ (pass = "fill" => l # next)
      BY <1>1, <1>5, <1>6, <2>1 DEF Over
    <3>. QED
      BY <1>4, <2>1, <3>1 DEF BlocksAreNew
  <2>. QED
    BY <1>1, <1>7, <2>1 DEF BlocksAreNew
<1>11. ParentsMeet'
  <2>1. \A l \in DOMAIN loops : loops[l].parent # 0 =>
          /\ loops[l].parent \in 1..n /\ loops[l].parent # l
          /\ \E r \in ToSet(loops[l].blocks) : r \in NatBody(loops[l].parent)
    BY <1>4, <1>6 DEF ParentsMeet
  <2>2. \A k \in 1..n : k \in 1..Begun'
    BY <1>7
  <2>. QED
    BY <1>1, <1>2, <2>1, <2>2 DEF ParentsMeet
<1>12. FillIsUnderway'
  <2>. SUFFICES ASSUME pass' = "fill" PROVE FillIsUnderway'
    BY DEF FillIsUnderway
  <2>1. n + 1 \in DOMAIN loops /\ next' = n + 1
    BY <1>7
  <2>2. loops[n + 1].latches \subseteq Visited
    BY <1>3, <2>1 DEF OwnersAgree, OwnedOnce
  <2>3. ToSet(stack') = loops[n + 1].latches
    BY <1>3, <1>7, <2>2, SetToSeqsIsWhole
  <2>4. loops[n + 1].latches \ {loops[n + 1].header} \subseteq NatBody(n + 1)
    BY <1>3, <2>1, BodyFacts
  <2>5. NatBody(next)' = NatBody(n + 1)
    <3>1. flow' = flow /\ loops'[next'] = loops[n + 1]
      BY <1>1, <2>1 DEF domVars
    <3>. QED
      BY <3>1 DEF NatBody
  <2>. QED
    BY <1>1, <2>1, <2>3, <2>4, <2>5 DEF FillIsUnderway
<1>13. HeadersAscend' /\ LineLeads' /\ LineNests'
  <2>1. DOMAIN line' = {}
    BY <1>1, <1>3
  <2>. QED
    BY <1>2, <1>7, <2>1 DEF HeadersAscend, Ascend, LineLeads, LineNests
<1>. QED
  BY <1>2, <1>9, <1>10, <1>11, <1>12, <1>13 DEF NestInv

(* The work of a loop goes on within what leads to its latches.            *)
LEMMA SkipNests ==
  ASSUME LoopInv, NestInv, Skip
  PROVE  NestInv'
<1>1. /\ UNCHANGED <<domVars, pass, next, loops, loopOf, seen, line>> /\ UNCHANGED <<domVars, loops, loopOf>>
      /\ Filling /\ stack' = Front(stack) /\ Skipped(Last(stack))
  BY DEF Skip
<1>2. /\ HeadersLead' /\ Ascend' /\ BlocksBelong'
      /\ rpo' = rpo /\ flow' = flow
      /\ \A i : NatBody(i)' = NatBody(i)
      /\ \A r, i : MetBy(r, i)' <=> MetBy(r, i)
  BY <1>1, NestStays
<1>3. pass = "fill" /\ stack # <<>> /\ stack \in Seq(Visited) /\ line = <<>>
  BY <1>1, StackFacts DEF Filling, LoopInv, LoopTypes
<1>4. ToSet(stack) = ToSet(stack') \cup {Last(stack)}
  BY <1>1, <1>3, FrontAndLast
<1>5. Begun' = Begun /\ Over' = Over /\ pass' = pass /\ next' = next /\ loops' = loops /\ seen' = seen /\ line' = line
  BY <1>1 DEF Begun, Over
<1>6. HeadersAscend' /\ LineLeads' /\ LineNests'
  BY <1>2, <1>3, <1>5 DEF HeadersAscend, Ascend, LineLeads, LineNests
<1>7. BlocksAreNew'
  BY <1>5 DEF NestInv, BlocksAreNew
<1>8. ParentsMeet'
  BY <1>2, <1>5 DEF NestInv, ParentsMeet
<1>9. BodiesAreMet'
  BY <1>2, <1>5 DEF NestInv, BodiesAreMet
<1>10. NatBody(next)' = NatBody(next)
  BY <1>2, <1>5 DEF NatBody
<1>11. \A q : MetBy(q, next)' <=> MetBy(q, next)
  BY <1>1, <1>5 DEF MetBy
<1>12. FillIsUnderway'
  <2>1. FillIsUnderway
    BY DEF NestInv
  <2>2. /\ seen \subseteq NatBody(next)
        /\ ToSet(stack) \subseteq NatBody(next) \cup {loops[next].header}
        /\ loops[next].latches \ {loops[next].header} \subseteq seen \cup ToSet(stack)
        /\ \A r \in seen :
             MetBy(r, next) /\ Predecessors(flow, r) \ {loops[next].header} \subseteq seen \cup ToSet(stack)
    BY <1>3, <2>1 DEF FillIsUnderway
  <2>3. Last(stack) \in seen \/ Last(stack) = loops[next].header
    BY <1>1 DEF Skipped
  <2>4. /\ ToSet(stack') \subseteq NatBody(next) \cup {loops[next].header}
        /\ loops[next].latches \ {loops[next].header} \subseteq seen \cup ToSet(stack')
        /\ \A r \in seen : Predecessors(flow, r) \ {loops[next].header} \subseteq seen \cup ToSet(stack')
    BY ONLY <1>4, <2>2, <2>3
  <2>. QED
    BY <1>2, <1>5, <1>10, <1>11, <2>2, <2>4 DEF FillIsUnderway
<1>. QED
  BY <1>2, <1>6, <1>7, <1>8, <1>9, <1>12 DEF NestInv

LEMMA PushMeets ==
  ASSUME LoopInv, NestInv, UNCHANGED domVars, Filling, ~Skipped(Last(stack)), PushAbove(Last(stack))
  PROVE  /\ Last(stack) \in NatBody(next) /\ Last(stack) \notin seen /\ seen' = seen \cup {Last(stack)}
         /\ seen' \subseteq NatBody(next)
         /\ ToSet(stack') \subseteq NatBody(next) \cup {loops[next].header}
         /\ loops[next].latches \ {loops[next].header} \subseteq seen' \cup ToSet(stack')
         /\ \A q \in seen' : Predecessors(flow, q) \ {loops[next].header} \subseteq seen' \cup ToSet(stack')
<1>1. PICK r : r = Last(stack)
  OBVIOUS
<1>2. PICK h : h = loops[next].header
  OBVIOUS
<1>3. /\ pass = "fill" /\ next \in DOMAIN loops /\ r \in Visited /\ Front(stack) \in Seq(Visited)
      /\ stack \in Seq(Visited) /\ stack # <<>> /\ LoopTypes
  BY <1>1, StackFacts DEF Filling, LoopInv, LoopTypes
<1>4. PICK ps \in SetToSeqs(Above(r)) : stack' = Front(stack) \o ps
  BY <1>1 DEF PushAbove
<1>5. seen' = seen \cup {r} /\ r \notin seen /\ r # h
  BY <1>1, <1>2 DEF PushAbove, Skipped
<1>6. Above(r) \subseteq Visited /\ IsFiniteSet(Above(r))
  BY <1>3, StepFacts DEF Above
<1>7. ToSet(ps) = Above(r) /\ ps \in Seq(Visited)
  <2>1. ps \in Seq(Above(r))
    BY <1>6, SetToSeqsFacts
  <2>2. ps \in Seq(Visited)
    BY ONLY <1>6, <2>1
  <2>. QED
    BY <1>6, <2>2, SetToSeqsIsWhole
<1>8. ToSet(stack') = ToSet(Front(stack)) \cup Above(r) /\ ToSet(stack) = ToSet(Front(stack)) \cup {r}
  <2>1. ToSet(Front(stack) \o ps) = ToSet(Front(stack)) \cup ToSet(ps)
    BY ONLY <1>3, <1>7, ConcatIsBoth
  <2>2. ToSet(stack) = ToSet(Front(stack)) \cup {Last(stack)}
    BY ONLY <1>3, FrontAndLast
  <2>. QED
    BY <1>1, <1>4, <1>7, <2>1, <2>2
<1>9. /\ seen \subseteq NatBody(next)
      /\ ToSet(stack) \subseteq NatBody(next) \cup {h}
      /\ loops[next].latches \ {h} \subseteq seen \cup ToSet(stack)
      /\ \A q \in seen : Predecessors(flow, q) \ {h} \subseteq seen \cup ToSet(stack)
  BY <1>2, <1>3 DEF NestInv, FillIsUnderway
<1>10. r \in NatBody(next)
  BY <1>5, <1>8, <1>9
<1>11. Predecessors(flow, r) \ {h} \subseteq NatBody(next)
  BY <1>2, <1>3, <1>10, BodyFacts
<1>12. /\ Above(r) \subseteq Predecessors(flow, r) \ {h}
       /\ Predecessors(flow, r) \ {h} \subseteq Above(r) \cup seen \cup {r}
  BY <1>2 DEF Above, Skipped
<1>13. seen' \cup ToSet(stack') = seen \cup ToSet(stack) \cup Above(r)
  BY <1>5, <1>8
<1>14. \A q \in seen' : Predecessors(flow, q) \ {h} \subseteq seen' \cup ToSet(stack')
  BY <1>5, <1>8, <1>9, <1>12, <1>13
<1>15. ToSet(stack') \subseteq NatBody(next) \cup {h}
  BY <1>8, <1>9, <1>11, <1>12
<1>16. loops[next].latches \ {h} \subseteq seen' \cup ToSet(stack')
  BY <1>9, <1>13
<1>. QED
  BY <1>1, <1>2, <1>5, <1>9, <1>10, <1>14, <1>15, <1>16

(* What Include and Absorb change in the loops. *)
LEMMA IncludeFacts ==
  ASSUME LoopInv, Include
  PROVE  /\ next \in DOMAIN loops /\ DOMAIN loops' = DOMAIN loops
         /\ \A i \in DOMAIN loops :
              /\ loops'[i].header = loops[i].header /\ loops'[i].latches = loops[i].latches
              /\ loops'[i].parent = loops[i].parent
              /\ loops[i].blocks # <<>> => loops'[i].blocks # <<>> /\ loops'[i].blocks[1] = loops[i].blocks[1]
              /\ i # next => ToSet(loops'[i].blocks) = ToSet(loops[i].blocks)
         /\ ToSet(loops'[next].blocks) = ToSet(loops[next].blocks) \cup {Last(stack)}
         /\ loopOf[Last(stack)] = 0 /\ loopOf'[Last(stack)] = next
         /\ \A q \in Regions : q # Last(stack) => loopOf'[q] = loopOf[q]
<1>1. PICK r, b : r = Last(stack) /\ b = loops[next].blocks
  OBVIOUS
<1>2. /\ UNCHANGED domVars /\ Filling /\ loopOf[r] = 0
      /\ loops' = [loops EXCEPT ![next].blocks = Append(b, r)] /\ loopOf' = [loopOf EXCEPT ![r] = next]
  BY <1>1 DEF Include, Joined, Owned
<1>3. LoopTypes /\ next \in DOMAIN loops /\ r \in Regions
  BY <1>1, <1>2, StackFacts, StepFacts
<1>4. /\ loops \in Seq(Loop) /\ Len(loops) \in Nat /\ DOMAIN loops = 1..Len(loops)
      /\ loopOf \in [Regions -> 0..Len(loops)]
  BY <1>3 DEF LoopTypes
<1>5. loops[next] \in Loop /\ b \in Seq(Regions)
  <2>1. loops[next] \in Loop
    BY <1>3, <1>4
  <2>. QED
    BY ONLY <1>1, <2>1 DEF Loop
<1>6. /\ Len(Append(b, r)) = Len(b) + 1 /\ Append(b, r)[Len(b) + 1] = r
      /\ Len(b) \in Nat /\ DOMAIN b = 1..Len(b) /\ \A k \in 1..Len(b) : Append(b, r)[k] = b[k]
      /\ Append(b, r) # <<>> /\ b # <<>> => Append(b, r)[1] = b[1]
  BY ONLY <1>3, <1>5
<1>7. ToSet(Append(b, r)) = ToSet(b) \cup {r}
  BY ONLY <1>3, <1>5, <1>6 DEF ToSet
<1>8. PICK e : e = [loops[next] EXCEPT !.blocks = Append(b, r)]
  OBVIOUS
<1>9. /\ e.blocks = Append(b, r) /\ e.latches = loops[next].latches /\ e.header = loops[next].header
      /\ e.parent = loops[next].parent
  BY ONLY <1>5, <1>8 DEF Loop
<1>10. loops' = [loops EXCEPT ![next] = e]
  BY <1>1, <1>2, <1>8
<1>11. /\ DOMAIN loops' = DOMAIN loops /\ loops'[next] = e
       /\ \A i \in DOMAIN loops : i # next => loops'[i] = loops[i]
  BY ONLY <1>3, <1>4, <1>10
<1>12. loopOf'[r] = next /\ \A q \in Regions : q # r => loopOf'[q] = loopOf[q]
  BY ONLY <1>2, <1>3, <1>4
<1>13. ASSUME NEW i \in DOMAIN loops
       PROVE  /\ loops'[i].header = loops[i].header /\ loops'[i].latches = loops[i].latches
              /\ loops'[i].parent = loops[i].parent
              /\ loops[i].blocks # <<>> => loops'[i].blocks # <<>> /\ loops'[i].blocks[1] = loops[i].blocks[1]
              /\ i # next => ToSet(loops'[i].blocks) = ToSet(loops[i].blocks)
  BY <1>1, <1>6, <1>9, <1>11
<1>. QED
  BY <1>1, <1>2, <1>3, <1>7, <1>9, <1>11, <1>12, <1>13

LEMMA AbsorbFacts ==
  ASSUME LoopInv, Absorb
  PROVE  /\ next \in DOMAIN loops /\ DOMAIN loops' = DOMAIN loops
         /\ \A i \in DOMAIN loops :
              /\ loops'[i].header = loops[i].header /\ loops'[i].latches = loops[i].latches
              /\ loops'[i].blocks = loops[i].blocks
              /\ i # loopOf[Last(stack)] => loops'[i].parent = loops[i].parent
         /\ loopOf' = loopOf /\ loopOf[Last(stack)] \in DOMAIN loops
         /\ Last(stack) \in ToSet(loops[loopOf[Last(stack)]].blocks)
         /\ loops'[loopOf[Last(stack)]].parent = AdoptedBy(loopOf[Last(stack)])
<1>1. PICK l, p : l = loopOf[Last(stack)] /\ p = AdoptedBy(l)
  OBVIOUS
<1>2. /\ UNCHANGED domVars /\ loopOf' = loopOf /\ Filling /\ l # 0
      /\ loops' = [loops EXCEPT ![l].parent = p]
  BY <1>1 DEF Absorb
<1>3. LoopTypes /\ OwnersAgree /\ next \in DOMAIN loops /\ Last(stack) \in Regions
  BY <1>2, StackFacts, StepFacts
<1>4. /\ loops \in Seq(Loop) /\ Len(loops) \in Nat /\ DOMAIN loops = 1..Len(loops) /\ l \in DOMAIN loops
  BY <1>1, <1>2, <1>3 DEF LoopTypes
<1>5. loops[l] \in Loop
  BY <1>4
<1>6. PICK e : e = [loops[l] EXCEPT !.parent = p]
  OBVIOUS
<1>7. e.blocks = loops[l].blocks /\ e.latches = loops[l].latches /\ e.header = loops[l].header /\ e.parent = p
  BY ONLY <1>5, <1>6 DEF Loop
<1>8. loops' = [loops EXCEPT ![l] = e]
  BY <1>2, <1>6
<1>9. /\ DOMAIN loops' = DOMAIN loops /\ loops'[l] = e
      /\ \A i \in DOMAIN loops : i # l => loops'[i] = loops[i]
  BY ONLY <1>4, <1>8
<1>10. Last(stack) \in ToSet(loops[l].blocks)
  BY <1>1, <1>2, <1>3 DEF OwnersAgree
<1>11. ASSUME NEW i \in DOMAIN loops
       PROVE  /\ loops'[i].header = loops[i].header /\ loops'[i].latches = loops[i].latches
              /\ loops'[i].blocks = loops[i].blocks
              /\ i # l => loops'[i].parent = loops[i].parent
  BY <1>7, <1>9
<1>. QED
  BY <1>1, <1>2, <1>3, <1>4, <1>7, <1>9, <1>10, <1>11

LEMMA IncludeNests ==
  ASSUME LoopInv, NestInv, Include
  PROVE  NestInv'
<1>1. PICK r : r = Last(stack)
  OBVIOUS
<1>2. /\ UNCHANGED domVars /\ flow' = flow /\ Filling /\ ~Skipped(Last(stack)) /\ PushAbove(Last(stack))
      /\ pass' = pass /\ next' = next /\ line' = line
  BY DEF Include, domVars
<1>3. /\ pass = "fill" /\ line = <<>> /\ r \in Regions /\ LoopTypes
      /\ rpo' = rpo /\ \A q : Latches(q)' = Latches(q)
  BY <1>1, <1>2, StackFacts, StepFacts
<1>4. /\ next \in DOMAIN loops /\ DOMAIN loops' = DOMAIN loops
      /\ \A i \in DOMAIN loops :
           /\ loops'[i].header = loops[i].header /\ loops'[i].latches = loops[i].latches
           /\ loops'[i].parent = loops[i].parent
           /\ loops[i].blocks # <<>> => loops'[i].blocks # <<>> /\ loops'[i].blocks[1] = loops[i].blocks[1]
           /\ i # next => ToSet(loops'[i].blocks) = ToSet(loops[i].blocks)
      /\ ToSet(loops'[next].blocks) = ToSet(loops[next].blocks) \cup {r}
      /\ loopOf[r] = 0 /\ loopOf'[r] = next
      /\ \A q \in Regions : q # r => loopOf'[q] = loopOf[q]
  BY <1>1, IncludeFacts
<1>5. /\ r \in NatBody(next) /\ r \notin seen /\ seen' = seen \cup {r}
      /\ seen' \subseteq NatBody(next)
      /\ ToSet(stack') \subseteq NatBody(next) \cup {loops[next].header}
      /\ loops[next].latches \ {loops[next].header} \subseteq seen' \cup ToSet(stack')
      /\ \A q \in seen' : Predecessors(flow, q) \ {loops[next].header} \subseteq seen' \cup ToSet(stack')
  BY <1>1, <1>2, PushMeets
<1>6. /\ HeadersLead /\ HeadersAscend /\ BlocksBelong /\ BlocksAreNew /\ ParentsMeet /\ BodiesAreMet /\ FillIsUnderway
  BY DEF NestInv
<1>7. Begun' = next /\ Over' = next - 1 /\ Begun = next /\ Over = next - 1
  BY <1>2, <1>3 DEF Begun, Over
<1>8. \A i \in DOMAIN loops : NatBody(i)' = NatBody(i)
  BY <1>2, <1>4, BodyStays
<1>9. DOMAIN loops = 1..Len(loops) /\ Len(loops) \in Nat /\ next \in Nat /\ next \in 1..Len(loops)
  BY <1>3, <1>4 DEF LoopTypes
<1>10. ASSUME NEW q \in Regions, q # r, NEW i \in Nat PROVE MetBy(q, i)' <=> MetBy(q, i)
  <2>1. loopOf'[q] = loopOf[q] /\ (loopOf[q] # 0 => loopOf[q] \in DOMAIN loops)
    BY <1>3, <1>4, <1>9, <1>10 DEF LoopTypes
  <2>2. loopOf[q] # 0 => loops'[loopOf[q]].parent = loops[loopOf[q]].parent
    BY <1>4, <2>1
  <2>. QED
    BY <2>1, <2>2 DEF MetBy
<1>11. ASSUME NEW i \in 1..(next - 1) PROVE r \notin NatBody(i)
  BY <1>4, <1>6, <1>7, <1>11 DEF BodiesAreMet, MetBy
<1>12. HeadersLead'
  BY <1>3, <1>4, <1>6 DEF HeadersLead
<1>13. HeadersAscend' /\ LineLeads' /\ LineNests'
  BY <1>2, <1>3, <1>4, <1>6 DEF HeadersAscend, LineLeads, LineNests
<1>14. BlocksBelong'
  <2>1. ASSUME NEW l \in DOMAIN loops, NEW q \in ToSet(loops'[l].blocks), q # loops[l].header
        PROVE  q \in NatBody(l) /\ \A i \in 1..(l - 1) : q \notin NatBody(i)
    <3>1. CASE q \in ToSet(loops[l].blocks)
      BY <1>6, <2>1, <3>1 DEF BlocksBelong
    <3>2. CASE q \notin ToSet(loops[l].blocks)
      <4>1. l = next /\ q = r
        BY <1>4, <2>1, <3>2
      <4>. QED
        BY <1>5, <1>11, <4>1
    <3>. QED
      BY <3>1, <3>2
  <2>2. \A l \in DOMAIN loops : \A i \in 1..(l - 1) : i \in DOMAIN loops
    BY <1>9
  <2>. QED
    BY <1>4, <1>8, <2>1, <2>2 DEF BlocksBelong
<1>15. BlocksAreNew'
  <2>1. ASSUME NEW l \in DOMAIN loops, l > next - 1, NEW q \in ToSet(loops'[l].blocks)
        PROVE  q = loops[l].header \/ (l = next /\ q \in seen')
    <3>1. CASE q \in ToSet(loops[l].blocks)
      BY <1>5, <1>6, <1>7, <2>1, <3>1 DEF BlocksAreNew
    <3>2. CASE q \notin ToSet(loops[l].blocks)
      BY <1>4, <1>5, <2>1, <3>2
    <3>. QED
      BY <3>1, <3>2
  <2>. QED
    BY <1>2, <1>3, <1>4, <1>7, <2>1 DEF BlocksAreNew
<1>16. ParentsMeet'
  <2>1. ASSUME NEW l \in DOMAIN loops, loops[l].parent # 0
        PROVE  /\ loops[l].parent \in 1..next /\ loops[l].parent # l
               /\ \E q \in ToSet(loops'[l].blocks) : q \in NatBody(loops[l].parent)
    BY <1>4, <1>6, <1>7, <2>1 DEF ParentsMeet
  <2>2. \A k \in 1..next : k \in DOMAIN loops
    BY <1>9
  <2>. QED
    BY <1>4, <1>7, <1>8, <2>1, <2>2 DEF ParentsMeet
<1>17. BodiesAreMet'
  <2>1. ASSUME NEW i \in 1..(next - 1), NEW q \in NatBody(i) PROVE MetBy(q, i)'
    <3>1. MetBy(q, i) /\ q # r /\ i \in DOMAIN loops /\ i \in Nat
      BY <1>6, <1>7, <1>9, <1>11, <2>1 DEF BodiesAreMet
    <3>2. q \in Regions
      BY <1>3, <2>1, <3>1, BodyFacts
    <3>. QED
      BY <1>10, <3>1, <3>2
  <2>2. \A i \in 1..(next - 1) : i \in DOMAIN loops
    BY <1>9
  <2>. QED
    BY <1>7, <1>8, <2>1, <2>2 DEF BodiesAreMet
<1>18. FillIsUnderway'
  <2>1. NatBody(next)' = NatBody(next)
    BY <1>2, <1>4 DEF NatBody
  <2>2. ASSUME NEW q \in seen' PROVE MetBy(q, next)'
    <3>1. CASE q = r
      BY <1>2, <1>4, <1>9, <3>1 DEF MetBy
    <3>2. CASE q # r
      <4>1. q \in seen /\ MetBy(q, next) /\ q \in Regions
        <5>1. q \in seen /\ MetBy(q, next)
          BY <1>3, <1>5, <1>6, <2>2, <3>2 DEF FillIsUnderway
        <5>. QED
          BY <1>3, <1>4, <1>5, <5>1, BodyFacts
      <4>2. loopOf'[q] = loopOf[q] /\ (loopOf[q] # 0 => loopOf[q] \in DOMAIN loops)
        BY <1>3, <1>4, <1>9, <3>2, <4>1 DEF LoopTypes
      <4>. QED
        BY <1>2, <1>4, <4>1, <4>2 DEF MetBy
    <3>. QED
      BY <3>1, <3>2
  <2>. QED
    BY <1>2, <1>4, <1>5, <2>1, <2>2 DEF FillIsUnderway
<1>. QED
  BY <1>12, <1>13, <1>14, <1>15, <1>16, <1>17, <1>18 DEF NestInv

LEMMA AbsorbNests ==
  ASSUME LoopInv, NestInv, Absorb
  PROVE  NestInv'
<1>1. PICK r, m : r = Last(stack) /\ m = loopOf[r]
  OBVIOUS
<1>2. /\ UNCHANGED domVars /\ flow' = flow /\ Filling /\ ~Skipped(Last(stack)) /\ PushAbove(Last(stack))
      /\ pass' = pass /\ next' = next /\ line' = line
  BY DEF Absorb, domVars
<1>3. /\ pass = "fill" /\ line = <<>> /\ r \in Regions /\ LoopTypes
      /\ rpo' = rpo /\ \A q : Latches(q)' = Latches(q)
  BY <1>1, <1>2, StackFacts, StepFacts
<1>4. /\ next \in DOMAIN loops /\ DOMAIN loops' = DOMAIN loops
      /\ \A i \in DOMAIN loops :
           /\ loops'[i].header = loops[i].header /\ loops'[i].latches = loops[i].latches
           /\ loops'[i].blocks = loops[i].blocks
           /\ i # m => loops'[i].parent = loops[i].parent
      /\ loopOf' = loopOf /\ m \in DOMAIN loops /\ r \in ToSet(loops[m].blocks)
      /\ loops'[m].parent = AdoptedBy(m)
  BY <1>1, AbsorbFacts
<1>5. /\ r \in NatBody(next) /\ r \notin seen /\ seen' = seen \cup {r}
      /\ seen' \subseteq NatBody(next)
      /\ ToSet(stack') \subseteq NatBody(next) \cup {loops[next].header}
      /\ loops[next].latches \ {loops[next].header} \subseteq seen' \cup ToSet(stack')
      /\ \A q \in seen' : Predecessors(flow, q) \ {loops[next].header} \subseteq seen' \cup ToSet(stack')
  BY <1>1, <1>2, PushMeets
<1>6. /\ HeadersLead /\ HeadersAscend /\ BlocksBelong /\ BlocksAreNew /\ ParentsMeet /\ BodiesAreMet /\ FillIsUnderway
  BY DEF NestInv
<1>7. Begun' = next /\ Over' = next - 1 /\ Begun = next /\ Over = next - 1
  BY <1>2, <1>3 DEF Begun, Over
<1>8. \A i \in DOMAIN loops : NatBody(i)' = NatBody(i)
  BY <1>2, <1>4, BodyStays
<1>9. DOMAIN loops = 1..Len(loops) /\ Len(loops) \in Nat /\ next \in Nat /\ next \in 1..next /\ next > next - 1
  BY <1>3, <1>4 DEF LoopTypes
<1>10. m # next
  <2>1. r # loops[next].header
    BY <1>1, <1>2 DEF Skipped
  <2>. QED
    BY <1>4, <1>5, <1>6, <1>7, <1>9, <2>1 DEF BlocksAreNew
<1>11. /\ loops[m].parent = 0 => loops'[m].parent = next
       /\ loops[m].parent # 0 => loops'[m].parent = loops[m].parent
  BY <1>4 DEF AdoptedBy
<1>12. \A l \in DOMAIN loops : loops[l].parent # 0 => loops'[l].parent = loops[l].parent
  BY <1>4, <1>11
<1>13. ASSUME NEW q, NEW i, MetBy(q, i), q \in Regions PROVE MetBy(q, i)'
  <2>1. loopOf[q] # 0 /\ loopOf[q] \in DOMAIN loops
    BY <1>3, <1>9, <1>13 DEF LoopTypes, MetBy
  <2>2. loopOf[q] = i \/ (loops[loopOf[q]].parent \in 1..i /\ loops[loopOf[q]].parent # 0)
    BY <1>13 DEF MetBy
  <2>3. loopOf[q] = i \/ loops'[loopOf[q]].parent \in 1..i
    BY <1>12, <2>1, <2>2
  <2>. QED
    BY <1>4, <2>1, <2>3 DEF MetBy
<1>14. HeadersLead'
  BY <1>3, <1>4, <1>6 DEF HeadersLead
<1>15. HeadersAscend' /\ LineLeads' /\ LineNests'
  BY <1>2, <1>3, <1>4, <1>6 DEF HeadersAscend, LineLeads, LineNests
<1>16. BlocksBelong'
  <2>1. \A l \in DOMAIN loops : \A i \in 1..(l - 1) : i \in DOMAIN loops
    BY <1>9
  <2>. QED
    BY <1>4, <1>6, <1>8, <2>1 DEF BlocksBelong
<1>17. BlocksAreNew'
  BY <1>2, <1>4, <1>5, <1>6, <1>7 DEF BlocksAreNew
<1>18. ParentsMeet'
  <2>1. ASSUME NEW l \in DOMAIN loops, loops'[l].parent # 0
        PROVE  /\ loops'[l].parent \in 1..next /\ loops'[l].parent # l
               /\ \E q \in ToSet(loops[l].blocks) : q \in NatBody(loops'[l].parent)
    <3>1. CASE loops[l].parent # 0
      BY <1>6, <1>7, <1>12, <2>1, <3>1 DEF ParentsMeet
    <3>2. CASE loops[l].parent = 0
      <4>1. l = m /\ loops'[l].parent = next
        BY <1>4, <1>11, <2>1, <3>2
      <4>. QED
        BY <1>4, <1>5, <1>9, <1>10, <4>1
    <3>. QED
      BY <3>1, <3>2
  <2>2. \A k \in 1..next : k \in DOMAIN loops
    BY <1>4, <1>9
  <2>. QED
    BY <1>4, <1>7, <1>8, <2>1, <2>2 DEF ParentsMeet
<1>19. BodiesAreMet'
  <2>1. ASSUME NEW i \in 1..(next - 1), NEW q \in NatBody(i) PROVE MetBy(q, i)'
    <3>1. MetBy(q, i) /\ i \in DOMAIN loops
      BY <1>4, <1>6, <1>7, <1>9, <2>1 DEF BodiesAreMet
    <3>2. q \in Regions
      BY <1>3, <2>1, <3>1, BodyFacts
    <3>. QED
      BY <1>13, <3>1, <3>2
  <2>2. \A i \in 1..(next - 1) : i \in DOMAIN loops
    BY <1>4, <1>9
  <2>. QED
    BY <1>7, <1>8, <2>1, <2>2 DEF BodiesAreMet
<1>20. FillIsUnderway'
  <2>1. NatBody(next)' = NatBody(next)
    BY <1>2, <1>4 DEF NatBody
  <2>2. ASSUME NEW q \in seen' PROVE loopOf'[q] # 0 /\ (loopOf'[q] = next \/ loops'[loopOf'[q]].parent \in 1..next)
    <3>1. CASE q = r
      <4>1. loops[m].parent # 0 => loops[m].parent \in 1..next
        BY <1>4, <1>6, <1>7 DEF ParentsMeet
      <4>2. loops'[m].parent \in 1..next
        BY <1>9, <1>11, <4>1
      <4>3. loopOf'[q] = m /\ m # 0
        BY <1>1, <1>4, <1>9, <3>1
      <4>. QED
        BY <4>2, <4>3
    <3>2. CASE q # r
      <4>1. q \in seen /\ MetBy(q, next)
        BY <1>3, <1>5, <1>6, <2>2, <3>2 DEF FillIsUnderway
      <4>2. q \in Regions
        BY <1>3, <1>4, <1>5, <2>2, BodyFacts
      <4>3. loopOf[q] # 0 /\ loopOf[q] \in DOMAIN loops
        BY <1>3, <1>9, <4>1, <4>2 DEF LoopTypes, MetBy
      <4>4. loopOf[q] = next \/ (loops[loopOf[q]].parent \in 1..next /\ loops[loopOf[q]].parent # 0)
        BY <4>1 DEF MetBy
      <4>. QED
        BY <1>4, <1>12, <4>3, <4>4
    <3>. QED
      BY <3>1, <3>2
  <2>3. \A q \in seen' : MetBy(q, next)'
    BY <1>2, <2>2 DEF MetBy
  <2>. QED
    BY <1>2, <1>4, <1>5, <2>1, <2>3 DEF FillIsUnderway
<1>. QED
  BY <1>14, <1>15, <1>16, <1>17, <1>18, <1>19, <1>20 DEF NestInv

-----------------------------------------------------------------------------
(* The loops of a true tree. *)
TrueNest == LoopInv /\ NestInv /\ WalkOrder /\ DominatorsAreTrue /\ Built

LEMMA HeaderFacts ==
  ASSUME LoopInv, HeadersLead, NEW i \in DOMAIN loops
  PROVE  /\ loops[i].header \in ToSet(loops[i].blocks) /\ loopOf[loops[i].header] = i
         /\ loops[i].header \in Visited /\ loops[i].latches \subseteq Visited
         /\ i \in Nat /\ i # 0
<1>1. OwnersAgree /\ LoopTypes
  BY DEF LoopInv
<1>2. loops[i].blocks \in Seq(Regions) /\ loops[i].header \in Regions /\ i \in Nat /\ i # 0
  BY <1>1, LoopFields
<1>3. 1 \in DOMAIN loops[i].blocks /\ loops[i].blocks[1] = loops[i].header
  <2>1. loops[i].blocks # <<>> /\ loops[i].blocks[1] = loops[i].header
    BY DEF HeadersLead
  <2>. QED
    BY <1>2, <2>1
<1>4. loops[i].header \in ToSet(loops[i].blocks)
  BY <1>3 DEF ToSet
<1>5. OwnedOnce(i)
  BY <1>1 DEF OwnersAgree
<1>6. loopOf[loops[i].header] = i /\ loops[i].latches \subseteq Visited
  BY <1>4, <1>5 DEF OwnedOnce
<1>7. loops[i].header \in Visited
  BY <1>1, <1>2, <1>6 DEF OwnersAgree
<1>. QED
  BY <1>2, <1>4, <1>6, <1>7

(* A header dominates what leads to its latches, and that is not the end.  *)
LEMMA HeaderDominates ==
  ASSUME TrueNest, NEW i \in DOMAIN loops, NEW r \in NatBody(i)
  PROVE  /\ r \in Visited /\ r \in Regions /\ r # loops[i].header /\ r # End
         /\ TrulyDominates(flow, loops[i].header, r)
<1>1. LoopInv /\ DomInv /\ LoopTypes /\ HeadersLead /\ Built /\ DominatorsAreTrue
  BY DEF TrueNest, LoopInv, NestInv
<1>2. PICK h : h = loops[i].header
  OBVIOUS
<1>3. h \in Visited /\ loops[i].latches \subseteq Visited /\ loops[i].latches = Latches(h)
  BY <1>1, <1>2, HeaderFacts DEF HeadersLead
<1>4. TypeOK /\ Visited \subseteq Regions /\ flow \in Flows /\ \A q \in Visited : Predecessors(flow, q) \subseteq Visited
  BY <1>1, KnownPredecessors, BuiltFacts DEF WalkInv, TypeOK
<1>. DEFINE C == {q \in Visited : q # h /\ q # End /\ TrulyDominates(flow, h, q)}
<1>5. ASSUME NEW q, NEW u \in Predecessors(flow, q) PROVE u # End
  <2>1. GoesTo(flow, u, q)
    BY <1>5 DEF Predecessors
  <2>. QED
    BY <1>4, <2>1, EndLeadsNowhere
<1>6. loops[i].latches \ {h} \subseteq C
  <2>1. ASSUME NEW p \in Latches(h), p # h PROVE p \in C
    <3>1. p \in Predecessors(flow, h) /\ Dominates(h, p) /\ p \in Visited
      BY <1>3, <2>1 DEF Latches
    <3>2. TrulyDominates(flow, h, p)
      BY <1>1, <1>3, <3>1 DEF DominatorsAreTrue
    <3>. QED
      BY <1>5, <2>1, <3>1, <3>2
  <2>. QED
    BY <1>3, <2>1
<1>7. ASSUME NEW q \in C, NEW u \in Predecessors(flow, q), u # h PROVE u \in C
  <2>1. GoesTo(flow, u, q) /\ u \in Visited /\ q \in Regions /\ u # End
    BY <1>4, <1>5, <1>7 DEF Predecessors
  <2>2. u = h \/ TrulyDominates(flow, h, u)
    BY <1>7, <2>1, DominatorOfEdge
  <2>. QED
    BY <1>7, <2>1, <2>2
<1>8. NatBody(i) \subseteq C
  <2>. HIDE DEF C
  <2>1. \A q \in C \cap Regions : Predecessors(flow, q) \ {loops[i].header} \subseteq C
    BY <1>2, <1>7
  <2>. QED
    BY <1>1, <1>2, <1>6, <2>1, BodyIsLeast
<1>. QED
  BY <1>2, <1>4, <1>8

(* A loop that has the header of another one comes after it.               *)
LEMMA InnerIsBefore ==
  ASSUME TrueNest, NEW i \in DOMAIN loops, NEW l \in DOMAIN loops, loops[l].header \in NatBody(i)
  PROVE  l < i
<1>1. LoopTypes /\ HeadersAscend /\ DominatedLeaveFirst /\ DomInv
  BY DEF TrueNest, LoopInv, NestInv, WalkOrder
<1>2. TrulyDominates(flow, loops[i].header, loops[l].header) /\ loops[l].header # loops[i].header
  BY HeaderDominates
<1>. SUFFICES ASSUME i < l PROVE FALSE
  <2>1. i \in Nat /\ l \in Nat /\ l # i
    BY <1>1, <1>2, LoopFields
  <2>. QED
    BY <2>1
<1>3. PICK a \in DOMAIN rpo, b \in DOMAIN rpo : a < b /\ rpo[a] = loops[i].header /\ rpo[b] = loops[l].header
  BY <1>1 DEF HeadersAscend
<1>4. b < a
  BY <1>1, <1>2, <1>3 DEF DominatedLeaveFirst
<1>5. a \in Nat /\ b \in Nat
  BY <1>1, VisitedIsFinite
<1>. QED
  BY <1>3, <1>4, <1>5

(* What is entered by its header only. *)
LEMMA BodyIsEntered ==
  ASSUME TrueNest, NEW i \in DOMAIN loops, NEW d, d \notin NatBody(i), d # loops[i].header,
         NEW r \in NatBody(i), TrulyDominates(flow, d, r)
  PROVE  TrulyDominates(flow, d, loops[i].header)
<1>1. DomInv /\ LoopTypes /\ Built
  BY DEF TrueNest, LoopInv
<1>2. PICK h, B : h = loops[i].header /\ B = NatBody(i) \cup {h}
  OBVIOUS
<1>3. Visited = ReachedWithout(flow, {}) /\ flow \in Flows /\ Visited \subseteq Regions
  BY <1>1, BuiltFacts, WalkedFacts DEF TypeOK
<1>4. ASSUME NEW s \in B, s # h, NEW u \in ReachedWithout(flow, {}), GoesTo(flow, u, s) PROVE u \in B
  <2>1. s \in NatBody(i) /\ s # End /\ u \in Regions
    BY <1>2, <1>3, <1>4, HeaderDominates
  <2>2. flow[u].kind # "ret"
    <3>. SUFFICES ASSUME flow[u].kind = "ret" PROVE FALSE
      OBVIOUS
    <3>1. flow[u] \in Terminators \cup {EndTerminator}
      BY <1>3, <2>1 DEF Flows
    <3>2. flow[u] = [kind |-> "ret", to |-> <<End>>]
      BY <3>1 DEF Terminators, EndTerminator
    <3>3. \A k \in DOMAIN flow[u].to : flow[u].to[k] = End
      BY <3>2
    <3>. QED
      BY <1>4, <2>1, <3>3 DEF GoesTo
  <2>3. u \in Predecessors(flow, s)
    BY <1>4, <2>1, <2>2 DEF Predecessors
  <2>4. Predecessors(flow, s) \ {h} \subseteq NatBody(i)
    BY <1>1, <1>2, <2>1, BodyFacts
  <2>. QED
    BY <1>2, <2>3, <2>4
<1>5. r \in B /\ r \in ReachedWithout(flow, {}) /\ d \notin B
  BY <1>2, <1>3, HeaderDominates
<1>. QED
  BY <1>2, <1>4, <1>5, DominatorIsAbove

(* Of two loops that share a region the second one has the header of the   *)
(* first one.                                                              *)
LEMMA SharedIsInner ==
  ASSUME TrueNest, NEW i \in DOMAIN loops, NEW j \in DOMAIN loops, i < j,
         NEW r \in NatBody(i), r \in NatBody(j)
  PROVE  loops[i].header \in NatBody(j)
<1>. SUFFICES ASSUME loops[i].header \notin NatBody(j) PROVE FALSE
  OBVIOUS
<1>1. LoopInv /\ DomInv /\ HeadersLead /\ LoopTypes /\ Built
  BY DEF TrueNest, LoopInv, NestInv
<1>2. /\ i \in Nat /\ j \in Nat /\ i # j /\ loops[i].header # loops[j].header
      /\ loops[i].header \in Visited
  <2>1. loopOf[loops[i].header] = i /\ loopOf[loops[j].header] = j /\ i \in Nat /\ j \in Nat /\ loops[i].header \in Visited
    BY <1>1, HeaderFacts
  <2>. QED
    BY <2>1
<1>3. TrulyDominates(flow, loops[i].header, r) /\ TrulyDominates(flow, loops[j].header, r)
  BY HeaderDominates
<1>4. loops[j].header \notin NatBody(i)
  <2>. SUFFICES ASSUME loops[j].header \in NatBody(i) PROVE FALSE
    OBVIOUS
  <2>1. j < i
    BY InnerIsBefore
  <2>. QED
    BY <1>2, <2>1
<1>5. TrulyDominates(flow, loops[i].header, loops[j].header)
  BY <1>2, <1>3, BodyIsEntered
<1>6. TrulyDominates(flow, loops[j].header, loops[i].header)
  BY <1>2, <1>3, <1>4, BodyIsEntered
<1>7. loops[i].header \in ReachedWithout(flow, {})
  BY <1>1, <1>2, BuiltFacts, WalkedFacts
<1>. QED
  BY <1>2, <1>5, <1>6, <1>7, DominationIsAntisymmetric

(* A loop that has the header of another one has all of it.                *)
LEMMA InnerIsInside ==
  ASSUME TrueNest, NEW i \in DOMAIN loops, NEW l \in DOMAIN loops, loops[l].header \in NatBody(i)
  PROVE  NatBody(l) \subseteq NatBody(i)
<1>1. LoopTypes /\ HeadersLead /\ LoopInv
  BY DEF TrueNest, LoopInv, NestInv
<1>. DEFINE C == NatBody(i) \cap NatBody(l)
<1>2. loops[i].header \notin NatBody(l)
  <2>. SUFFICES ASSUME loops[i].header \in NatBody(l) PROVE FALSE
    OBVIOUS
  <2>1. i < l /\ l < i
    BY InnerIsBefore
  <2>2. i \in Nat /\ l \in Nat
    BY <1>1, LoopFields
  <2>. QED
    BY <2>1, <2>2
<1>3. \A q \in NatBody(i) : Predecessors(flow, q) \ {loops[i].header} \subseteq NatBody(i)
  BY <1>1, BodyFacts
<1>4. /\ \A q \in NatBody(l) : Predecessors(flow, q) \ {loops[l].header} \subseteq NatBody(l)
      /\ loops[l].latches \ {loops[l].header} \subseteq NatBody(l)
  BY <1>1, BodyFacts
<1>5. loops[l].latches \subseteq Predecessors(flow, loops[l].header)
  BY <1>1 DEF HeadersLead, Latches
<1>6. loops[l].latches \ {loops[l].header} \subseteq C
  BY <1>2, <1>3, <1>4, <1>5
<1>7. \A q \in C \cap Regions : Predecessors(flow, q) \ {loops[l].header} \subseteq C
  BY <1>2, <1>3, <1>4
<1>8. NatBody(l) \subseteq C
  <2>. HIDE DEF C
  <2>. QED
    BY <1>1, <1>6, <1>7, BodyIsLeast
<1>. QED
  BY <1>8

-----------------------------------------------------------------------------
(* The linear order. *)
LEMMA EmitLeads ==
  ASSUME LoopInv, HeadersLead, NEW q \in Visited, NEW k \in DOMAIN Emit(q)
  PROVE  /\ q \notin seen /\ k \in Nat /\ 1 <= k /\ 1 \in DOMAIN Emit(q)
         /\ loopOf[q] = 0 => Emit(q)[k] = q
         /\ loopOf[q] # 0 =>
              /\ loopOf[q] \in DOMAIN loops /\ loopOf[Emit(q)[k]] = loopOf[q]
              /\ Emit(q)[k] \in ToSet(loops[loopOf[q]].blocks)
              /\ Emit(q)[1] = loops[loopOf[q]].header /\ q \in ToSet(loops[loopOf[q]].blocks)
<1>1. OwnersAgree /\ LoopTypes /\ q \in Regions
  BY VisitedIsFinite DEF LoopInv
<1>2. q \notin seen
  <2>. SUFFICES ASSUME q \in seen PROVE FALSE
    OBVIOUS
  <2>1. Emit(q) = <<>>
    BY DEF Emit
  <2>. QED
    BY <2>1
<1>3. CASE loopOf[q] = 0
  <2>1. Emit(q) = <<q>>
    BY <1>2, <1>3 DEF Emit
  <2>2. k = 1
    BY <2>1
  <2>. QED
    BY <1>2, <1>3, <2>1, <2>2
<1>4. CASE loopOf[q] # 0
  <2>1. PICK l : l = loopOf[q]
    OBVIOUS
  <2>2. Emit(q) = loops[l].blocks
    BY <1>2, <1>4, <2>1 DEF Emit
  <2>3. l \in DOMAIN loops
    BY <1>1, <1>4, <2>1 DEF LoopTypes
  <2>4. loops[l].blocks \in Seq(Regions) /\ loops[l].blocks # <<>> /\ loops[l].blocks[1] = loops[l].header
    BY <1>1, <2>3, LoopFields DEF HeadersLead
  <2>5. k \in Nat /\ 1 <= k /\ 1 \in DOMAIN Emit(q)
    BY <2>2, <2>4
  <2>6. Emit(q)[k] \in ToSet(loops[l].blocks)
    BY <2>2 DEF ToSet
  <2>7. OwnedOnce(l) /\ q \in ToSet(loops[l].blocks)
    BY <1>1, <1>4, <2>1, <2>3 DEF OwnersAgree
  <2>. QED
    BY <1>2, <1>4, <2>1, <2>2, <2>3, <2>4, <2>5, <2>6, <2>7 DEF OwnedOnce
<1>. QED
  BY <1>3, <1>4

LEMMA EmittedIsNested ==
  ASSUME TrueNest, pass = "linear", next \in DOMAIN rpo, NEW i \in DOMAIN loops,
         NEW k \in DOMAIN Emit(rpo[next]), Emit(rpo[next])[k] \in NatBody(i)
  PROVE  loops[i].header \in seen \/ loops[i].header = Emit(rpo[next])[1]
<1>1. PICK q, x : q = rpo[next] /\ x = Emit(rpo[next])[k]
  OBVIOUS
<1>2. /\ LoopInv /\ HeadersLead /\ HeadersAscend /\ BlocksBelong /\ BodiesAreMet /\ DominatedLeaveFirst
      /\ DomInv /\ LoopTypes /\ OwnersAgree /\ LineGrows
  BY DEF TrueNest, LoopInv, NestInv, WalkOrder
<1>3. rpo \in Seq(Visited) /\ Len(rpo) \in Nat /\ DOMAIN rpo = 1..Len(rpo) /\ Visited \subseteq Regions
  BY <1>2, VisitedIsFinite
<1>4. q \in Visited
  BY <1>1, <1>3
<1>5. /\ q \notin seen
      /\ loopOf[q] = 0 => x = q
      /\ loopOf[q] # 0 =>
           /\ loopOf[q] \in DOMAIN loops /\ loopOf[x] = loopOf[q]
           /\ x \in ToSet(loops[loopOf[q]].blocks)
           /\ Emit(q)[1] = loops[loopOf[q]].header /\ q \in ToSet(loops[loopOf[q]].blocks)
  BY <1>1, <1>2, <1>4, EmitLeads
<1>6. x \in NatBody(i) /\ MetBy(x, i)
  <2>1. i \in 1..Over
    BY <1>2, LoopFields DEF Over
  <2>. QED
    BY <1>1, <1>2, <2>1 DEF BodiesAreMet
<1>7. loopOf[q] # 0
  BY <1>5, <1>6 DEF MetBy
<1>8. PICK l \in DOMAIN loops : l = loopOf[q]
  BY <1>5, <1>7
<1>9. CASE i = l
  BY <1>1, <1>5, <1>7, <1>8, <1>9
<1>10. CASE i # l
  <2>1. i \in Nat /\ l \in Nat
    BY <1>2, LoopFields
  <2>2. loops[l].header \in NatBody(i)
    <3>1. CASE x = loops[l].header
      BY <1>6, <3>1
    <3>2. CASE x # loops[l].header
      <4>1. x \in NatBody(l) /\ \A j \in 1..(l - 1) : x \notin NatBody(j)
        BY <1>2, <1>5, <1>7, <1>8, <3>2 DEF BlocksBelong
      <4>2. i \notin 1..(l - 1) /\ i >= 1
        BY <1>2, <1>6, <4>1, LoopFields
      <4>3. l < i
        BY <1>10, <2>1, <4>2
      <4>. QED
        BY <1>6, <4>1, <4>3, SharedIsInner
    <3>. QED
      BY <3>1, <3>2
  <2>3. l < i
    BY <2>2, InnerIsBefore
  <2>4. PICK a \in DOMAIN rpo, b \in DOMAIN rpo : a < b /\ rpo[a] = loops[l].header /\ rpo[b] = loops[i].header
    BY <1>2, <2>3 DEF HeadersAscend
  <2>5. \A c \in DOMAIN rpo : rpo[c] = loops[l].header => c < b
    BY <1>2, <2>2, <2>4, HeaderDominates DEF DominatedLeaveFirst
  <2>6. q = loops[l].header
    <3>. SUFFICES ASSUME q # loops[l].header PROVE FALSE
      OBVIOUS
    <3>1. q \in NatBody(l)
      BY <1>2, <1>5, <1>7, <1>8 DEF BlocksBelong
    <3>2. next < a
      BY <1>1, <1>2, <2>4, <3>1, HeaderDominates DEF DominatedLeaveFirst
    <3>3. rpo[a] \in seen
      BY <1>2, <1>3, <2>4, <3>2 DEF LineGrows
    <3>4. loopOf[rpo[a]] = l
      BY <1>2, <2>4, HeaderFacts
    <3>5. ToSet(loops[l].blocks) \subseteq seen
      BY <1>2, <1>7, <1>8, <3>3, <3>4 DEF LineGrows
    <3>. QED
      BY <1>5, <1>7, <1>8, <3>5
  <2>7. b > next
    BY <1>1, <1>3, <2>4, <2>5, <2>6
  <2>8. rpo[b] \in seen
    BY <1>2, <2>4, <2>7 DEF LineGrows
  <2>. QED
    BY <2>4, <2>8
<1>. QED
  BY <1>9, <1>10

LEMMA LinearNests ==
  ASSUME LoopInv, NestInv, WalkOrder, LinearRound \/ LinearDone
  PROVE  NestInv'
<1>1. /\ UNCHANGED <<domVars, loops, loopOf>> /\ UNCHANGED domVars /\ loops' = loops /\ loopOf' = loopOf
      /\ pass = "linear" /\ pass' \in {"linear", "linearized"}
  BY DEF LinearRound, LinearDone
<1>2. /\ HeadersLead' /\ Ascend' /\ BlocksBelong'
      /\ \A i : NatBody(i)' = NatBody(i)
      /\ \A r, i : MetBy(r, i)' <=> MetBy(r, i)
  BY <1>1, NestStays
<1>3. LoopTypes /\ LineGrows /\ Built /\ DomInv
  BY <1>1 DEF LoopInv, LoopTypes
<1>4. /\ HeadersLead /\ BlocksAreNew /\ ParentsMeet /\ BodiesAreMet /\ LineLeads /\ LineNests
  BY DEF NestInv
<1>5. Begun' = Begun /\ Over' = Over /\ Over = Len(loops) /\ pass' # "fill" /\ pass' # "find"
  BY <1>1 DEF Begun, Over
<1>6. HeadersAscend' /\ FillIsUnderway' /\ ParentsMeet' /\ BodiesAreMet'
  <2>1. HeadersAscend' /\ FillIsUnderway'
    BY <1>2, <1>5 DEF HeadersAscend, Ascend, FillIsUnderway
  <2>2. ParentsMeet'
    BY <1>1, <1>2, <1>4, <1>5 DEF ParentsMeet
  <2>3. BodiesAreMet'
    BY <1>1, <1>2, <1>4, <1>5 DEF BodiesAreMet
  <2>. QED
    BY <2>1, <2>2, <2>3
<1>7. BlocksAreNew'
  <2>1. \A l \in DOMAIN loops : ~(l > Len(loops))
    BY <1>3, LoopFields
  <2>. QED
    BY <1>1, <1>5, <2>1 DEF BlocksAreNew
<1>8. DominatorsAreTrue' <=> DominatorsAreTrue
  BY <1>1 DEF domVars, DominatorsAreTrue, Built, Dominates, Visited
<1>9. CASE LinearDone
  <2>1. line' = line
    BY <1>9 DEF LinearDone
  <2>2. LineLeads' /\ LineNests'
    BY <1>1, <1>2, <1>4, <1>8, <2>1 DEF LineLeads, LineNests
  <2>. QED
    BY <1>2, <1>6, <1>7, <2>2 DEF NestInv
<1>10. CASE LinearRound
  <2>1. PICK q, e, m : q = rpo[next] /\ e = Emit(rpo[next]) /\ m = Len(line)
    <3>1. \E q, e : q = rpo[next] /\ e = Emit(rpo[next])
      OBVIOUS
    <3>2. \E m : m = Len(line)
      OBVIOUS
    <3>. QED
      BY <3>1, <3>2
  <2>2. next \in DOMAIN rpo /\ q \in Visited /\ line' = line \o e
    <3>1. next > 0 /\ next \in Nat /\ next <= Len(rpo) /\ line' = line \o e
      BY <1>1, <1>3, <1>10, <2>1 DEF LinearRound, LoopTypes
    <3>2. rpo \in Seq(Visited) /\ Len(rpo) \in Nat /\ DOMAIN rpo = 1..Len(rpo)
      BY <1>3, VisitedIsFinite
    <3>3. next \in DOMAIN rpo
      BY <3>1, <3>2
    <3>. QED
      BY <2>1, <3>1, <3>2, <3>3
  <2>3. e \in Seq(Regions) /\ line \in Seq(Regions) /\ seen = ToSet(line)
    BY <1>1, <1>3, <2>1, <2>2, EmitFacts DEF LineGrows
  <2>4. PICK n : n = Len(e)
    OBVIOUS
  <2>5. /\ m \in Nat /\ n \in Nat /\ DOMAIN line = 1..m /\ DOMAIN e = 1..n /\ DOMAIN line' = 1..(m + n)
        /\ \A k \in 1..m : line'[k] = line[k]
        /\ \A k \in 1..n : line'[m + k] = e[k]
    BY ONLY <2>1, <2>2, <2>3, <2>4, ConcatProperties
  <2>6. ASSUME NEW k \in DOMAIN line', k \notin 1..m
        PROVE  k - m \in DOMAIN e /\ line'[k] = e[k - m] /\ m + 1 \in DOMAIN line' /\ m + 1 <= k /\ line'[m + 1] = e[1]
               /\ \A j \in 1..m : j \in DOMAIN line' /\ j <= k
    <3>1. /\ k - m \in 1..n /\ k = m + (k - m) /\ m + 1 \in 1..(m + n) /\ m + 1 <= k /\ 1 \in 1..n
          /\ \A j \in 1..m : j \in 1..(m + n) /\ j <= k
      BY ONLY <2>5, <2>6
    <3>2. line'[m + (k - m)] = e[k - m] /\ line'[m + 1] = e[1]
      BY <2>5, <3>1
    <3>. QED
      BY <2>5, <3>1, <3>2
  <2>7. \A j \in 1..m : j \in DOMAIN line /\ j \in DOMAIN line'
    BY <2>5
  <2>8. LineLeads'
    <3>1. ASSUME NEW k \in DOMAIN line', loopOf[line'[k]] # 0
          PROVE  \E j \in DOMAIN line' : j <= k /\ line'[j] = loops[loopOf[line'[k]]].header
      <4>1. CASE k \in 1..m
        <5>1. PICK j \in DOMAIN line : j <= k /\ line[j] = loops[loopOf[line[k]]].header
          BY <1>1, <1>4, <2>5, <3>1, <4>1 DEF LineLeads
        <5>. QED
          BY <2>5, <2>7, <4>1, <5>1
      <4>2. CASE k \notin 1..m
        <5>1. k - m \in DOMAIN e /\ line'[k] = e[k - m] /\ m + 1 \in DOMAIN line' /\ m + 1 <= k /\ line'[m + 1] = e[1]
          BY <2>6, <4>2
        <5>2. /\ loopOf[q] = 0 => e[k - m] = q
              /\ loopOf[q] # 0 => loopOf[e[k - m]] = loopOf[q] /\ e[1] = loops[loopOf[q]].header
          BY <1>4, <2>1, <2>2, <5>1, EmitLeads
        <5>. QED
          BY <3>1, <5>1, <5>2
      <4>. QED
        BY <4>1, <4>2
    <3>. QED
      BY <1>1, <3>1 DEF LineLeads
  <2>9. LineNests'
    <3>1. ASSUME DominatorsAreTrue, NEW i \in DOMAIN loops, NEW k \in DOMAIN line', line'[k] \in NatBody(i)
          PROVE  \E j \in DOMAIN line' : j <= k /\ line'[j] = loops[i].header
      <4>1. CASE k \in 1..m
        <5>1. PICK j \in DOMAIN line : j <= k /\ line[j] = loops[i].header
          BY <1>1, <1>4, <2>5, <3>1, <4>1 DEF LineNests
        <5>. QED
          BY <2>5, <2>7, <5>1
      <4>2. CASE k \notin 1..m
        <5>1. /\ k - m \in DOMAIN e /\ line'[k] = e[k - m] /\ m + 1 \in DOMAIN line' /\ m + 1 <= k /\ line'[m + 1] = e[1]
              /\ \A j \in 1..m : j \in DOMAIN line' /\ j <= k
          BY <2>6, <4>2
        <5>2. TrueNest
          BY <1>3, <3>1 DEF TrueNest
        <5>3. loops[i].header \in seen \/ loops[i].header = e[1]
          BY <1>1, <2>1, <2>2, <3>1, <5>1, <5>2, EmittedIsNested
        <5>4. CASE loops[i].header \in seen
          <6>1. PICK j \in DOMAIN line : line[j] = loops[i].header
            BY <2>3, <5>4 DEF ToSet
          <6>2. j \in 1..m
            BY <2>5, <6>1
          <6>. QED
            BY <2>5, <5>1, <6>1, <6>2
        <5>. QED
          BY <5>1, <5>3, <5>4
      <4>. QED
        BY <4>1, <4>2
    <3>. QED
      BY <1>1, <1>2, <1>8, <3>1 DEF LineNests
  <2>. QED
    BY <1>2, <1>6, <1>7, <2>8, <2>9 DEF NestInv
<1>. QED
  BY <1>9, <1>10

-----------------------------------------------------------------------------
NestAndOrder == LoopInv /\ NestInv /\ WalkOrder

LEMMA NestSteps ==
  ASSUME LoopInv, NestInv, WalkOrder, [LoopNext]_allVars
  PROVE  NestInv'
<1>1. CASE Tree
  BY <1>1, TreeNests
<1>2. CASE StartFind \/ FindNone \/ FindLoop \/ FindAgain
  BY <1>2, FindNests
<1>3. CASE StartFill \/ FillNext
  BY <1>3, EntryNests
<1>4. CASE Skip
  BY <1>4, SkipNests
<1>5. CASE Include
  BY <1>5, IncludeNests
<1>6. CASE Absorb
  BY <1>6, AbsorbNests
<1>7. CASE LinearRound \/ LinearDone
  BY <1>7, LinearNests
<1>8. CASE Returned \/ UNCHANGED allVars
  <2>1. /\ UNCHANGED <<domVars, loops, loopOf>> /\ UNCHANGED domVars /\ pass' = pass /\ next' = next /\ loops' = loops
        /\ loopOf' = loopOf /\ stack' = stack /\ seen' = seen /\ line' = line
    BY <1>8 DEF Returned, allVars, loopVars
  <2>2. /\ HeadersLead' /\ Ascend' /\ BlocksBelong' /\ rpo' = rpo /\ flow' = flow
        /\ \A i : NatBody(i)' = NatBody(i)
        /\ \A r, i : MetBy(r, i)' <=> MetBy(r, i)
    BY <2>1, NestStays
  <2>3. Begun' = Begun /\ Over' = Over
    BY <2>1 DEF Begun, Over
  <2>4. HeadersAscend' /\ BlocksAreNew' /\ ParentsMeet' /\ BodiesAreMet'
    <3>1. HeadersAscend'
      BY <2>1, <2>2 DEF NestInv, HeadersAscend, Ascend
    <3>2. BlocksAreNew'
      BY <2>1, <2>3 DEF NestInv, BlocksAreNew
    <3>3. ParentsMeet'
      BY <2>1, <2>2, <2>3 DEF NestInv, ParentsMeet
    <3>4. BodiesAreMet'
      BY <2>1, <2>2, <2>3 DEF NestInv, BodiesAreMet
    <3>. QED
      BY <3>1, <3>2, <3>3, <3>4
  <2>5. FillIsUnderway'
    <3>1. NatBody(next)' = NatBody(next) /\ \A r : MetBy(r, next)' <=> MetBy(r, next)
      BY <2>1, <2>2 DEF NatBody, MetBy
    <3>. QED
      BY <2>1, <2>2, <3>1 DEF NestInv, FillIsUnderway
  <2>6. DominatorsAreTrue' <=> DominatorsAreTrue
    BY <2>1 DEF domVars, DominatorsAreTrue, Built, Dominates, Visited
  <2>7. LineLeads' /\ LineNests'
    BY <2>1, <2>2, <2>6 DEF NestInv, LineLeads, LineNests
  <2>. QED
    BY <2>2, <2>4, <2>5, <2>7 DEF NestInv
<1>. QED
  BY <1>1, <1>2, <1>3, <1>4, <1>5, <1>6, <1>7, <1>8 DEF LoopNext

LEMMA LoopStepIsDomStep ==
  ASSUME [LoopNext]_allVars
  PROVE  [DomNext]_domVars
BY DEF LoopNext, Tree, StartFind, FindNone, FindLoop, FindAgain, StartFill, Skip, Include, Absorb, FillNext,
  LinearRound, LinearDone, Returned, allVars

LEMMA NestInvariant == LoopSpec => []NestAndOrder
<1>1. LoopInit => NestAndOrder
  BY LoopStartsWell, NestStarts, OrderStarts DEF NestAndOrder, LoopInit, DomInit
<1>2. NestAndOrder /\ [LoopNext]_allVars => NestAndOrder'
  <2>. SUFFICES ASSUME NestAndOrder, [LoopNext]_allVars PROVE NestAndOrder'
    OBVIOUS
  <2>1. LoopInv /\ NestInv /\ WalkOrder /\ DomInv
    BY DEF NestAndOrder, LoopInv
  <2>2. LoopInv'
    BY <2>1, LoopSteps
  <2>3. NestInv'
    BY <2>1, NestSteps
  <2>4. WalkOrder'
    BY <2>1, LoopStepIsDomStep, OrderSteps
  <2>. QED
    BY <2>2, <2>3, <2>4 DEF NestAndOrder
<1>. QED
  BY <1>1, <1>2, PTL DEF LoopSpec

-----------------------------------------------------------------------------
(* Following parents. *)
Up(k) == IF k = 0 THEN 0 ELSE loops[k].parent

Climbs(F, i) == F[0] = i /\ \A k \in Nat : F[k + 1] = Up(F[k])

LEMMA ParentTypes ==
  ASSUME LoopTypes, ParentsMeet, NEW l \in DOMAIN loops
  PROVE  loops[l].parent \in 0..Len(loops)
<1>1. Len(loops) \in Nat /\ DOMAIN loops = 1..Len(loops) /\ loops[l].parent \in Nat
  BY LoopFields
<1>2. Begun \in Nat /\ Begun <= Len(loops)
  <2>1. pass = "fill" => next \in DOMAIN loops
    BY DEF LoopTypes
  <2>. QED
    BY <1>1, <2>1 DEF Begun
<1>3. loops[l].parent # 0 => loops[l].parent \in 1..Begun
  BY DEF ParentsMeet
<1>. QED
  BY <1>1, <1>2, <1>3

LEMMA AroundUnfolds ==
  ASSUME LoopTypes, ParentsMeet, NEW i \in DOMAIN loops
  PROVE  \E F \in [Nat -> 0..Len(loops)] : Climbs(F, i) /\ Around(i) = {F[k] : k \in 0..Len(loops)} \ {0}
<1>. DEFINE T == 0..Len(loops)
            above == [x \in T |-> Up(x)]
            IsIt(F) == F = [k \in Nat |->
              IF k = 0 THEN i ELSE IF F[k - 1] = 0 THEN 0 ELSE loops[F[k - 1]].parent]
            F0 == CHOOSE F : IsIt(F)
<1>1. Around(i) = {F0[k] : k \in 0..Len(loops)} \ {0}
  BY Zenon DEF Around
<1>2. i \in T /\ above \in [T -> T]
  <2>1. Len(loops) \in Nat /\ DOMAIN loops = 1..Len(loops) /\ i \in T
    BY LoopFields
  <2>2. \A x \in T : Up(x) \in T
    <3>. SUFFICES ASSUME NEW x \in T PROVE Up(x) \in T
      OBVIOUS
    <3>1. CASE x = 0
      BY <2>1, <3>1 DEF Up
    <3>2. CASE x # 0
      <4>1. x \in DOMAIN loops
        BY <2>1, <3>2
      <4>. QED
        BY <3>2, <4>1, ParentTypes DEF Up
    <3>. QED
      BY <3>1, <3>2
  <2>. HIDE DEF T
  <2>. QED
    BY <2>1, <2>2
<1>3. PICK F \in [Nat -> T] : F[0] = i /\ \A k \in Nat : F[k + 1] = above[F[k]]
  <2>. HIDE DEF T, above
  <2>. QED
    BY <1>2, IterationExists
<1>4. IsIt(F)
  <2>1. \A k \in Nat \ {0} : k - 1 \in Nat /\ (k - 1) + 1 = k
    OBVIOUS
  <2>2. \A k \in Nat \ {0} : F[k] = above[F[k - 1]] /\ F[k - 1] \in T
    <3>. HIDE DEF above, T
    <3>. QED
      BY <1>3, <2>1
  <2>3. \A k \in Nat : F[k] = IF k = 0 THEN i ELSE IF F[k - 1] = 0 THEN 0 ELSE loops[F[k - 1]].parent
    <3>. HIDE DEF T
    <3>. QED
      BY <1>3, <2>2 DEF Up
  <2>4. F = [k \in Nat |-> F[k]]
    BY <1>3
  <2>. HIDE DEF T, above
  <2>. QED
    BY <2>3, <2>4
<1>5. IsIt(F0)
  <2>. HIDE DEF IsIt
  <2>. QED
    BY <1>4
<1>. HIDE DEF F0
<1>6. ASSUME NEW k \in Nat
      PROVE  F0[k] = IF k = 0 THEN i ELSE Up(F0[k - 1])
  BY <1>5 DEF Up
<1>7. F0[0] = i
  BY <1>6
<1>8. ASSUME NEW k \in Nat PROVE F0[k + 1] = Up(F0[k])
  <2>1. k + 1 \in Nat /\ k + 1 # 0 /\ (k + 1) - 1 = k
    OBVIOUS
  <2>2. F0[k + 1] = Up(F0[(k + 1) - 1])
    BY <1>6, <2>1
  <2>. QED
    BY <2>1, <2>2
<1>9. Climbs(F0, i)
  <2>. HIDE DEF IsIt
  <2>. QED
    BY <1>7, <1>8 DEF Climbs
<1>10. F0 \in [Nat -> T]
  <2>. DEFINE Good == {k \in Nat : F0[k] \in T}
  <2>. HIDE DEF T
  <2>1. 0 \in Good
    BY <1>2, <1>7
  <2>2. ASSUME NEW k \in Nat, k \in Good PROVE k + 1 \in Good
    <3>1. above[F0[k]] \in T /\ above[F0[k]] = Up(F0[k])
      BY <1>2, <2>2
    <3>. QED
      BY <1>8, <3>1
  <2>3. \A k \in Nat : k \in Good
    <3>. HIDE DEF Good
    <3>. QED
      BY <2>1, <2>2, Induction
  <2>4. F0 = [k \in Nat |-> F0[k]]
    BY <1>5
  <2>. HIDE DEF IsIt
  <2>. QED
    BY <2>3, <2>4
<1>. QED
  BY <1>1, <1>9, <1>10

(* A parent is the next loop that has the header. *)
LEMMA ParentFacts ==
  ASSUME TrueNest, Filled, NEW l \in DOMAIN loops
  PROVE  /\ loops[l].parent # 0 =>
              loops[l].parent \in DOMAIN loops /\ l < loops[l].parent /\ loops[l].header \in NatBody(loops[l].parent)
         /\ \A i \in DOMAIN loops : loops[l].header \in NatBody(i) =>
              /\ loops[l].parent # 0
              /\ i = loops[l].parent \/ loops[loops[l].parent].header \in NatBody(i)
<1>1. /\ LoopInv /\ LoopTypes /\ HeadersLead /\ BlocksBelong /\ ParentsMeet /\ BodiesAreMet
      /\ Over = Len(loops) /\ Begun = Len(loops)
  BY DEF TrueNest, LoopInv, NestInv, Filled, Over, Begun
<1>2. Len(loops) \in Nat /\ DOMAIN loops = 1..Len(loops) /\ l \in Nat
  BY <1>1, LoopFields
<1>3. PICK p : p = loops[l].parent
  OBVIOUS
<1>4. ASSUME p # 0 PROVE p \in DOMAIN loops /\ l < p /\ loops[l].header \in NatBody(p)
  <2>1. p \in DOMAIN loops /\ p # l
    BY <1>1, <1>2, <1>3, <1>4 DEF ParentsMeet
  <2>2. PICK r \in ToSet(loops[l].blocks) : r \in NatBody(p)
    BY <1>1, <1>3, <1>4 DEF ParentsMeet
  <2>3. loops[l].header \in NatBody(p)
    <3>1. CASE r = loops[l].header
      BY <2>2, <3>1
    <3>2. CASE r # loops[l].header
      <4>1. r \in NatBody(l) /\ \A i \in 1..(l - 1) : r \notin NatBody(i)
        BY <1>1, <3>2 DEF BlocksBelong
      <4>2. l < p
        BY <1>2, <2>1, <2>2, <4>1
      <4>. QED
        BY <2>1, <2>2, <4>1, <4>2, SharedIsInner
    <3>. QED
      BY <3>1, <3>2
  <2>. QED
    BY <2>1, <2>3, InnerIsBefore
<1>5. ASSUME NEW i \in DOMAIN loops, loops[l].header \in NatBody(i)
      PROVE  p # 0 /\ (i = p \/ loops[p].header \in NatBody(i))
  <2>1. MetBy(loops[l].header, i) /\ loopOf[loops[l].header] = l
    BY <1>1, <1>2, <1>5, HeaderFacts DEF BodiesAreMet
  <2>2. l < i
    BY <1>5, InnerIsBefore
  <2>3. p \in 1..i
    BY <1>2, <1>3, <2>1, <2>2 DEF MetBy
  <2>4. p # 0 /\ p \in DOMAIN loops /\ loops[l].header \in NatBody(p)
    BY <1>4, <2>3
  <2>5. i # p => p < i
    BY <1>2, <2>3
  <2>. QED
    BY <1>5, <2>4, <2>5, SharedIsInner
<1>. QED
  BY <1>3, <1>4, <1>5

(* Around a loop are the loops that have its header, up to a top one.      *)
LEMMA AroundIsNested ==
  ASSUME TrueNest, Filled, NEW l \in DOMAIN loops
  PROVE  /\ Around(l) = {l} \cup {i \in DOMAIN loops : loops[l].header \in NatBody(i)}
         /\ \E j \in Around(l) : loops[j].parent = 0
<1>1. LoopTypes /\ ParentsMeet
  BY DEF TrueNest, LoopInv, NestInv
<1>2. Len(loops) \in Nat /\ DOMAIN loops = 1..Len(loops) /\ l \in Nat /\ 1 <= l /\ 0 \notin DOMAIN loops
  BY <1>1, LoopFields
<1>3. PICK F \in [Nat -> 0..Len(loops)] : Climbs(F, l) /\ Around(l) = {F[k] : k \in 0..Len(loops)} \ {0}
  BY <1>1, AroundUnfolds
<1>4. F[0] = l /\ \A k \in Nat : F[k + 1] = Up(F[k])
  BY <1>3 DEF Climbs
<1>n. \A k \in Nat : F[k] \in Nat /\ F[k] \in 0..Len(loops)
  <2>1. \A k \in Nat : F[k] \in 0..Len(loops)
    BY <1>3
  <2>. QED
    BY <1>2, <2>1
<1>5. \A k \in Nat : F[k] # 0 => F[k] \in DOMAIN loops
  BY <1>2, <1>n
<1>a. F[0] # 0 /\ F[0] >= l + 0 /\ 0 \in 0..0
  <2>1. l # 0 /\ l >= l + 0
    BY <1>2
  <2>2. F[0] = l
    BY <1>4
  <2>. QED
    BY ONLY <2>1, <2>2
<1>b. \A k \in Nat : k \in 0..(k + 1) /\ k + 1 \in 0..(k + 1) /\ k + 1 \in Nat /\ \A m \in 0..k : m \in 0..(k + 1)
  OBVIOUS
<1>c. \A k \in Nat : F[k + 1] \in Nat /\ F[k + 1] \in 0..Len(loops)
  BY <1>b, <1>n
<1>. DEFINE In == {k \in Nat : F[k] # 0 => (F[k] = l \/ loops[l].header \in NatBody(F[k]))}
            Ahead(i) == {k \in Nat : \/ \E m \in 0..k : F[m] = i
                                     \/ F[k] # 0 /\ F[k] >= l + k /\ loops[F[k]].header \in NatBody(i)}
            High == {k \in Nat : \/ \E m \in 0..k : F[m] # 0 /\ loops[F[m]].parent = 0
                                 \/ F[k] # 0 /\ F[k] >= l + k}
<1>6. ASSUME NEW k \in Nat, k \in In PROVE k + 1 \in In
  <2>. SUFFICES ASSUME F[k + 1] # 0 PROVE loops[l].header \in NatBody(F[k + 1])
    OBVIOUS
  <2>1. F[k] # 0 /\ F[k] \in DOMAIN loops /\ F[k + 1] = loops[F[k]].parent
    BY <1>4, <1>5 DEF Up
  <2>2. F[k + 1] \in DOMAIN loops /\ loops[F[k]].header \in NatBody(F[k + 1])
    BY <2>1, ParentFacts
  <2>3. NatBody(F[k]) \subseteq NatBody(F[k + 1])
    BY <2>1, <2>2, InnerIsInside
  <2>4. F[k] = l \/ loops[l].header \in NatBody(F[k])
    BY <1>6, <2>1
  <2>. QED
    BY <2>2, <2>3, <2>4
<1>7. \A k \in Nat : k \in In
  <2>1. 0 \in In
    BY <1>4
  <2>. HIDE DEF In
  <2>. QED
    BY <1>6, <2>1, Induction
<1>8. ASSUME NEW i \in DOMAIN loops, loops[l].header \in NatBody(i) PROVE i \in Around(l)
  <2>1. 0 \in Ahead(i)
    BY <1>4, <1>8, <1>a
  <2>2. ASSUME NEW k \in Nat, k \in Ahead(i) PROVE k + 1 \in Ahead(i)
    <3>1. CASE \E m \in 0..k : F[m] = i
      <4>1. \A m \in 0..k : m \in 0..(k + 1)
        OBVIOUS
      <4>. QED
        BY <3>1, <4>1
    <3>2. CASE F[k] # 0 /\ F[k] >= l + k /\ loops[F[k]].header \in NatBody(i)
      <4>1. F[k] \in DOMAIN loops /\ F[k + 1] = loops[F[k]].parent
        BY <1>4, <1>5, <3>2 DEF Up
      <4>2. F[k + 1] # 0 /\ (i = F[k + 1] \/ loops[F[k + 1]].header \in NatBody(i))
        BY <3>2, <4>1, ParentFacts
      <4>3. F[k] < F[k + 1]
        BY <4>1, <4>2, ParentFacts
      <4>4. F[k + 1] >= l + (k + 1)
        <5>1. F[k] \in Nat /\ F[k + 1] \in Nat
          BY <1>n, <1>c
        <5>. QED
          BY <1>2, <3>2, <4>3, <5>1
      <4>5. k + 1 \in 0..(k + 1)
        OBVIOUS
      <4>. QED
        BY <4>2, <4>4, <4>5
    <3>. QED
      BY <2>2, <3>1, <3>2
  <2>3. \A k \in Nat : k \in Ahead(i)
    <3>. HIDE DEF Ahead
    <3>. QED
      BY <2>1, <2>2, Induction
  <2>4. Len(loops) \in Ahead(i) /\ F[Len(loops)] \in 0..Len(loops)
    BY <1>2, <1>3, <2>3
  <2>5. PICK m \in 0..Len(loops) : F[m] = i
    <3>1. ~(F[Len(loops)] >= l + Len(loops))
      BY <1>2, <2>4
    <3>. QED
      BY <2>4, <3>1
  <2>. QED
    BY <1>2, <1>3, <2>5
<1>9. l \in Around(l)
  <2>1. 0 \in 0..Len(loops) /\ F[0] = l /\ l # 0
    BY <1>2, <1>4
  <2>. QED
    BY <1>3, <2>1
<1>10. Around(l) \subseteq {l} \cup {i \in DOMAIN loops : loops[l].header \in NatBody(i)}
  <2>1. ASSUME NEW k \in 0..Len(loops), F[k] # 0
        PROVE  F[k] = l \/ (F[k] \in DOMAIN loops /\ loops[l].header \in NatBody(F[k]))
    <3>1. k \in In
      BY <1>7
    <3>. QED
      BY <1>5, <2>1, <3>1
  <2>. HIDE DEF In
  <2>. QED
    BY <1>3, <2>1
<1>11. \E j \in Around(l) : loops[j].parent = 0
  <2>1. 0 \in High
    BY <1>a
  <2>2. ASSUME NEW k \in Nat, k \in High PROVE k + 1 \in High
    <3>1. CASE \E m \in 0..k : F[m] # 0 /\ loops[F[m]].parent = 0
      <4>1. \A m \in 0..k : m \in 0..(k + 1)
        OBVIOUS
      <4>. QED
        BY <3>1, <4>1
    <3>2. CASE F[k] # 0 /\ F[k] >= l + k
      <4>1. F[k] \in DOMAIN loops /\ F[k + 1] = loops[F[k]].parent
        BY <1>4, <1>5, <3>2 DEF Up
      <4>2. CASE F[k + 1] = 0
        <5>1. F[k] # 0 /\ loops[F[k]].parent = 0 /\ k \in 0..(k + 1)
          BY <1>b, <3>2, <4>1, <4>2
        <5>2. k + 1 \in Nat
          OBVIOUS
        <5>. QED
          BY <5>1, <5>2
      <4>3. CASE F[k + 1] # 0
        <5>1. F[k] < F[k + 1]
          BY <4>1, <4>3, ParentFacts
        <5>2. F[k + 1] >= l + (k + 1)
          <6>1. F[k] \in Nat /\ F[k + 1] \in Nat
            BY <1>n, <1>c
          <6>. QED
            BY <1>2, <3>2, <5>1, <6>1
        <5>3. k + 1 \in Nat
          OBVIOUS
        <5>. QED
          BY <4>3, <5>2, <5>3
      <4>. QED
        BY <4>2, <4>3
    <3>. QED
      BY <2>2, <3>1, <3>2
  <2>3. \A k \in Nat : k \in High
    <3>. HIDE DEF High
    <3>. QED
      BY <2>1, <2>2, Induction
  <2>4. Len(loops) \in High /\ F[Len(loops)] \in 0..Len(loops)
    BY <1>2, <1>3, <2>3
  <2>5. PICK m \in 0..Len(loops) : F[m] # 0 /\ loops[F[m]].parent = 0
    <3>1. ~(F[Len(loops)] >= l + Len(loops))
      BY <1>2, <2>4
    <3>. QED
      BY <2>4, <3>1
  <2>. QED
    BY <1>3, <2>5
<1>. QED
  BY <1>8, <1>9, <1>10, <1>11

(* A loop and the loops around which it is are its natural loop.           *)
LEMMA BodyIsNatural ==
  ASSUME TrueNest, Filled, NEW i \in DOMAIN loops
  PROVE  Body(i) = NaturalLoop(i)
<1>1. /\ LoopInv /\ LoopTypes /\ OwnersAgree /\ HeadersLead /\ BlocksBelong /\ ParentsMeet /\ BodiesAreMet
      /\ Over = Len(loops)
  BY DEF TrueNest, LoopInv, NestInv, Filled, Over
<1>2. Len(loops) \in Nat /\ DOMAIN loops = 1..Len(loops) /\ i \in 1..Over
  BY <1>1, LoopFields
<1>3. NaturalLoop(i) = {loops[i].header} \cup NatBody(i)
  BY DEF NaturalLoop, NatBody
<1>4. \A k \in DOMAIN loops : i \in Around(k) <=> i = k \/ loops[k].header \in NatBody(i)
  BY AroundIsNested
<1>5. \A r : r \in Body(i) <=> \E k \in DOMAIN loops :
              r \in ToSet(loops[k].blocks) /\ (i = k \/ loops[k].header \in NatBody(i))
  BY <1>4 DEF Body
<1>6. ASSUME NEW k \in DOMAIN loops, NEW r \in ToSet(loops[k].blocks), i = k \/ loops[k].header \in NatBody(i)
      PROVE  r \in NaturalLoop(i)
  <2>1. r = loops[k].header \/ r \in NatBody(k)
    BY <1>1 DEF BlocksBelong
  <2>2. CASE i = k
    BY <1>3, <2>1, <2>2
  <2>3. CASE loops[k].header \in NatBody(i)
    <3>1. NatBody(k) \subseteq NatBody(i)
      BY <2>3, InnerIsInside
    <3>. QED
      BY <1>3, <2>1, <2>3, <3>1
  <2>. QED
    BY <1>6, <2>2, <2>3
<1>7. ASSUME NEW r \in NatBody(i) PROVE r \in Body(i)
  <2>1. MetBy(r, i) /\ r \in Regions
    BY <1>1, <1>2, BodyFacts DEF BodiesAreMet
  <2>2. PICK l : l = loopOf[r]
    OBVIOUS
  <2>3. l \in DOMAIN loops /\ r \in ToSet(loops[l].blocks)
    BY <1>1, <1>2, <2>1, <2>2 DEF MetBy, LoopTypes, OwnersAgree
  <2>4. CASE l = i
    BY <1>5, <2>3, <2>4
  <2>5. CASE l # i
    <3>1. loops[l].header \in NatBody(i)
      <4>1. CASE r = loops[l].header
        BY <1>7, <4>1
      <4>2. CASE r # loops[l].header
        <5>1. r \in NatBody(l) /\ \A j \in 1..(l - 1) : r \notin NatBody(j)
          BY <1>1, <2>3, <4>2 DEF BlocksBelong
        <5>2. loops[l].parent \in 1..i
          BY <2>1, <2>2, <2>5 DEF MetBy
        <5>3. l < loops[l].parent
          BY <1>2, <5>2, ParentFacts, <2>3
        <5>4. l < i
          BY <1>2, <2>3, <5>2, <5>3
        <5>. QED
          BY <1>7, <2>3, <5>1, <5>4, SharedIsInner
      <4>. QED
        BY <4>1, <4>2
    <3>. QED
      BY <1>5, <2>3, <3>1
  <2>. QED
    BY <2>4, <2>5
<1>8. loops[i].header \in Body(i)
  BY <1>1, <1>5, HeaderFacts
<1>. QED
  BY <1>3, <1>5, <1>6, <1>7, <1>8

(* Under a true tree the loops are a tree, and a loop with the loops       *)
(* nested in it is the natural loop of its header.                         *)
THEOREM LoopsAreNested == LoopSpec => []LoopsAreNatural
<1>1. ASSUME NestAndOrder PROVE LoopsAreNatural
  <2>. SUFFICES ASSUME Filled, DominatorsAreTrue
                PROVE  TreeOfLoops /\ \A i \in DOMAIN loops : Body(i) = NaturalLoop(i)
    BY DEF LoopsAreNatural
  <2>1. TrueNest
    BY <1>1 DEF NestAndOrder, TrueNest, LoopInv, LoopTypes, Filled
  <2>2. TreeOfLoops
    BY <2>1, AroundIsNested DEF TreeOfLoops
  <2>. QED
    BY <2>1, <2>2, BodyIsNatural
<1>. QED
  BY <1>1, NestInvariant, PTL

(* The linear order has every region once, and under a true tree a header  *)
(* comes before all of its natural loop.                                   *)
THEOREM HeadersComeFirst == LoopSpec => []LineIsGrouped
<1>1. ASSUME NestAndOrder, LineIsComplete PROVE LineIsGrouped
  <2>. SUFFICES ASSUME pass = "linearized", DominatorsAreTrue, NEW i \in DOMAIN loops, NEW r \in Body(i)
                PROVE  FirstIn(line, loops[i].header) <= FirstIn(line, r)
    BY <1>1 DEF LineIsGrouped
  <2>1. TrueNest /\ Filled /\ LineNests /\ LoopInv /\ HeadersLead /\ LineGrows
    BY <1>1 DEF NestAndOrder, TrueNest, NestInv, LoopInv, LoopTypes, Filled
  <2>2. r = loops[i].header \/ r \in NatBody(i)
    <3>1. r \in NaturalLoop(i)
      BY <2>1, BodyIsNatural
    <3>. QED
      BY <3>1 DEF NaturalLoop, NatBody
  <2>3. /\ ToSet(line) = Visited /\ line \in Seq(Regions)
        /\ \A j, k \in DOMAIN line : line[j] = line[k] => j = k
    BY <1>1, <2>1 DEF LineIsComplete, LineGrows
  <2>4. ASSUME NEW j \in DOMAIN line PROVE FirstIn(line, line[j]) = j
    <3>1. FirstIn(line, line[j]) \in DOMAIN line /\ line[FirstIn(line, line[j])] = line[j]
      BY DEF FirstIn
    <3>. QED
      BY <2>3, <3>1
  <2>5. \A q \in Visited : \E j \in DOMAIN line : line[j] = q
    BY <2>3 DEF ToSet
  <2>6. CASE r = loops[i].header
    <3>1. PICK j \in DOMAIN line : line[j] = r
      BY <2>1, <2>5, <2>6, HeaderFacts
    <3>2. FirstIn(line, r) = j /\ j \in Nat
      BY <2>3, <2>4, <3>1
    <3>. QED
      BY <2>6, <3>2
  <2>7. CASE r \in NatBody(i)
    <3>1. PICK k \in DOMAIN line : line[k] = r
      BY <2>1, <2>5, <2>7, HeaderDominates
    <3>2. PICK j \in DOMAIN line : j <= k /\ line[j] = loops[i].header
      BY <2>1, <2>7, <3>1 DEF LineNests
    <3>3. FirstIn(line, r) = k /\ FirstIn(line, loops[i].header) = j
      BY <2>4, <3>1, <3>2
    <3>. QED
      BY <3>2, <3>3
  <2>. QED
    BY <2>2, <2>6, <2>7
<1>. QED
  BY <1>1, NestInvariant, NoRegionIsLost, PTL
=============================================================================

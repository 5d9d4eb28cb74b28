------------------------------ MODULE Liveness ------------------------------
(***************************************************************************)
(* Liveness::recalc (src/Analyses/Liveness.hpp) with the passes it calls:  *)
(* the dominator tree, the data schedule, the loops and the linear order,  *)
(* then the live numbers and the live intervals of the data nodes.         *)
(*                                                                         *)
(* Regions are numbered in the linear order and analysed against it, each  *)
(* in one step.  The maps start empty, and operator[] makes an entry that  *)
(* is missing a zero.  A client calls recalc twice on one object, for a    *)
(* function that did not change: the passes give the same, the maps of the *)
(* regions and intervals are not cleared.                                  *)
(***************************************************************************)
EXTENDS Loops, Schedule

VARIABLES
  analysis,    \* where recalc is
  position,    \* its position in the linear order
  liveNumber,  \* m_liveNumbers
  span,        \* m_intervals of the regions
  interval,    \* m_intervals of the data nodes
  liveIn,      \* m_liveIn
  earlier      \* the intervals of the first call, once the second one runs

liveVars == <<analysis, position, liveNumber, span, interval, liveIn, earlier>>

everything == <<allVars, scheduleVars, liveVars>>

Unset == [first |-> 0, second |-> 0]

-----------------------------------------------------------------------------
LiveInit ==
  /\ ScheduleInit
  /\ LoopInit
  /\ analysis = "passes"
  /\ position = 1
  /\ liveNumber = [v \in Values |-> 0]
  /\ span = [r \in Regions |-> Unset]
  /\ interval = [v \in Values |-> Unset]
  /\ liveIn = [r \in Regions |-> {}]
  /\ earlier = <<>>

(* The tree, then the schedule, then the loops and the linear order. *)
Analyses ==
  /\ analysis = "passes"
  /\ \/ Tree /\ UNCHANGED scheduleVars
     \/ ScheduleNext /\ UNCHANGED loopVars
     \/ Scheduled /\ pass # "linearized" /\ LoopNext /\ UNCHANGED scheduleVars
  /\ UNCHANGED liveVars

StartNumbers ==
  /\ analysis = "passes" /\ pass = "linearized"
  /\ analysis' = "numbers"
  /\ UNCHANGED <<allVars, scheduleVars, position, liveNumber, span, interval, liveIn, earlier>>

Numbering == analysis = "numbers" /\ position <= Len(line)

(* curLiveNum: where the region before ends. *)
(* Fault: the count is a member, and goes on from the call before. *)
CurLiveNumKept == IF position = 1 THEN span[Last(line)].second ELSE span[line[position - 1]].second

CurLiveNum == IF position = 1 THEN 0 ELSE span[line[position - 1]].second

IndexIn(s, x) == CHOOSE i \in DOMAIN s : s[i] = x

(* The phis have the number their region starts with. *)
NumbersIn(r) ==
  [v \in Values |->
     IF v \in PhisOf(r) THEN CurLiveNum
     ELSE IF v \in ToSet(result[r]) THEN CurLiveNum + 2 * IndexIn(result[r], v)
     ELSE liveNumber[v]]

(* A region without instructions takes no numbers, and its phis get none. *)
NumberRegion ==
  LET r == line[position]
      end == CurLiveNum + 2 * (Len(result[r]) + 1)
  IN  /\ Numbering
      /\ IF result[r] = <<>>
         THEN /\ span' = [span EXCEPT ![r] = [first |-> CurLiveNum, second |-> CurLiveNum]]
              /\ UNCHANGED liveNumber
         ELSE /\ span' = [span EXCEPT ![r] = [first |-> CurLiveNum, second |-> end]]
              /\ liveNumber' = NumbersIn(r)
      /\ position' = position + 1
      /\ UNCHANGED <<allVars, scheduleVars, analysis, interval, liveIn, earlier>>

StartIntervals ==
  /\ analysis = "numbers" /\ position > Len(line)
  /\ analysis' = "intervals"
  /\ position' = Len(line)
  /\ UNCHANGED <<allVars, scheduleVars, liveNumber, span, interval, liveIn, earlier>>

-----------------------------------------------------------------------------
Widened(intervals, S, first, second) ==
  [v \in Values |->
     IF v \notin S THEN intervals[v]
     ELSE [first |-> Min({first, intervals[v].first}), second |-> Max({second, intervals[v].second})]]

(* getValOf: the value of the first slot that comes from r. *)
ValOf(phi, r) == code.phis[phi].vals[IndexIn(code.inputs[code.phis[phi].region], r)]

LiveOut(r) ==
  UNION {liveIn[s] \cup {ValOf(phi, r) : phi \in PhisOf(s)} : s \in ToSet(Successors(flow, r))}

(* An instruction, met from the end of its region: its interval starts     *)
(* here and has a length of two at least, those of its operands reach it.  *)
(* Fault: the interval may be empty.                                       *)
MetEmpty(v, r, met) ==
  [live      |-> (met.live \ {v}) \cup code.args[v],
   intervals |-> Widened([met.intervals EXCEPT ![v].first = liveNumber[v]],
                         code.args[v], span[r].first, liveNumber[v])]

Met(v, r, met) ==
  [live      |-> (met.live \ {v}) \cup code.args[v],
   intervals |-> Widened([met.intervals EXCEPT
                            ![v] = [first  |-> liveNumber[v],
                                    second |-> Max({@.second, liveNumber[v] + 2})]],
                         code.args[v], span[r].first, liveNumber[v])]

(* The instructions of a region, from the last. *)
MetAll(r, start) ==
  LET list == result[r]
      met[k \in 0..Len(list)] ==
        IF k = 0 THEN start ELSE Met(list[Len(list) + 1 - k], r, met[k - 1])
  IN  met[Len(list)]

Entering(live, r) == live \ PhisOf(r)

WithPhis(intervals, r) ==
  [v \in Values |-> IF v \in PhisOf(r) THEN [intervals[v] EXCEPT !.first = liveNumber[v]]
                    ELSE intervals[v]]

(* Fault: what is live in the header of a loop is not live all through it. *)
NotAroundLoop(intervals, r, live) == intervals

AroundLoop(intervals, r, live) ==
  LET loop == loopOf[r]
  IN  IF loop = 0 \/ loops[loop].header # r THEN intervals
      ELSE Widened(intervals, live, span[r].first, Max({span[b].second : b \in ToSet(loops[loop].blocks)}))

(* One round of the loop over the regions, from the last. *)
AnalyseRegion ==
  LET r == line[position]
      out == LiveOut(r)
      met == MetAll(r, [live |-> out, intervals |-> Widened(interval, out, span[r].first, span[r].second)])
      live == Entering(met.live, r)
  IN  /\ analysis = "intervals" /\ position > 0
      /\ interval' = AroundLoop(WithPhis(met.intervals, r), r, live)
      /\ liveIn' = [liveIn EXCEPT ![r] = live]
      /\ position' = position - 1
      /\ UNCHANGED <<allVars, scheduleVars, analysis, liveNumber, span, earlier>>

LiveDone ==
  /\ analysis = "intervals" /\ position = 0
  /\ analysis' = "done"
  /\ UNCHANGED <<allVars, scheduleVars, position, liveNumber, span, interval, liveIn, earlier>>

(* recalc again: m_liveNumbers is replaced, and nothing else is cleared. *)
Recalc ==
  /\ analysis = "done" /\ earlier = <<>>
  /\ analysis' = "numbers"
  /\ position' = 1
  /\ liveNumber' = [v \in Values |-> 0]
  /\ earlier' = interval
  /\ UNCHANGED <<allVars, scheduleVars, span, interval, liveIn>>

(* recalc returned. *)
LiveReturned ==
  /\ analysis = "done" /\ earlier # <<>>
  /\ UNCHANGED everything

LiveNext ==
  \/ Analyses \/ StartNumbers \/ NumberRegion
  \/ StartIntervals \/ AnalyseRegion \/ LiveDone \/ Recalc
  \/ LiveReturned

LiveSpec == LiveInit /\ [][LiveNext]_everything

-----------------------------------------------------------------------------
Analysed == analysis = "done"

(* Whatever the linear order, an interval holds the instruction that       *)
(* computes the value, with the point after it, and those that use it.     *)
IntervalsHoldUses ==
  Analysed => \A v \in Computed \cap DOMAIN mapped :
    /\ interval[v].first <= liveNumber[v] /\ liveNumber[v] + 2 <= interval[v].second
    /\ \A u \in Consumers(v) \cap DOMAIN mapped :
         interval[v].first <= liveNumber[u] /\ liveNumber[u] <= interval[v].second

(* Reference: where v is live by paths.  A phi takes its values at the end *)
(* of the predecessors and is defined at the entry of its region.          *)
UsedIn(v, r) == \E u \in ToSet(result[r]) : v \in code.args[u]

UsedAtEnd(v, r) ==
  \E phi \in Phis : \E i \in DOMAIN code.phis[phi].vals :
    code.phis[phi].vals[i] = v /\ code.inputs[code.phis[phi].region][i] = r

Before(S) == {r \in Visited : ToSet(Successors(flow, r)) \cap S # {}}

EntryLive(v) ==
  LET elsewhere == Visited \ {mapped[v]}
      found[k \in Nat] ==
        IF k = 0 THEN {r \in elsewhere : UsedIn(v, r) \/ UsedAtEnd(v, r)}
        ELSE LET before == found[k - 1] IN before \cup (elsewhere \cap Before(before))
  IN  found[Cardinality(Regions)]

ExitLive(v) == Before(EntryLive(v)) \cup {r \in Visited : UsedAtEnd(v, r)}

IsBackEdge(u, r) == loopOf[r] # 0 /\ loops[loopOf[r]].header = r /\ u \in loops[loopOf[r]].latches

(* The linear orders the algorithm is made for: but for back edges a       *)
(* region comes before its successors, and no loop is inside another.      *)
InOrder ==
  /\ \A u, r \in Visited :
       GoesTo(flow, u, r) /\ ~IsBackEdge(u, r) => IndexIn(line, u) < IndexIn(line, r)
  /\ \A i \in DOMAIN loops : loops[i].parent = 0

(* A phi takes one value from each predecessor: no if has both its exits   *)
(* in the phi's region.                                                    *)
OneValueEach ==
  \A phi \in Phis : \A i, j \in DOMAIN code.phis[phi].vals :
    code.inputs[code.phis[phi].region][i] = code.inputs[code.phis[phi].region][j] =>
      code.phis[phi].vals[i] = code.phis[phi].vals[j]

(* On such orders an interval holds all the points where the value is live *)
(* for an instruction or a phi, around loops included.                     *)
IntervalsHoldLives ==
  Analysed /\ InOrder /\ OneValueEach => \A v \in DOMAIN mapped :
    /\ \A r \in EntryLive(v) : interval[v].first <= span[r].first
    /\ \A r \in ExitLive(v) : span[r].second <= interval[v].second

(* The second call starts from the maps of the first.  On such orders it   *)
(* leaves every interval as it was.                                        *)
RecalcIsStable ==
  Analysed /\ earlier # <<>> /\ InOrder =>
    \A v \in DOMAIN mapped : interval[v] = earlier[v]
=============================================================================

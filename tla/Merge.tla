-------------------------------- MODULE Merge -------------------------------
(***************************************************************************)
(* The merge of a series' overlapping frames, row by row                    *)
(* (reconcile_overlaps_held): the sweep that finds the components, the fold *)
(* of a component by merge_newer_wins, the choice to split off the cold     *)
(* prefix, and the cut.  Frames may be out of order and hold runs of rows   *)
(* with one timestamp, which SegmentStore's maps leave out; commits,        *)
(* failures and plans that keep a member are there.                         *)
(***************************************************************************)
EXTENDS Integers, FiniteSets, Sequences

CONSTANTS
  Inputs,    \* the rows a frame may hold, per id: sequences of timestamps
  MinSplit   \* min_split_bytes, in rows

VARIABLES
  given,       \* history: the frames before the merge
  held,        \* the frame of each id; <<>> when there is none
  unswept,     \* the ids the sweep has not come to
  components,  \* the components found and not merged, in time order
  reach,       \* running_max_hi
  waiting,     \* the members not folded yet of the component in hand
  folded,      \* and those folded
  older, newer, merged  \* the fold: what is left of each side, and the output

mergeVars == <<given, held, unswept, components, reach, waiting, folded, older, newer, merged>>

SegmentIds == DOMAIN Inputs

\* Ids are numbers, and a frame that has a time range has a row.
MergeAssumption ==
  /\ IsFiniteSet(SegmentIds) /\ SegmentIds \subseteq Nat
  /\ \A id \in SegmentIds : Inputs[id] \subseteq Seq(Int) \ {<<>>}

\* A row says where it came from: its frame and its place there.
Row(time, id, i) == [t |-> time, from |-> id, at |-> i]
Times(rows) == {rows[i].t : i \in DOMAIN rows}
Lowest(S) == CHOOSE x \in S : \A y \in S : x <= y
Highest(S) == CHOOSE x \in S : \A y \in S : x >= y
Lo(id) == Lowest(Times(held[id]))
Hi(id) == Highest(Times(held[id]))

MergeInit ==
  /\ \E stamps \in {f \in [SegmentIds -> UNION {Inputs[id] : id \in SegmentIds}] :
                       \A id \in SegmentIds : f[id] \in Inputs[id]} :
       held = [id \in SegmentIds |-> [i \in DOMAIN stamps[id] |-> Row(stamps[id][i], id, i)]]
  /\ given = held /\ unswept = SegmentIds /\ components = <<>> /\ reach = 0
  /\ waiting = {} /\ folded = {}
  /\ older = <<>> /\ newer = <<>> /\ merged = <<>>

-----------------------------------------------------------------------------
(* overlap_components. *)

Precedes(p, q) == Lo(p) < Lo(q) \/ (Lo(p) = Lo(q) /\ (Hi(p) < Hi(q) \/ (Hi(p) = Hi(q) /\ p < q)))

\* The bug: a span that starts where the last one ends.
BugBelongs(id) == components # <<>> /\ Lo(id) < reach

\* Whether the span continues the last component.
Belongs(id) == components # <<>> /\ Lo(id) <= reach

SweepSpan ==
  \E id \in unswept :
    /\ \A other \in unswept \ {id} : Precedes(id, other)
    /\ unswept' = unswept \ {id}
    /\ IF Belongs(id)
       THEN /\ components' = [components EXCEPT ![Len(components)] = @ \cup {id}]
            /\ reach' = IF Hi(id) > reach THEN Hi(id) ELSE reach
       ELSE /\ components' = Append(components, {id})
            /\ reach' = Hi(id)
    /\ UNCHANGED <<given, held, waiting, folded, older, newer, merged>>

-----------------------------------------------------------------------------
(* fold_newest_wins and merge_newer_wins. *)

InHand == waiting \cup folded

\* A component of one frame is passed over.
TakeComponent ==
  /\ unswept = {} /\ InHand = {} /\ components # <<>>
  /\ components' = Tail(components)
  /\ waiting' = IF Cardinality(Head(components)) < 2 THEN {} ELSE Head(components)
  /\ UNCHANGED <<given, held, unswept, reach, folded, older, newer, merged>>

Exhausted == older = <<>> /\ newer = <<>>

\* The order that a stable sort by time gives the rows: there is one.
StableOrders(rows) ==
  {p \in [DOMAIN rows -> DOMAIN rows] :
     /\ \A i \in DOMAIN rows : \E k \in DOMAIN rows : p[k] = i
     /\ \A k, l \in DOMAIN rows : k < l =>
          \/ rows[p[k]].t < rows[p[l]].t
          \/ rows[p[k]].t = rows[p[l]].t /\ p[k] < p[l]}

\* The oldest member that is left, sorted.
TakeMember ==
  /\ waiting # {} /\ Exhausted
  /\ LET id == Lowest(waiting) IN
     /\ \E p \in StableOrders(held[id]) : newer' = [k \in DOMAIN held[id] |-> held[id][p[k]]]
     /\ waiting' = waiting \ {id}
     /\ folded' = folded \cup {id}
  /\ older' = merged /\ merged' = <<>>
  /\ UNCHANGED <<given, held, unswept, components, reach>>

MergeLess ==
  /\ older # <<>> /\ newer # <<>> /\ Head(older).t < Head(newer).t
  /\ merged' = Append(merged, Head(older)) /\ older' = Tail(older)
  /\ UNCHANGED <<given, held, unswept, components, reach, waiting, folded, newer>>

MergeGreater ==
  /\ older # <<>> /\ newer # <<>> /\ Head(older).t > Head(newer).t
  /\ merged' = Append(merged, Head(newer)) /\ newer' = Tail(newer)
  /\ UNCHANGED <<given, held, unswept, components, reach, waiting, folded, older>>

\* partition_point: how many of the rows, which are in time order, lie below t.
SplitIndex(rows, t) ==
  CHOOSE n \in 0 .. Len(rows) : \A k \in DOMAIN rows : k <= n <=> rows[k].t < t

Upto(rows, t) == SubSeq(rows, 1, SplitIndex(rows, t))
From(rows, t) == SubSeq(rows, SplitIndex(rows, t) + 1, Len(rows))

\* The newer run in place of the older: both end where the times go past theirs.
MergeEqual ==
  /\ older # <<>> /\ newer # <<>> /\ Head(older).t = Head(newer).t
  /\ LET past == Head(older).t + 1 IN
     /\ older' = From(older, past) /\ newer' = From(newer, past)
     /\ merged' = merged \o Upto(newer, past)
  /\ UNCHANGED <<given, held, unswept, components, reach, waiting, folded>>

MergeRest ==
  /\ ~Exhausted /\ (older = <<>> \/ newer = <<>>)
  /\ merged' = merged \o older \o newer
  /\ older' = <<>> /\ newer' = <<>>
  /\ UNCHANGED <<given, held, unswept, components, reach, waiting, folded>>

-----------------------------------------------------------------------------
(* The plan and its swap. *)

\* The second-earliest start among the members.
Cold ==
  LET earliest == CHOOSE id \in folded : \A other \in folded : Lo(id) <= Lo(other)
  IN Lowest({Lo(id) : id \in folded \ {earliest}})

\* SplitPolicy::decide, every row of one size.
Decide(prefix, suffix) == prefix >= MinSplit /\ prefix > suffix

\* SwapPlan::cut, under the members' lowest ids (P1).
SwapOutputs ==
  LET prefix == Upto(merged, Cold)
      suffix == From(merged, Cold)
      split == prefix # <<>> /\ suffix # <<>> /\ Decide(Len(prefix), Len(suffix))
      lowest == Lowest(folded)
      next == Lowest(folded \ {lowest})
  IN
  /\ folded # {} /\ waiting = {} /\ Exhausted
  /\ held' = [id \in SegmentIds |-> IF id \notin folded THEN held[id]
                                    ELSE IF split /\ id = lowest THEN prefix
                                    ELSE IF split /\ id = next THEN suffix
                                    ELSE IF id = lowest THEN merged
                                    ELSE <<>>]
  /\ folded' = {} /\ merged' = <<>>
  /\ UNCHANGED <<given, unswept, components, reach, waiting, older, newer>>

MergeNext ==
  \/ SweepSpan \/ TakeComponent \/ TakeMember
  \/ MergeLess \/ MergeGreater \/ MergeEqual \/ MergeRest \/ SwapOutputs

MergeSpec == MergeInit /\ [][MergeNext]_mergeVars

-----------------------------------------------------------------------------
\* The rows that answer at t: those of the newest frame that has one.
RowsAt(rows, t) == {rows[i] : i \in {j \in DOMAIN rows : rows[j].t = t}}
AnswerAt(frames, t) ==
  LET having == {id \in SegmentIds : t \in Times(frames[id])}
  IN IF having = {} THEN {} ELSE RowsAt(frames[Highest(having)], t)

\* A run's rows follow one another as they were written, none of them twice.
RunsInOrder(rows) ==
  \A k, l \in DOMAIN rows : k < l /\ rows[k].t = rows[l].t => rows[k].at < rows[l].at

\* Each swap leaves every answer what it was, run by run, and when all are done
\* no two frames overlap (merge_newer_wins: "every newer row supersedes every
\* older row"; overlap_components, the closure property).
MergeKeepsAnswers ==
  /\ \A t \in UNION {Times(given[id]) \cup Times(held[id]) : id \in SegmentIds} :
       AnswerAt(held, t) = AnswerAt(given, t)
  /\ \A id \in SegmentIds : RunsInOrder(held[id])
  /\ (unswept = {} /\ components = <<>> /\ InHand = {}) =>
       \A p, q \in {id \in SegmentIds : held[id] # <<>>} : p = q \/ Hi(p) < Lo(q) \/ Hi(q) < Lo(p)
=============================================================================

----------------------------- MODULE Checkpoints ----------------------------
(***************************************************************************)
(* Delta-of-delta timestamps and the search in them (timestamp.rs of        *)
(* weft-physical-type): the encoder, the decoder, the checkpoints, and the  *)
(* walk of search_sorted_with from the last checkpoint below the target to  *)
(* the first row it accepts, in integers that wrap.                        *)
(***************************************************************************)
EXTENDS Integers, Sequences

CONSTANTS
  Half,       \* an integer is one of -Half .. Half - 1: 2 ^ 63 in the code
  MaxColumn, Strides

SearchAssumption == Half \in Nat \ {0} /\ MaxColumn \in Nat /\ Strides \subseteq Nat \ {0}

VARIABLES
  times,    \* the column, sorted
  stride,
  wanted,
  refused,  \* the rows that accept refuses
  walk,     \* the row, its timestamp and its delta; row 0 before the walk starts
  answer    \* the row found, Absent, or Unknown

searchVars == <<times, stride, wanted, refused, walk, answer>>

Unknown == 0 - 2
Absent == 0 - 1

Stamps == 0 - Half .. Half - 1
Wrap(x) == ((x + Half) % (2 * Half)) - Half
Sorted(s) == \A i \in 1 .. Len(s) - 1 : s[i] <= s[i + 1]

SearchInit ==
  /\ times \in UNION {{s \in [1 .. n -> Stamps] : Sorted(s)} : n \in 1 .. MaxColumn}
  /\ stride \in Strides /\ wanted \in Stamps
  /\ refused \in SUBSET (0 .. Len(times) - 1)
  /\ walk = [row |-> 0, ts |-> 0, delta |-> 0]
  /\ answer = Unknown

-----------------------------------------------------------------------------
(* The column: its rows are numbered from 0, as in the code. *)

Differences(s) == [i \in 1 .. Len(s) - 1 |-> Wrap(s[i + 1] - s[i])]

\* encode_delta_of_delta.  dods[i] leads to row i + 1.
Anchor == times[1]
Deltas == Differences(times)
Dods == Differences(Deltas)

Start == [row |-> 1, ts |-> Wrap(Anchor + Deltas[1]), delta |-> Deltas[1]]

\* One row on: what the decoder, the checkpoints and the walk do.
After(at) ==
  LET delta == Wrap(at.delta + Dods[at.row])
  IN [row |-> at.row + 1, ts |-> Wrap(at.ts + delta), delta |-> delta]

\* The state at a row, and what decode_delta_of_delta returns.
StateAt[row \in 1 .. Len(times) - 1] == IF row = 1 THEN Start ELSE After(StateAt[row - 1])
Decoded == [i \in DOMAIN times |-> IF i = 1 THEN Anchor ELSE StateAt[i - 1].ts]

\* checkpoints: row 1, and every row that is a multiple of the stride.
Points == {StateAt[row] : row \in {r \in 1 .. Len(times) - 1 : r = 1 \/ r % stride = 0}}

-----------------------------------------------------------------------------
(* search_sorted_with. *)

Accepts(row) == row \notin refused

\* The bug: the walk starts at the target itself, past its first occurrence.
BugBelow == {p \in Points : p.ts <= wanted}

\* The checkpoints whose rows, and those before, cannot hold the answer.
Below == {p \in Points : p.ts < wanted}

\* A column of one row is its anchor.
SearchAnchor ==
  /\ walk.row = 0 /\ answer = Unknown
  /\ IF Anchor = wanted /\ Accepts(0) THEN answer' = 0 /\ UNCHANGED walk
     ELSE IF Len(times) = 1 THEN answer' = Absent /\ UNCHANGED walk
     ELSE /\ walk' = IF Below = {} THEN Start
                     ELSE CHOOSE p \in Below : \A q \in Below : q.row <= p.row
          /\ UNCHANGED answer
  /\ UNCHANGED <<times, stride, wanted, refused>>

\* scan_from.
ScanRow ==
  /\ walk.row > 0 /\ answer = Unknown
  /\ IF walk.ts = wanted /\ Accepts(walk.row) THEN answer' = walk.row /\ UNCHANGED walk
     ELSE IF walk.ts > wanted \/ walk.row > Len(Dods) THEN answer' = Absent /\ UNCHANGED walk
     ELSE walk' = After(walk) /\ UNCHANGED answer
  /\ UNCHANGED <<times, stride, wanted, refused>>

SearchNext == SearchAnchor \/ ScanRow

SearchSpec == SearchInit /\ [][SearchNext]_searchVars

-----------------------------------------------------------------------------
\* The row a scan of the whole column would find.
Answers == {row \in 0 .. Len(times) - 1 : times[row + 1] = wanted /\ Accepts(row)}

\* timestamp.rs: "Equal to a full decode_delta_of_delta followed by a search
\* for the first target, including on duplicate timestamps", and past the rows
\* that accept refuses; over a round trip that is exact however far apart the
\* timestamps are.
SearchExact ==
  /\ Decoded = times
  /\ answer # Unknown =>
       answer = IF Answers = {} THEN Absent ELSE CHOOSE row \in Answers : \A r \in Answers : row <= r
=============================================================================

--------------------------- MODULE MCSegmentStore ---------------------------
(***************************************************************************)
(* SegmentStore on small instances: two timestamps, and batches that lie   *)
(* in one another's span, so that every kind of plan has members.          *)
(***************************************************************************)
EXTENDS SegmentStore, TLC

CONSTANTS b1, b2, b3, x1, x2, x3

\* Two batches: one over both timestamps, one late into the second.
TwoContent == b1 :> (1 :> x1 @@ 2 :> x1) @@ b2 :> (2 :> x2)

\* Three: one replays a row of the first, so that a fold can be identical.
ThreeContent == b1 :> (1 :> x1 @@ 2 :> x1) @@ b2 :> (2 :> x3) @@ b3 :> (1 :> x1)
=============================================================================

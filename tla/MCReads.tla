------------------------------ MODULE MCReads -------------------------------
(***************************************************************************)
(* What a read relies on, checked together: a behaviour is one of Ingest,   *)
(* with reads that prune by tags beside it, of Merge, which rewrites the    *)
(* frames, or of Checkpoints, the search within one; and the variables of   *)
(* the others stay what they are.                                           *)
(***************************************************************************)
EXTENDS Ingest, Checkpoints, Merge, TLC

CONSTANTS c1, c2, k1, k2, b1, b2, b3, t1, t2

VARIABLE part

At(lo, hi) == [lo |-> lo, hi |-> hi]

\* A narrow and a wide batch of one series; the other series' batch has the
\* narrow one's key.
ReadKeys == b1 :> k1 @@ b2 :> k2 @@ b3 :> k1
ReadTags == b1 :> t1 @@ b2 :> t1 @@ b3 :> t2
ReadChunks == b1 :> <<At(5, 5)>> @@ b2 :> <<At(1, 5)>> @@ b3 :> <<At(3, 5)>>
OneWindow == {At(4, 6)}

\* What the proofs about Checkpoints and Merge assume holds of this instance.
ASSUME ColumnsAssumption == SearchAssumption
ASSUME SegmentsAssumption == MergeAssumption

\* Frames of up to three rows, two rows and one.
StampsUpTo(n) == UNION {[1 .. k -> 1 .. 3] : k \in 1 .. n}

UpToThree == <<StampsUpTo(3), StampsUpTo(2), StampsUpTo(1)>>

\* A machine that starts in several states starts in one while another runs.
ReadsInit ==
  /\ part \in {"ingest", "merge", "search"}
  /\ IF part = "merge" THEN TRUE
     ELSE held = [id \in 1 .. 3 |-> <<Row(1, id, 1)>>]
  /\ MergeInit
  /\ IF part = "search" THEN TRUE
     ELSE times = <<0>> /\ stride = 1 /\ wanted = 0 /\ refused = {}
  /\ SearchInit /\ Init

ReadsNext ==
  \/ part = "ingest" /\ Next /\ UNCHANGED <<part, mergeVars, searchVars>>
  \/ part = "merge" /\ MergeNext /\ UNCHANGED <<part, vars, searchVars>>
  \/ part = "search" /\ SearchNext /\ UNCHANGED <<part, vars, mergeVars>>

ReadsSpec == ReadsInit /\ [][ReadsNext]_<<part, vars, mergeVars, searchVars>>

Symmetry == Permutations(Callers)
=============================================================================

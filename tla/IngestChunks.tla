---------------------------- MODULE IngestChunks ----------------------------
(***************************************************************************)
(* How a batch too large for one frame is cut into chunks: the two nested  *)
(* loops of chunk_ingest_rows, a step for every row that is taken and for  *)
(* every chunk that is closed.  A batch keeps the order it was given in,   *)
(* so a timestamp may come back later.  A row's cost is its estimated size *)
(* in the frame, and stands for its encoded size too.                      *)
(***************************************************************************)
EXTENDS Integers, Sequences, FiniteSets

CONSTANTS RowTimes, Costs, Targets,  \* timestamps, row costs, frame targets
          MaxRows                    \* bound: the rows of a batch

\* Sizes are counted in bytes.
ChunksAssumption == MaxRows \in Nat /\ Costs \subseteq Nat /\ Targets \subseteq Nat

VARIABLES batch,     \* the rows, [time, cost] each
          target,
          start,     \* the rows in closed chunks
          end,       \* the rows taken
          estimate,  \* of the open chunk
          chunks     \* closed chunks: [first, last] row of each

chunkVars == <<batch, target, start, end, estimate, chunks>>

Rows == [time : RowTimes, cost : Costs]

ChunksTypeOK ==
  /\ batch \in Seq(Rows) /\ target \in Targets
  /\ start \in 0..Len(batch) /\ end \in start..Len(batch)
  /\ estimate \in Nat
  /\ chunks \in Seq([first : 1..Len(batch), last : 1..Len(batch)])

ChunksInit ==
  /\ batch \in UNION {[1..n -> Rows] : n \in 0..MaxRows}
  /\ target \in Targets
  /\ start = 0 /\ end = 0 /\ estimate = 0 /\ chunks = <<>>

Overfull == estimate + batch[end + 1].cost > target

BugCut ==
  /\ end > start /\ estimate + batch[end + 1].cost >= target
  /\ batch[end + 1].time # batch[end].time

\* The next row does not fit, and starts another timestamp.
Cut ==
  /\ end > start
  /\ Overfull
  /\ batch[end + 1].time # batch[end].time

Take ==
  /\ end < Len(batch) /\ ~Cut
  /\ estimate' = estimate + batch[end + 1].cost
  /\ end' = end + 1
  /\ UNCHANGED <<batch, target, start, chunks>>

Close ==
  /\ start < Len(batch)
  /\ IF end = Len(batch) THEN TRUE ELSE Cut
  /\ chunks' = Append(chunks, [first |-> start + 1, last |-> end])
  /\ start' = end /\ estimate' = 0
  /\ UNCHANGED <<batch, target, end>>

ChunksNext == Take \/ Close

ChunksSpec == ChunksInit /\ [][ChunksNext]_chunkVars
-----------------------------------------------------------------------------
ClosedChunks == DOMAIN chunks

\* What the first n rows cost together, for every n.
SumsOf(rows) ==
  LET sums[n \in 0 .. Len(rows)] == IF n = 0 THEN 0 ELSE sums[n - 1] + rows[n].cost
  IN sums
Cost(f, l) == SumsOf(batch)[l] - SumsOf(batch)[f - 1]

\* Every closed row lies in one chunk, in the order of the batch, and no
\* chunk is empty.
ChunksPartition ==
  /\ \A k \in ClosedChunks : chunks[k].first <= chunks[k].last
  /\ \A k \in ClosedChunks : chunks[k].first = IF k = 1 THEN 1 ELSE chunks[k - 1].last + 1
  /\ start = IF chunks = <<>> THEN 0 ELSE chunks[Len(chunks)].last

\* Rows of equal timestamps that stand together are never divided.
RunsWhole ==
  \A k \in ClosedChunks : chunks[k].last < Len(batch) =>
    batch[chunks[k].last].time # batch[chunks[k].last + 1].time

\* A chunk is over the target by its last run only: cut after that run's
\* first row, it would fit, or be one row.
OnlyLastRunOverflows ==
  \A k \in ClosedChunks :
    LET f == chunks[k].first
        l == chunks[k].last
    IN \E h \in f..l : /\ \A i \in h..l : batch[i].time = batch[l].time
                       /\ h = f \/ Cost(f, h) <= target

\* No chunk is closed that had room for the next row.
ChunksAreFull ==
  \A k \in ClosedChunks : chunks[k].last < Len(batch) =>
    Cost(chunks[k].first, chunks[k].last + 1) > target

\* chunk_ingest_rows: the chunks divide the batch, never a run of equal
\* timestamps, and each is as large as that and the target allow.
ChunksSound == ChunksPartition /\ RunsWhole /\ OnlyLastRunOverflows /\ ChunksAreFull
=============================================================================

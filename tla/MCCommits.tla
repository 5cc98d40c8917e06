------------------------------ MODULE MCCommits -----------------------------
(***************************************************************************)
(* What commits to the index, checked together: a behaviour is one of       *)
(* IndexTxn, the transactions, or of Ingest, the batches that land by them, *)
(* and the variables of the other stay what they are.                       *)
(***************************************************************************)
EXTENDS IndexTxn, TLC

CONSTANTS c1, c2, k1, k2, b1, b2, b3, t1, t2, NoOne, NoEntry, Untagged

VARIABLES
  part,
  gRows, gLedger, gCatalog, gSeq, gEpochs, gFrames, gGenNext, gPoisoned, gAlloc, gHolder,
  gCache, gBounds, gPc, gBatch, gGens, gTxn, gRead, gReplies, gCalls, gReads, gRestarts

ingestVars ==
  <<gRows, gLedger, gCatalog, gSeq, gEpochs, gFrames, gGenNext, gPoisoned, gAlloc, gHolder,
  gCache, gBounds, gPc, gBatch, gGens, gTxn, gRead, gReplies, gCalls, gReads, gRestarts>>

Kind(kind, key) == [kind |-> kind, key |-> key]

\* Two transactions that meet on a row and on the allocator, and one that
\* re-checks nothing.
MeetingOps ==
  1 :> <<Kind("replace", "a"), Kind("insert", "b"), Kind("raise", "seq")>> @@
  2 :> <<Kind("delete", "a"), Kind("raise", "seq")>> @@
  3 :> <<Kind("upsert", "b")>>

\* What the proofs about IndexTxn assume holds of this instance.
ASSUME MeetingOpsAssumption == OpsAssumption

Span(lo, hi) == [lo |-> lo, hi |-> hi]

\* b1 and b2 share a key; b1 is cut in two, b2 in the other series; b3 is new
\* in b2's series.
Landing == INSTANCE Ingest WITH
  Callers <- {c1, c2}, Readers <- {}, Batches <- {b1, b2, b3},
  Keys <- {k1, k2}, Key <- b1 :> k1 @@ b2 :> k1 @@ b3 :> k2,
  Tags <- {t1, t2}, Tag <- b1 :> t1 @@ b2 :> t2 @@ b3 :> t2,
  Chunks <- b1 :> <<Span(1, 1), Span(2, 2)>> @@ b2 :> <<Span(1, 1)>> @@ b3 :> <<Span(1, 1)>>,
  Windows <- {}, MaxSeries <- 1, Faults <- {"write", "commit", "drop"},
  MaxCalls <- 3, MaxReads <- 0, MaxRestarts <- 1,
  rows <- gRows, ledger <- gLedger, catalog <- gCatalog, seq <- gSeq, epochs <- gEpochs,
  frames <- gFrames, genNext <- gGenNext, poisoned <- gPoisoned, alloc <- gAlloc,
  holder <- gHolder, cache <- gCache, bounds <- gBounds, pc <- gPc, batch <- gBatch,
  gens <- gGens, txn <- gTxn, read <- gRead, replies <- gReplies, calls <- gCalls,
  reads <- gReads, restarts <- gRestarts

\* IndexTxn, which starts in several states, starts in one while Ingest runs.
CommitsInit ==
  /\ part \in {"txn", "ingest"}
  /\ IF part = "txn" THEN TRUE ELSE rows = [k \in Keys |-> 0]
  /\ Init /\ Landing!Init

CommitsNext ==
  \/ part = "txn" /\ Next /\ UNCHANGED <<part, ingestVars>>
  \/ part = "ingest" /\ Landing!Next /\ UNCHANGED <<part, vars>>

CommitsSpec == CommitsInit /\ [][CommitsNext]_<<part, vars, ingestVars>>

Symmetry == Permutations({c1, c2})

-----------------------------------------------------------------------------
\* The properties of Ingest, stated and explained there, over failed writes and
\* dropped callers too: tables, caches and callers keep their types, the catalog
\* stays sound and within its cap, a key lands once and whole, and an answer is
\* true of the index.
TablesSound ==
  /\ part = "txn" => TypeOK
  /\ part = "ingest" => /\ Landing!TypeOK /\ Landing!SeriesSound
                        /\ Landing!OncePerKey /\ Landing!RepliesHold

\* The cap leaves room for one of the two series, so batches that raced to
\* register are refused at their commits and their frames unlinked, beside
\* COMMITs that fail, are ambiguous or lose their caller: no frame that a row
\* names goes with them (the error path of SegmentStore::ingest).
FramesKept == part = "ingest" => Landing!FramesKept
=============================================================================

------------------------------ MODULE Pipeline ------------------------------
(***************************************************************************)
(* From stored rows to extracted patterns: the batch consumer of an aspect  *)
(* (load_unprocessed_batch_queue.rs), in both of its forms, and the steps   *)
(* of Pipeline::run behind it, beside ingests.  A seal-backed aspect names  *)
(* its new rows in the change log; a rows-mode aspect in the queue of       *)
(* unbatched timestamps.                                                    *)
(*                                                                          *)
(* Times are the points of the aspect's grid, and ingests leave no gap, so  *)
(* that a batch is the rows of its window.  A row is the number of the      *)
(* write it came with.  One pipeline of the aspect runs at a time.          *)
(***************************************************************************)
EXTENDS Integers, FiniteSets

CONSTANTS
  Last,       \* times are 0 .. Last
  Span,       \* a window ends Span after its start: batch_size - 1 steps
  Modes,      \* of "log" and "queue"
  Backfills,  \* whether rows may come before the earliest
  CutOff,     \* the points a run may end at, before its end
  Retention,  \* of the extracted-batch record, in runs
  MaxWrites,  \* per mode
  MaxRuns, MaxCuts

\* Windows of at least a step, and a record that is kept for all the runs.
PipelineAssumption == Last \in Nat /\ Span \in Nat \ {0} /\ Modes \subseteq {"log", "queue"}
RetentionAssumption == MaxRuns \in Nat /\ Retention \in Nat /\ MaxRuns <= Retention

VARIABLES
  mode,
  rows,      \* per time, the number of the write it was last stored by, or 0
  log,       \* segment_changes
  entries,   \* the unbatched queue: per time, its queued_at, or 0
  ingest,    \* the ingest in progress
  writes,    \* how many writes, which also stamp the queue
  cache,     \* the cached earliest measurement, or NoTime
  queued,    \* the unprocessed batches
  processed, \* the processed ones: no key keeps a batch from being there twice
  record,    \* extracted_batches
  run,       \* the pipeline's run
  runs, cuts,
  first,     \* history: the write that first stored each time
  batched,   \* history: every batch ever queued
  extracted, \* history: the batches whose occurrence is stored
  again      \* history: those stored twice

store == <<rows, log, entries, cache>>
tables == <<queued, processed, record>>
history == <<first, batched, extracted, again>>
pipelineVars == <<mode, store, ingest, writes, tables, run, runs, cuts, history>>

Times == 0 .. Last
NoTime == Last + 1
Stored == {t \in Times : rows[t] > 0}
Earliest == CHOOSE t \in Stored : \A u \in Stored : t <= u
Latest == CHOOSE t \in Stored : \A u \in Stored : t >= u

NoIngest == [at |-> "none", lo |-> 0, hi |-> 0]
Idle == [at |-> "idle", full |-> FALSE, work |-> {}, base |-> NoTime, upto |-> NoTime,
         todo |-> {}, ack |-> {}]

\* The window that starts at s, and its batch: its end is the last of its rows.
Interior(s) == s .. s + Span - 1
Batch(s) == [start |-> s, rows |-> [t \in s .. s + Span |-> rows[t]]]

PipelineTypeOK ==
  /\ rows \in [Times -> 0 .. MaxWrites[mode]] /\ entries \in [Times -> 0 .. MaxWrites[mode]]
  /\ cache \in Times \cup {NoTime}
  /\ ingest.at \in {"none", "queued", "committed", "forgotten"}
  /\ run.at \in {"idle", "changes", "decide", "entries", "base", "upto", "build", "store",
                 "ack", "move", "delete", "extract", "remove"}
  /\ \A r \in record : r.batch \in extracted
  /\ queued \subseteq batched /\ {p.batch : p \in processed} \subseteq batched

PipelineInit ==
  /\ mode \in Modes
  /\ rows = [t \in Times |-> 0] /\ log = {} /\ entries = [t \in Times |-> 0]
  /\ ingest = NoIngest /\ writes = 0 /\ cache = NoTime
  /\ queued = {} /\ processed = {} /\ record = {}
  /\ run = Idle /\ runs = 0 /\ cuts = 0
  /\ first = [t \in Times |-> 0] /\ batched = {} /\ extracted = {} /\ again = {}

-----------------------------------------------------------------------------
(* Ingest: batch_capture_measurements. *)

MayIngest(lo, hi) ==
  /\ lo <= hi
  /\ IF Stored = {} THEN Backfills \/ lo = 0
     ELSE /\ lo <= Latest + 1 /\ hi >= Earliest - 1
          /\ Backfills \/ lo >= Earliest

Land(lo, hi) ==
  /\ rows' = [t \in Times |-> IF t \in lo .. hi THEN writes + 1 ELSE rows[t]]
  /\ first' = [t \in Times |-> IF t \in lo .. hi /\ rows[t] = 0 THEN writes + 1 ELSE first[t]]

Stamp(lo, hi) == entries' = [t \in Times |-> IF t \in lo .. hi THEN writes + 1 ELSE entries[t]]

\* A seal-backed aspect's rows and their change are one commit.
Seal(lo, hi) ==
  /\ mode = "log" /\ ingest = NoIngest /\ writes < MaxWrites[mode] /\ MayIngest(lo, hi)
  /\ Land(lo, hi)
  /\ log' = log \cup {[epoch |-> writes + 1, lo |-> lo, hi |-> hi]}
  /\ writes' = writes + 1
  /\ ingest' = [at |-> "committed", lo |-> lo, hi |-> hi]
  /\ UNCHANGED <<mode, entries, cache, tables, run, runs, cuts, batched, extracted, again>>

\* In rows mode the timestamps are queued first.
Enqueue(lo, hi) ==
  /\ mode = "queue" /\ ingest = NoIngest /\ writes + 3 <= MaxWrites[mode] /\ MayIngest(lo, hi)
  /\ Stamp(lo, hi)
  /\ writes' = writes + 1
  /\ ingest' = [at |-> "queued", lo |-> lo, hi |-> hi]
  /\ UNCHANGED <<mode, rows, log, cache, tables, run, runs, cuts, history>>

Insert ==
  /\ ingest.at = "queued"
  /\ Land(ingest.lo, ingest.hi)
  /\ writes' = writes + 1
  /\ ingest' = [ingest EXCEPT !.at = "committed"]
  /\ UNCHANGED <<mode, log, entries, cache, tables, run, runs, cuts, batched, extracted, again>>

\* The call fails before its rows land: they stay queued.
IngestFails ==
  /\ ingest.at = "queued"
  /\ ingest' = NoIngest
  /\ UNCHANGED <<mode, store, writes, tables, run, runs, cuts, history>>

\* forget_cached_earliest_measurement, after the commit.
Forget ==
  /\ ingest.at = "committed"
  /\ cache' = NoTime
  /\ ingest' = IF mode = "log" THEN NoIngest ELSE [ingest EXCEPT !.at = "forgotten"]
  /\ UNCHANGED <<mode, rows, log, entries, writes, tables, run, runs, cuts, history>>

\* requeue_committed: a consumer may have read the entries before their rows.
Requeue ==
  /\ ingest.at = "forgotten"
  /\ Stamp(ingest.lo, ingest.hi)
  /\ writes' = writes + 1
  /\ ingest' = NoIngest
  /\ UNCHANGED <<mode, rows, log, cache, tables, run, runs, cuts, history>>

-----------------------------------------------------------------------------
(* The consumer. *)

BeginRun ==
  /\ run = Idle /\ runs < MaxRuns
  /\ runs' = runs + 1
  /\ run' = [Idle EXCEPT !.at = IF mode = "log" THEN "changes" ELSE "decide"]
  /\ UNCHANGED <<mode, store, ingest, writes, tables, cuts, history>>

ReadChanges ==
  /\ run.at = "changes"
  /\ run' = [run EXCEPT !.at = "decide", !.work = log]
  /\ UNCHANGED <<mode, store, ingest, writes, tables, runs, cuts, history>>

NoBatches == queued = {} /\ processed = {}
Waiting == {t \in Times : entries[t] > 0}

\* The counts: no batches, and in rows mode no timestamps, is a first run.
Decide ==
  LET full == NoBatches /\ (mode = "queue" => Waiting = {})
      at == CASE full -> "base"
              [] ~full /\ mode = "queue" -> "entries"
              [] ~full /\ mode = "log" -> IF run.work = {} THEN "move" ELSE "base"
  IN
  /\ run.at = "decide"
  /\ run' = [run EXCEPT !.at = at, !.full = full]
  /\ UNCHANGED <<mode, store, ingest, writes, tables, runs, cuts, history>>

ReadEntries ==
  /\ run.at = "entries"
  /\ run' = [run EXCEPT !.at = IF Waiting = {} THEN "move" ELSE "base",
                        !.work = {[time |-> t, stamp |-> entries[t]] : t \in Waiting}]
  /\ UNCHANGED <<mode, store, ingest, writes, tables, runs, cuts, history>>

\* The base of the windows.  A first run takes it from the cache; with no rows
\* it fails, and another run has nothing to batch.
ReadBase ==
  /\ run.at = "base"
  /\ \/ /\ run.full /\ cache # NoTime
        /\ run' = [run EXCEPT !.at = "upto", !.base = cache]
        /\ UNCHANGED cache
     \/ /\ ~run.full \/ cache = NoTime
        /\ Stored # {}
        /\ run' = [run EXCEPT !.at = "upto", !.base = Earliest]
        /\ cache' = IF run.full THEN Earliest ELSE cache
     \/ /\ ~run.full \/ cache = NoTime
        /\ Stored = {}
        /\ run' = IF run.full THEN Idle ELSE [Idle EXCEPT !.at = "move"]
        /\ UNCHANGED cache
  /\ UNCHANGED <<mode, rows, log, entries, ingest, writes, tables, runs, cuts, history>>

\* get_latest_measurement, which is not cached.
ReadLatest ==
  /\ run.at = "upto"
  /\ run' = [run EXCEPT !.at = "build", !.upto = Latest]
  /\ UNCHANGED <<mode, store, ingest, writes, tables, runs, cuts, history>>

\* calculate_affected_windows, and its form for a span, on the grid.
Affected(lo, hi) == {s \in run.base .. Last : s <= hi /\ lo < s + Span}
AffectedBy(w) == IF mode = "log" THEN Affected(w.lo, w.hi) ELSE Affected(w.time, w.time)

\* What a run that built these windows may acknowledge: all it read, after a
\* full rebuild; the changes before the first that has a window left; or the
\* timestamps that a window covers.
Acked(built) ==
  CASE run.full -> run.work
    [] ~run.full /\ mode = "log" ->
         {w \in run.work : \A v \in run.work : v.epoch <= w.epoch => AffectedBy(v) \subseteq built}
    [] ~run.full /\ mode = "queue" ->
         {w \in run.work : \E s \in built : w.time \in Interior(s)}

\* The windows that end by the latest row.  In rows mode, timestamps before the
\* base, whose rows have not landed, have none.
Build ==
  LET flagged == IF run.full THEN run.base .. Last ELSE UNION {AffectedBy(w) : w \in run.work}
      built == {s \in flagged : s + Span <= run.upto /\ \A t \in s .. s + Span : rows[t] > 0}
  IN
  /\ run.at = "build"
  /\ run' = IF mode = "queue" /\ ~run.full /\ flagged = {}
            THEN [run EXCEPT !.at = "ack", !.ack = run.work]
            ELSE [run EXCEPT !.at = "store", !.todo = {Batch(s) : s \in built}, !.ack = Acked(built)]
  /\ UNCHANGED <<mode, store, ingest, writes, tables, runs, cuts, history>>

BugKnown(b) == b \in queued \/ \E p \in processed : p.batch = b

\* queue_batches_unless_known, by the batch's hash.
Known(b) ==
  \/ b \in queued
  \/ \E p \in processed : p.batch = b
  \/ \E r \in record : r.batch = b

\* The batches are stored a chunk, here a batch, at a time.
Store ==
  /\ run.at = "store"
  /\ IF run.todo = {}
     THEN run' = [run EXCEPT !.at = "ack"] /\ UNCHANGED <<queued, batched>>
     ELSE LET b == CHOOSE x \in run.todo : \A y \in run.todo : x.start <= y.start IN
          /\ queued' = IF Known(b) THEN queued ELSE queued \cup {b}
          /\ batched' = batched \cup {b}
          /\ run' = [run EXCEPT !.todo = @ \ {b}]
  /\ UNCHANGED <<mode, store, ingest, writes, processed, record, runs, cuts, first, extracted, again>>

BugAcknowledge ==
  /\ run.at = "ack"
  /\ log' = {w \in log : w \notin run.ack}
  /\ entries' = [t \in Times |-> IF \E w \in run.ack : mode = "queue" /\ w.time = t THEN 0 ELSE entries[t]]
  /\ run' = [Idle EXCEPT !.at = "move"]
  /\ UNCHANGED <<mode, rows, cache, ingest, writes, tables, runs, cuts, history>>

\* ack_seal_changes, and dequeue_unbatched_entries: an entry that was queued
\* again since it was read stays.
Acknowledge ==
  /\ run.at = "ack"
  /\ log' = log \ run.ack
  /\ entries' = [t \in Times |-> IF [time |-> t, stamp |-> entries[t]] \in run.ack THEN 0 ELSE entries[t]]
  /\ run' = [Idle EXCEPT !.at = "move"]
  /\ UNCHANGED <<mode, rows, cache, ingest, writes, tables, runs, cuts, history>>

-----------------------------------------------------------------------------
(* build_processed_batch_queue and build_patterns_queue. *)

\* move_batches_to_processed: two transactions, and no check.
MoveInsert ==
  /\ run.at = "move"
  /\ processed' = processed \cup
       {[batch |-> b, copy |-> IF \E p \in processed : p.batch = b THEN 2 ELSE 1] : b \in queued}
  /\ run' = [run EXCEPT !.at = "delete"]
  /\ UNCHANGED <<mode, store, ingest, writes, queued, record, runs, cuts, history>>

MoveDelete ==
  /\ run.at = "delete"
  /\ queued' = {}
  /\ run' = [run EXCEPT !.at = "extract"]
  /\ UNCHANGED <<mode, store, ingest, writes, processed, record, runs, cuts, history>>

\* Each processed batch becomes an occurrence of a pattern.  A dictionary that
\* cannot be written is only warned of.
Extract ==
  LET batches == {p.batch : p \in processed} IN
  /\ run.at = "extract"
  /\ extracted' = extracted \cup batches
  /\ again' = again \cup (batches \cap extracted) \cup {p.batch : p \in {q \in processed : q.copy = 2}}
  /\ run' = [run EXCEPT !.at = "remove"]
  /\ UNCHANGED <<mode, store, ingest, writes, tables, runs, cuts, first, batched>>

\* The pipeline has no dictionary.
NoExtract ==
  /\ run.at = "extract"
  /\ run' = Idle
  /\ UNCHANGED <<mode, store, ingest, writes, tables, runs, cuts, history>>

\* remove_extracted_batches, one transaction; of no batches, nothing.
Remove ==
  /\ run.at = "remove"
  /\ IF processed = {} THEN UNCHANGED tables
     ELSE /\ record' = {r \in record : r.run >= runs - Retention}
                         \cup {[batch |-> p.batch, run |-> runs] : p \in processed}
          /\ processed' = {} /\ UNCHANGED queued
  /\ run' = Idle
  /\ UNCHANGED <<mode, store, ingest, writes, runs, cuts, history>>

\* The run fails or the process ends, and the cache with it.
CutRun ==
  /\ run.at \in CutOff /\ cuts < MaxCuts
  /\ cuts' = cuts + 1
  /\ run' = Idle
  /\ cache' \in {cache, NoTime}
  /\ UNCHANGED <<mode, rows, log, entries, ingest, writes, tables, runs, history>>

PipelineNext ==
  \/ \E lo, hi \in Times : Seal(lo, hi) \/ Enqueue(lo, hi)
  \/ Insert \/ IngestFails \/ Forget \/ Requeue
  \/ BeginRun \/ ReadChanges \/ Decide \/ ReadEntries \/ ReadBase \/ ReadLatest \/ Build
  \/ Store \/ Acknowledge \/ MoveInsert \/ MoveDelete \/ Extract \/ NoExtract \/ Remove \/ CutRun

PipelineSpec == PipelineInit /\ [][PipelineNext]_pipelineVars

-----------------------------------------------------------------------------
\* traits/inputs.rs, remove_extracted_batches: a batch becomes one occurrence,
\* although its window is built again after a cut, or by an ingest that ran
\* beside the consumer.
ExtractedOnce == again = {}

\* Whether work that touches the window's interior is still to come.
Outstanding(s) ==
  \/ \E w \in log : w.lo < s + Span /\ w.hi >= s
  \/ \E t \in Interior(s) : entries[t] > 0
  \/ mode = "queue" /\ ingest # NoIngest /\ \E t \in Interior(s) : t \in ingest.lo .. ingest.hi

\* Nothing acknowledged is left unbatched.  The end of a window belongs to the
\* next ones: the consumer leaves a window that only its last row completes to
\* a full rebuild (tests/change_log_consumer.rs), and so does this.
AcknowledgedIsBatched ==
  \A s \in 0 .. Last - Span :
    LET whole == \A t \in s .. s + Span : rows[t] > 0 IN
    whole /\ ~Outstanding(s) /\ (\E t \in Interior(s) : rows[t] >= first[s + Span]) =>
      \E b \in batched : b.start = s /\ \A t \in Interior(s) : b.rows[t] = rows[t]
=============================================================================

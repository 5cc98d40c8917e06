--------------------------- MODULE PipelineProofs ---------------------------
(***************************************************************************)
(* That no batch is extracted twice, and that nothing acknowledged is left  *)
(* unbatched, over any ingests beside the pipeline, each where the model    *)
(* checker finds no counterexample: for the one, no run is cut off at two   *)
(* points; for the other, no row comes before the earliest.                 *)
(***************************************************************************)
EXTENDS Pipeline, WellFoundedInduction, NaturalsInduction, TLAPS

-----------------------------------------------------------------------------
(* The inductive invariants. *)

Phases == {"idle", "changes", "decide", "entries", "base", "upto", "build", "store", "ack",
           "move", "delete", "extract", "remove"}

Changes == [epoch : 1 .. writes, lo : Times, hi : Times]
Entries == [time : Times, stamp : 1 .. writes]

\* What a run works on: changes, or entries of the queue.
Units == IF mode = "log" THEN Changes ELSE Entries

RunShape ==
  run = [at |-> run.at, full |-> run.full, work |-> run.work, base |-> run.base,
         upto |-> run.upto, todo |-> run.todo, ack |-> run.ack]

\* A batch waits, is processed or is extracted, and then it is recorded; a
\* batch waits and is processed only while a run moves it.
BatchesOf(ps) == {p.batch : p \in ps}

OnceInv ==
  /\ mode \in Modes
  /\ RunShape /\ run.at \in Phases /\ runs \in 0 .. MaxRuns
  /\ again = {}
  /\ \A p \in processed : p.copy = 1
  /\ \A r \in record : r.run \in 1 .. runs
  /\ BatchesOf(processed) \cap BatchesOf(record) = {}
  /\ queued \cap BatchesOf(record) = {}
  /\ IF run.at = "delete" THEN queued \subseteq BatchesOf(processed)
     ELSE queued \cap BatchesOf(processed) = {}
  /\ run.at \in {"extract", "remove"} => queued = {}
  /\ run.at # "idle" => runs >= 1
  /\ extracted = BatchesOf(record) \cup (IF run.at = "remove" THEN BatchesOf(processed) ELSE {})

\* The rows of a time wait to be batched, but for the work in seen.
Landed == mode = "queue" /\ ingest.at \in {"committed", "forgotten"}

Fresh(t, seen) ==
  \/ \E w \in log \ seen : t \in w.lo .. w.hi
  \/ entries[t] > 0 /\ [time |-> t, stamp |-> entries[t]] \notin seen
  \/ Landed /\ t \in ingest.lo .. ingest.hi

\* A window that a change log's consumer owes a batch.
Due(s) ==
  /\ \A t \in s .. s + Span : rows[t] > 0
  /\ \E t \in Interior(s) : rows[t] >= first[s + Span]

\* Windows that are due wait for work outside seen, or are in the batches.
Covered(seen, batches) ==
  \A s \in 0 .. Last - Span :
    Due(s) /\ (\A t \in Interior(s) : ~Fresh(t, seen)) =>
      \E b \in batches : b.start = s /\ \A t \in Interior(s) : b.rows[t] = rows[t]

\* Rows that landed since a row past the latest that the run knows are fresh.
LateAreFresh ==
  \A u, t \in Times : u > run.upto /\ rows[u] > 0 /\ rows[t] >= first[u] => Fresh(t, run.work)

\* With no backfill, the rows are those of a prefix of the grid, and the cached
\* earliest is its start.
RowsInv ==
  /\ mode \in Modes /\ writes \in Nat
  /\ rows \in [Times -> 0 .. writes] /\ first \in [Times -> 0 .. writes]
  /\ entries \in [Times -> 0 .. writes]
  /\ \A t, u \in Times : u < t /\ rows[t] > 0 => rows[u] > 0
  /\ ingest \in [at : {"none", "queued", "committed", "forgotten"}, lo : Times, hi : Times]
  /\ ingest.at = "queued" => \A u \in Times : u < ingest.lo => rows[u] > 0
  /\ cache \in {0, NoTime} /\ (cache = 0 => rows[0] > 0)
  /\ log \subseteq Changes
  /\ mode = "log" => entries = [t \in Times |-> 0] /\ ingest.at \in {"none", "committed"}
  /\ mode = "queue" => log = {}

\* From the building of the batches to the acknowledgement, the windows that
\* wait for no more than what will be acknowledged are batched or to be stored.
RunInv ==
  /\ RunShape /\ run.at \in Phases
  /\ run.work \subseteq Units /\ run.ack \subseteq Units
  /\ run.at \in {"upto", "build"} => run.base = 0 /\ rows[0] > 0
  /\ run.at = "build" => LateAreFresh /\ run.upto \in Times
  /\ run.at # "store" => run.todo = {}
  /\ run.at \in {"store", "ack"} => Covered(run.ack, batched \cup run.todo)

BatchedInv == RowsInv /\ RunInv /\ Covered({}, batched)

\* A set of natural numbers has a least member.
LEMMA Least ==
  ASSUME NEW T \in SUBSET Nat, T # {}
  PROVE  \E m \in T : \A y \in T : m <= y
<1>1. IsWellFoundedOn(OpToRel(<, Nat), Nat)
  BY NatLessThanWellFounded
<1>2. PICK m \in T : \A y \in T : ~(<<y, m>> \in OpToRel(<, Nat))
  BY <1>1, WFMin
<1>3. \A y \in T : ~(y < m)
  BY <1>2 DEF OpToRel
<1> QED
  BY <1>3, SMT

-----------------------------------------------------------------------------
(* ExtractedOnce. *)

\* The three phases that a decision leads to.
LEMMA DecideRun ==
  ASSUME PipelineAssumption, mode \in Modes, RunShape, Decide
  PROVE  /\ RunShape' /\ run.at = "decide" /\ run'.at \in {"base", "entries", "move"}
         /\ run'.work = run.work /\ run'.ack = run.ack /\ run'.todo = run.todo
<1> DEFINE full == NoBatches /\ (mode = "queue" => Waiting = {})
           at == CASE full -> "base"
                 [] ~full /\ mode = "queue" -> "entries"
                 [] ~full /\ mode = "log" -> IF run.work = {} THEN "move" ELSE "base"
<1>1. run' = [run EXCEPT !.at = at, !.full = full] /\ run.at = "decide"
  BY DEF Decide
<1>2. at \in {"base", "entries", "move"}
  <2>1. CASE full BY <2>1, Zenon
  <2>2. CASE ~full /\ mode = "queue"
    <3>1. at = "entries" BY <2>2, Zenon
    <3> QED BY <3>1
  <2>3. CASE ~full /\ mode = "log"
    <3>1. mode # "queue" BY <2>3
    <3>2. at = IF run.work = {} THEN "move" ELSE "base" BY <2>3, <3>1, Zenon
    <3> HIDE DEF at
    <3> QED BY <3>2
  <2> QED BY <2>1, <2>2, <2>3 DEF PipelineAssumption
<1> HIDE DEF at, full
<1> QED BY <1>1, <1>2 DEF RunShape

LEMMA InitOnce == RetentionAssumption /\ PipelineInit => OnceInv
BY DEF RetentionAssumption, PipelineInit, OnceInv, RunShape, Idle, Phases, BatchesOf

\* The steps that touch no queue of batches leave the run in a phase from
\* which it extracts nothing.
LEMMA NextOnce ==
  ASSUME PipelineAssumption, RetentionAssumption, CutOff \cap {"delete", "remove"} = {}, OnceInv, [PipelineNext]_pipelineVars
  PROVE  OnceInv'
<1> USE DEF OnceInv
<1>0. UNCHANGED mode
  BY DEF PipelineNext, pipelineVars, Seal, Enqueue, Insert, IngestFails, Forget, Requeue, BeginRun,
     ReadChanges, Decide, ReadEntries, ReadBase, ReadLatest, Build, Store, Acknowledge, MoveInsert,
     MoveDelete, Extract, NoExtract, Remove, CutRun
<1>s. CASE UNCHANGED pipelineVars
  BY <1>s DEF pipelineVars, tables, history, RunShape
<1>i. CASE \/ \E lo, hi \in Times : Seal(lo, hi) \/ Enqueue(lo, hi)
           \/ Insert \/ IngestFails \/ Forget \/ Requeue
  <2>1. UNCHANGED <<tables, run, runs, extracted, again>>
    BY <1>i DEF Seal, Enqueue, Insert, IngestFails, Forget, Requeue, history
  <2> QED BY <1>0, <2>1 DEF tables, RunShape
<1>b. CASE BeginRun
  <2>1. /\ run.at = "idle" /\ runs' = runs + 1 /\ runs < MaxRuns
        /\ UNCHANGED <<tables, extracted, again>>
    BY <1>b DEF BeginRun, Idle, history
  <2>2. RunShape' /\ run'.at \in {"changes", "decide"}
    BY <1>b DEF BeginRun, Idle, RunShape
  <2> QED BY <1>0, <2>1, <2>2 DEF tables, Phases, RetentionAssumption
<1>r. CASE ReadChanges \/ Decide \/ ReadEntries \/ ReadBase \/ ReadLatest \/ Build \/ Acknowledge
  <2>1. UNCHANGED <<tables, runs, extracted, again>>
    BY <1>r DEF ReadChanges, Decide, ReadEntries, ReadBase, ReadLatest, Build, Acknowledge, history
  <2>2. run.at \in {"changes", "decide", "entries", "base", "upto", "build", "ack"}
    BY <1>r DEF ReadChanges, Decide, ReadEntries, ReadBase, ReadLatest, Build, Acknowledge
  <2>3. RunShape' /\ run'.at \in {"idle", "decide", "entries", "base", "upto", "build", "store", "ack", "move"}
    <3>1. CASE ReadChanges BY <3>1 DEF ReadChanges, RunShape
    <3>2. CASE Decide BY <3>2, DecideRun
    <3>3. CASE ReadEntries BY <3>3 DEF ReadEntries, RunShape
    <3>4. CASE ReadBase
      <4>1. \/ run' = [run EXCEPT !.at = "upto", !.base = cache]
            \/ run' = [run EXCEPT !.at = "upto", !.base = Earliest]
            \/ run' = Idle \/ run' = [Idle EXCEPT !.at = "move"]
        BY <3>4 DEF ReadBase
      <4>2. CASE run' = [run EXCEPT !.at = "upto", !.base = cache]
        BY <4>2 DEF RunShape
      <4>3. CASE run' = [run EXCEPT !.at = "upto", !.base = Earliest]
        BY <4>3 DEF RunShape
      <4>4. CASE run' = Idle
        BY <4>4 DEF RunShape, Idle
      <4>5. CASE run' = [Idle EXCEPT !.at = "move"]
        BY <4>5 DEF RunShape, Idle
      <4> QED BY <4>1, <4>2, <4>3, <4>4, <4>5
    <3>5. CASE ReadLatest BY <3>5 DEF ReadLatest, RunShape
    <3>6. CASE Build BY <3>6 DEF Build, RunShape
    <3>7. CASE Acknowledge BY <3>7 DEF Acknowledge, RunShape, Idle
    <3> QED BY <1>r, <3>1, <3>2, <3>3, <3>4, <3>5, <3>6, <3>7
  <2> QED BY <1>0, <2>1, <2>2, <2>3 DEF tables, Phases
<1>t. CASE Store
  <2>1. PICK b : queued' = (IF Known(b) THEN queued ELSE queued \cup {b}) \/ queued' = queued
    BY <1>t DEF Store
  <2>2. RunShape' /\ run.at = "store" /\ run'.at \in {"store", "ack"}
    BY <1>t DEF Store, RunShape
  <2>3. UNCHANGED <<processed, record, runs, extracted, again>>
    BY <1>t DEF Store
  <2> QED BY <1>0, <2>1, <2>2, <2>3 DEF Known, BatchesOf, Phases
<1>m. CASE MoveInsert
  <2>1. RunShape' /\ run.at = "move" /\ run'.at = "delete"
    BY <1>m DEF MoveInsert, RunShape
  <2>2. UNCHANGED <<queued, record, runs, extracted, again>>
    BY <1>m DEF MoveInsert, history
  <2>3. \A b \in queued : ~\E p \in processed : p.batch = b
    BY <2>1 DEF BatchesOf
  <2>4. processed' = processed \cup {[batch |-> b, copy |-> 1] : b \in queued}
    BY <1>m, <2>3 DEF MoveInsert
  <2>5. BatchesOf(processed') = BatchesOf(processed) \cup queued
    <3>1. \A b : b \in BatchesOf(processed') => b \in BatchesOf(processed) \/ b \in queued
      BY <2>4 DEF BatchesOf
    <3>2. \A b \in BatchesOf(processed) : b \in BatchesOf(processed')
      BY <2>4 DEF BatchesOf
    <3>3. ASSUME NEW b \in queued PROVE b \in BatchesOf(processed')
      <4>1. [batch |-> b, copy |-> 1] \in processed'
        BY <2>4
      <4> QED BY <4>1 DEF BatchesOf
    <3> QED BY <3>1, <3>2, <3>3
  <2> QED BY <1>0, <2>1, <2>2, <2>4, <2>5 DEF BatchesOf, Phases
<1>d. CASE MoveDelete
  <2>1. RunShape' /\ run.at = "delete" /\ run'.at = "extract"
    BY <1>d DEF MoveDelete, RunShape
  <2>2. queued' = {} /\ UNCHANGED <<processed, record, runs, extracted, again>>
    BY <1>d DEF MoveDelete, history
  <2> QED BY <1>0, <2>1, <2>2 DEF Phases
<1>e. CASE Extract
  <2>1. RunShape' /\ run.at = "extract" /\ run'.at = "remove"
    BY <1>e DEF Extract, RunShape
  <2>2. /\ extracted' = extracted \cup BatchesOf(processed)
        /\ again' = again \cup (BatchesOf(processed) \cap extracted)
                         \cup {p.batch : p \in {q \in processed : q.copy = 2}}
        /\ UNCHANGED <<queued, processed, record, runs>>
    BY <1>e DEF Extract, BatchesOf, tables
  <2>3. {q \in processed : q.copy = 2} = {}
    OBVIOUS
  <2>4. again' = {}
    BY <2>1, <2>2, <2>3
  <2> QED BY <1>0, <2>1, <2>2, <2>4 DEF Phases
<1>n. CASE NoExtract
  <2>1. RunShape' /\ run.at = "extract" /\ run'.at = "idle"
    BY <1>n DEF NoExtract, RunShape, Idle
  <2>2. UNCHANGED <<tables, runs, extracted, again>>
    BY <1>n DEF NoExtract, history
  <2> QED BY <1>0, <2>1, <2>2 DEF tables, Phases
<1>v. CASE Remove
  <2>1. RunShape' /\ run.at = "remove" /\ run'.at = "idle"
    BY <1>v DEF Remove, RunShape, Idle
  <2>2. UNCHANGED <<queued, runs, extracted, again>>
    BY <1>v DEF Remove, history, tables
  <2>3. CASE processed = {}
    <3>1. UNCHANGED <<processed, record>>
      BY <1>v, <2>3 DEF Remove, tables
    <3>2. BatchesOf(processed) = {} /\ BatchesOf(processed') = {}
      BY <2>3, <3>1 DEF BatchesOf
    <3> QED BY <1>0, <2>1, <2>2, <3>1, <3>2 DEF Phases
  <2>4. CASE processed # {}
    <3>1. /\ record' = {r \in record : r.run >= runs - Retention}
                         \cup {[batch |-> p.batch, run |-> runs] : p \in processed}
          /\ processed' = {}
      BY <1>v, <2>4 DEF Remove
    <3>2. {r \in record : r.run >= runs - Retention} = record
      BY DEF RetentionAssumption
    <3>3. BatchesOf(record') = BatchesOf(record) \cup BatchesOf(processed)
      <4>1. \A b : b \in BatchesOf(record') => b \in BatchesOf(record) \/ b \in BatchesOf(processed)
        BY <3>1, <3>2 DEF BatchesOf
      <4>2. \A b \in BatchesOf(record) : b \in BatchesOf(record')
        BY <3>1, <3>2 DEF BatchesOf
      <4>3. ASSUME NEW b \in BatchesOf(processed) PROVE b \in BatchesOf(record')
        <5>1. [batch |-> b, run |-> runs] \in record'
          BY <3>1 DEF BatchesOf
        <5> QED BY <5>1 DEF BatchesOf
      <4> QED BY <4>1, <4>2, <4>3
    <3>4. runs \in 1 .. MaxRuns
      BY <2>1
    <3>5. \A r \in record' : r.run \in 1 .. runs
      BY <3>1, <3>2, <3>4
    <3>6. BatchesOf(processed') = {}
      BY <3>1 DEF BatchesOf
    <3> QED BY <1>0, <2>1, <2>2, <3>1, <3>3, <3>5, <3>6 DEF Phases
  <2> QED BY <2>3, <2>4
<1>c. CASE CutRun
  <2>1. RunShape' /\ run.at \notin {"delete", "remove"} /\ run'.at = "idle"
    BY <1>c DEF CutRun, RunShape, Idle
  <2>2. UNCHANGED <<tables, runs, extracted, again>>
    BY <1>c DEF CutRun, history
  <2> QED BY <1>0, <2>1, <2>2 DEF tables, Phases
<1> QED
  BY <1>s, <1>i, <1>b, <1>r, <1>t, <1>m, <1>d, <1>e, <1>n, <1>v, <1>c DEF PipelineNext

\* inputs.rs, remove_extracted_batches: over any ingests, backfills included,
\* and any cuts but those between the two transactions of a move or between an
\* extraction and its removal, a batch that the record remembers becomes one
\* occurrence.
THEOREM ExtractsOnce ==
  PipelineAssumption /\ RetentionAssumption /\ CutOff \cap {"delete", "remove"} = {} =>
    (PipelineSpec => []ExtractedOnce)
<1> SUFFICES ASSUME PipelineAssumption, RetentionAssumption, CutOff \cap {"delete", "remove"} = {}
             PROVE  PipelineSpec => []ExtractedOnce
  OBVIOUS
<1>1. PipelineInit => OnceInv
  BY InitOnce
<1>2. OnceInv /\ [PipelineNext]_pipelineVars => OnceInv'
  BY NextOnce
<1>3. OnceInv => ExtractedOnce
  BY DEF OnceInv, ExtractedOnce
<1> QED BY <1>1, <1>2, <1>3, PTL DEF PipelineSpec

-----------------------------------------------------------------------------
(* AcknowledgedIsBatched: the ingests. *)

Ingests ==
  \/ \E lo, hi \in Times : Seal(lo, hi) \/ Enqueue(lo, hi)
  \/ Insert \/ IngestFails \/ Forget \/ Requeue

\* With no backfill, the rows are those of a prefix of the grid.
LEMMA Stocked ==
  ASSUME PipelineAssumption, RowsInv, Stored # {}
  PROVE  /\ Earliest = 0 /\ Earliest \in Stored
         /\ Latest \in Stored /\ \A u \in Stored : u <= Latest
<1>1. 0 \in Stored
  BY DEF Stored, RowsInv, Times, PipelineAssumption
<1>2. \A u \in Stored : 0 <= u
  BY DEF Stored, Times
<1>3. Earliest = 0
  <2>1. \A x \in Stored : (\A u \in Stored : x <= u) => x = 0
    BY <1>1, <1>2 DEF Stored, Times
  <2> QED BY <1>1, <1>2, <2>1 DEF Earliest
<1>4. \E m \in Stored : \A u \in Stored : u <= m
  <2> DEFINE T == {n \in Nat : Last - n \in Stored}
  <2>1. T # {}
    <3>1. Last \in T
      BY <1>1 DEF PipelineAssumption
    <3> QED BY <3>1
  <2>2. PICK n \in T : \A y \in T : n <= y
    BY <2>1, Least
  <2>3. \A u \in Stored : Last - u \in T
    BY DEF Stored, Times, PipelineAssumption
  <2>4. ASSUME NEW u \in Stored PROVE u <= Last - n
    <3>1. u \in 0 .. Last /\ Last \in Nat /\ n \in Nat
      BY DEF Stored, Times, PipelineAssumption
    <3>2. n <= Last - u
      BY <2>2, <2>3
    <3> QED BY <3>1, <3>2
  <2> QED BY <2>2, <2>4
<1>5. Latest \in Stored /\ \A u \in Stored : u <= Latest
  BY <1>4 DEF Latest
<1> QED BY <1>1, <1>3, <1>5

\* A new span of rows starts at a row that is stored or next to one.
LEMMA NextToStored ==
  ASSUME PipelineAssumption, ~Backfills, RowsInv, NEW lo \in Times, NEW hi \in Times, MayIngest(lo, hi)
  PROVE  \A u \in Times : u < lo => rows[u] > 0
<1>1. CASE Stored = {}
  BY <1>1 DEF MayIngest, Times
<1>2. CASE Stored # {}
  <2>1. lo <= Latest + 1
    BY <1>2 DEF MayIngest
  <2>2. Latest \in Times /\ rows[Latest] > 0
    BY <1>2, Stocked DEF Stored
  <2>3. \A u \in Times : u < Latest => rows[u] > 0
    BY <2>2 DEF RowsInv
  <2> QED BY <2>1, <2>2, <2>3 DEF Times, PipelineAssumption
<1> QED BY <1>1, <1>2

LEMMA RowsLand ==
  ASSUME PipelineAssumption, RowsInv, NEW lo \in Times, NEW hi \in Times, Land(lo, hi),
         writes' = writes + 1, \A u \in Times : u < lo => rows[u] > 0
  PROVE  /\ rows' \in [Times -> 0 .. writes'] /\ first' \in [Times -> 0 .. writes']
         /\ \A t, u \in Times : u < t /\ rows'[t] > 0 => rows'[u] > 0
         /\ rows[0] > 0 => rows'[0] > 0
<1>1. writes \in Nat /\ rows \in [Times -> 0 .. writes] /\ first \in [Times -> 0 .. writes]
  BY DEF RowsInv
<1>2. rows' \in [Times -> 0 .. writes'] /\ first' \in [Times -> 0 .. writes']
  BY <1>1 DEF Land
<1>3. \A t \in Times : rows'[t] = IF t \in lo .. hi THEN writes + 1 ELSE rows[t]
  BY DEF Land
<1>4. ASSUME NEW t \in Times, NEW u \in Times, u < t, rows'[t] > 0 PROVE rows'[u] > 0
  <2>1. rows[t] > 0 => rows[u] > 0
    BY <1>4 DEF RowsInv
  <2>2. rows'[u] = (IF u \in lo .. hi THEN writes + 1 ELSE rows[u]) /\ rows[u] \in Nat /\ writes \in Nat
    BY <1>1, <1>3
  <2>3. rows'[t] = IF t \in lo .. hi THEN writes + 1 ELSE rows[t]
    BY <1>3
  <2>4. u \in Int /\ t \in Int /\ lo \in Int /\ hi \in Int
    BY DEF Times
  <2>5. u < lo => rows[u] > 0
    OBVIOUS
  <2> QED BY <1>4, <2>1, <2>2, <2>3, <2>4, <2>5
<1>5. 0 \in Times
  BY DEF Times, PipelineAssumption
<1> QED BY <1>1, <1>2, <1>3, <1>4, <1>5

LEMMA Stamped ==
  ASSUME RowsInv, NEW lo \in Times, NEW hi \in Times, Stamp(lo, hi), writes' = writes + 1
  PROVE  entries' \in [Times -> 0 .. writes']
BY DEF RowsInv, Stamp

LEMMA IngestRows ==
  ASSUME PipelineAssumption, ~Backfills, RowsInv, Ingests
  PROVE  RowsInv'
<1>t. /\ mode \in Modes /\ writes \in Nat /\ ingest.lo \in Times /\ ingest.hi \in Times
      /\ 0 \in Times
      /\ ingest = [at |-> ingest.at, lo |-> ingest.lo, hi |-> ingest.hi]
      /\ mode = "log" \/ mode = "queue"
  BY DEF RowsInv, Times, PipelineAssumption
<1>s. /\ rows \in [Times -> 0 .. writes + 1] /\ first \in [Times -> 0 .. writes + 1]
      /\ entries \in [Times -> 0 .. writes + 1]
      /\ log \subseteq [epoch : 1 .. writes + 1, lo : Times, hi : Times]
  BY DEF RowsInv, Changes
<1>1. CASE \E lo, hi \in Times : Seal(lo, hi)
  <2>1. PICK lo, hi \in Times : Seal(lo, hi)
    BY <1>1
  <2>2. /\ mode = "log" /\ writes' = writes + 1 /\ Land(lo, hi)
        /\ log' = log \cup {[epoch |-> writes + 1, lo |-> lo, hi |-> hi]}
        /\ ingest' = [at |-> "committed", lo |-> lo, hi |-> hi]
        /\ UNCHANGED <<mode, entries, cache>>
    BY <2>1 DEF Seal
  <2>3. \A u \in Times : u < lo => rows[u] > 0
    BY <2>1, NextToStored DEF Seal
  <2>4. log' \subseteq Changes'
    BY <1>t, <1>s, <2>2 DEF Changes
  <2>5. /\ rows' \in [Times -> 0 .. writes'] /\ first' \in [Times -> 0 .. writes']
        /\ \A t, u \in Times : u < t /\ rows'[t] > 0 => rows'[u] > 0
        /\ rows[0] > 0 => rows'[0] > 0
    BY <2>2, <2>3, RowsLand
  <2> QED BY <1>t, <1>s, <2>2, <2>4, <2>5 DEF RowsInv
<1>2. CASE \E lo, hi \in Times : Enqueue(lo, hi)
  <2>1. PICK lo, hi \in Times : Enqueue(lo, hi)
    BY <1>2
  <2>2. /\ mode = "queue" /\ writes' = writes + 1 /\ Stamp(lo, hi)
        /\ ingest' = [at |-> "queued", lo |-> lo, hi |-> hi]
        /\ UNCHANGED <<mode, rows, first, log, cache>>
    BY <2>1 DEF Enqueue, history
  <2>3. \A u \in Times : u < lo => rows[u] > 0
    BY <2>1, NextToStored DEF Enqueue
  <2>4. log' \subseteq Changes'
    BY <1>t, <1>s, <2>2 DEF Changes
  <2>5. entries' \in [Times -> 0 .. writes']
    BY <2>2, Stamped
  <2> QED BY <1>t, <1>s, <2>2, <2>3, <2>4, <2>5 DEF RowsInv
<1>3. CASE Insert
  <2>2. /\ ingest.at = "queued" /\ writes' = writes + 1 /\ Land(ingest.lo, ingest.hi)
        /\ ingest' = [at |-> "committed", lo |-> ingest.lo, hi |-> ingest.hi]
        /\ UNCHANGED <<mode, entries, log, cache>>
    BY <1>3, <1>t DEF Insert
  <2>3. \A u \in Times : u < ingest.lo => rows[u] > 0
    BY <2>2 DEF RowsInv
  <2>4. log' \subseteq Changes'
    BY <1>t, <1>s, <2>2 DEF Changes
  <2>5. /\ rows' \in [Times -> 0 .. writes'] /\ first' \in [Times -> 0 .. writes']
        /\ \A t, u \in Times : u < t /\ rows'[t] > 0 => rows'[u] > 0
        /\ rows[0] > 0 => rows'[0] > 0
    BY <1>t, <2>2, <2>3, RowsLand
  <2> QED BY <1>t, <1>s, <2>2, <2>4, <2>5 DEF RowsInv
<1>4. CASE IngestFails
  <2>1. ingest' = NoIngest /\ UNCHANGED <<mode, rows, log, entries, cache, writes, first>>
    BY <1>4 DEF IngestFails, store, history
  <2> QED BY <1>t, <2>1 DEF RowsInv, NoIngest, Changes
<1>5. CASE Forget
  <2>1. /\ cache' = NoTime /\ ingest.at = "committed"
        /\ UNCHANGED <<mode, rows, log, entries, writes, first>>
    BY <1>5 DEF Forget, history
  <2>2. IF mode = "log" THEN ingest' = NoIngest
        ELSE ingest' = [at |-> "forgotten", lo |-> ingest.lo, hi |-> ingest.hi]
    BY <1>5, <1>t DEF Forget
  <2>3. NoTime # 0
    BY DEF NoTime, PipelineAssumption
  <2> QED BY <1>t, <2>1, <2>2, <2>3 DEF RowsInv, NoIngest, Changes
<1>6. CASE Requeue
  <2>2. /\ ingest.at = "forgotten" /\ writes' = writes + 1 /\ Stamp(ingest.lo, ingest.hi)
        /\ ingest' = NoIngest /\ UNCHANGED <<mode, rows, first, log, cache>>
    BY <1>6 DEF Requeue, history
  <2>4. log' \subseteq Changes'
    BY <1>t, <1>s, <2>2 DEF Changes
  <2>5. entries' \in [Times -> 0 .. writes'] /\ mode = "queue"
    BY <1>t, <2>2, Stamped DEF RowsInv
  <2> QED BY <1>t, <1>s, <2>2, <2>4, <2>5 DEF RowsInv, NoIngest
<1> QED BY <1>1, <1>2, <1>3, <1>4, <1>5, <1>6 DEF Ingests

\* What lands is fresh, whatever was read before, and what was fresh stays so.
LEMMA IngestFresh ==
  ASSUME PipelineAssumption, RowsInv, Ingests, NEW seen, seen \subseteq Units
  PROVE  /\ \A t \in Times : Fresh(t, seen) => Fresh(t, seen)'
         /\ \A t \in Times : rows'[t] # rows[t] => Fresh(t, seen)'
         /\ \A u \in Times : rows[u] > 0 => rows'[u] > 0 /\ first'[u] = first[u]
         /\ \A u \in Times : rows[u] = 0 /\ rows'[u] > 0 => first'[u] = writes + 1
<1> USE DEF Fresh, Landed
<1>1. CASE \E lo, hi \in Times : Seal(lo, hi)
  <2>1. PICK lo, hi \in Times : Seal(lo, hi)
    BY <1>1
  <2> DEFINE w == [epoch |-> writes + 1, lo |-> lo, hi |-> hi]
  <2>2. w \in log' \ seen
    BY <2>1 DEF Seal, RowsInv, Units, Changes
  <2> QED BY <2>1, <2>2 DEF Seal, Land, RowsInv
<1>2. CASE \E lo, hi \in Times : Enqueue(lo, hi)
  <2>1. PICK lo, hi \in Times : Enqueue(lo, hi)
    BY <1>2
  <2>2. \A t \in Times : [time |-> t, stamp |-> writes + 1] \notin seen
    BY <2>1 DEF Enqueue, RowsInv, Units, Entries
  <2>3. /\ \A t \in Times : entries'[t] = IF t \in lo .. hi THEN writes + 1 ELSE entries[t]
        /\ UNCHANGED <<rows, first, log>> /\ ingest = NoIngest /\ ~Landed'
    BY <2>1 DEF Enqueue, Stamp, history
  <2>4. writes \in Nat
    BY DEF RowsInv
  <2>5. \A t \in Times : Fresh(t, seen) => Fresh(t, seen)'
    BY <2>2, <2>3, <2>4 DEF NoIngest
  <2> QED BY <2>3, <2>5
<1>3. CASE Insert
  <2>1. /\ Land(ingest.lo, ingest.hi) /\ ingest.at = "queued" /\ mode = "queue"
        /\ UNCHANGED <<mode, log, entries>>
    BY <1>3 DEF Insert, RowsInv, PipelineAssumption
  <2>2. ingest' = [at |-> "committed", lo |-> ingest.lo, hi |-> ingest.hi]
    BY <1>3 DEF Insert, RowsInv
  <2>3. Landed' /\ \A t \in ingest.lo .. ingest.hi : Fresh(t, seen)'
    BY <2>1, <2>2
  <2>4. \A t \in Times : Fresh(t, seen) => Fresh(t, seen)'
    BY <2>1, <2>2
  <2> QED BY <2>1, <2>3, <2>4 DEF Land, RowsInv
<1>4. CASE IngestFails
  BY <1>4 DEF IngestFails, store, RowsInv, history
<1>5. CASE Forget
  BY <1>5 DEF Forget, RowsInv, history
<1>6. CASE Requeue
  <2>2. \A t \in Times : [time |-> t, stamp |-> writes + 1] \notin seen
    BY <1>6 DEF Requeue, RowsInv, Units, Entries
  <2> QED BY <1>6, <2>2 DEF Requeue, Stamp, RowsInv, history
<1> QED BY <1>1, <1>2, <1>3, <1>4, <1>5, <1>6 DEF Ingests

LEMMA IngestCovered ==
  ASSUME PipelineAssumption, ~Backfills, RowsInv, Ingests, NEW seen, seen \subseteq Units, NEW batches,
         Covered(seen, batches)
  PROVE  Covered(seen, batches)'
<1> SUFFICES ASSUME NEW s \in 0 .. Last - Span, Due(s)', \A t \in Interior(s) : ~Fresh(t, seen)'
             PROVE  \E b \in batches : b.start = s /\ \A t \in Interior(s) : b.rows[t] = rows'[t]
  BY DEF Covered
<1>1. Interior(s) \subseteq Times /\ s + Span \in Times
  BY DEF Interior, Times, PipelineAssumption
<1>2. \A t \in Interior(s) : rows'[t] = rows[t] /\ ~Fresh(t, seen)
  BY <1>1, IngestFresh
<1>3. \A t \in Interior(s) : rows[t] \in 0 .. writes
  BY <1>1 DEF RowsInv
<1>4. PICK t \in Interior(s) : rows'[t] >= first'[s + Span]
  BY DEF Due
<1>5. rows[s + Span] > 0
  <2>1. rows'[s + Span] > 0 /\ rows[s + Span] \in Nat
    BY <1>1 DEF Due, RowsInv, Times, PipelineAssumption
  <2>2. first'[s + Span] # writes + 1
    BY <1>2, <1>3, <1>4 DEF RowsInv
  <2> QED BY <1>1, <2>1, <2>2, IngestFresh
<1>6. first'[s + Span] = first[s + Span]
  BY <1>1, <1>5, IngestFresh
<1>7. \A x \in s .. s + Span : rows[x] > 0
  <2>1. \A x \in Interior(s) : rows'[x] > 0
    BY DEF Due, Interior, Times, PipelineAssumption
  <2> QED BY <1>2, <1>5, <2>1 DEF Interior, Times, PipelineAssumption
<1>8. Due(s)
  BY <1>2, <1>4, <1>6, <1>7 DEF Due
<1> QED BY <1>2, <1>8 DEF Covered

LEMMA IngestLate ==
  ASSUME PipelineAssumption, RowsInv, Ingests, NEW seen, seen \subseteq Units, NEW upto \in Times,
         \A u, t \in Times : u > upto /\ rows[u] > 0 /\ rows[t] >= first[u] => Fresh(t, seen)
  PROVE  \A u, t \in Times : u > upto /\ rows'[u] > 0 /\ rows'[t] >= first'[u] => Fresh(t, seen)'
<1> SUFFICES ASSUME NEW u \in Times, NEW t \in Times, u > upto, rows'[u] > 0, rows'[t] >= first'[u],
                    ~Fresh(t, seen)'
             PROVE  FALSE
  OBVIOUS
<1>1. rows'[t] = rows[t] /\ ~Fresh(t, seen)
  BY IngestFresh
<1>2. rows[t] \in 0 .. writes /\ rows[u] \in Nat
  BY DEF RowsInv
<1>3. first'[u] # writes + 1
  BY <1>1, <1>2 DEF RowsInv
<1>4. rows[u] > 0 /\ first'[u] = first[u]
  BY <1>2, <1>3, IngestFresh
<1> QED BY <1>1, <1>4

-----------------------------------------------------------------------------
(* AcknowledgedIsBatched: the consumer. *)

\* What Acked may acknowledge, case by case.
LEMMA AckedFull == ASSUME NEW built, run.full PROVE Acked(built) = run.work
BY Zenon DEF Acked

LEMMA AckedLog ==
  ASSUME NEW built, ~run.full, mode = "log"
  PROVE  Acked(built) = {w \in run.work : \A v \in run.work :
                           v.epoch <= w.epoch => AffectedBy(v) \subseteq built}
<1>1. mode # "queue" BY "queue" # "log"
<1> QED BY <1>1, Zenon DEF Acked

LEMMA AckedQueue ==
  ASSUME NEW built, ~run.full, mode = "queue"
  PROVE  Acked(built) = {w \in run.work : \E s \in built : w.time \in Interior(s)}
<1>1. mode # "log" BY "queue" # "log"
<1> QED BY <1>1, Zenon DEF Acked

\* A consumer's step other than Acknowledge leaves the rows, what is to be
\* batched and the batches.
Kept == UNCHANGED <<mode, rows, first, log, entries, ingest, writes>>

LEMMA CoveredStays ==
  ASSUME Kept, NEW seen, NEW old, NEW new, old \subseteq new, Covered(seen, old)
  PROVE  Covered(seen, new)'
<1>1. \A s : Due(s)' <=> Due(s)
  BY DEF Kept, Due
<1>2. \A t : Fresh(t, seen)' <=> Fresh(t, seen)
  BY DEF Kept, Fresh, Landed
<1>3. UNCHANGED rows
  BY DEF Kept
<1> QED BY <1>1, <1>2, <1>3 DEF Covered

LEMMA RowsKept ==
  ASSUME PipelineAssumption, RowsInv, Kept, cache' \in {0, NoTime}, cache' = 0 => rows[0] > 0
  PROVE  RowsInv'
BY DEF RowsInv, Kept, Changes

\* The phases from which nothing is stored or acknowledged yet.
EarlyRun ==
  /\ RunShape /\ run.at \in Phases \ {"build", "store", "ack"}
  /\ run.at = "upto" => run.base = 0 /\ rows[0] > 0
  /\ run.work \subseteq Units /\ run.ack \subseteq Units /\ run.todo = {}

LEMMA EarlyRunInv == EarlyRun => RunInv
BY DEF EarlyRun, RunInv

LEMMA EarlySteps ==
  ASSUME PipelineAssumption, RowsInv, RunInv,
         \/ BeginRun \/ ReadChanges \/ Decide \/ ReadEntries
         \/ MoveInsert \/ MoveDelete \/ Extract \/ NoExtract \/ Remove \/ CutRun
  PROVE  /\ RowsInv' /\ EarlyRun' /\ Kept /\ UNCHANGED batched
<1>1. Kept /\ UNCHANGED batched /\ cache' \in {cache, NoTime}
  BY DEF BeginRun, ReadChanges, Decide, ReadEntries, MoveInsert, MoveDelete, Extract, NoExtract, Remove,
         CutRun, Kept, store, history
<1>2. RowsInv'
  <2>1. cache' \in {0, NoTime} /\ (cache' = 0 => rows[0] > 0)
    <3>1. NoTime # 0
      BY DEF NoTime, PipelineAssumption
    <3> QED BY <1>1, <3>1 DEF RowsInv
  <2> QED BY <1>1, <2>1, RowsKept
<1>3. Units' = Units
  BY <1>1 DEF Kept, Units, Changes, Entries
<1>4. EarlyRun'
  <2> USE DEF RunInv, EarlyRun, RunShape, Phases
  <2>1. CASE BeginRun BY <2>1, <1>3 DEF BeginRun, Idle
  <2>2. CASE ReadChanges
    <3>1. log \subseteq Units /\ run.at = "changes"
      BY <2>2 DEF ReadChanges, RowsInv, Units, PipelineAssumption
    <3> QED BY <2>2, <1>3, <3>1 DEF ReadChanges
  <2>3. CASE Decide
    <3>1. /\ RunShape' /\ run.at = "decide" /\ run'.at \in {"base", "entries", "move"}
          /\ run'.work = run.work /\ run'.ack = run.ack /\ run'.todo = run.todo
      BY <2>3, DecideRun DEF RowsInv
    <3> QED BY <1>3, <3>1
  <2>4. CASE ReadEntries
    <3>1. \A t \in Waiting : [time |-> t, stamp |-> entries[t]] \in Entries
      BY DEF Waiting, Entries, RowsInv
    <3>2. run.at = "entries"
      BY <2>4 DEF ReadEntries
    <3>3. mode = "log" => Waiting = {}
      BY DEF RowsInv, Waiting
    <3>4. {[time |-> t, stamp |-> entries[t]] : t \in Waiting} \subseteq Units
      BY <3>1, <3>3 DEF Units
    <3> QED BY <2>4, <1>3, <3>2, <3>4 DEF ReadEntries
  <2>5. CASE MoveInsert BY <2>5, <1>3 DEF MoveInsert
  <2>6. CASE MoveDelete BY <2>6, <1>3 DEF MoveDelete
  <2>7. CASE Extract BY <2>7, <1>3 DEF Extract
  <2>8. CASE NoExtract \/ Remove \/ CutRun
    <3>1. run' = Idle BY <2>8 DEF NoExtract, Remove, CutRun
    <3> QED BY <3>1 DEF Idle
  <2> QED BY <2>1, <2>2, <2>3, <2>4, <2>5, <2>6, <2>7, <2>8
<1> QED BY <1>1, <1>2, <1>4

LEMMA BaseIsFirst ==
  ASSUME PipelineAssumption, RowsInv, RunInv, ReadBase
  PROVE  /\ RowsInv' /\ EarlyRun' /\ Kept /\ UNCHANGED batched
<1>0. NoTime # 0 /\ 0 \in Times
  BY DEF NoTime, Times, PipelineAssumption
<1>1. Kept /\ UNCHANGED batched
  BY DEF ReadBase, Kept, history
<1>2. Units' = Units
  BY <1>1 DEF Kept, Units, Changes, Entries
<1>3. run.at = "base" /\ run.todo = {}
  BY DEF ReadBase, RunInv
<1>4. CASE run.full /\ cache # NoTime /\ run' = [run EXCEPT !.at = "upto", !.base = cache] /\ UNCHANGED cache
  <2>1. cache = 0 /\ rows[0] > 0 /\ UNCHANGED rows
    BY <1>1, <1>4 DEF RowsInv, Kept
  <2>2. RowsInv'
    BY <1>1, <1>4, <2>1, RowsKept
  <2>3. EarlyRun'
    BY <1>2, <1>3, <1>4, <2>1 DEF EarlyRun, RunInv, RunShape, Phases
  <2> QED BY <1>1, <2>2, <2>3
<1>5. CASE /\ Stored # {} /\ run' = [run EXCEPT !.at = "upto", !.base = Earliest]
           /\ cache' = IF run.full THEN Earliest ELSE cache
  <2>1. Earliest = 0 /\ rows[0] > 0 /\ UNCHANGED rows
    BY <1>1, <1>5, Stocked DEF Stored, Kept
  <2>2. RowsInv'
    <3>1. cache' \in {0, NoTime}
      BY <1>5, <2>1 DEF RowsInv
    <3> QED BY <1>1, <2>1, <3>1, RowsKept
  <2>3. EarlyRun'
    BY <1>2, <1>3, <1>5, <2>1 DEF EarlyRun, RunInv, RunShape, Phases
  <2> QED BY <1>1, <2>2, <2>3
<1>6. CASE run' = (IF run.full THEN Idle ELSE [Idle EXCEPT !.at = "move"]) /\ UNCHANGED cache
  <2>1. RowsInv'
    BY <1>1, <1>6, RowsKept DEF RowsInv
  <2>2. EarlyRun'
    <3>1. CASE run' = Idle BY <3>1 DEF EarlyRun, RunShape, Idle, Phases
    <3>2. CASE run' = [Idle EXCEPT !.at = "move"] BY <3>2 DEF EarlyRun, RunShape, Idle, Phases
    <3> QED BY <1>6, <3>1, <3>2
  <2> QED BY <1>1, <2>1, <2>2
<1> QED BY <1>4, <1>5, <1>6 DEF ReadBase

LEMMA LatestIsLast ==
  ASSUME PipelineAssumption, RowsInv, RunInv, ReadLatest
  PROVE  RowsInv' /\ RunInv' /\ Kept /\ UNCHANGED batched
<1>1. Kept /\ UNCHANGED batched /\ UNCHANGED cache
  BY DEF ReadLatest, Kept, history, store
<1>2. RowsInv'
  BY <1>1, RowsKept DEF RowsInv
<1>3. run' = [run EXCEPT !.at = "build", !.upto = Latest] /\ run.at = "upto"
  BY DEF ReadLatest
<1>4. RunShape' /\ run'.at = "build" /\ run'.upto = Latest /\ run'.work = run.work /\ run'.ack = run.ack
      /\ run'.todo = run.todo /\ run'.base = run.base
  BY <1>3 DEF RunInv, RunShape
<1>5. rows[0] > 0 /\ run.base = 0
  BY <1>3 DEF RunInv
<1>6. Latest \in Times /\ \A u \in Times : rows[u] > 0 => u <= Latest
  <2>1. 0 \in Stored
    BY <1>5 DEF Stored, Times, PipelineAssumption
  <2> QED BY <2>1, Stocked DEF Stored
<1>7. LateAreFresh'
  <2>1. \A u \in Times : ~(u > Latest /\ rows[u] > 0)
    BY <1>6 DEF Times, PipelineAssumption
  <2>2. UNCHANGED rows
    BY <1>1 DEF Kept
  <2> QED BY <1>4, <2>1, <2>2 DEF LateAreFresh
<1>8. Units' = Units /\ UNCHANGED rows
  BY <1>1 DEF Kept, Units, Changes, Entries
<1> QED BY <1>1, <1>2, <1>4, <1>5, <1>6, <1>7, <1>8, <1>3 DEF RunInv, Phases

LEMMA SeenLess ==
  ASSUME NEW seen, NEW less, less \subseteq seen, NEW t, Fresh(t, seen)
  PROVE  Fresh(t, less)
BY DEF Fresh

\* Every window that is due, and waits for nothing that the run will not
\* acknowledge, has a batch or is built.
LEMMA BuildCovers ==
  ASSUME PipelineAssumption, RowsInv, RunInv, run.at = "build", Covered({}, batched),
         NEW flagged, flagged = (IF run.full THEN run.base .. Last ELSE UNION {AffectedBy(w) : w \in run.work}),
         NEW built, built = {s \in flagged : s + Span <= run.upto /\ \A t \in s .. s + Span : rows[t] > 0}
  PROVE  Covered(Acked(built), batched \cup {Batch(s) : s \in built})
<1>1. run.base = 0 /\ LateAreFresh /\ run.upto \in Times
  BY DEF RunInv
<1> DEFINE ack == Acked(built)
<1>2. ack \subseteq run.work
  <2>1. CASE run.full BY <2>1, AckedFull
  <2>2. CASE ~run.full /\ mode = "log" BY <2>2, AckedLog
  <2>3. CASE ~run.full /\ mode = "queue" BY <2>3, AckedQueue
  <2> QED BY <2>1, <2>2, <2>3 DEF RowsInv, PipelineAssumption
<1> SUFFICES ASSUME NEW s \in 0 .. Last - Span, Due(s), \A t \in Interior(s) : ~Fresh(t, ack)
             PROVE  \E b \in batched \cup {Batch(x) : x \in built} :
                      b.start = s /\ \A t \in Interior(s) : b.rows[t] = rows[t]
  BY DEF Covered
<1>3. Interior(s) \subseteq Times /\ s + Span \in Times /\ s \in 0 .. Last /\ Interior(s) \subseteq s .. s + Span
  BY DEF Interior, Times, PipelineAssumption
<1>4. s + Span <= run.upto
  <2>1. SUFFICES ASSUME s + Span > run.upto PROVE FALSE
    BY <1>1, <1>3 DEF Times, PipelineAssumption
  <2>2. PICK t \in Interior(s) : rows[t] >= first[s + Span]
    BY DEF Due
  <2>3. rows[s + Span] > 0
    BY <1>3 DEF Due, PipelineAssumption
  <2>4. Fresh(t, run.work)
    BY <1>1, <1>3, <2>1, <2>2, <2>3 DEF LateAreFresh
  <2> HIDE DEF ack
  <2> QED BY <1>2, <2>4, SeenLess
<1>5. s \in flagged => s \in built
  BY <1>4 DEF Due
<1>6. ASSUME s \in built
      PROVE  \E b \in batched \cup {Batch(x) : x \in built} :
               b.start = s /\ \A t \in Interior(s) : b.rows[t] = rows[t]
  <2>1. Batch(s).start = s /\ \A t \in Interior(s) : Batch(s).rows[t] = rows[t]
    BY <1>3 DEF Batch
  <2>2. Batch(s) \in {Batch(x) : x \in built}
    BY <1>6
  <2> QED BY <2>1, <2>2
<1>7. CASE run.full
  <2>1. s \in flagged
    BY <1>1, <1>3, <1>7
  <2> QED BY <1>5, <1>6, <2>1
<1>8. CASE \A t \in Interior(s) : ~Fresh(t, {})
  <2>1. \E b \in batched : b.start = s /\ \A t \in Interior(s) : b.rows[t] = rows[t]
    BY <1>8 DEF Covered
  <2> QED BY <2>1
<1>9. CASE ~run.full /\ mode = "log" /\ \E t \in Interior(s) : Fresh(t, {})
  <2>1. PICK t \in Interior(s) : Fresh(t, {})
    BY <1>9
  <2>2. PICK w \in log : t \in w.lo .. w.hi
    BY <1>3, <1>9, <2>1 DEF Fresh, Landed, RowsInv
  <2>3. w \in ack
    <3> HIDE DEF ack
    <3> QED BY <2>2 DEF Fresh
  <2>4. w \in run.work /\ AffectedBy(w) \subseteq built /\ w \in Changes
    <3>1. w \in Changes
      BY <2>2 DEF RowsInv
    <3> QED BY <1>9, <2>3, <3>1, AckedLog DEF Changes
  <2>5. s \in AffectedBy(w)
    BY <1>1, <1>3, <1>9, <2>2, <2>4 DEF AffectedBy, Affected, Interior, Changes, Times, PipelineAssumption
  <2> QED BY <1>6, <2>4, <2>5
<1>10. CASE ~run.full /\ mode = "queue" /\ \E t \in Interior(s) : Fresh(t, {})
  <2>1. PICK t \in Interior(s) : Fresh(t, {})
    BY <1>10
  <2>2. ~(\E w \in log : t \in w.lo .. w.hi)
    BY <1>10 DEF RowsInv
  <2> DEFINE w == [time |-> t, stamp |-> entries[t]]
  <2>3. w \in ack
    <3> HIDE DEF ack
    <3> QED BY <2>1, <2>2 DEF Fresh
  <2>4. w \in run.work /\ w.time = t
    BY <1>2, <2>3
  <2>5. s \in AffectedBy(w)
    <3>1. AffectedBy(w) = {x \in 0 .. Last : x <= t /\ t < x + Span}
      BY <1>1, <1>10, <2>4 DEF AffectedBy, Affected
    <3> QED BY <1>3, <3>1 DEF Interior, Times, PipelineAssumption
  <2>6. s \in flagged
    BY <1>10, <2>4, <2>5
  <2> QED BY <1>5, <1>6, <2>6
<1> QED BY <1>7, <1>8, <1>9, <1>10 DEF RowsInv, PipelineAssumption

LEMMA BuildStep ==
  ASSUME PipelineAssumption, RowsInv, RunInv, Covered({}, batched), Build
  PROVE  RowsInv' /\ RunInv' /\ Kept /\ UNCHANGED batched
<1>1. Kept /\ UNCHANGED batched /\ UNCHANGED cache
  BY DEF Build, Kept, history, store
<1>2. RowsInv'
  BY <1>1, RowsKept DEF RowsInv
<1>3. Units' = Units /\ UNCHANGED rows
  BY <1>1 DEF Kept, Units, Changes, Entries
<1>4. PICK flagged : flagged = IF run.full THEN run.base .. Last ELSE UNION {AffectedBy(w) : w \in run.work}
  OBVIOUS
<1>5. PICK built : built = {s \in flagged : s + Span <= run.upto /\ \A t \in s .. s + Span : rows[t] > 0}
  OBVIOUS
<1>6. /\ run.at = "build"
      /\ run' = IF mode = "queue" /\ ~run.full /\ flagged = {}
                THEN [run EXCEPT !.at = "ack", !.ack = run.work]
                ELSE [run EXCEPT !.at = "store", !.todo = {Batch(s) : s \in built}, !.ack = Acked(built)]
  BY <1>4, <1>5 DEF Build
<1>7. Covered(Acked(built), batched \cup {Batch(s) : s \in built})
  BY <1>4, <1>5, <1>6, BuildCovers
<1>8. Acked(built) \subseteq run.work
  <2>1. CASE run.full BY <2>1, AckedFull
  <2>2. CASE ~run.full /\ mode = "log" BY <2>2, AckedLog
  <2>3. CASE ~run.full /\ mode = "queue" BY <2>3, AckedQueue
  <2> QED BY <2>1, <2>2, <2>3 DEF RowsInv, PipelineAssumption
<1>9. CASE mode = "queue" /\ ~run.full /\ flagged = {}
  <2>1. /\ run' = [at |-> "ack", full |-> run.full, work |-> run.work, base |-> run.base,
                  upto |-> run.upto, todo |-> run.todo, ack |-> run.work]
        /\ run.todo = {} /\ run.base = 0
    BY <1>6, <1>9 DEF RunInv, RunShape
  <2>2. run.work = {}
    <3>1. SUFFICES ASSUME NEW w \in run.work PROVE FALSE
      OBVIOUS
    <3>2. w.time \in Times
      BY <1>9 DEF RunInv, Units, Entries
    <3>3. w.time \in AffectedBy(w)
      BY <1>9, <2>1, <3>2 DEF AffectedBy, Affected, Times, PipelineAssumption
    <3> QED BY <1>4, <1>9, <3>3
  <2>3. Covered({}, batched)'
    BY <1>1, CoveredStays
  <2>4. run'.ack = {} /\ batched' \cup run'.todo = batched'
    BY <2>1, <2>2
  <2>5. Covered(run.ack, batched \cup run.todo)'
    BY <2>3, <2>4 DEF Covered, Fresh
  <2>6. run'.at = "ack" /\ RunShape' /\ run'.work = run.work /\ run'.todo = {}
    BY <2>1 DEF RunShape
  <2>7. RunInv'
    BY <1>3, <2>2, <2>4, <2>5, <2>6 DEF RunInv, Phases
  <2> QED BY <1>1, <1>2, <2>7
<1>10. CASE ~(mode = "queue" /\ ~run.full /\ flagged = {})
  <2>1. PICK todo : todo = {Batch(s) : s \in built}
    OBVIOUS
  <2>2. PICK ack : ack = Acked(built)
    OBVIOUS
  <2>3. run' = [at |-> "store", full |-> run.full, work |-> run.work, base |-> run.base,
                upto |-> run.upto, todo |-> todo, ack |-> ack]
    BY <1>6, <1>10, <2>1, <2>2 DEF RunInv, RunShape
  <2>4. PICK old : old = batched
    OBVIOUS
  <2>5. Covered(ack, old \cup todo)
    BY <1>7, <2>1, <2>2, <2>4
  <2>6. Covered(ack, old \cup todo)'
    BY <1>1, <2>5, CoveredStays
  <2>7. run'.ack = ack /\ batched' \cup run'.todo = old \cup todo
    BY <1>1, <2>3, <2>4
  <2>8. Covered(run.ack, batched \cup run.todo)'
    BY <2>6, <2>7 DEF Covered, Fresh
  <2>9. run'.at = "store" /\ RunShape' /\ run'.work = run.work /\ run.work \subseteq Units
    BY <2>3 DEF RunShape, RunInv
  <2>10. RunInv'
    BY <1>3, <1>8, <2>2, <2>7, <2>8, <2>9 DEF RunInv, Phases
  <2> QED BY <1>1, <1>2, <2>10
<1> QED BY <1>9, <1>10

LEMMA StoreStep ==
  ASSUME PipelineAssumption, RowsInv, RunInv, Store
  PROVE  RowsInv' /\ RunInv' /\ Kept /\ batched \subseteq batched'
<1>1. Kept /\ UNCHANGED cache /\ run.at = "store"
  BY DEF Store, Kept, store
<1>2. RowsInv'
  BY <1>1, RowsKept DEF RowsInv
<1>3. Units' = Units /\ UNCHANGED rows
  BY <1>1 DEF Kept, Units, Changes, Entries
<1>4. /\ RunShape' /\ run'.ack = run.ack /\ run'.work = run.work
      /\ run'.at = "store" \/ (run'.at = "ack" /\ run'.todo = {})
      /\ batched \subseteq batched' /\ batched \cup run.todo \subseteq batched' \cup run'.todo
  <2>1. CASE run.todo = {}
    BY <1>1, <2>1 DEF Store, RunInv, RunShape
  <2>2. CASE run.todo # {}
    <3>1. PICK b : batched' = batched \cup {b} /\ run' = [run EXCEPT !.todo = @ \ {b}]
      BY <2>2 DEF Store
    <3>2. /\ run' = [at |-> "store", full |-> run.full, work |-> run.work, base |-> run.base,
                    upto |-> run.upto, todo |-> run.todo \ {b}, ack |-> run.ack]
      BY <1>1, <3>1 DEF RunInv, RunShape
    <3>3. batched \cup run.todo \subseteq batched' \cup run'.todo
      BY <3>1, <3>2
    <3>4. RunShape' /\ run'.ack = run.ack /\ run'.work = run.work /\ run'.at = "store"
      BY <3>2 DEF RunShape
    <3>5. batched \subseteq batched'
      BY <3>1
    <3> QED BY <3>3, <3>4, <3>5
  <2> QED BY <2>1, <2>2
<1>5. PICK ack, old, new : ack = run.ack /\ old = batched \cup run.todo /\ new = batched' \cup run'.todo
  OBVIOUS
<1>6. Covered(ack, old)
  BY <1>1, <1>5 DEF RunInv
<1>7. Covered(ack, new)'
  BY <1>1, <1>4, <1>5, <1>6, CoveredStays
<1>8. Covered(run.ack, batched \cup run.todo)'
  BY <1>4, <1>5, <1>7 DEF Covered, Fresh
<1>9. RunInv'
  BY <1>3, <1>4, <1>8 DEF RunInv, Phases
<1> QED BY <1>1, <1>2, <1>4, <1>9

LEMMA AcknowledgeStep ==
  ASSUME PipelineAssumption, RowsInv, RunInv, Acknowledge
  PROVE  RowsInv' /\ RunInv' /\ Covered({}, batched)'
<1>1. /\ run.at = "ack" /\ log' = log \ run.ack /\ run' = [Idle EXCEPT !.at = "move"]
      /\ entries' = [t \in Times |-> IF [time |-> t, stamp |-> entries[t]] \in run.ack THEN 0 ELSE entries[t]]
      /\ UNCHANGED <<mode, rows, first, cache, ingest, writes, batched>>
  BY DEF Acknowledge, history
<1>2. RowsInv'
  <2>1. entries' \in [Times -> 0 .. writes']
    BY <1>1 DEF RowsInv
  <2>2. mode = "log" => entries' = [t \in Times |-> 0]
    BY <1>1 DEF RowsInv
  <2> QED BY <1>1, <2>1, <2>2 DEF RowsInv, Changes
<1>3. RunInv'
  BY <1>1, EarlyRunInv DEF RunInv, RunShape, Idle, Phases
<1>4. PICK ack : ack = run.ack
  OBVIOUS
<1>5. Covered(ack, batched) /\ run.todo = {}
  <2>1. run.todo = {} /\ Covered(run.ack, batched \cup run.todo)
    BY <1>1 DEF RunInv
  <2>2. batched \cup run.todo = batched
    BY <2>1
  <2> QED BY <1>4, <2>1, <2>2
<1>6. ASSUME NEW t \in Times, Fresh(t, ack) PROVE Fresh(t, {})'
  BY <1>1, <1>4, <1>6 DEF Fresh, Landed
<1>7. \A s : Due(s)' <=> Due(s)
  BY <1>1 DEF Due
<1>8. Covered({}, batched)'
  <2> SUFFICES ASSUME NEW s \in 0 .. Last - Span, Due(s)', \A t \in Interior(s) : ~Fresh(t, {})'
               PROVE  \E b \in batched' : b.start = s /\ \A t \in Interior(s) : b.rows[t] = rows'[t]
    BY DEF Covered
  <2>1. Interior(s) \subseteq Times
    BY DEF Interior, Times, PipelineAssumption
  <2>2. Due(s) /\ \A t \in Interior(s) : ~Fresh(t, ack)
    BY <1>6, <1>7, <2>1
  <2>3. \E b \in batched : b.start = s /\ \A t \in Interior(s) : b.rows[t] = rows[t]
    BY <1>5, <2>2 DEF Covered
  <2> QED BY <1>1, <2>3
<1> QED BY <1>2, <1>3, <1>8

LEMMA IngestStep ==
  ASSUME PipelineAssumption, ~Backfills, BatchedInv, Ingests
  PROVE  BatchedInv'
<1> USE DEF BatchedInv
<1>1. UNCHANGED <<run, batched, mode>>
  BY DEF Ingests, Seal, Enqueue, Insert, IngestFails, Forget, Requeue, history
<1>2. RowsInv'
  BY IngestRows
<1>3. PICK ack, work, old, new, upto :
        ack = run.ack /\ work = run.work /\ old = batched /\ new = batched \cup run.todo /\ upto = run.upto
  OBVIOUS
<1>4. ack \subseteq Units /\ work \subseteq Units
  BY <1>3 DEF RunInv
<1>5. Covered({}, old)'
  BY <1>3, IngestCovered
<1>6. Covered({}, batched)'
  BY <1>1, <1>3, <1>5 DEF Covered
<1>7. ASSUME run.at \in {"store", "ack"} PROVE Covered(run.ack, batched \cup run.todo)'
  <2>1. Covered(ack, new)
    BY <1>3, <1>7 DEF RunInv
  <2>2. Covered(ack, new)'
    BY <1>4, <2>1, IngestCovered
  <2> QED BY <1>1, <1>3, <2>2 DEF Covered, Fresh
<1>8. ASSUME run.at = "build" PROVE LateAreFresh'
  <2>1. upto \in Times /\ \A u, t \in Times : u > upto /\ rows[u] > 0 /\ rows[t] >= first[u] => Fresh(t, work)
    BY <1>3, <1>8 DEF RunInv, LateAreFresh
  <2>2. \A u, t \in Times : u > upto /\ rows'[u] > 0 /\ rows'[t] >= first'[u] => Fresh(t, work)'
    BY <1>4, <2>1, IngestLate
  <2> QED BY <1>1, <1>3, <2>2 DEF LateAreFresh, Fresh
<1>9. rows[0] > 0 => rows'[0] > 0
  <2>1. 0 \in Times
    BY DEF Times, PipelineAssumption
  <2>2. {} \subseteq Units
    OBVIOUS
  <2> QED BY <2>1, <2>2, IngestFresh
<1>10. writes' \in Nat /\ writes <= writes'
  BY <1>2 DEF RowsInv, Ingests, Seal, Enqueue, Insert, IngestFails, Forget, Requeue
<1>11. Units \subseteq Units'
  BY <1>1, <1>10 DEF Units, Changes, Entries, RowsInv
<1>12. RunInv'
  BY <1>1, <1>7, <1>8, <1>9, <1>11 DEF RunInv, RunShape
<1> QED BY <1>2, <1>6, <1>12

LEMMA InitBatched == PipelineAssumption /\ PipelineInit => BatchedInv
<1> SUFFICES ASSUME PipelineAssumption, PipelineInit PROVE BatchedInv
  OBVIOUS
<1>1. 0 \in Times /\ NoTime # 0
  BY DEF Times, NoTime, PipelineAssumption
<1>2. RowsInv
  BY <1>1 DEF PipelineInit, RowsInv, NoIngest, Changes
<1>3. EarlyRun
  BY DEF PipelineInit, EarlyRun, RunShape, Idle, Phases
<1>4. Covered({}, batched)
  <2>1. \A s \in 0 .. Last - Span : ~Due(s)
    BY DEF PipelineInit, Due, Times, PipelineAssumption
  <2> QED BY <2>1 DEF Covered
<1> QED BY <1>2, <1>3, <1>4, EarlyRunInv DEF BatchedInv

LEMMA NextBatched ==
  ASSUME PipelineAssumption, ~Backfills, BatchedInv, [PipelineNext]_pipelineVars
  PROVE  BatchedInv'
<1>s. CASE UNCHANGED pipelineVars
  BY <1>s DEF pipelineVars, store, history, BatchedInv, RowsInv, RunInv, RunShape, Covered, Fresh, Landed,
     Due, LateAreFresh, Units, Changes, Entries
<1>i. CASE Ingests
  BY <1>i, IngestStep
<1>e. CASE \/ BeginRun \/ ReadChanges \/ Decide \/ ReadEntries \/ ReadBase
           \/ MoveInsert \/ MoveDelete \/ Extract \/ NoExtract \/ Remove \/ CutRun
  <2>1. RowsInv' /\ EarlyRun' /\ Kept /\ UNCHANGED batched
    BY <1>e, EarlySteps, BaseIsFirst DEF BatchedInv
  <2>2. RunInv'
    BY <2>1 DEF EarlyRun, RunInv
  <2> QED BY <2>1, <2>2, CoveredStays DEF BatchedInv
<1>l. CASE ReadLatest
  BY <1>l, LatestIsLast, CoveredStays DEF BatchedInv
<1>b. CASE Build
  BY <1>b, BuildStep, CoveredStays DEF BatchedInv
<1>t. CASE Store
  BY <1>t, StoreStep, CoveredStays DEF BatchedInv
<1>a. CASE Acknowledge
  BY <1>a, AcknowledgeStep DEF BatchedInv
<1> QED
  BY <1>s, <1>i, <1>e, <1>l, <1>b, <1>t, <1>a DEF PipelineNext, Ingests

LEMMA BatchedIsOwed == PipelineAssumption /\ BatchedInv => AcknowledgedIsBatched
<1> SUFFICES ASSUME PipelineAssumption, BatchedInv, NEW s \in 0 .. Last - Span,
                    \A t \in s .. s + Span : rows[t] > 0, ~Outstanding(s),
                    \E t \in Interior(s) : rows[t] >= first[s + Span]
             PROVE  \E b \in batched : b.start = s /\ \A t \in Interior(s) : b.rows[t] = rows[t]
  BY DEF AcknowledgedIsBatched
<1>1. Due(s)
  BY DEF Due
<1>2. ASSUME NEW t \in Interior(s), Fresh(t, {}) PROVE FALSE
  <2>1. t \in Int /\ s \in Int /\ s <= t /\ t < s + Span
    BY DEF Interior, PipelineAssumption
  <2>2. ~\E w \in log : t \in w.lo .. w.hi
    <3> SUFFICES ASSUME NEW w \in log, t \in w.lo .. w.hi PROVE FALSE
      OBVIOUS
    <3>1. w.lo \in Times /\ w.hi \in Times
      BY DEF BatchedInv, RowsInv, Changes
    <3>2. w.lo < s + Span /\ w.hi >= s
      BY <2>1, <3>1 DEF Times, PipelineAssumption
    <3> QED BY <3>2 DEF Outstanding
  <2>3. ~(entries[t] > 0)
    BY DEF Outstanding
  <2>4. ~(Landed /\ t \in ingest.lo .. ingest.hi)
    <3>1. Landed => mode = "queue" /\ ingest # NoIngest
      BY DEF Landed, NoIngest
    <3> QED BY <3>1 DEF Outstanding
  <2> QED BY <1>2, <2>2, <2>3, <2>4 DEF Fresh
<1> QED BY <1>1, <1>2 DEF BatchedInv, Covered

\* load_unprocessed_batch_queue.rs and batch_capture_measurements, where no row
\* comes before the earliest: in both modes, whatever is ingested beside the
\* consumer and wherever its runs are cut off, what it acknowledged is batched.
THEOREM AcknowledgesBatched ==
  PipelineAssumption /\ ~Backfills => (PipelineSpec => []AcknowledgedIsBatched)
<1> SUFFICES ASSUME PipelineAssumption, ~Backfills PROVE PipelineSpec => []AcknowledgedIsBatched
  OBVIOUS
<1>1. PipelineInit => BatchedInv
  BY InitBatched
<1>2. BatchedInv /\ [PipelineNext]_pipelineVars => BatchedInv'
  BY NextBatched
<1>3. BatchedInv => AcknowledgedIsBatched
  BY BatchedIsOwed
<1> QED BY <1>1, <1>2, <1>3, PTL DEF PipelineSpec
=============================================================================

------------------------------- MODULE Ingest -------------------------------
(***************************************************************************)
(* Ingest of idempotent, tagged batches into one aspect, and the reads     *)
(* that find their rows.                                                   *)
(*                                                                         *)
(*   - SegmentStore::ingest looks its key up in the ledger, refuses a new  *)
(*     series past the cap, writes a frame per chunk, and only then takes  *)
(*     the commit lock, where it checks ledger and cap again and commits   *)
(*     rows, ledger row and series in one transaction.                     *)
(*   - A read by tags resolves them through the index's copy of the        *)
(*     catalog, which every registration forgets, and prunes the series'   *)
(*     rows by a bound on their spans, which every commit widens first.    *)
(*                                                                         *)
(* Every await of an ingest or a read is a step boundary, except under the *)
(* commit lock, where the tables an ingest reads cannot change.  A batch   *)
(* stands for its fingerprint.  Nothing deletes rows here (SegmentStore    *)
(* models maintenance), and frames are durable once written.               *)
(***************************************************************************)
EXTENDS Integers, FiniteSets, Sequences

CONSTANTS
  Callers,      \* tasks that call ingest, one call at a time
  Readers,      \* tasks that read
  Batches,
  Keys,
  Key,          \* batch -> its idempotency key
  Tags, Untagged,
  Tag,          \* batch -> its tag set, or Untagged
  Chunks,       \* batch -> the spans [lo, hi] of the frames it is cut into
  Windows,      \* the windows [lo, hi] that are read
  MaxSeries,    \* max_series_per_aspect
  NoOne, NoEntry,
  Faults,       \* which of "write", "commit" and "drop" may happen
  MaxCalls, MaxReads, MaxRestarts  \* bounds

\* A chunk's rows are sorted before its span is taken; a store has finitely
\* many tag sets.
ASSUME ConstantsAssumption ==
  /\ Batches # {} /\ Key \in [Batches -> Keys]
  /\ IsFiniteSet(Tags) /\ Untagged \notin Tags
  /\ Tag \in [Batches -> Tags \cup {Untagged}]
  /\ Chunks \in [Batches -> Seq([lo : Int, hi : Int]) \ {<<>>}]
  /\ \A b \in Batches : \A i \in DOMAIN Chunks[b] : Chunks[b][i].lo <= Chunks[b][i].hi
  /\ Windows \subseteq [lo : Int, hi : Int]
  /\ MaxSeries \in Nat
  /\ NoOne \notin Callers
  /\ NoEntry \notin [batch : Batches, ids : Seq(Nat), series : Nat, epoch : Nat]

VARIABLES
  (* segment_index.db *)
  rows,     \* [id, gen, series, batch, chunk] each
  ledger,   \* key -> the receipt of the batch recorded under it
  catalog,  \* the registered series, [id, tag] each
  seq,      \* aspect_seq: [nextId, epoch, nextSeries]
  epochs,   \* the epochs of the change log
  (* segments/ *)
  frames,   \* generations of the frames on disk
  (* the process *)
  genNext, poisoned,
  alloc,    \* the allocator the commit lock guards: [nextId, epoch]
  holder,   \* who holds the commit lock
  cache,    \* the catalog's copy: [generation, loaded, series]
  bounds,   \* series id -> [loaded, widest]
  (* each caller *)
  pc, batch,
  gens,     \* the generations of the frames it has written
  txn,      \* its transaction: [ids, series, epoch, registers]
  (* each reader *)
  read,
  (* history *)
  replies, calls, reads, restarts

index == <<rows, ledger, catalog, seq, epochs>>
process == <<genNext, poisoned, alloc, holder>>
caches == <<cache, bounds>>
caller == <<pc, batch, gens, txn>>
history == <<replies, calls, reads, restarts>>
vars == <<index, frames, process, caches, caller, read, history>>

SeriesIds == 0..Cardinality(Tags)
Receipts == [batch : Batches, ids : Seq(Nat), series : SeriesIds, epoch : Nat]

BlankTxn == [ids |-> <<>>, series |-> 0, epoch |-> 0, registers |-> FALSE]
BlankRead == [pc |-> "idle", tag |-> Untagged, window |-> [lo |-> 0, hi |-> 0],
              generation |-> 0, loaded |-> {}, series |-> 0, widest |-> 0,
              found |-> {}, stored |-> {}, owed |-> {}]
EmptyCache == [generation |-> 0, loaded |-> FALSE, series |-> {}]
NoBound == [loaded |-> FALSE, widest |-> 0]

Before == {"idle", "check", "lookup", "room", "write", "ready", "refused"}
Locked == {"locked", "planned", "committing", "landed", "rejected", "ambiguous"}
ReadPc == {"idle", "resolve", "load", "keep", "bound", "measure", "measured",
           "query", "recheck", "done"}

TypeOK ==
  /\ rows \in SUBSET [id : Nat, gen : Nat, series : SeriesIds, batch : Batches, chunk : Nat]
  /\ ledger \in [Keys -> Receipts \cup {NoEntry}]
  /\ catalog \in SUBSET [id : SeriesIds \ {0}, tag : Tags]
  /\ seq \in [nextId : Nat, epoch : Nat, nextSeries : Nat \ {0}]
  /\ epochs \subseteq Nat /\ frames \subseteq Nat /\ genNext \in Nat
  /\ poisoned \in BOOLEAN
  /\ alloc \in [nextId : Nat, epoch : Nat]
  /\ cache \in [generation : Nat, loaded : BOOLEAN, series : SUBSET [id : SeriesIds, tag : Tags]]
  /\ bounds \in [SeriesIds -> [loaded : BOOLEAN, widest : Nat]]
  /\ pc \in [Callers -> Before \cup Locked]
  /\ batch \in [Callers -> Batches]
  /\ gens \in [Callers -> Seq(Nat)]
  /\ txn \in [Callers -> [ids : Seq(Nat), series : SeriesIds, epoch : Nat, registers : BOOLEAN]]
  /\ \A r \in Readers : read[r].pc \in ReadPc
  /\ holder \in Callers \cup {NoOne}
  /\ \A c \in Callers : pc[c] \in Locked <=> holder = c

Init ==
  /\ rows = {} /\ catalog = {} /\ epochs = {} /\ frames = {}
  /\ ledger = [k \in Keys |-> NoEntry]
  /\ seq = [nextId |-> 0, epoch |-> 0, nextSeries |-> 1]
  /\ genNext = 1 /\ poisoned = FALSE
  /\ alloc = [nextId |-> 0, epoch |-> 0] /\ holder = NoOne
  /\ cache = EmptyCache /\ bounds = [s \in SeriesIds |-> NoBound]
  /\ pc = [c \in Callers |-> "idle"]
  /\ batch = [c \in Callers |-> CHOOSE b \in Batches : TRUE]
  /\ gens = [c \in Callers |-> <<>>] /\ txn = [c \in Callers |-> BlankTxn]
  /\ read = [r \in Readers |-> BlankRead]
  /\ replies = {} /\ calls = 0 /\ reads = 0 /\ restarts = 0
-----------------------------------------------------------------------------
(* Before the commit lock *)

GoTo(c, label) == pc' = [pc EXCEPT ![c] = label]

\* The call returns; its frames and its transaction are forgotten.
Return(c) ==
  /\ GoTo(c, "idle")
  /\ gens' = [gens EXCEPT ![c] = <<>>]
  /\ txn' = [txn EXCEPT ![c] = BlankTxn]
  /\ UNCHANGED batch

Reply(b, kind, receipt) ==
  replies' = replies \cup {[batch |-> b, kind |-> kind, receipt |-> receipt]}

BugAnswer(b) == Reply(b, "replay", [ledger[Key[b]] EXCEPT !.batch = b])

\* What a recorded key is answered with: its receipt, for the batch it names.
Answer(b) ==
  LET entry == ledger[Key[b]]
  IN IF entry.batch = b THEN Reply(b, "replay", entry) ELSE Reply(b, "conflict", NoEntry)

Recorded(b) == ledger[Key[b]] # NoEntry
SeriesOf(tag) == {s.id : s \in {q \in catalog : q.tag = tag}}
Registered(b) == Tag[b] = Untagged \/ SeriesOf(Tag[b]) # {}
HasRoom == Cardinality(catalog) < MaxSeries

Begin(c, b) ==
  /\ ~poisoned /\ pc[c] = "idle" /\ calls < MaxCalls
  /\ GoTo(c, "check")
  /\ batch' = [batch EXCEPT ![c] = b]
  /\ calls' = calls + 1
  /\ UNCHANGED <<index, frames, process, caches, gens, txn, read, replies, reads, restarts>>

CheckLedger(c) ==
  /\ pc[c] = "check"
  /\ \/ Recorded(batch[c]) /\ Answer(batch[c]) /\ Return(c)
     \/ /\ ~Recorded(batch[c])
        /\ GoTo(c, IF Tag[batch[c]] = Untagged THEN "write" ELSE "lookup")
        /\ UNCHANGED <<batch, gens, txn, replies>>
  /\ UNCHANGED <<index, frames, process, caches, read, calls, reads, restarts>>

\* The early check of the cap reads the catalog twice: is the key in it, and
\* how many series does it hold.
LookUpSeries(c) ==
  /\ pc[c] = "lookup"
  /\ GoTo(c, IF Registered(batch[c]) THEN "write" ELSE "room")
  /\ UNCHANGED <<index, frames, process, caches, batch, gens, txn, read, history>>

CheckRoom(c) ==
  /\ pc[c] = "room"
  /\ \/ HasRoom /\ GoTo(c, "write") /\ UNCHANGED <<batch, gens, txn, replies>>
     \/ ~HasRoom /\ Reply(batch[c], "limit", NoEntry) /\ Return(c)
  /\ UNCHANGED <<index, frames, process, caches, read, calls, reads, restarts>>

\* The next chunk's frame.  A write that fails may leave its file behind.
WriteFrame(c) ==
  /\ pc[c] = "write"
  /\ genNext' = genNext + 1
  /\ \/ /\ frames' = frames \cup {genNext}
        /\ gens' = [gens EXCEPT ![c] = Append(@, genNext)]
        /\ GoTo(c, IF Len(gens'[c]) = Len(Chunks[batch[c]]) THEN "ready" ELSE "write")
        /\ UNCHANGED <<batch, txn, replies>>
     \/ /\ "write" \in Faults
        /\ frames' \in {frames, frames \cup {genNext}}
        /\ Reply(batch[c], "error", NoEntry) /\ Return(c)
  /\ UNCHANGED <<index, poisoned, alloc, holder, caches, read, calls, reads, restarts>>
-----------------------------------------------------------------------------
(* Under the commit lock *)

Unlock == holder' = NoOne

TakeLock(c) ==
  /\ pc[c] = "ready" /\ holder = NoOne
  /\ holder' = c /\ GoTo(c, "locked")
  /\ UNCHANGED <<index, frames, genNext, poisoned, alloc, caches, batch, gens, txn, read, history>>

BugMayRegister(b) == TRUE

\* commit_series_id's check, the one that decides.
MayRegister(b) == Registered(b) \/ HasRoom

IdFor(b) ==
  IF Tag[b] = Untagged THEN 0
  ELSE IF Registered(b) THEN CHOOSE id \in SeriesOf(Tag[b]) : TRUE
  ELSE seq.nextSeries

\* The ledger again, the series, and an id for every frame: used up whatever
\* becomes of the commit.
Plan(c) ==
  LET b == batch[c]
      n == Len(gens[c])
  IN /\ pc[c] = "locked"
     /\ \/ /\ Recorded(b)
           /\ Answer(b) /\ Return(c) /\ Unlock /\ UNCHANGED alloc
        \/ /\ ~Recorded(b) /\ ~MayRegister(b)
           /\ Reply(b, "limit", NoEntry) /\ GoTo(c, "refused") /\ Unlock
           /\ UNCHANGED <<batch, gens, txn, alloc>>
        \/ /\ ~Recorded(b) /\ MayRegister(b)
           /\ txn' = [txn EXCEPT ![c] =
                [ids |-> [i \in 1..n |-> alloc.nextId + i - 1], series |-> IdFor(b),
                 epoch |-> alloc.epoch + 1, registers |-> ~Registered(b)]]
           /\ alloc' = [alloc EXCEPT !.nextId = @ + n]
           /\ GoTo(c, "planned")
           /\ UNCHANGED <<batch, gens, holder, replies>>
     /\ UNCHANGED <<index, frames, genNext, poisoned, caches, read, calls, reads, restarts>>

Width(span) == span.hi - span.lo
Widest(S) == CHOOSE n \in S : \A m \in S : m <= n

BugWidened(c) == bounds

\* The bound of the transaction's series, widened to its rows.
Widened(c) ==
  LET widths == {Width(Chunks[batch[c]][i]) : i \in DOMAIN gens[c]}
  IN [bounds EXCEPT ![txn[c].series].widest = Widest(widths \cup {@})]

\* commit_index refuses a poisoned store; apply widens the bounds first.
Submit(c) ==
  /\ pc[c] = "planned"
  /\ \/ poisoned /\ GoTo(c, "rejected") /\ UNCHANGED bounds
     \/ ~poisoned /\ GoTo(c, "committing") /\ bounds' = Widened(c)
  /\ UNCHANGED <<index, frames, process, cache, batch, gens, txn, read, history>>

Receipt(c) == [batch |-> batch[c], ids |-> txn[c].ids, series |-> txn[c].series,
               epoch |-> txn[c].epoch]

NewRows(c) ==
  {[id |-> txn[c].ids[i], gen |-> gens[c][i], series |-> txn[c].series,
    batch |-> batch[c], chunk |-> i] : i \in DOMAIN gens[c]}

\* The primary keys the inserts would violate.
Accepted(c) ==
  /\ ~Recorded(batch[c])
  /\ txn[c].epoch \notin epochs
  /\ txn[c].registers =>
       \A s \in catalog : s.id # txn[c].series /\ s.tag # Tag[batch[c]]

BugLand(c) ==
  /\ Accepted(c)
  /\ rows' = rows \cup NewRows(c)
  /\ seq' = [nextId |-> alloc.nextId, epoch |-> txn[c].epoch,
             nextSeries |-> IF txn[c].registers THEN txn[c].series + 1 ELSE seq.nextSeries]
  /\ catalog' = IF txn[c].registers
                THEN catalog \cup {[id |-> txn[c].series, tag |-> Tag[batch[c]]]} ELSE catalog
  /\ epochs' = epochs \cup {txn[c].epoch}
  /\ UNCHANGED ledger

Land(c) ==
  /\ Accepted(c)
  /\ rows' = rows \cup NewRows(c)
  /\ ledger' = [ledger EXCEPT ![Key[batch[c]]] = Receipt(c)]
  /\ seq' = [nextId |-> alloc.nextId, epoch |-> txn[c].epoch,
             nextSeries |-> IF txn[c].registers THEN txn[c].series + 1 ELSE seq.nextSeries]
  /\ catalog' = IF txn[c].registers
                THEN catalog \cup {[id |-> txn[c].series, tag |-> Tag[batch[c]]]} ELSE catalog
  /\ epochs' = epochs \cup {txn[c].epoch}

\* The transaction: a conflict that is retried is one that landed nothing, so
\* its last attempt stands for all of them.
Commit(c) ==
  /\ pc[c] = "committing"
  /\ \/ Land(c) /\ GoTo(c, "landed")
     \/ (~Accepted(c) \/ "commit" \in Faults) /\ UNCHANGED index /\ GoTo(c, "rejected")
     \/ "commit" \in Faults /\ (Land(c) \/ UNCHANGED index) /\ GoTo(c, "ambiguous")
  /\ UNCHANGED <<frames, process, caches, batch, gens, txn, read, history>>

BugFailed(c) == GoTo(c, "refused") /\ UNCHANGED <<batch, gens, txn>>

\* An error other than the cap's refusal leaves the frames where they are.
Failed(c) == Return(c)

\* The COMMIT has returned, or was not tried: the cached catalog is forgotten,
\* an ambiguous outcome poisons the store, a success raises the epoch.
Finish(c) ==
  /\ pc[c] \in {"landed", "rejected", "ambiguous"}
  /\ cache' = IF txn[c].registers
              THEN [generation |-> cache.generation + 1, loaded |-> FALSE, series |-> {}]
              ELSE cache
  /\ poisoned' = (poisoned \/ pc[c] = "ambiguous")
  /\ \/ /\ pc[c] = "landed"
        /\ alloc' = [alloc EXCEPT !.epoch = txn[c].epoch]
        /\ Reply(batch[c], "receipt", Receipt(c)) /\ Return(c)
     \/ /\ pc[c] # "landed"
        /\ Reply(batch[c], "error", NoEntry) /\ Failed(c) /\ UNCHANGED alloc
  /\ Unlock
  /\ UNCHANGED <<index, frames, genNext, bounds, read, calls, reads, restarts>>

\* The frames of a batch the cap refused at its commit are unlinked; one that
\* cannot be is logged and left.
RemoveFrames(c) ==
  /\ pc[c] = "refused"
  /\ \E left \in SUBSET {gens[c][i] : i \in DOMAIN gens[c]} :
       /\ left = {} \/ "write" \in Faults
       /\ frames' = (frames \ {gens[c][i] : i \in DOMAIN gens[c]}) \cup left
  /\ Return(c)
  /\ UNCHANGED <<index, process, caches, read, history>>

\* The caller's future is dropped at an await: the lock goes with it, and its
\* COMMIT, if in flight, has landed or not.
Drop(c) ==
  /\ "drop" \in Faults
  /\ pc[c] \notin {"idle", "rejected", "ambiguous"}
  /\ Return(c)
  /\ holder' = IF holder = c THEN NoOne ELSE holder
  /\ UNCHANGED <<index, frames, genNext, poisoned, alloc, caches, read, history>>
-----------------------------------------------------------------------------
(* Reads *)

Set(r, fields) == read' = [read EXCEPT ![r] = fields]

Overlaps(row, window) ==
  LET span == Chunks[row.batch][row.chunk]
  IN span.lo <= window.hi /\ window.lo <= span.hi

\* The stored rows of the tag in the window whose receipt was returned.
Acknowledged(tag, window) ==
  {row \in rows : /\ \E reply \in replies : reply.kind = "receipt" /\ reply.batch = row.batch
                  /\ Tag[row.batch] = tag
                  /\ Overlaps(row, window)}

\* A read of a tag's rows in a window; it owes the rows acknowledged by now.
ReadBegin(r, tag, window) ==
  /\ read[r].pc = "idle" /\ reads < MaxReads
  /\ Set(r, [BlankRead EXCEPT !.pc = IF tag = Untagged THEN "bound" ELSE "resolve",
               !.tag = tag, !.window = window,
               !.owed = Acknowledged(tag, window)])
  /\ reads' = reads + 1
  /\ UNCHANGED <<index, frames, process, caches, caller, replies, calls, restarts>>

\* The series a catalog has for the tag; a tag it does not have reads empty.
Found(r, series) ==
  LET ids == {s.id : s \in {q \in series : q.tag = read[r].tag}}
  IN IF ids = {} THEN [read[r] EXCEPT !.pc = "done", !.loaded = {}]
     ELSE [read[r] EXCEPT !.pc = "bound", !.series = CHOOSE id \in ids : TRUE, !.loaded = {}]

Resolve(r) ==
  /\ read[r].pc = "resolve"
  /\ Set(r, IF cache.loaded THEN Found(r, cache.series)
            ELSE [read[r] EXCEPT !.pc = "load", !.generation = cache.generation])
  /\ UNCHANGED <<index, frames, process, caches, caller, history>>

LoadCatalog(r) ==
  /\ read[r].pc = "load"
  /\ Set(r, [read[r] EXCEPT !.pc = "keep", !.loaded = catalog])
  /\ UNCHANGED <<index, frames, process, caches, caller, history>>

BugKeep(r) == TRUE
Keep(r) == cache.generation = read[r].generation

KeepCatalog(r) ==
  /\ read[r].pc = "keep"
  /\ cache' = IF Keep(r) THEN [cache EXCEPT !.loaded = TRUE, !.series = read[r].loaded]
              ELSE cache
  /\ Set(r, Found(r, read[r].loaded))
  /\ UNCHANGED <<index, frames, process, bounds, caller, history>>

GetBound(r) ==
  LET bound == bounds[read[r].series]
  IN /\ read[r].pc = "bound"
     /\ Set(r, IF bound.loaded THEN [read[r] EXCEPT !.pc = "query", !.widest = bound.widest]
               ELSE [read[r] EXCEPT !.pc = "measure"])
     /\ UNCHANGED <<index, frames, process, caches, caller, history>>

RowsOf(series) == {row \in rows : row.series = series}

MeasureBound(r) ==
  LET widths == {Width(Chunks[row.batch][row.chunk]) : row \in RowsOf(read[r].series)}
  IN /\ read[r].pc = "measure"
     /\ Set(r, [read[r] EXCEPT !.pc = "measured", !.widest = Widest(widths \cup {0})])
     /\ UNCHANGED <<index, frames, process, caches, caller, history>>

\* The measured width is folded into the bound, never put in its place.
KeepBound(r) ==
  LET widest == Widest({read[r].widest, bounds[read[r].series].widest})
  IN /\ read[r].pc = "measured"
     /\ bounds' = [bounds EXCEPT ![read[r].series] = [loaded |-> TRUE, widest |-> widest]]
     /\ Set(r, [read[r] EXCEPT !.pc = "query", !.widest = widest])
     /\ UNCHANGED <<index, frames, process, cache, caller, history>>

Query(r) ==
  LET overlapping == {row \in RowsOf(read[r].series) : Overlaps(row, read[r].window)}
      floor == read[r].window.lo - read[r].widest
  IN /\ read[r].pc = "query"
     /\ Set(r, [read[r] EXCEPT !.pc = "recheck", !.stored = overlapping,
                  !.found = {row \in overlapping : floor <= Chunks[row.batch][row.chunk].lo}])
     /\ UNCHANGED <<index, frames, process, caches, caller, history>>

BugSettled(r) == TRUE
Settled(r) == bounds[read[r].series].widest = read[r].widest

\* A bound that was widened meanwhile sends the prune round again.
Recheck(r) ==
  /\ read[r].pc = "recheck"
  /\ Set(r, IF Settled(r) THEN [read[r] EXCEPT !.pc = "done"]
            ELSE [read[r] EXCEPT !.pc = "query", !.widest = bounds[read[r].series].widest])
  /\ UNCHANGED <<index, frames, process, caches, caller, history>>

ReadEnd(r) ==
  /\ read[r].pc = "done"
  /\ Set(r, BlankRead)
  /\ UNCHANGED <<index, frames, process, caches, caller, history>>
-----------------------------------------------------------------------------
\* The process ends and the store is opened again: the allocator is seeded
\* from the index, the caches are empty.
Restart ==
  /\ restarts < MaxRestarts
  /\ restarts' = restarts + 1
  /\ poisoned' = FALSE /\ holder' = NoOne
  /\ alloc' = [nextId |-> Widest({seq.nextId} \cup {row.id + 1 : row \in rows}),
               epoch |-> seq.epoch]
  /\ cache' = EmptyCache /\ bounds' = [s \in SeriesIds |-> NoBound]
  /\ pc' = [c \in Callers |-> "idle"] /\ gens' = [c \in Callers |-> <<>>]
  /\ txn' = [c \in Callers |-> BlankTxn]
  /\ read' = [r \in Readers |-> BlankRead]
  /\ UNCHANGED <<index, frames, genNext, batch, replies, calls, reads>>

IngestStep(c) ==
  \/ \E b \in Batches : Begin(c, b)
  \/ CheckLedger(c) \/ LookUpSeries(c) \/ CheckRoom(c) \/ WriteFrame(c)
  \/ TakeLock(c) \/ Plan(c) \/ Submit(c) \/ Commit(c) \/ Finish(c)
  \/ RemoveFrames(c) \/ Drop(c)

ReadStep(r) ==
  \/ \E tag \in Tags \cup {Untagged}, window \in Windows : ReadBegin(r, tag, window)
  \/ Resolve(r) \/ LoadCatalog(r) \/ KeepCatalog(r)
  \/ GetBound(r) \/ MeasureBound(r) \/ KeepBound(r)
  \/ Query(r) \/ Recheck(r) \/ ReadEnd(r)

Next ==
  \/ \E c \in Callers : IngestStep(c)
  \/ \E r \in Readers : ReadStep(r)
  \/ Restart

Spec == Init /\ [][Next]_vars
-----------------------------------------------------------------------------
(* What an ingest promises *)

\* A key stands for one batch: its rows are in the index all together, once,
\* under the ids and the series of the recorded receipt, or not at all
\* (publish_ingest's transaction, over retries, ambiguous COMMITs, restarts).
OncePerKey ==
  \A k \in Keys :
    LET entry == ledger[k]
        held == {row \in rows : Key[row.batch] = k}
    IN IF entry = NoEntry THEN held = {}
       ELSE /\ Cardinality(held) = Len(Chunks[entry.batch])
            /\ \A i \in DOMAIN Chunks[entry.batch] : \E row \in held :
                 /\ row.batch = entry.batch /\ row.chunk = i
                 /\ row.id = entry.ids[i] /\ row.series = entry.series

\* A receipt, a replayed one too, is of the caller's own batch and stays what
\* the ledger holds; a conflict is answered only over a different batch
\* (ingest's two ledger checks).
RepliesHold ==
  \A reply \in replies :
    LET entry == ledger[Key[reply.batch]]
    IN /\ reply.kind \in {"receipt", "replay"} => reply.receipt.batch = reply.batch /\ entry = reply.receipt
       /\ reply.kind = "conflict" => entry # NoEntry /\ entry.batch # reply.batch

\* Whatever interleaves between the two cap checks, the catalog stays within
\* the cap, gives each tag set one id, below the allocator's next, and every
\* row lies in the series of its batch's tags (commit_series_id).
SeriesSound ==
  /\ Cardinality(catalog) <= MaxSeries
  /\ \A s, q \in catalog : s.id = q.id \/ s.tag = q.tag => s = q
  /\ \A s \in catalog : s.id < seq.nextSeries
  /\ \A row \in rows : IF Tag[row.batch] = Untagged THEN row.series = 0
                       ELSE [id |-> row.series, tag |-> Tag[row.batch]] \in catalog

\* The unlink of a refused batch's frames never takes one an index row names
\* (ingest's error path).
FramesKept == \A row \in rows : row.gen \in frames

\* A read by tags that began after an ingest returned its receipt finds the
\* rows of it that lie in the window (resolve_series over the cached catalog,
\* then prune_rows).
ReadsSeeAcknowledged ==
  \A r \in Readers : read[r].pc = "done" => read[r].owed \subseteq read[r].found

\* A copy of the catalog that is kept is the catalog, but for a registration
\* that has landed and is about to forget it (the generation of SeriesCatalogs,
\* and forget_catalogs after every transaction that registers).
CatalogFresh ==
  \/ ~cache.loaded \/ cache.series = catalog
  \/ \E c \in Callers : pc[c] \in {"landed", "ambiguous"} /\ txn[c].registers

\* A prune answers every overlapping row of the snapshot its last query read,
\* although the bound of its seek was read earlier (prune_rows' second look).
PruneExact ==
  \A r \in Readers : read[r].pc = "done" => read[r].found = read[r].stored
=============================================================================

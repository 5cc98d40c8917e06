---------------------------- MODULE SegmentStore ----------------------------
(***************************************************************************)
(* One aspect (one series) of a segment store, down to the disk: what its  *)
(* frames hold, which of their directory entries a power cut leaves, and   *)
(* what the index transactions make of them.                               *)
(*                                                                         *)
(*   - Seals of different batches run beside each other: each writes its   *)
(*     frame without a lock, fsyncs segments/, and commits its row under   *)
(*     the commit lock, where it gets its id.                              *)
(*   - One maintenance operation at a time reconciles, splits, merges or   *)
(*     squashes segments: it reads its members, journals and writes its    *)
(*     outputs, and swaps them in (seal.rs, M1-M6).                        *)
(*   - The reaper's pass unlinks what the journal names; which names a     *)
(*     pin or a refused unlink leaves for later is nondeterministic here   *)
(*     (see Reclaim).                                                      *)
(*   - A consumer of the change log reads it and acknowledges it.          *)
(*   - The power goes at any time; the open replays the journal.           *)
(*                                                                         *)
(* An index transaction is one step, taken under the aspect's commit lock  *)
(* (an acknowledgement takes none, and deletes change rows only): it       *)
(* commits, or is rejected, or its COMMIT is ambiguous (it may have        *)
(* landed, and the store is poisoned), or the caller's future is dropped   *)
(* while the COMMIT is in flight and it lands.                             *)
(***************************************************************************)
EXTENDS Integers, FiniteSets, Sequences

CONSTANTS Batches, Times, Values, Missing, Content,  \* as in VersionedStore
  Late,         \* the batches whose rows are out of time order
  Faults,       \* which of "write", "sync", "commit" and "drop" may happen
  MaxGen,       \* bound: the generations an aspect may use
  MaxRestarts   \* bound: how often the process ends

VARIABLES
  (* segment_index.db *)
  rows,     \* the index rows, each [id, gen]
  journal,  \* generation -> "pending" | "retired" | NotJournaled
  seq,      \* aspect_seq: [nextId, nextGen, epoch]
  rollup,   \* the generations the aspect's rollup summarises
  changes,  \* segment_changes: [epoch, batch] each
  (* segments/ *)
  data,     \* generation -> what was written to its frame
  whole,    \* the generations whose file was written and fsynced to its end
  visible,  \* the directory entries as the running system sees them
  durable,  \* the directory entries as a power cut leaves them
  dropped,  \* entries the kernel gave up on when a directory fsync failed
  (* the process *)
  mode,     \* "opening" | "up"
  poison,   \* "no" | "commit" | "sync": why the store refuses writes
  alloc,    \* the aspect's in-memory allocator: [nextId, epoch]
  genNext,  \* its generation counter
  late,     \* frames a dropped operation's blocking task has still to write
  sealPc, sealGen,  \* where each batch's seal stands, and its generation
  (* the maintenance lock's holder, or the replay while opening *)
  maint, members, parts, gens, keep, processed,
  fetched,  \* the changes the consumer has read
  (* history *)
  landed, acked, batched, restarts

index == <<rows, journal, seq, rollup, changes>>
disk == <<data, whole, visible, durable, dropped>>
process == <<mode, poison, alloc, genNext>>
seals == <<sealPc, sealGen>>
plan == <<members, parts, gens, keep>>
history == <<landed, acked, batched, restarts>>
vars == <<index, disk, process, late, seals, maint, plan, processed, fetched, history>>

Gens == 1..MaxGen
NotJournaled == "none"
Runs == UNION {[S -> Values] : S \in SUBSET Times}  \* rows, by timestamp

\* Timestamps are 64-bit integers: there is a first one.
ASSUME StoreAssumption ==
  /\ Times \subseteq Int /\ \E first \in Times : \A t \in Times : first <= t
  /\ Content \in [Batches -> Runs]
  /\ MaxGen \in Nat /\ MaxRestarts \in Nat

SealPc == {"idle", "written", "synced", "acked", "failed"}

\* "planned": members read, outputs chosen; "journaled": M3 done, writing;
\* "synced": M4 done; "rejected": M5's commit failed; "committed": M5 done, the
\* pass to come; "unlinked", "cleanable", "cleared": a pass after its unlinks,
\* its fsync, its commit.
MaintPc == {"free", "planned", "journaled", "synced", "rejected", "committed",
            "unlinked", "cleanable", "cleared"}

TypeOK ==
  /\ rows \in SUBSET [id : Nat, gen : Gens]
  /\ journal \in [Gens -> {"pending", "retired", NotJournaled}]
  /\ seq \in [nextId : Nat, nextGen : Nat, epoch : Nat]
  /\ rollup \subseteq Gens
  /\ changes \in SUBSET [epoch : Nat, batch : Batches]
  /\ data \in [Gens -> [rows : Runs, sorted : BOOLEAN]]
  /\ whole \subseteq Gens /\ visible \subseteq Gens
  /\ durable \subseteq Gens /\ dropped \subseteq Gens
  /\ mode \in {"opening", "up"}
  /\ poison \in {"no", "commit", "sync"}
  /\ alloc \in [nextId : Nat, epoch : Nat]
  /\ genNext \in 1..MaxGen + 1
  /\ late \subseteq Gens
  /\ sealPc \in [Batches -> SealPc] /\ sealGen \in [Batches -> Gens \cup {0}]
  /\ maint \in MaintPc
  /\ members \subseteq rows
  /\ parts \in Seq(Runs) /\ gens \in Seq(Gens) /\ keep \in BOOLEAN
  /\ processed \subseteq Gens
  /\ fetched \in SUBSET [epoch : Nat, batch : Batches]
  /\ restarts \in 0..MaxRestarts
  /\ landed \subseteq Batches /\ acked \subseteq landed /\ batched \subseteq landed

Init ==
  /\ rows = {} /\ changes = {} /\ rollup = {}
  /\ journal = [g \in Gens |-> NotJournaled]
  /\ seq = [nextId |-> 0, nextGen |-> 0, epoch |-> 0]
  /\ data = [g \in Gens |-> [rows |-> <<>>, sorted |-> TRUE]]
  /\ whole = {} /\ visible = {} /\ durable = {} /\ dropped = {}
  /\ mode = "up" /\ poison = "no"
  /\ alloc = [nextId |-> 0, epoch |-> 0] /\ genNext = 1 /\ late = {}
  /\ sealPc = [b \in Batches |-> "idle"] /\ sealGen = [b \in Batches |-> 0]
  /\ maint = "free" /\ members = {} /\ parts = <<>> /\ gens = <<>> /\ keep = FALSE
  /\ processed = {} /\ fetched = {}
  /\ landed = {} /\ acked = {} /\ batched = {} /\ restarts = 0
-----------------------------------------------------------------------------
(* Rows, spans and precedence *)

Max2(a, b) == IF a < b THEN b ELSE a
MaxOr0(S) == IF S = {} THEN 0 ELSE CHOOSE n \in S : \A m \in S : m <= n
GensOf(S) == {r.gen : r \in S}
IdsOf(S) == {r.id : r \in S}
Live == GensOf(rows)
Journal == {g \in Gens : journal[g] # NotJournaled}

Held(r) == data[r.gen].rows
TimesOf(S) == UNION {DOMAIN Held(r) : r \in S}
Holding(S, t) == {r \in S : t \in DOMAIN Held(r)}
Newest(S) == CHOOSE r \in S : \A q \in S : q.id <= r.id
Oldest(S) == CHOOSE r \in S : \A q \in S : r.id <= q.id

\* A merge's fold: the newest member's row at each timestamp.
Fold(S) == [t \in TimesOf(S) |-> Held(Newest(Holding(S, t)))[t]]

\* The spans of two runs of rows, from first to last timestamp, intersect.
Overlap(f, g) ==
  /\ \E t \in DOMAIN f, u \in DOMAIN g : t <= u
  /\ \E t \in DOMAIN f, u \in DOMAIN g : u <= t

\* A connected component of the rows under overlap.
IsComponent(S) ==
  /\ \A r \in S, q \in rows \ S : ~Overlap(Held(r), Held(q))
  /\ \A part \in SUBSET S : part \notin {{}, S} =>
       \E r \in part, q \in S \ part : Overlap(Held(r), Held(q))

\* Rows of consecutive ids, among the live ones.
IsRun(S) ==
  \A q \in rows \ S : \/ \A r \in S : q.id < r.id
                      \/ \A r \in S : r.id < q.id

First(f) == CHOOSE t \in DOMAIN f : \A u \in DOMAIN f : t <= u

\* Where the second-earliest member starts: what lies before is one member's.
ColdBoundary(S) ==
  LET first == CHOOSE r \in S : \A q \in S : First(Held(r)) <= First(Held(q))
      starts == {First(Held(r)) : r \in S \ {first}}
  IN CHOOSE t \in starts : \A u \in starts : t <= u

Before(f, t) == [u \in {v \in DOMAIN f : v < t} |-> f[u]]
From(f, t) == [u \in {v \in DOMAIN f : t <= v} |-> f[u]]

BugOutranked(S, f) == FALSE

\* Rule P2: a row above every member overlaps what would take a fresh id.
Outranked(S, f) ==
  \E q \in rows : (\A r \in S : r.id < q.id) /\ Overlap(f, Held(q))
-----------------------------------------------------------------------------
(* Seals *)

Writable == mode = "up" /\ poison = "no"

\* The fsync of segments/ makes every entry durable, but for those the kernel
\* dropped when an earlier fsync failed; a failure poisons store and syncer.
SyncDir ==
  /\ poison # "sync"
  /\ durable' = (visible \ dropped) \cup (durable \cap dropped)
  /\ UNCHANGED <<data, whole, visible, dropped, process>>

BugSyncDirFails ==
  /\ "sync" \in Faults
  /\ dropped' = dropped \cup (visible \ durable) \cup (durable \ visible)
  /\ UNCHANGED <<data, whole, visible, durable, process>>

SyncDirFails ==
  /\ "sync" \in Faults
  /\ poison' = "sync"
  /\ dropped' = dropped \cup (visible \ durable) \cup (durable \ visible)
  /\ UNCHANGED <<data, whole, visible, durable, mode, alloc, genNext>>

Seal(b, pc) == sealPc' = [sealPc EXCEPT ![b] = pc]

Create(g) == visible' = visible \cup {g} /\ dropped' = dropped \ {g}
Unlink(S) == visible' = visible \ S /\ dropped' = dropped \ (S \cap visible)

\* write_new_durable: the file is created under a name that is new, written
\* and fsynced, in one blocking task.  When a step fails the file is removed,
\* or left torn if that fails too; when the caller's future is dropped, the
\* task has still to run.
Written(g) == Create(g) /\ whole' = whole \cup {g} /\ UNCHANGED late

WriteFails(g) ==
  /\ UNCHANGED whole
  /\ \/ "write" \in Faults /\ Create(g) /\ UNCHANGED late
     \/ "write" \in Faults /\ UNCHANGED <<visible, dropped, late>>
     \/ "drop" \in Faults /\ late' = late \cup {g} /\ UNCHANGED <<visible, dropped>>

\* A seal's frame, under the next generation.
SealWrite(b) ==
  /\ Writable /\ sealPc[b] = "idle"
  /\ genNext \in Gens \ visible
  /\ genNext' = genNext + 1
  /\ sealGen' = [sealGen EXCEPT ![b] = genNext]
  /\ data' = [data EXCEPT ![genNext] = [rows |-> Content[b], sorted |-> b \notin Late]]
  /\ \/ Written(genNext) /\ Seal(b, "written")
     \/ WriteFails(genNext) /\ Seal(b, "failed")
  /\ UNCHANGED <<index, durable, mode, poison, alloc, maint, plan, processed, fetched, history>>

\* The seal's future is dropped before its commit, or the store refuses it
\* since it is poisoned: its frame is litter.
SealDrop(b) ==
  /\ "drop" \in Faults \/ poison # "no"
  /\ mode = "up" /\ sealPc[b] \in {"written", "synced"}
  /\ Seal(b, "failed")
  /\ UNCHANGED <<index, disk, process, late, sealGen, maint, plan, processed, fetched, history>>

BugSealSync(b) ==
  /\ mode = "up" /\ sealPc[b] = "written"
  /\ Seal(b, "synced")
  /\ UNCHANGED <<index, disk, process, late, sealGen, maint, plan, processed, fetched, history>>

SealSync(b) ==
  /\ mode = "up" /\ sealPc[b] = "written"
  /\ \/ SyncDir /\ Seal(b, "synced")
     \/ SyncDirFails /\ Seal(b, "failed")
  /\ UNCHANGED <<index, late, sealGen, maint, plan, processed, fetched, history>>

\* How an index transaction may end that does not return Ok.
Rejected == "commit" \in Faults /\ UNCHANGED poison
Ambiguous == "commit" \in Faults /\ poison' = "commit"
DroppedInFlight == "drop" \in Faults /\ UNCHANGED poison

Epoch == alloc.epoch + 1

\* publish_seal's transaction: the row under the next id, the allocator's
\* raise, the rollup folded forward, the change row.  Its epoch must be new to
\* the change log.
EpochIsNew == \A c \in changes : c.epoch # Epoch

SealLands(b) ==
  /\ EpochIsNew
  /\ rows' = rows \cup {[id |-> alloc.nextId, gen |-> sealGen[b]]}
  /\ seq' = [nextId |-> Max2(seq.nextId, alloc.nextId + 1),
             nextGen |-> Max2(seq.nextGen, sealGen[b] + 1),
             epoch |-> Max2(seq.epoch, Epoch)]
  /\ rollup' = rollup \cup {sealGen[b]}
  /\ changes' = changes \cup {[epoch |-> Epoch, batch |-> b]}
  /\ landed' = landed \cup {b}
  /\ UNCHANGED journal

\* The id is used up whatever becomes of the commit; the epoch advances only
\* once the COMMIT returned.
SealCommit(b) ==
  /\ Writable /\ sealPc[b] = "synced"
  /\ \/ /\ SealLands(b)
        /\ Seal(b, "acked") /\ acked' = acked \cup {b}
        /\ alloc' = [nextId |-> alloc.nextId + 1, epoch |-> Epoch]
        /\ UNCHANGED poison
     \/ /\ Seal(b, "failed") /\ UNCHANGED acked
        /\ alloc' = [alloc EXCEPT !.nextId = @ + 1]
        /\ \/ Rejected /\ UNCHANGED <<index, landed>>
           \/ Ambiguous /\ (SealLands(b) \/ UNCHANGED <<index, landed>>)
           \/ DroppedInFlight /\ SealLands(b)
  /\ UNCHANGED <<disk, mode, genNext, late, sealGen, maint, plan, processed, fetched, batched, restarts>>

\* The blocking task of a dropped operation gets to write its frame.
LateWrite(g) ==
  /\ late' = late \ {g}
  /\ Create(g)
  /\ whole' = whole \cup {g}
  /\ UNCHANGED <<index, data, durable, process, seals, maint, plan, processed, fetched, history>>
-----------------------------------------------------------------------------
(* Maintenance: what a plan reads and writes *)

PlanIs(S, outputs, kept) ==
  /\ maint' = IF kept THEN "synced" ELSE "planned"
  /\ members' = S /\ parts' = outputs /\ keep' = kept
  /\ gens' = <<>>
  /\ UNCHANGED <<index, disk, process, late, seals, processed, fetched, history>>

\* An out-of-order segment is rewritten in time order.
PlanReconcile(r) ==
  /\ ~data[r.gen].sorted
  /\ PlanIs({r}, <<Held(r)>>, FALSE)

PlanSplit(r, t) ==
  /\ data[r.gen].sorted
  /\ DOMAIN Before(Held(r), t) # {} /\ DOMAIN From(Held(r), t) # {}
  /\ ~Outranked({r}, From(Held(r), t))
  /\ PlanIs({r}, <<Before(Held(r), t), From(Held(r), t)>>, FALSE)

\* An overlap component: kept as it is when the fold is its oldest member's
\* rows, else rewritten whole, or cut where the cold prefix ends.
PlanOverlap(S) ==
  /\ Cardinality(S) > 1 /\ IsComponent(S)
  /\ LET old == Oldest(S)
         fold == Fold(S)
         cold == ColdBoundary(S)
     IN IF data[old.gen].sorted /\ Held(old) = fold
        THEN PlanIs(S, <<>>, TRUE)
        ELSE \/ PlanIs(S, <<fold>>, FALSE)
             \/ /\ DOMAIN Before(fold, cold) # {} /\ DOMAIN From(fold, cold) # {}
                /\ PlanIs(S, <<Before(fold, cold), From(fold, cold)>>, FALSE)

\* A squash of all the rows, or of a group of consecutive ones.
PlanSquash(S) ==
  /\ Cardinality(S) > 1 /\ IsRun(S)
  /\ PlanIs(S, <<Fold(S)>>, FALSE)
-----------------------------------------------------------------------------
(* Maintenance: M3-M6 *)

Outputs == {gens[k] : k \in DOMAIN gens}
Extra == IF Len(parts) > Cardinality(members) THEN Len(parts) - Cardinality(members) ELSE 0

PlanDone == members' = {} /\ parts' = <<>> /\ gens' = <<>> /\ keep' = FALSE

Release == maint' = "free" /\ processed' = {} /\ PlanDone

\* M2 and M3: the outputs' generations, and their pending rows in one commit.
MaintJournal ==
  /\ maint = "planned"
  /\ genNext + Len(parts) - 1 \in Gens
  /\ genNext' = genNext + Len(parts)
  /\ LET first == genNext
         outs == first..first + Len(parts) - 1
         Lands == /\ journal' = [g \in Gens |-> IF g \in outs THEN "pending" ELSE journal[g]]
                  /\ seq' = [seq EXCEPT !.nextId = Max2(@, alloc.nextId),
                                        !.nextGen = Max2(@, genNext'),
                                        !.epoch = Max2(@, alloc.epoch)]
     IN \/ /\ poison = "no" /\ Lands
           /\ maint' = "journaled"
           /\ gens' = [k \in DOMAIN parts |-> first + k - 1]
           /\ data' = [g \in Gens |-> IF g \in outs
                                      THEN [rows |-> parts[g - first + 1], sorted |-> TRUE]
                                      ELSE data[g]]
           /\ UNCHANGED <<poison, members, parts, keep, processed>>
        \/ /\ Release
           /\ poison = "no" /\ Lands
           /\ Ambiguous \/ DroppedInFlight
           /\ UNCHANGED data
        \/ /\ Release
           /\ \/ poison = "no" /\ (Ambiguous \/ Rejected)
              \/ poison # "no" /\ UNCHANGED poison
           /\ UNCHANGED <<journal, seq, data>>
  /\ UNCHANGED <<rows, rollup, changes, whole, visible, durable, dropped, mode, alloc, late, seals, fetched, history>>

\* M4: the outputs are written one after the other.  After one that failed,
\* or whose operation was dropped, nothing more is written.
Writing(k) == maint = "journaled" /\ k \in DOMAIN gens
                /\ gens[k] \notin whole /\ \A j \in 1..k - 1 : gens[j] \in whole

MaintWrite(k) ==
  /\ Writing(k)
  /\ \/ Written(gens[k]) /\ UNCHANGED <<maint, plan, processed>>
     \/ WriteFails(gens[k]) /\ late' = late /\ maint' = "rejected" /\ UNCHANGED <<plan, processed>>
     \/ WriteFails(gens[k]) /\ late' # late /\ Release
  /\ UNCHANGED <<index, data, durable, process, seals, fetched, history>>

MaintSync ==
  /\ maint = "journaled" /\ Outputs \subseteq whole
  /\ \/ SyncDir /\ maint' = "synced"
     \/ SyncDirFails /\ UNCHANGED maint
  /\ UNCHANGED <<index, late, seals, plan, processed, fetched, history>>

\* A swap that will not commit unlinks the outputs it wrote.  What an unlink
\* leaves stays journaled.
MaintDiscard(removed) ==
  /\ maint \in {"journaled", "synced", "rejected"}
  /\ removed \subseteq Outputs \cap whole
  /\ Unlink(removed)
  /\ IF removed = Outputs \cap whole /\ removed # {}
     THEN maint' = "unlinked" /\ processed' = removed /\ UNCHANGED plan
     ELSE Release
  /\ UNCHANGED <<index, data, whole, durable, process, late, seals, fetched, history>>

\* The operation's future is dropped: its outputs are the reaper's.
MaintDrop ==
  /\ "drop" \in Faults
  /\ mode = "up" /\ maint # "free"
  /\ Release
  /\ UNCHANGED <<index, disk, process, late, seals, fetched, history>>

\* Rule P1: output k takes the k-th smallest member id; P2: the outputs past
\* the members take fresh ids.
MemberId(k) == CHOOSE i \in IdsOf(members) :
                 Cardinality({j \in IdsOf(members) : j < i}) = k - 1
OutputId(k) == IF k <= Cardinality(members) THEN MemberId(k)
               ELSE alloc.nextId + k - Cardinality(members) - 1
OutputRows == {[id |-> OutputId(k), gen |-> gens[k]] : k \in DOMAIN gens}
Kept == IF keep THEN {Oldest(members)} ELSE {}

\* The rollup after a swap is derived from the rows that remain.
BugSwapRollup == rollup' = (rollup \ GensOf(members)) \cup Outputs
SwapRollup == rollup' = GensOf(rows')

\* M5: one transaction replaces the members' rows, retires their frames, and
\* clears the outputs' pending rows.
SwapLands ==
  /\ rows' = (rows \ members) \cup OutputRows \cup Kept
  /\ journal' = [g \in Gens |-> IF g \in GensOf(members \ Kept) THEN "retired"
                                ELSE IF g \in Outputs THEN NotJournaled
                                ELSE journal[g]]
  /\ seq' = [nextId |-> Max2(seq.nextId, alloc.nextId + Extra),
             nextGen |-> Max2(seq.nextGen, MaxOr0(Outputs) + 1),
             epoch |-> Max2(seq.epoch, Epoch)]
  /\ SwapRollup
  /\ UNCHANGED changes

SwapCommit ==
  /\ Writable /\ maint = "synced"
  /\ Extra > 0 => \A k \in DOMAIN parts :
                    k > Cardinality(members) => ~Outranked(members, parts[k])
  /\ \/ /\ SwapLands
        /\ alloc' = [nextId |-> alloc.nextId + Extra, epoch |-> Epoch]
        /\ maint' = "committed" /\ PlanDone
        /\ UNCHANGED <<processed, poison>>
     \/ /\ alloc' = [alloc EXCEPT !.nextId = @ + Extra]
        /\ \/ Rejected /\ maint' = "rejected" /\ UNCHANGED <<index, plan, processed>>
           \/ Ambiguous /\ Release /\ (SwapLands \/ UNCHANGED index)
           \/ DroppedInFlight /\ Release /\ SwapLands
  /\ UNCHANGED <<disk, mode, genNext, late, seals, fetched, history>>
-----------------------------------------------------------------------------
(* The reaper's pass, under the maintenance lock; at the open, the replay *)

\* What was unlinked is fsynced before its journal rows go.
BugAfterUnlink(done) == "cleanable"
AfterUnlink(done) == IF done \ Live = {} THEN "cleanable" ELSE "unlinked"

\* The pass takes the journaled names in "done": it unlinks those no row
\* references.  The others wait for a read, or could not be unlinked.
Sweep(done) ==
  /\ \/ Writable /\ maint \in {"free", "committed"}
     \/ mode = "opening" /\ maint = "free"
  /\ Journal # {}
  /\ done # {} /\ done \subseteq Journal
  /\ Unlink(done \ Live)
  /\ maint' = AfterUnlink(done)
  /\ processed' = done
  /\ UNCHANGED <<index, plan, data, whole, durable, process, late, seals, fetched, history>>

\* Nothing can go now.
SweepNothing ==
  /\ maint = "committed"
  /\ Release
  /\ UNCHANGED <<index, disk, process, late, seals, fetched, history>>

SweepSync ==
  /\ maint = "unlinked"
  /\ \/ SyncDir /\ maint' = "cleanable" /\ UNCHANGED <<plan, processed>>
     \/ SyncDirFails /\ mode = "up" /\ Release
     \/ poison = "sync" /\ Release /\ UNCHANGED <<disk, process>>
  /\ UNCHANGED <<index, late, seals, fetched, history>>

SweepClear ==
  /\ maint = "cleanable"
  /\ LET Lands == journal' = [g \in Gens |-> IF g \in processed THEN NotJournaled ELSE journal[g]]
     IN \/ /\ poison = "no" /\ Lands /\ UNCHANGED poison
           /\ IF mode = "up" THEN Release
              ELSE maint' = "cleared" /\ UNCHANGED <<plan, processed>>
        \/ /\ mode = "up" /\ poison = "no" /\ Ambiguous /\ Release
           /\ Lands \/ UNCHANGED journal
        \/ /\ mode = "up" /\ Release /\ UNCHANGED journal
           /\ Rejected \/ (poison # "no" /\ UNCHANGED poison)
  /\ UNCHANGED <<rows, seq, rollup, changes, disk, mode, alloc, genNext, late, seals, fetched, history>>
-----------------------------------------------------------------------------
(* The change log's consumer *)

ConsumerFetch ==
  /\ mode = "up" /\ fetched = {} /\ changes # {}
  /\ fetched' = changes
  /\ UNCHANGED <<index, disk, process, late, seals, maint, plan, processed, history>>

\* An acknowledgement deletes the changes up to an epoch.
BugAckChanges(through) == changes' = {}
AckChanges(through) == changes' = {c \in changes : through < c.epoch}

\* It has batched the windows of a prefix of what it read, in their order, and
\* acknowledges that prefix; the rest stays in the log.
ConsumerAck ==
  /\ Writable /\ fetched # {}
  /\ \E last \in fetched :
       /\ batched' = batched \cup {c.batch : c \in {f \in fetched : f.epoch <= last.epoch}}
       /\ \/ AckChanges(last.epoch) /\ (UNCHANGED poison \/ Ambiguous)
          \/ UNCHANGED changes /\ (Rejected \/ Ambiguous)
  /\ fetched' = {}
  /\ UNCHANGED <<rows, journal, seq, rollup, disk, mode, alloc, genNext, late, seals, maint, plan, processed, landed, acked, restarts>>

\* No window of its first change can be batched yet, or it fails before it
\* stored a batch.
ConsumerStop ==
  /\ fetched # {}
  /\ fetched' = {}
  /\ UNCHANGED <<index, disk, process, late, seals, maint, plan, processed, history>>
-----------------------------------------------------------------------------
(* A restart, and the open *)

\* The process ends, with the operations it was running.
ProcessEnds ==
  /\ restarts' = restarts + 1
  /\ late' = {}
  /\ mode' = "opening" /\ poison' = "no"
  /\ alloc' = [nextId |-> 0, epoch |-> 0] /\ genNext' = 1
  /\ sealPc' = [b \in Batches |-> IF sealPc[b] \in {"idle", "acked"} THEN sealPc[b] ELSE "failed"]
  /\ fetched' = {}
  /\ Release
  /\ UNCHANGED <<index, data, sealGen, landed, acked, batched>>

\* It is killed alone: the directory is as it left it.
Kill ==
  /\ ProcessEnds
  /\ UNCHANGED <<whole, visible, durable, dropped>>

\* The power is cut: each entry changed since the last fsync is there or not.
PowerCut(left) ==
  /\ visible \cap durable \subseteq left /\ left \subseteq visible \cup durable
  /\ ProcessEnds
  /\ visible' = left /\ durable' = left /\ whole' = whole \cap left
  /\ dropped' = {}

\* The generation counter starts past the allocator's record, the rows and the
\* names in the directory.
BugSeedGen == Max2(seq.nextGen, MaxOr0(Live) + 1)
SeedGen == Max2(Max2(seq.nextGen, MaxOr0(Live) + 1), MaxOr0(visible) + 1)

\* The allocators start past everything the index and the directory know of;
\* the rollup is derived again where the replay processed a retired frame.
OpenDone ==
  /\ mode = "opening" /\ maint \in {"free", "cleared"}
  /\ mode' = "up"
  /\ alloc' = [nextId |-> Max2(seq.nextId, IF rows = {} THEN 0 ELSE Newest(rows).id + 1),
               epoch |-> seq.epoch]
  /\ genNext' = SeedGen
  /\ rollup' \in {rollup, IF maint = "cleared" THEN Live ELSE rollup}
  /\ Release
  /\ UNCHANGED <<rows, journal, seq, changes, disk, poison, late, seals, fetched, history>>

SealStep ==
  \E b \in Batches : SealWrite(b) \/ SealDrop(b) \/ SealSync(b) \/ SealCommit(b)

PlanStep ==
  /\ Writable /\ maint = "free"
  /\ \/ \E r \in rows : PlanReconcile(r) \/ \E t \in Times : PlanSplit(r, t)
     \/ \E S \in SUBSET rows : PlanOverlap(S) \/ PlanSquash(S)

SwapStep ==
  \/ MaintJournal
  \/ \E k \in DOMAIN gens : MaintWrite(k)
  \/ MaintSync
  \/ \E removed \in SUBSET Gens : MaintDiscard(removed)
  \/ MaintDrop
  \/ SwapCommit

SweepStep ==
  \/ \E done \in SUBSET Gens : Sweep(done)
  \/ SweepNothing
  \/ SweepSync
  \/ SweepClear

Next ==
  \/ SealStep
  \/ \E g \in late : LateWrite(g)
  \/ PlanStep
  \/ SwapStep
  \/ SweepStep
  \/ ConsumerFetch
  \/ ConsumerAck
  \/ ConsumerStop
  \/ restarts < MaxRestarts /\ (Kill \/ \E left \in SUBSET Gens : PowerCut(left))
  \/ OpenDone

Spec == Init /\ [][Next]_vars
-----------------------------------------------------------------------------

\* What a timestamp's newest row says, of those whose frame can be opened: the
\* abstract store.
Readable == {r \in rows : r.gen \in visible \cap whole}
ValueAt(S, t) == IF S = {} THEN Missing ELSE Held(Newest(S))[t]
NewestAt(t) == ValueAt(Holding(Readable, t), t)

Store == INSTANCE VersionedStore WITH store <- [t \in Times |-> NewestAt(t)]

\* However seals, maintenance, dropped operations, ambiguous COMMITs, power
\* cuts and replays interleave, each timestamp reads as the batches that
\* landed, in the order they landed, and nothing that was acknowledged goes
\* (SwapPlan, "outputs under member ids outrank exactly what their members
\* did").
Refinement == Store!StoreSpec

\* Every row's frame is whole, and no power cut can take its directory entry:
\* frames and segments/ are fsynced before the commit that names them, and
\* after a failed fsync no later one is trusted (write_seal_frame, M4).
RowsDurable == Live \subseteq visible \cap durable \cap whole

\* The rollup the index carries summarises exactly the rows there are, and at
\* no point a mixture of two commits (publish_seal, post_swap_rollup).
RollupExact == rollup = Live

\* The tables, the disk and the plan keep their types, and after every seal and
\* swap the rollup is exact.
RollupSound == TypeOK /\ RollupExact

\* A frame that was unlinked and may be back after a power cut is still
\* journaled, so that the replay removes it again (discard_outputs, reap_held);
\* what the kernel dropped at a failed fsync apart.
NoResurrection == (durable \ visible) \cap whole \subseteq Journal \cup dropped

\* The allocators are past everything that exists, whatever was lost: no name
\* is created twice and no id is given to a second segment (seed_gen,
\* seed_allocator).
AllocatorsAhead ==
  mode = "up" =>
    /\ \A g \in visible \cup Journal \cup Live \cup late \cup Outputs : g < genNext
    /\ \A r \in rows : r.id < alloc.nextId

\* The change log and its consumer between them lose no batch: one that
\* landed is still in the log or was batched (record_change, ack_changes).
ChangesComplete == landed \subseteq {c.batch : c \in changes} \cup batched
=============================================================================

------------------------------ MODULE Recovery ------------------------------
(***************************************************************************)
(* Startup recovery, fsck on demand and the quarantine (segment_store.rs,   *)
(* quarantine.rs), beside seals and the swaps of the reconcile daemon.      *)
(*                                                                          *)
(* One aspect; a frame is its name.  The server admits one maintenance      *)
(* request at a time, so fsck, a release and a purge exclude one another    *)
(* (`op`); seals and the daemon's swaps do not wait for them.  A request    *)
(* is awaited by its handler: it is dropped when its client leaves.         *)
(***************************************************************************)
EXTENDS Integers, FiniteSets

CONSTANTS
  Frames,   \* frame names
  Tagged,   \* those whose frame carries a series key
  NoFrame,  \* no frame
  MaxId,    \* bounds the segment ids handed out
  Torn,     \* whether a pass may see a frame that is still being written
  CutOff,   \* the operations that may stop between two of their steps
  Budget    \* how often each outside event may happen

\* There are ids for the rows that a root comes with.
FramesAssumption ==
  /\ MaxId \in Nat /\ IsFiniteSet(Frames) /\ Cardinality(Frames) <= MaxId
  /\ NoFrame \notin Frames

VARIABLES
  serving,  \* whether the open has finished
  loc,      \* where each frame's file is
  bytes,    \* what its bytes are
  rows,     \* segment_index
  records,  \* segment_quarantine
  journal,  \* frame_journal
  declared, \* whether the aspect has a schema
  intent,   \* whether the root carries the restore intent marker
  nextId,   \* the id allocator
  writer,   \* per frame: whether, and for which swapped row, it is written
  op,       \* the maintenance operation in progress
  fate,     \* history: what became of a frame that had a row
  found,    \* history: the frames without a row that a restore brought and can place
  left      \* outside events still to come

disk == <<loc, bytes>>
index == <<rows, records, journal>>
vars == <<serving, disk, index, declared, intent, nextId, writer, op, fate, found, left>>

Row == [frame : Frames, id : 1 .. MaxId]
\* Id 0 is that of litter, which had no row; `old` says that the TTL passed.
Record == [frame : Frames, id : 0 .. MaxId, class : {"corrupt", "suspect"}, old : BOOLEAN]

Idle == [at |-> "idle", by |-> "none", todo |-> {}, known |-> {}, cur |-> NoFrame]
NoRow == [frame |-> NoFrame, id |-> 0]
NoWriter == [at |-> "none", for |-> NoRow]

RowFrames == {r.frame : r \in rows}
Journaled == {j.frame : j \in journal}
InState(s) == {j.frame : j \in {k \in journal : k.state = s}}
Held == InState("held")
Cleared(f) == {j \in journal : j.frame # f}
NoSwap == \A f \in Frames : writer[f].for = NoRow

TypeOK ==
  /\ serving \in BOOLEAN /\ declared \in BOOLEAN /\ intent \in BOOLEAN
  /\ loc \in [Frames -> {"none", "segments", "quarantine"}]
  /\ bytes \in [Frames -> {"none", "torn", "good", "newer", "damaged"}]
  /\ rows \subseteq Row /\ records \subseteq Record
  /\ \A r, s \in rows : r.id = s.id => r = s
  /\ journal \subseteq [frame : Frames, state : {"pending", "retired", "held"}]
  /\ nextId \in 1 .. MaxId + 1
  /\ writer \in [Frames -> [at : {"none", "writing", "written"}, for : Row \cup {NoRow}]]
  /\ op.at \in {"idle", "replay", "journal", "list", "rows", "bad", "move", "held",
                "orphans", "expired", "unlinked", "release", "released"}
  /\ op.by \in {"none", "open", "restore", "fsck", "ttl", "purge", "release"}
  /\ fate \in [Frames -> {"none", "live", "swapped", "purged", "expired"}]

-----------------------------------------------------------------------------
(* Seals and swaps. *)

\* A seal creates its file under a name never used before.
SealBegin(f) ==
  /\ serving /\ declared /\ bytes[f] = "none" /\ nextId <= MaxId
  /\ bytes' = [bytes EXCEPT ![f] = "torn"]
  /\ loc' = [loc EXCEPT ![f] = "segments"]
  /\ writer' = [writer EXCEPT ![f] = [at |-> "writing", for |-> NoRow]]
  /\ UNCHANGED <<serving, index, declared, intent, nextId, op, fate, found, left>>

\* A swap, which needs the maintenance lock, journals its output first.
SwapBegin(f, r) ==
  /\ serving /\ bytes[f] = "none" /\ NoSwap
  /\ loc[r.frame] = "segments" /\ bytes[r.frame] = "good"
  /\ journal' = journal \cup {[frame |-> f, state |-> "pending"]}
  /\ bytes' = [bytes EXCEPT ![f] = "torn"]
  /\ loc' = [loc EXCEPT ![f] = "segments"]
  /\ writer' = [writer EXCEPT ![f] = [at |-> "writing", for |-> r]]
  /\ UNCHANGED <<serving, rows, records, declared, intent, nextId, op, fate, found, left>>

\* The write ends.  It goes through the handle that created the file, so it
\* reaches the frame wherever its name has gone.
WriteFrame(f) ==
  /\ writer[f].at = "writing"
  /\ bytes' = [bytes EXCEPT ![f] = "good"]
  /\ writer' = [writer EXCEPT ![f].at = "written"]
  /\ UNCHANGED <<serving, loc, index, declared, intent, nextId, op, fate, found, left>>

SealCommit(f) ==
  /\ writer[f] = [at |-> "written", for |-> NoRow]
  /\ nextId <= MaxId
  /\ rows' = rows \cup {[frame |-> f, id |-> nextId]}
  /\ nextId' = nextId + 1
  /\ fate' = [fate EXCEPT ![f] = "live"]
  /\ writer' = [writer EXCEPT ![f] = NoWriter]
  /\ UNCHANGED <<serving, disk, records, journal, declared, intent, op, found, left>>

\* ReplaceExpected: the row keeps its id, or the swap conflicts.
SwapCommit(f) ==
  LET r == writer[f].for IN
  /\ writer[f].at = "written" /\ r # NoRow
  /\ \/ /\ r \in rows
        /\ rows' = (rows \ {r}) \cup {[frame |-> f, id |-> r.id]}
        /\ journal' = Cleared(f) \cup {[frame |-> r.frame, state |-> "retired"]}
        /\ fate' = [fate EXCEPT ![f] = "live", ![r.frame] = "swapped"]
     \/ /\ r \notin rows
        /\ UNCHANGED <<rows, journal, fate>>
  /\ writer' = [writer EXCEPT ![f] = NoWriter]
  /\ UNCHANGED <<serving, disk, records, declared, intent, nextId, op, found, left>>

\* Reaper::sweep leaves held frames alone, and of a frame that a row names it
\* takes the journal row only.
Sweepable == InState("pending") \cup InState("retired")

Reap(f) ==
  /\ serving /\ writer[f] = NoWriter /\ f \in Sweepable
  /\ loc' = IF f \in RowFrames \/ loc[f] # "segments" THEN loc ELSE [loc EXCEPT ![f] = "none"]
  /\ journal' = Cleared(f)
  /\ UNCHANGED <<serving, bytes, rows, records, declared, intent, nextId, writer, op, fate, found, left>>

-----------------------------------------------------------------------------
(* The open's replay of the journal, then its recovery pass; or an fsck. *)

BugReplay ==
  /\ op.at = "replay"
  /\ intent' = FALSE
  /\ op' = [Idle EXCEPT !.at = "journal", !.by = IF intent THEN "restore" ELSE "open"]
  /\ UNCHANGED <<serving, disk, index, declared, nextId, writer, fate, found, left>>

Replay ==
  /\ op.at = "replay"
  /\ loc' = [f \in Frames |->
               IF f \in Sweepable \ RowFrames /\ loc[f] = "segments" THEN "none" ELSE loc[f]]
  /\ journal' = {j \in journal : j.frame \notin Sweepable}
  /\ op' = [Idle EXCEPT !.at = "journal", !.by = IF intent THEN "restore" ELSE "open"]
  /\ UNCHANGED <<serving, bytes, rows, records, declared, intent, nextId, writer, fate, found, left>>

FsckBegin ==
  /\ serving /\ op = Idle
  /\ op' = [Idle EXCEPT !.at = "journal", !.by = "fsck"]
  /\ UNCHANGED <<serving, disk, index, declared, intent, nextId, writer, fate, found, left>>

\* The names the journal claims, then, apart, the rows.
ReadJournal ==
  /\ op.at = "journal"
  /\ op' = [op EXCEPT !.at = "list", !.known = Journaled]
  /\ UNCHANGED <<serving, disk, index, declared, intent, nextId, writer, fate, found, left>>

ListRows ==
  /\ op.at = "list"
  /\ op' = [op EXCEPT !.at = "rows", !.todo = rows]
  /\ UNCHANGED <<serving, disk, index, declared, intent, nextId, writer, fate, found, left>>

\* What a pass will quarantine: `back` is the loop it returns to.
Bad(f, id, class, back) == [frame |-> f, id |-> id, class |-> class, back |-> back]

\* Damage is corrupt; what another build can read is suspect.
ClassOf(f) == IF bytes[f] = "newer" THEN "suspect" ELSE "corrupt"

CheckRow(r) ==
  LET f == r.frame
      seen == [op EXCEPT !.todo = @ \ {r}, !.known = @ \cup {f}]
      bad(class) == [seen EXCEPT !.at = "bad", !.cur = Bad(f, r.id, class, "rows")]
  IN
  /\ op.at = "rows" /\ r \in op.todo
  /\ op' = CASE loc[f] # "segments" -> bad("corrupt")
             [] loc[f] = "segments" /\ bytes[f] = "good" -> seen
             [] OTHER -> bad(ClassOf(f))
  /\ UNCHANGED <<serving, disk, index, declared, intent, nextId, writer, fate, found, left>>

BugWithRecord(c) ==
  IF loc[c.frame] # "segments" THEN records
  ELSE records \cup {[frame |-> c.frame, id |-> c.id, class |-> c.class, old |-> FALSE]}

\* QuarantineInsert replaces the record of the same key.
WithRecord(c) ==
  {r \in records : ~(r.frame = c.frame /\ r.id = c.id)}
    \cup {[frame |-> c.frame, id |-> c.id, class |-> c.class, old |-> FALSE]}

\* The row is deleted by its id, whatever it names by now.
BugQuarantineById ==
  LET c == op.cur IN
  /\ op.at = "bad"
  /\ records' = WithRecord(c)
  /\ rows' = {r \in rows : r.id # c.id}
  /\ journal' = IF c.back = "held" THEN Cleared(c.frame) ELSE journal
  /\ op' = [op EXCEPT !.at = "move"]
  /\ UNCHANGED <<serving, disk, declared, intent, nextId, writer, fate, found, left>>

\* One transaction: the record, and the delete of the row the pass read, which
\* conflicts when the row is not that one any more; of litter, the record and,
\* when the frame was held, its journal row.
Quarantine ==
  LET c == op.cur
      r == [frame |-> c.frame, id |-> c.id]
  IN
  /\ op.at = "bad"
  /\ \/ /\ c.id > 0 /\ r \notin rows
        /\ op' = Idle
        /\ UNCHANGED index
     \/ /\ c.id > 0 /\ r \in rows
        /\ records' = WithRecord(c)
        /\ rows' = rows \ {r}
        /\ UNCHANGED journal
        /\ op' = [op EXCEPT !.at = "move"]
     \/ /\ c.id = 0
        /\ records' = WithRecord(c)
        /\ journal' = IF c.back = "held" THEN Cleared(c.frame) ELSE journal
        /\ UNCHANGED rows
        /\ op' = [op EXCEPT !.at = "move"]
  /\ UNCHANGED <<serving, disk, declared, intent, nextId, writer, fate, found, left>>

\* The file of a row is moved if it is there; the move of litter fails if it
\* is not, and ends the pass.
MoveAside ==
  LET f == op.cur.frame IN
  /\ op.at = "move"
  /\ loc' = IF loc[f] = "segments" THEN [loc EXCEPT ![f] = "quarantine"] ELSE loc
  /\ op' = IF op.cur.id = 0 /\ loc[f] # "segments"
           THEN Idle ELSE [op EXCEPT !.at = op.cur.back, !.cur = NoFrame]
  /\ UNCHANGED <<serving, bytes, index, declared, intent, nextId, writer, fate, found, left>>

BugAdopt(f) ==
  /\ nextId <= MaxId
  /\ rows' = rows \cup {[frame |-> f, id |-> nextId]}
  /\ UNCHANGED nextId
  /\ journal' = Cleared(f)
  /\ fate' = [fate EXCEPT ![f] = "live"]

\* adopt_orphan: a row under the next id and the end of the hold, at once.
Adopt(f) ==
  /\ nextId <= MaxId
  /\ rows' = rows \cup {[frame |-> f, id |-> nextId]}
  /\ nextId' = nextId + 1
  /\ journal' = Cleared(f)
  /\ fate' = [fate EXCEPT ![f] = "live"]

ListHeld ==
  /\ op.at = "rows" /\ op.todo = {}
  /\ op' = [op EXCEPT !.at = "held", !.todo = Held]
  /\ UNCHANGED <<serving, disk, index, declared, intent, nextId, writer, fate, found, left>>

CheckHeld(f) ==
  LET seen == [op EXCEPT !.todo = @ \ {f}] IN
  /\ op.at = "held" /\ f \in op.todo
  /\ \/ /\ loc[f] # "segments"
        /\ journal' = Cleared(f)
        /\ op' = seen
        /\ UNCHANGED <<rows, nextId, fate>>
     \/ /\ loc[f] = "segments" /\ bytes[f] = "good" /\ declared
        /\ Adopt(f)
        /\ op' = seen
     \/ /\ loc[f] = "segments" /\ bytes[f] = "good" /\ ~declared
        /\ op' = seen
        /\ UNCHANGED <<rows, journal, nextId, fate>>
     \/ /\ loc[f] = "segments" /\ bytes[f] # "good"
        /\ op' = [seen EXCEPT !.at = "bad", !.cur = Bad(f, 0, ClassOf(f), "held")]
        /\ UNCHANGED <<rows, journal, nextId, fate>>
  /\ UNCHANGED <<serving, disk, records, declared, intent, writer, found, left>>

NotSeenTorn == Torn \/ \A f \in Frames : writer[f].at # "writing"

BugUnclaimed == {f \in Frames : loc[f] = "segments"} \ Journaled

\* The files of segments/ that neither the rows nor the journal claimed.
Unclaimed == {f \in Frames : loc[f] = "segments"} \ op.known

ListOrphans ==
  /\ op.at = "held" /\ op.todo = {} /\ NotSeenTorn
  /\ op' = [op EXCEPT !.at = "orphans", !.todo = Unclaimed]
  /\ UNCHANGED <<serving, disk, index, declared, intent, nextId, writer, fate, found, left>>

\* Only a restore adopts, or holds, what it finds.
CheckOrphan(f) ==
  LET seen == [op EXCEPT !.todo = @ \ {f}]
      here == loc[f] = "segments"
      adopts == here /\ bytes[f] = "good" /\ op.by = "restore"
  IN
  /\ op.at = "orphans" /\ f \in op.todo /\ NotSeenTorn
  /\ \/ /\ adopts /\ declared
        /\ Adopt(f)
        /\ op' = seen
     \/ /\ adopts /\ ~declared /\ f \in Tagged
        /\ journal' = journal \cup {[frame |-> f, state |-> "held"]}
        /\ op' = seen
        /\ UNCHANGED <<rows, nextId, fate>>
     \/ /\ here /\ bytes[f] # "good"
        /\ op' = [seen EXCEPT !.at = "bad", !.cur = Bad(f, 0, ClassOf(f), "orphans")]
        /\ UNCHANGED <<rows, journal, nextId, fate>>
     \/ /\ ~here \/ (bytes[f] = "good" /\ (op.by # "restore" \/ (~declared /\ f \notin Tagged)))
        /\ op' = seen
        /\ UNCHANGED <<rows, journal, nextId, fate>>
  /\ UNCHANGED <<serving, disk, records, declared, intent, writer, found, left>>

BugExpired == {r \in records : r.old}
Expired == {r \in records : r.class = "corrupt" /\ r.old}

ListExpired ==
  /\ op.at = "orphans" /\ op.todo = {}
  /\ op' = [op EXCEPT !.at = "expired", !.todo = Expired]
  /\ UNCHANGED <<serving, disk, index, declared, intent, nextId, writer, fate, found, left>>

BugPurgeUnlink(r) ==
  /\ op.at = "expired" /\ r \in op.todo
  /\ records' = records \ {r}
  /\ op' = [op EXCEPT !.todo = @ \ {r}]
  /\ UNCHANGED <<serving, disk, rows, journal, declared, intent, nextId, writer, fate, found, left>>

\* purge_record: the file, then the record.
PurgeUnlink(r) ==
  LET f == r.frame IN
  /\ op.at = "expired" /\ r \in op.todo
  /\ loc' = IF loc[f] = "quarantine" THEN [loc EXCEPT ![f] = "none"] ELSE loc
  /\ fate' = IF loc[f] = "quarantine"
             THEN [fate EXCEPT ![f] = IF op.by = "purge" THEN "purged" ELSE "expired"] ELSE fate
  /\ op' = [op EXCEPT !.at = "unlinked", !.todo = @ \ {r}, !.cur = r]
  /\ UNCHANGED <<serving, bytes, index, declared, intent, nextId, writer, found, left>>

PurgeForget ==
  /\ op.at = "unlinked"
  /\ records' = {r \in records : ~(r.frame = op.cur.frame /\ r.id = op.cur.id)}
  /\ op' = [op EXCEPT !.at = "expired", !.cur = NoFrame]
  /\ UNCHANGED <<serving, disk, rows, journal, declared, intent, nextId, writer, fate, found, left>>

\* The pass ends; that of a restore takes the marker away.
PassEnd ==
  /\ op.at = "expired" /\ op.todo = {}
  /\ serving' = TRUE
  /\ intent' = (intent /\ op.by # "restore")
  /\ op' = Idle
  /\ UNCHANGED <<disk, index, declared, nextId, writer, fate, found, left>>

-----------------------------------------------------------------------------
(* The operator's requests. *)

ReleaseBegin(r) ==
  /\ serving /\ op = Idle /\ r \in records /\ r.id > 0
  /\ op' = [Idle EXCEPT !.at = "release", !.by = "release", !.cur = r]
  /\ UNCHANGED <<serving, disk, index, declared, intent, nextId, writer, fate, found, left>>

\* One transaction: the record goes and the row comes back, under its own id.
ReleaseCommit ==
  LET c == op.cur IN
  /\ op.at = "release"
  /\ \/ /\ \E r \in rows : r.id = c.id
        /\ op' = Idle
        /\ UNCHANGED <<rows, records>>
     \/ /\ ~\E r \in rows : r.id = c.id
        /\ rows' = rows \cup {[frame |-> c.frame, id |-> c.id]}
        /\ records' = {r \in records : ~(r.frame = c.frame /\ r.id = c.id)}
        /\ op' = [op EXCEPT !.at = "released"]
  /\ UNCHANGED <<serving, disk, journal, declared, intent, nextId, writer, fate, found, left>>

MoveBack ==
  LET f == op.cur.frame IN
  /\ op.at = "released"
  /\ loc' = IF loc[f] = "quarantine" THEN [loc EXCEPT ![f] = "segments"] ELSE loc
  /\ op' = Idle
  /\ UNCHANGED <<serving, bytes, index, declared, intent, nextId, writer, fate, found, left>>

PurgeBegin(r) ==
  /\ serving /\ op = Idle /\ r \in records
  /\ op' = [Idle EXCEPT !.at = "expired", !.by = "purge", !.todo = {r}]
  /\ UNCHANGED <<serving, disk, index, declared, intent, nextId, writer, fate, found, left>>

PurgeExpiredBegin ==
  /\ serving /\ op = Idle /\ Expired # {}
  /\ op' = [Idle EXCEPT !.at = "expired", !.by = "ttl", !.todo = Expired]
  /\ UNCHANGED <<serving, disk, index, declared, intent, nextId, writer, fate, found, left>>

-----------------------------------------------------------------------------
(* From outside. *)

Happens(e) == left[e] > 0 /\ left' = [left EXCEPT ![e] = @ - 1]

\* The client of the request goes away.
Drop ==
  /\ serving /\ op # Idle /\ op.by \in CutOff /\ Happens("drop")
  /\ op' = Idle
  /\ UNCHANGED <<serving, disk, index, declared, intent, nextId, writer, fate, found>>

\* The process dies, and the root is opened again.
Crash ==
  /\ op = Idle \/ op.by \in CutOff
  /\ Happens("crash")
  /\ serving' = FALSE
  /\ op' = [Idle EXCEPT !.at = "replay", !.by = "open"]
  /\ writer' = [f \in Frames |-> NoWriter]
  /\ UNCHANGED <<disk, index, declared, intent, nextId, fate, found>>

Damage(f) ==
  /\ bytes[f] = "good" /\ loc[f] = "segments" /\ writer[f] = NoWriter /\ Happens("damage")
  /\ bytes' = [bytes EXCEPT ![f] = "damaged"]
  /\ UNCHANGED <<serving, loc, index, declared, intent, nextId, writer, op, fate, found>>

Age ==
  /\ \E r \in records : ~r.old
  /\ Happens("age")
  /\ records' = {[r EXCEPT !.old = TRUE] : r \in records}
  /\ UNCHANGED <<serving, disk, rows, journal, declared, intent, nextId, writer, op, fate, found>>

Declare ==
  /\ serving /\ ~declared /\ Happens("declare")
  /\ declared' = TRUE
  /\ UNCHANGED <<serving, disk, index, intent, nextId, writer, op, fate, found>>

-----------------------------------------------------------------------------
\* A root as an earlier process, another build or a restore left it: frames
\* with a row, which this build may not be able to read, and frames without.
Init ==
  \E have \in [Frames -> {"fresh", "row good", "row newer", "orphan good", "orphan newer"}] :
    LET is(S) == {f \in Frames : have[f] \in S}
        ids == CHOOSE i \in [Frames -> 1 .. Cardinality(Frames)] :
                 \A f, g \in Frames : f # g => i[f] # i[g]
    IN
    /\ loc = [f \in Frames |-> IF have[f] = "fresh" THEN "none" ELSE "segments"]
    /\ bytes = [f \in Frames |-> CASE have[f] = "fresh" -> "none"
                                   [] have[f] \in {"row good", "orphan good"} -> "good"
                                   [] OTHER -> "newer"]
    /\ rows = {[frame |-> f, id |-> ids[f]] : f \in is({"row good", "row newer"})}
    /\ fate = [f \in Frames |-> IF f \in RowFrames THEN "live" ELSE "none"]
    /\ intent \in BOOLEAN
    /\ declared \in (IF RowFrames = {} THEN BOOLEAN ELSE {TRUE})
    /\ found = {f \in is({"orphan good", "orphan newer"}) : intent /\ (declared \/ f \in Tagged)}
    /\ nextId = Cardinality(Frames) + 1
    /\ records = {} /\ journal = {}
    /\ writer = [f \in Frames |-> NoWriter]
    /\ serving = FALSE
    /\ op = [Idle EXCEPT !.at = "replay", !.by = "open"]
    /\ left = Budget

Pass ==
  \/ Replay \/ FsckBegin \/ ReadJournal \/ ListRows \/ ListHeld \/ ListOrphans
  \/ Quarantine \/ MoveAside \/ ListExpired \/ PurgeForget \/ PassEnd
  \/ \E r \in rows \cup op.todo : CheckRow(r)
  \/ \E f \in Frames : CheckHeld(f) \/ CheckOrphan(f)
  \/ \E r \in records \cup op.todo : PurgeUnlink(r)

Writers ==
  \E f \in Frames :
    \/ SealBegin(f) \/ WriteFrame(f) \/ SealCommit(f) \/ SwapCommit(f) \/ Reap(f)
    \/ \E r \in rows : SwapBegin(f, r)

Operator ==
  \/ \E r \in records : ReleaseBegin(r) \/ PurgeBegin(r)
  \/ PurgeExpiredBegin \/ ReleaseCommit \/ MoveBack

Outside == Drop \/ Crash \/ Age \/ Declare \/ \E f \in Frames : Damage(f)

Next == Pass \/ Writers \/ Operator \/ Outside

Spec == Init /\ [][Next]_vars

-----------------------------------------------------------------------------
(* What the pass and the quarantine promise. *)

\* fsck_inner: no pass gives a frame a second row, although a restore's pass
\* may be cut off and run again (open.rs: "adoption is idempotent").
OneRowPerFrame ==
  \A r, s \in rows : r.frame = s.frame => r = s

\* fsck beside seals and swaps: a frame that a commit published and nobody
\* damaged stays readable until a swap replaces it.
HealthyStaysReadable ==
  \A f \in Frames :
    fate[f] = "live" /\ bytes[f] = "good" => f \in RowFrames /\ loc[f] = "segments"

\* quarantine.rs: a suspect frame is "never purged automatically: only an
\* operator releases or purges it".
SuspectKept ==
  \A f \in Frames :
    bytes[f] = "newer" /\ fate[f] \notin {"purged", "swapped"} => loc[f] # "none"

\* What is in quarantine/ is on record, so an operator can find and purge it.
QuarantineListed ==
  \A f \in Frames :
    loc[f] = "quarantine" =>
      \/ \E r \in records : r.frame = f
      \/ op.at = "released" /\ op.cur.frame = f

\* open.rs: once the restore's marker is gone, every readable frame it brought
\* has been given a row or is held, although its pass may have been cut off.
RestoreBinds ==
  serving /\ ~intent /\ op = Idle =>
    \A f \in found :
      bytes[f] = "good" /\ loc[f] = "segments" /\ fate[f] = "none" => f \in Held

\* quarantine_indexed_row: a row leaves the index with its record, or for the
\* row of the swap that replaces it.
RowsLeaveRecorded ==
  [][\A r \in rows \ rows' :
       \/ \E q \in records' : q.frame = r.frame /\ q.id = r.id
       \/ \E s \in rows' : s.id = r.id]_vars
=============================================================================

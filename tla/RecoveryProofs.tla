--------------------------- MODULE RecoveryProofs ---------------------------
(***************************************************************************)
(* Theorems about Recovery, for any frames and over every cut of an         *)
(* operation, crash and damage.  What the pass promises unconditionally:    *)
(* one row for each frame, what a restore brought is bound, and rows leave  *)
(* on record.  That what is healthy stays readable, where no pass reads a   *)
(* frame that is being written; and that the quarantine is listed and a     *)
(* suspect frame kept, where no release is cut off.                         *)
(***************************************************************************)
EXTENDS Recovery, FiniteSetTheorems, TLAPS

-----------------------------------------------------------------------------
(* The operation in progress. *)

Loops == {"rows", "held", "orphans"}
Bads == [frame : Frames, id : 0 .. MaxId, class : {"corrupt", "suspect"}, back : Loops]

\* It is about to quarantine what one of its loops found bad.
Acting == op.at \in {"bad", "move"}
Loop == IF Acting THEN op.cur.back ELSE op.at

OpTyped ==
  /\ DOMAIN op = {"at", "by", "todo", "known", "cur"}
  /\ op.known \subseteq Frames
  /\ Acting => op.cur \in Bads /\ (op.cur.id = 0 <=> op.cur.back # "rows")
  /\ Loop = "rows" => op.todo \subseteq Row
  /\ Loop \in {"held", "orphans"} => op.todo \subseteq Frames
  /\ op.at \in {"expired", "unlinked"} => op.todo \subseteq Record
  /\ op.at \in {"release", "released", "unlinked"} => op.cur \in Record
  /\ op.at \in {"release", "released"} => op.by = "release" /\ op.cur.id > 0
  /\ op.by \in {"open", "restore"} => ~serving
  /\ op.at = "replay" => op.by = "open"
  /\ op.at = "idle" => op = Idle

Typed == TypeOK /\ OpTyped

-----------------------------------------------------------------------------
(* The invariant. *)

Fresh(f) == bytes[f] = "none"
Writing(f) == writer[f].at # "none"
\* Records of frames that had a row.
Kept == {q \in records : q.id > 0}

\* A frame being written has neither row, hold nor record yet; the row its swap
\* replaces is not one another build wrote.
WritersOK ==
  \A f \in Frames :
    /\ Fresh(f) => loc[f] = "none" /\ fate[f] = "none"
    /\ writer[f].at = "none" <=> writer[f] = NoWriter
    /\ Writing(f) =>
         /\ serving /\ fate[f] # "live"
         /\ bytes[f] = IF writer[f].at = "writing" THEN "torn" ELSE "good"
         /\ f \notin RowFrames /\ f \notin Held /\ \A q \in Kept : q.frame # f
    /\ writer[f].for # NoRow =>
         bytes[writer[f].for.frame] \notin {"none", "newer"} /\ writer[f].for.frame # f

\* A row's frame is its own, and not held.
RowsOK ==
  \A r \in rows :
    /\ r.id < nextId /\ ~Fresh(r.frame) /\ fate[r.frame] # "none"
    /\ r.frame \notin Held
    /\ \A s \in rows : r.frame = s.frame => r = s

\* So is a record's, and no row has its frame or its id: a release may bring
\* the row back.
RecordsOK ==
  \A q \in Kept :
    /\ q.id < nextId /\ ~Fresh(q.frame) /\ fate[q.frame] # "none"
    /\ q.frame \notin Held
    /\ bytes[q.frame] = "good" => loc[q.frame] # "segments"
    /\ \A r \in rows : q.frame # r.frame /\ q.id # r.id
    /\ \A p \in Kept : p.frame = q.frame <=> p.id = q.id

\* The reaper takes nothing that is held or that another build wrote.
JournalOK ==
  \A f \in Frames :
    /\ f \in Journaled => ~Fresh(f)
    /\ f \in Sweepable => bytes[f] # "newer" /\ f \notin Held

\* The frames with a row that a pass must not take for orphans: in a restore
\* all of them, since it adopts, and else those it would call suspect.
Watched == {f \in RowFrames : op.by = "restore" \/ bytes[f] = "newer"}
TodoFrames == {r.frame : r \in op.todo}

\* A pass has seen the watched frames before it looks for orphans.
PassOK ==
  /\ Loop = "rows" =>
       /\ \A r \in op.todo : /\ ~Fresh(r.frame) /\ fate[r.frame] # "none" /\ ~Writing(r.frame)
                             /\ \A s \in op.todo : r.frame = s.frame => r = s
       /\ Watched \subseteq op.known \cup TodoFrames
  /\ Loop = "held" => op.todo \subseteq Held /\ Watched \subseteq op.known
  /\ Loop = "orphans" => op.todo \cap Watched = {} /\ \A f \in op.todo : ~Fresh(f)
  /\ op.by = "restore" =>
       /\ Sweepable = {}
       /\ Loop \in {"list", "rows", "held"} => Held \subseteq op.known

\* What the next step takes for granted of the frame or the record it is at.
CurOK ==
  /\ Acting =>
       LET f == op.cur.frame IN
       /\ ~Fresh(f)
       /\ Loop = "rows" =>
            /\ ~Writing(f) /\ f \notin TodoFrames /\ fate[f] # "none"
            /\ bytes[f] = "good" => loc[f] # "segments"
       /\ Loop = "held" => bytes[f] # "good" /\ ~Writing(f) /\ f \notin op.todo
       /\ Loop = "orphans" /\ op.by = "restore" => bytes[f] # "good"
       /\ op.at = "move" \/ Loop # "rows" => f \notin Watched
       /\ op.at = "move" => \E q \in records : q.frame = f
  /\ op.at = "release" => \E q \in records : q.frame = op.cur.frame /\ q.id = op.cur.id
  /\ op.at = "released" =>
       fate[op.cur.frame] # "none" /\ \A q \in Kept : q.frame # op.cur.frame
  /\ op.at = "unlinked" => loc[op.cur.frame] # "quarantine"

\* A good frame in segments/ that never had a row is held.
Bound(f) == bytes[f] = "good" /\ loc[f] = "segments" /\ fate[f] = "none" => f \in Held

\* What a restore found is bound when its marker is gone; its pass has bound
\* what it listed as held, and comes to the others in its last loop.
FoundOK ==
  /\ found \subseteq Frames
  /\ \A f \in found :
    /\ declared \/ f \in Tagged
    /\ bytes[f] \notin {"none", "torn"} /\ ~Writing(f)
    /\ ~intent => Bound(f)
    /\ op.by = "restore" =>
         /\ Loop \in {"list", "rows", "held"} /\ f \in op.known => Bound(f)
         /\ Loop = "orphans" => Bound(f) \/ f \in op.todo
         /\ op.at \in {"expired", "unlinked"} => Bound(f)

BaseInv == Typed /\ WritersOK /\ RowsOK /\ RecordsOK /\ JournalOK /\ PassOK /\ CurOK /\ FoundOK

\* Where no pass reads a frame that is being written: good frames with a row
\* are in their place, and nothing good is on record or about to be.
SoundFrames ==
  /\ \A r \in rows : bytes[r.frame] = "good" => loc[r.frame] = "segments"
  /\ \A q \in Kept : bytes[q.frame] # "good"
  /\ \A f \in Frames :
       /\ Writing(f) => loc[f] = "segments" /\ fate[f] = "none"
       /\ fate[f] = "live" /\ bytes[f] = "good" => f \in RowFrames

SoundCur ==
  LET f == op.cur.frame IN
  /\ op.at = "bad" /\ [frame |-> f, id |-> op.cur.id] \in rows => bytes[f] # "good"
  /\ op.at = "move" \/ (op.at = "bad" /\ op.cur.id = 0) => bytes[f] # "good" /\ ~Writing(f)
  /\ op.at = "released" => bytes[f] # "good"

SoundOK == SoundFrames /\ SoundCur

\* Where no release is cut off: a frame of another build that is gone was
\* purged by the operator; it is not in quarantine/ under a row, nor on record
\* or in hand as corrupt, which the TTL would take for litter.
Gone(f) == loc[f] = "none"

SparedFrames ==
  \A f \in Frames :
    bytes[f] = "newer" =>
      /\ Gone(f) => fate[f] = "purged"
      /\ f \in RowFrames /\ loc[f] = "quarantine" => op.at = "released" /\ op.cur.frame = f
      /\ \A q \in records : q.frame = f /\ q.class = "corrupt" => Gone(f)

SparedByPass ==
  \A f \in Frames :
    bytes[f] = "newer" =>
      /\ op.at = "bad" /\ op.cur.frame = f /\ op.cur.class = "corrupt" => Gone(f)
      /\ Loop = "rows" => \A r \in op.todo : r.frame = f => loc[f] # "quarantine"
      /\ op.at \in {"expired", "unlinked"} /\ op.by # "purge" => \A q \in op.todo : q.frame = f => Gone(f)

ListedFrames == QuarantineListed /\ SparedFrames
ReleaseUncut == ListedFrames /\ SparedByPass

-----------------------------------------------------------------------------
(* The operators of the model. *)

\* A record is made of a frame, its id and its class.
LEMMA WithRecordTyped ==
  ASSUME records \subseteq Record, NEW c, c.frame \in Frames, c.id \in 0 .. MaxId,
         c.class \in {"corrupt", "suspect"}
  PROVE  WithRecord(c) \subseteq Record
<1>1. [frame |-> c.frame, id |-> c.id, class |-> c.class, old |-> FALSE] \in Record
  BY DEF Record
<1> QED
  BY <1>1 DEF WithRecord

\* adopt_orphan hands out an id no row has.
LEMMA AdoptTypes ==
  ASSUME MaxId \in Nat, TypeOK, RowsOK, NEW f \in Frames, Adopt(f)
  PROVE  /\ rows' \subseteq Row /\ nextId' \in 1 .. MaxId + 1
         /\ \A r, s \in rows' : r.id = s.id => r = s
         /\ journal' \subseteq [frame : Frames, state : {"pending", "retired", "held"}]
         /\ fate' \in [Frames -> {"none", "live", "swapped", "purged", "expired"}]
<1>1. rows' \subseteq Row /\ nextId' \in 1 .. MaxId + 1 /\ \A r, s \in rows' : r.id = s.id => r = s
  BY DEF Adopt, TypeOK, RowsOK, Row
<1> QED
  BY <1>1 DEF Adopt, TypeOK, Cleared

\* A good frame in its place that no seal, row or record has.
Placed(f) ==
  /\ f \notin RowFrames /\ ~Writing(f) /\ ~Fresh(f)
  /\ loc[f] = "segments" /\ bytes[f] = "good"
  /\ \A q \in Kept : q.frame # f

\* What the check of a held frame, or of an orphan, does outside `op`: it gives
\* a row to a placed frame, or holds one, or at most ends a hold.
LEMMA Checked ==
  ASSUME BaseInv, NEW f \in Frames, CheckHeld(f) \/ CheckOrphan(f)
  PROVE  /\ UNCHANGED <<serving, loc, bytes, records, declared, intent, writer, found, left>>
         /\ \/ Adopt(f) /\ Placed(f)
            \/ UNCHANGED <<rows, nextId, fate>> /\ journal' \in {journal, Cleared(f)}
            \/ /\ UNCHANGED <<rows, nextId, fate>>
               /\ journal' = journal \cup {[frame |-> f, state |-> "held"]}
               /\ Placed(f) /\ f \notin Sweepable
<1>1. ASSUME op.by = "restore" PROVE ~Writing(f)
  BY <1>1 DEF BaseInv, Typed, OpTyped, WritersOK
<1>2. ASSUME loc[f] = "segments", bytes[f] = "good" PROVE \A q \in Kept : q.frame # f
  BY <1>2 DEF BaseInv, RecordsOK
<1>3. CASE CheckHeld(f)
  <2>1. f \in Held
    BY <1>3 DEF CheckHeld, BaseInv, PassOK, Loop, Acting
  <2>2. f \notin RowFrames
    BY <2>1 DEF BaseInv, RowsOK, RowFrames
  <2>3. ~Writing(f)
    BY <2>1 DEF BaseInv, WritersOK
  <2> QED BY <1>2, <1>3, <2>2, <2>3 DEF CheckHeld, Placed, Fresh, disk
<1>4. CASE CheckOrphan(f)
  <2>1. op.by = "restore" => f \notin RowFrames
    BY <1>4 DEF CheckOrphan, BaseInv, PassOK, Loop, Acting, Watched
  <2>2. op.by = "restore" => f \notin Sweepable
    BY DEF BaseInv, PassOK
  <2> QED BY <1>1, <1>2, <1>4, <2>1, <2>2 DEF CheckOrphan, Placed, Fresh, disk
<1> QED BY <1>3, <1>4

\* Time makes records old and changes nothing else of them.
LEMMA Aged ==
  ASSUME Typed, Age
  PROVE  /\ \A q \in records' : \E p \in records : p.frame = q.frame /\ p.id = q.id /\ p.class = q.class
         /\ \A p \in records : \E q \in records' : p.frame = q.frame /\ p.id = q.id
         /\ UNCHANGED <<serving, disk, rows, journal, declared, intent, nextId, writer, op, fate, found>>
<1>1. \A p \in records : LET q == [p EXCEPT !.old = TRUE]
                         IN p.frame = q.frame /\ p.id = q.id /\ p.class = q.class
  BY DEF Typed, TypeOK, Record
<1>2. records' = {[r EXCEPT !.old = TRUE] : r \in records}
  BY DEF Age
<1> QED BY <1>1, <1>2 DEF Age

-----------------------------------------------------------------------------
(* What happens beside the operation in progress leaves what it relies on. *)

Beside == Writers \/ Age \/ Declare \/ \E f \in Frames : Damage(f)

Steady ==
  /\ UNCHANGED <<op, found, intent>> /\ (declared => declared')
  /\ \A f \in Frames :
       /\ fate[f] # "none" => fate'[f] # "none"
       /\ ~Fresh(f) => ~Fresh(f)' /\ loc'[f] \in {loc[f], "none"}
       /\ loc'[f] = "quarantine" => loc[f] = "quarantine"
       /\ ~Fresh(f) /\ ~Writing(f) =>
            /\ ~Writing(f)'
            /\ bytes'[f] = bytes[f] \/ (bytes[f] = "good" /\ bytes'[f] = "damaged")
  /\ Held' = Held
  /\ op.by = "restore" => UNCHANGED <<journal, rows>>
  /\ Watched' \subseteq Watched
  /\ \A q \in records : \E p \in records' : p.frame = q.frame /\ p.id = q.id
  /\ \A p \in records' : \E q \in records : p.frame = q.frame /\ p.id = q.id

\* Seals, swaps, the reaper, time and damage touch no frame a pass has in hand
\* but to unlink or damage it.
LEMMA BesideIsSteady ==
  ASSUME BaseInv, Beside
  PROVE  Steady
<1> USE DEF BaseInv, Typed, TypeOK, disk, index, Fresh, Writing, NoWriter
<1>1. Watched = {f \in RowFrames : op.by = "restore" \/ bytes[f] = "newer"}
      /\ Watched' = {f \in RowFrames' : op'.by = "restore" \/ bytes'[f] = "newer"}
  BY DEF Watched
<1>2. serving => op.by # "restore"
  BY DEF OpTyped
<1>3. ASSUME NEW f \in Frames, SealBegin(f) PROVE Steady
  BY <1>1, <1>2, <1>3 DEF SealBegin, Steady, WritersOK, RowsOK, RowFrames, Held, InState
<1>4. ASSUME NEW f \in Frames, NEW r \in rows, SwapBegin(f, r) PROVE Steady
  BY <1>1, <1>2, <1>4 DEF SwapBegin, Steady, WritersOK, RowsOK, RowFrames, Held, InState
<1>5. ASSUME NEW f \in Frames, WriteFrame(f) PROVE Steady
  BY <1>1, <1>2, <1>5 DEF WriteFrame, Steady, WritersOK, RowFrames, Held, InState
<1>6. ASSUME NEW f \in Frames, SealCommit(f) PROVE Steady
  BY <1>1, <1>2, <1>6 DEF SealCommit, Steady, WritersOK, RowFrames, Held, InState
<1>7. ASSUME NEW f \in Frames, SwapCommit(f) PROVE Steady
  <2> DEFINE r == writer[f].for
  <2>1. /\ UNCHANGED <<op, found, intent, declared, loc, bytes, records>> /\ serving
        /\ writer' = [writer EXCEPT ![f] = NoWriter] /\ bytes[f] = "good"
    BY <1>7 DEF SwapCommit, WritersOK
  <2>2. CASE UNCHANGED <<rows, journal, fate>>
    BY <1>1, <1>2, <2>1, <2>2 DEF Steady, RowFrames, Held, InState
  <2>3. CASE r \in rows /\ rows' = (rows \ {r}) \cup {[frame |-> f, id |-> r.id]}
             /\ journal' = Cleared(f) \cup {[frame |-> r.frame, state |-> "retired"]}
             /\ fate' = [fate EXCEPT ![f] = "live", ![r.frame] = "swapped"]
    <3>1. f \notin Held
      BY <1>7 DEF SwapCommit, WritersOK
    <3>2. Held' = Held
      BY <2>3, <3>1 DEF Held, InState, Cleared
    <3>3. Watched' \subseteq Watched
      BY <1>1, <1>2, <2>1, <2>3 DEF RowFrames
    <3> QED BY <1>2, <2>1, <2>3, <3>2, <3>3 DEF Steady
  <2> QED BY <1>7, <2>2, <2>3 DEF SwapCommit
<1>8. ASSUME NEW f \in Frames, Reap(f) PROVE Steady
  BY <1>1, <1>2, <1>8 DEF Reap, Steady, JournalOK, RowFrames, Held, InState, Cleared
<1>9. CASE Age
  BY <1>1, <1>9, Aged DEF Steady, RowFrames, Held, InState
<1>10. CASE Declare
  BY <1>1, <1>10 DEF Declare, Steady, RowFrames, Held, InState
<1>11. ASSUME NEW f \in Frames, Damage(f) PROVE Steady
  BY <1>1, <1>11 DEF Damage, Steady, WritersOK, RowFrames, Held, InState
<1> QED
  BY <1>3, <1>4, <1>5, <1>6, <1>7, <1>8, <1>9, <1>10, <1>11 DEF Beside, Writers

\* A frame that a restore found stays bound while nothing revives it or ends
\* its hold.
LEMMA StaysBound ==
  ASSUME NEW f \in Frames, Bound(f), bytes'[f] = "good" => bytes[f] = "good",
         loc'[f] = "segments" => loc[f] = "segments", fate'[f] = "none" => fate[f] = "none",
         f \in Held => f \in Held' \/ bytes'[f] # "good" \/ loc'[f] # "segments" \/ fate'[f] # "none"
  PROVE  Bound(f)'
BY DEF Bound

StillFound ==
  /\ found' = found
  /\ \A f \in found : /\ f \in Frames /\ bytes'[f] \notin {"none", "torn"} /\ ~Writing(f)'
                      /\ Bound(f) => Bound(f)'

\* A step that touches neither files nor journal leaves what was found.
LEMMA SameFilesFound ==
  ASSUME BaseInv, UNCHANGED <<loc, bytes, fate, journal, writer, found>>
  PROVE  StillFound
BY DEF StillFound, BaseInv, FoundOK, Bound, Writing, Held, InState

-----------------------------------------------------------------------------
(* The invariant holds at first. *)

\* Init numbers its rows by a one-to-one function, of which there is one since
\* a finite set has a bijection with as many numbers.
LEMMA InitBase ==
  ASSUME FramesAssumption, Init
  PROVE  BaseInv /\ SoundOK /\ ReleaseUncut
<1>1. PICK n \in Nat : n = Cardinality(Frames) /\ n <= MaxId
  BY FS_CardinalityType DEF FramesAssumption
<1>2. n \in Nat /\ MaxId \in Nat /\ n <= MaxId
  BY <1>1 DEF FramesAssumption
<1>3. n + 1 \in 1 .. MaxId + 1 /\ \A k \in 1 .. n : k \in 1 .. MaxId /\ k < n + 1
  BY <1>2
<1> DEFINE Kinds == {"fresh", "row good", "row newer", "orphan good", "orphan newer"}
           Numbered(i) == i \in [Frames -> 1 .. n] /\ \A f, g \in Frames : f # g => i[f] # i[g]
           chosen == CHOOSE i \in [Frames -> 1 .. Cardinality(Frames)] :
                       \A f, g \in Frames : f # g => i[f] # i[g]
<1>4. PICK ids : ids = chosen /\ Numbered(ids)
  <2>1. ExistsBijection(1 .. n, Frames)
    BY <1>1, FS_CardinalityType DEF FramesAssumption
  <2>2. PICK b \in Bijection(1 .. n, Frames) : TRUE
    BY <2>1 DEF ExistsBijection
  <2>3. b \in [1 .. n -> Frames] /\ \A f \in Frames : \E k \in 1 .. n : b[k] = f
    BY <2>2 DEF Bijection, Injection, Surjection
  <2> DEFINE j == [f \in Frames |-> CHOOSE k \in 1 .. n : b[k] = f]
  <2>4. \A f \in Frames : j[f] \in 1 .. n /\ b[j[f]] = f
    BY <2>3
  <2>5. j \in [Frames -> 1 .. n] /\ \A f, g \in Frames : f # g => j[f] # j[g]
    BY <2>4
  <2> HIDE DEF j
  <2> QED BY <1>1, <2>5
<1>5. PICK have \in [Frames -> Kinds] :
        LET is(S) == {f \in Frames : have[f] \in S} IN
        /\ loc = [f \in Frames |-> IF have[f] = "fresh" THEN "none" ELSE "segments"]
        /\ bytes = [f \in Frames |-> CASE have[f] = "fresh" -> "none"
                                       [] have[f] \in {"row good", "orphan good"} -> "good"
                                       [] OTHER -> "newer"]
        /\ rows = {[frame |-> f, id |-> chosen[f]] : f \in is({"row good", "row newer"})}
        /\ fate = [f \in Frames |-> IF f \in RowFrames THEN "live" ELSE "none"]
        /\ intent \in BOOLEAN
        /\ declared \in (IF RowFrames = {} THEN BOOLEAN ELSE {TRUE})
        /\ found = {f \in is({"orphan good", "orphan newer"}) : intent /\ (declared \/ f \in Tagged)}
        /\ nextId = Cardinality(Frames) + 1
        /\ records = {} /\ journal = {}
        /\ writer = [f \in Frames |-> NoWriter]
        /\ serving = FALSE
        /\ op = [Idle EXCEPT !.at = "replay", !.by = "open"]
        /\ left = Budget
  BY DEF Init
<1> HIDE DEF chosen
<1>6. rows = {[frame |-> f, id |-> ids[f]] : f \in {g \in Frames : have[g] \in {"row good", "row newer"}}}
  BY <1>4, <1>5
<1>7. /\ op = [at |-> "replay", by |-> "open", todo |-> {}, known |-> {}, cur |-> NoFrame]
      /\ ~Acting /\ Loop = "replay" /\ Held = {} /\ Sweepable = {} /\ Journaled = {} /\ Kept = {}
      /\ DOMAIN op = {"at", "by", "todo", "known", "cur"}
  BY <1>5 DEF Idle, Acting, Loop, Held, InState, Sweepable, Journaled, Kept
<1>8. \A f \in Frames :
        /\ have[f] = "fresh" => bytes[f] = "none" /\ loc[f] = "none"
        /\ have[f] # "fresh" => bytes[f] \in {"good", "newer"} /\ loc[f] = "segments"
        /\ writer[f] = NoWriter /\ ~Writing(f)
        /\ fate[f] = IF f \in RowFrames THEN "live" ELSE "none"
  BY <1>5 DEF Writing, NoWriter
<1>9. \A r \in rows : \E f \in Frames : /\ r = [frame |-> f, id |-> ids[f]]
                                        /\ have[f] \in {"row good", "row newer"}
  BY <1>6
<1>10. \A r \in rows : /\ r \in Row /\ r.frame \in Frames /\ r.frame \in RowFrames
                       /\ r.id = ids[r.frame] /\ r.id \in 1 .. n
                       /\ have[r.frame] \in {"row good", "row newer"}
  <2> TAKE r \in rows
  <2>1. PICK f \in Frames : r = [frame |-> f, id |-> ids[f]] /\ have[f] \in {"row good", "row newer"}
    BY <1>9
  <2>2. r.frame = f /\ r.id = ids[f]
    BY <2>1
  <2>3. ids[f] \in 1 .. n /\ ids[f] \in 1 .. MaxId
    <3>1. ids[f] \in 1 .. n
      BY <1>4
    <3> QED BY <1>3, <3>1
  <2>4. r \in Row
    BY <2>1, <2>3 DEF Row
  <2> QED BY <2>1, <2>2, <2>3, <2>4 DEF RowFrames
<1>11. \A r, s \in rows : r.frame = s.frame => r = s
  <2> TAKE r, s \in rows
  <2>1. PICK f \in Frames : r = [frame |-> f, id |-> ids[f]]
    BY <1>9
  <2>2. PICK g \in Frames : s = [frame |-> g, id |-> ids[g]]
    BY <1>9
  <2> QED BY <2>1, <2>2
<1>12. \A f \in Frames : f \in RowFrames => have[f] # "fresh"
  BY <1>10 DEF RowFrames
<1>13. TypeOK
  <2>1. /\ loc \in [Frames -> {"none", "segments", "quarantine"}]
        /\ bytes \in [Frames -> {"none", "torn", "good", "newer", "damaged"}]
        /\ fate \in [Frames -> {"none", "live", "swapped", "purged", "expired"}]
    BY <1>5
  <2>2. \A r, s \in rows : r.id = s.id => r = s
    <3> TAKE r, s \in rows
    <3>1. r.frame \in Frames /\ s.frame \in Frames /\ r.id = ids[r.frame] /\ s.id = ids[s.frame]
      BY <1>10
    <3>2. r.id = s.id => r.frame = s.frame
      BY <1>4, <3>1
    <3> QED BY <1>11, <3>2
  <2>3. writer \in [Frames -> [at : {"none", "writing", "written"}, for : Row \cup {NoRow}]]
    <3>1. NoWriter \in [at : {"none", "writing", "written"}, for : Row \cup {NoRow}]
      BY DEF NoWriter
    <3> QED BY <1>5, <3>1
  <2>4. /\ rows \subseteq Row /\ records \subseteq Record /\ nextId \in 1 .. MaxId + 1
        /\ journal \subseteq [frame : Frames, state : {"pending", "retired", "held"}]
    <3>1. nextId = n + 1 /\ records = {} /\ journal = {}
      BY <1>5, <1>1
    <3>2. nextId \in 1 .. MaxId + 1
      BY <1>3, <3>1
    <3>3. rows \subseteq Row
      BY <1>10
    <3> QED BY <3>1, <3>2, <3>3
  <2> QED BY <1>5, <1>7, <2>1, <2>2, <2>3, <2>4 DEF TypeOK
<1>14. Typed
  <2>1. ~serving
    BY <1>5
  <2> QED BY <1>7, <1>13, <2>1 DEF Typed, OpTyped
<1>15. WritersOK
  <2>1. NoWriter.at = "none" /\ NoWriter.for = NoRow
    BY DEF NoWriter
  <2> QED BY <1>7, <1>8, <1>12, <2>1 DEF WritersOK, Fresh, Writing
<1>16. RowsOK
  <2>1. nextId = n + 1
    BY <1>5, <1>1
  <2>2. \A r \in rows : r.id \in 1 .. MaxId /\ r.frame \in Frames
    BY <1>10 DEF Row
  <2>3. \A r, s \in rows : r.frame = s.frame => r = s
    BY <1>11
  <2>4. \A r \in rows : r.id < nextId
    BY <1>3, <1>10, <2>1
  <2>5. \A r \in rows : ~Fresh(r.frame) /\ fate[r.frame] # "none"
    BY <1>8, <1>10 DEF Fresh
  <2> QED BY <1>7, <2>3, <2>4, <2>5 DEF RowsOK
<1>17. RecordsOK /\ JournalOK /\ PassOK /\ CurOK
  BY <1>7 DEF RecordsOK, JournalOK, PassOK, CurOK
<1>18. FoundOK
  BY <1>5, <1>7, <1>8 DEF FoundOK
<1>19. SoundOK
  BY <1>5, <1>7, <1>8, <1>10, <1>12 DEF SoundOK, SoundFrames, SoundCur
<1>20. ReleaseUncut
  BY <1>5, <1>7, <1>8 DEF ReleaseUncut, ListedFrames, SparedFrames, SparedByPass, QuarantineListed,
     Gone
<1> QED BY <1>14, <1>15, <1>16, <1>17, <1>18, <1>19, <1>20 DEF BaseInv

-----------------------------------------------------------------------------
(* Each part of it is kept by every step. *)

\* Every step keeps the types.
LEMMA StepTypes ==
  ASSUME MaxId \in Nat, Typed, RowsOK, RecordsOK, CurOK, WritersOK, [Next]_vars
  PROVE  TypeOK'
<1> USE DEF Typed, TypeOK, disk, index, Idle
<1>1. CASE UNCHANGED vars
  BY <1>1 DEF vars
<1>2. CASE Replay
  BY <1>2 DEF Replay, Sweepable, InState
<1>3. CASE FsckBegin
  BY <1>3 DEF FsckBegin
<1>4. CASE ReadJournal
  BY <1>4 DEF ReadJournal, Journaled
<1>5. CASE ListRows
  BY <1>5 DEF ListRows
<1>6. ASSUME NEW r \in op.todo, CheckRow(r)
      PROVE  TypeOK'
  BY <1>6 DEF CheckRow, Bad, ClassOf
<1>7. CASE Quarantine
  <2>1. op.cur.frame \in Frames /\ op.cur.id \in 0 .. MaxId /\ op.cur.class \in {"corrupt", "suspect"}
    BY <1>7 DEF Quarantine, OpTyped, Acting, Bads
  <2>2. WithRecord(op.cur) \subseteq Record
    BY <2>1, WithRecordTyped
  <2>3. journal' \subseteq [frame : Frames, state : {"pending", "retired", "held"}]
    BY <1>7 DEF Quarantine, Cleared
  <2>4. /\ records' = records \/ records' = WithRecord(op.cur)
        /\ rows' \subseteq rows /\ op'.at \in {"idle", "move"} /\ op'.by \in {"none", op.by}
        /\ UNCHANGED <<serving, loc, bytes, declared, intent, nextId, writer, fate>>
    BY <1>7 DEF Quarantine, OpTyped
  <2> QED BY <2>2, <2>3, <2>4
<1>8. CASE MoveAside
  BY <1>8 DEF MoveAside, OpTyped, Acting, Loop, Loops, Bads
<1>9. CASE ListHeld
  BY <1>9 DEF ListHeld, Held, InState
<1>10. ASSUME NEW f \in Frames, CheckHeld(f)
      PROVE  TypeOK'
  <2>1. CASE Adopt(f)
    <3>1. /\ op'.at \in {"bad", "held"} /\ op'.by = op.by
          /\ UNCHANGED <<serving, declared, intent, loc, bytes, records, writer>>
      BY <1>10, <2>1 DEF CheckHeld, OpTyped
    <3> QED BY <2>1, <3>1, AdoptTypes
  <2>2. CASE ~Adopt(f)
    <3>1. UNCHANGED <<rows, nextId, fate>> /\ op'.at \in {"bad", "held"} /\ op'.by = op.by
      BY <1>10, <2>2 DEF CheckHeld, OpTyped
    <3>2. journal' \subseteq [frame : Frames, state : {"pending", "retired", "held"}]
      BY <1>10, <2>2 DEF CheckHeld, Cleared
    <3> QED BY <1>10, <3>1, <3>2 DEF CheckHeld
  <2> QED BY <2>1, <2>2
<1>11. CASE ListOrphans
  BY <1>11 DEF ListOrphans, Unclaimed, NotSeenTorn
<1>12. ASSUME NEW f \in Frames, CheckOrphan(f)
      PROVE  TypeOK'
  <2>1. CASE Adopt(f)
    <3>1. /\ op'.at \in {"bad", "orphans"} /\ op'.by = op.by
          /\ UNCHANGED <<serving, declared, intent, loc, bytes, records, writer>>
      BY <1>12, <2>1 DEF CheckOrphan, OpTyped
    <3> QED BY <2>1, <3>1, AdoptTypes
  <2>2. CASE ~Adopt(f)
    <3>1. UNCHANGED <<rows, nextId, fate>> /\ op'.at \in {"bad", "orphans"} /\ op'.by = op.by
      BY <1>12, <2>2 DEF CheckOrphan, OpTyped
    <3>2. journal' \subseteq [frame : Frames, state : {"pending", "retired", "held"}]
      BY <1>12, <2>2 DEF CheckOrphan, Cleared
    <3> QED BY <1>12, <3>1, <3>2 DEF CheckOrphan
  <2> QED BY <2>1, <2>2
<1>13. CASE ListExpired
  BY <1>13 DEF ListExpired, Expired
<1>14. ASSUME NEW r \in op.todo, PurgeUnlink(r)
      PROVE  TypeOK'
  BY <1>14 DEF PurgeUnlink, OpTyped, Record
<1>15. CASE PurgeForget
  BY <1>15 DEF PurgeForget
<1>16. CASE PassEnd
  BY <1>16 DEF PassEnd
<1>17. ASSUME NEW f \in Frames, SealBegin(f)
      PROVE  TypeOK'
  BY <1>17 DEF SealBegin
<1>18. ASSUME NEW f \in Frames, NEW r \in rows, SwapBegin(f, r)
      PROVE  TypeOK'
  BY <1>18 DEF SwapBegin, NoSwap
<1>19. ASSUME NEW f \in Frames, WriteFrame(f)
      PROVE  TypeOK'
  BY <1>19 DEF WriteFrame
<1>20. ASSUME NEW f \in Frames, SealCommit(f)
      PROVE  TypeOK'
  <2>1. rows' \subseteq Row /\ nextId' \in 1 .. MaxId + 1 /\ \A r, s \in rows' : r.id = s.id => r = s
    BY <1>20 DEF SealCommit, Row, RowsOK
  <2>2. writer' \in [Frames -> [at : {"none", "writing", "written"}, for : Row \cup {NoRow}]]
    BY <1>20 DEF SealCommit, NoWriter
  <2> QED BY <1>20, <2>1, <2>2 DEF SealCommit
<1>21. ASSUME NEW f \in Frames, SwapCommit(f)
      PROVE  TypeOK'
  <2> DEFINE r == writer[f].for
  <2>1. writer' \in [Frames -> [at : {"none", "writing", "written"}, for : Row \cup {NoRow}]]
    BY <1>21 DEF SwapCommit, NoWriter
  <2>2. CASE UNCHANGED <<rows, journal, fate>>
    BY <1>21, <2>1, <2>2 DEF SwapCommit
  <2>3. CASE r \in rows /\ rows' = (rows \ {r}) \cup {[frame |-> f, id |-> r.id]}
             /\ journal' = Cleared(f) \cup {[frame |-> r.frame, state |-> "retired"]}
             /\ fate' = [fate EXCEPT ![f] = "live", ![r.frame] = "swapped"]
    <3>1. rows' \subseteq Row /\ \A s, t \in rows' : s.id = t.id => s = t
      BY <2>3 DEF Row
    <3>2. journal' \subseteq [frame : Frames, state : {"pending", "retired", "held"}]
      BY <2>3 DEF Cleared, Row
    <3>3. fate' \in [Frames -> {"none", "live", "swapped", "purged", "expired"}]
      BY <2>3 DEF Row
    <3> QED BY <1>21, <2>1, <3>1, <3>2, <3>3 DEF SwapCommit
  <2> QED BY <1>21, <2>2, <2>3 DEF SwapCommit
<1>22. ASSUME NEW f \in Frames, Reap(f)
      PROVE  TypeOK'
  BY <1>22 DEF Reap, Sweepable, InState, Cleared
<1>23. ASSUME NEW r \in records, ReleaseBegin(r)
      PROVE  TypeOK'
  BY <1>23 DEF ReleaseBegin
<1>24. CASE ReleaseCommit
  BY <1>24 DEF ReleaseCommit, OpTyped, Row, Record
<1>25. CASE MoveBack
  BY <1>25 DEF MoveBack
<1>26. ASSUME NEW r \in records, PurgeBegin(r)
      PROVE  TypeOK'
  BY <1>26 DEF PurgeBegin
<1>27. CASE PurgeExpiredBegin
  BY <1>27 DEF PurgeExpiredBegin, Expired
<1>28. CASE Drop
  BY <1>28 DEF Drop, Happens
<1>29. CASE Crash
  <2>1. NoWriter \in [at : {"none", "writing", "written"}, for : Row \cup {NoRow}]
    BY DEF NoWriter
  <2> QED BY <1>29, <2>1 DEF Crash
<1>30. CASE Age
  <2>1. \A q \in records : [q EXCEPT !.old = TRUE] \in Record
    BY DEF Record
  <2> QED BY <1>30, <2>1 DEF Age
<1>31. CASE Declare
  BY <1>31 DEF Declare, Happens
<1>32. ASSUME NEW f \in Frames, Damage(f)
      PROVE  TypeOK'
  BY <1>32 DEF Damage, Happens
<1> QED
  BY <1>1, <1>2, <1>3, <1>4, <1>5, <1>6, <1>7, <1>8, <1>9, <1>10, <1>11, <1>12, <1>13, <1>14,
     <1>15, <1>16, <1>17, <1>18, <1>19, <1>20, <1>21, <1>22, <1>23, <1>24, <1>25, <1>26, <1>27,
     <1>28, <1>29, <1>30, <1>31, <1>32
  DEF Next, Pass, Writers, Operator, Outside, CheckRow, PurgeUnlink

\* What an operation has in hand at each of its steps keeps its type.
LEMMA StepOp ==
  ASSUME MaxId \in Nat, NoFrame \notin Frames, Typed, [Next]_vars
  PROVE  OpTyped'
<1> USE DEF Typed, TypeOK, OpTyped, Acting, Loop, Loops, Idle, disk, index
<1>1. CASE UNCHANGED vars
  BY <1>1 DEF vars
<1>2. CASE Age \/ Declare
  BY <1>2 DEF Age, Happens, Declare
<1>3. CASE Replay
  BY <1>3 DEF Replay, Sweepable, InState
<1>4. CASE FsckBegin
  BY <1>4 DEF FsckBegin
<1>5. CASE ReadJournal
  BY <1>5 DEF ReadJournal, Journaled
<1>6. CASE ListRows
  BY <1>6 DEF ListRows
<1>7. ASSUME NEW r \in op.todo, CheckRow(r)
      PROVE  OpTyped'
  BY <1>7 DEF CheckRow, Bad, ClassOf, Row, Bads
<1>8. CASE Quarantine
  BY <1>8 DEF Quarantine, WithRecord, Cleared
<1>9. CASE MoveAside
  BY <1>9 DEF MoveAside, Bads
<1>10. CASE ListHeld
  BY <1>10 DEF ListHeld, Held, InState
<1>11. ASSUME NEW f \in Frames, CheckHeld(f)
      PROVE  OpTyped'
  <2>1. ASSUME op' = [op EXCEPT !.todo = @ \ {f}] PROVE OpTyped'
    BY <1>11, <2>1 DEF CheckHeld
  <2>2. ASSUME op' = [op EXCEPT !.todo = @ \ {f}, !.at = "bad", !.cur = Bad(f, 0, ClassOf(f), "held")]
        PROVE  OpTyped'
    <3>1. /\ op'.at = "bad" /\ op'.cur = [frame |-> f, id |-> 0, class |-> ClassOf(f), back |-> "held"]
          /\ op'.todo = op.todo \ {f} /\ op'.by = op.by /\ op'.known = op.known
          /\ DOMAIN op' = {"at", "by", "todo", "known", "cur"}
      BY <1>11, <2>2 DEF CheckHeld, Bad
    <3>2. ClassOf(f) \in {"corrupt", "suspect"}
      BY DEF ClassOf
    <3> QED BY <1>11, <3>1, <3>2 DEF CheckHeld, Bads
  <2> QED BY <1>11, <2>1, <2>2 DEF CheckHeld
<1>12. CASE ListOrphans
  BY <1>12 DEF ListOrphans, Unclaimed, NotSeenTorn
<1>13. ASSUME NEW f \in Frames, CheckOrphan(f)
      PROVE  OpTyped'
  <2>1. ASSUME op' = [op EXCEPT !.todo = @ \ {f}] PROVE OpTyped'
    BY <1>13, <2>1 DEF CheckOrphan
  <2>2. ASSUME op' = [op EXCEPT !.todo = @ \ {f}, !.at = "bad", !.cur = Bad(f, 0, ClassOf(f), "orphans")]
        PROVE  OpTyped'
    <3>1. /\ op'.at = "bad" /\ op'.cur = [frame |-> f, id |-> 0, class |-> ClassOf(f), back |-> "orphans"]
          /\ op'.todo = op.todo \ {f} /\ op'.by = op.by /\ op'.known = op.known
          /\ DOMAIN op' = {"at", "by", "todo", "known", "cur"}
      BY <1>13, <2>2 DEF CheckOrphan, Bad
    <3>2. ClassOf(f) \in {"corrupt", "suspect"}
      BY DEF ClassOf
    <3> QED BY <1>13, <3>1, <3>2 DEF CheckOrphan, Bads
  <2> QED BY <1>13, <2>1, <2>2 DEF CheckOrphan
<1>14. CASE ListExpired
  BY <1>14 DEF ListExpired, Expired
<1>15. ASSUME NEW r \in op.todo, PurgeUnlink(r)
      PROVE  OpTyped'
  BY <1>15 DEF PurgeUnlink
<1>16. CASE PurgeForget
  BY <1>16 DEF PurgeForget
<1>17. CASE PassEnd
  BY <1>17 DEF PassEnd
<1>18. ASSUME NEW f \in Frames, SealBegin(f)
      PROVE  OpTyped'
  BY <1>18 DEF SealBegin
<1>19. ASSUME NEW f \in Frames, NEW r \in rows, SwapBegin(f, r)
      PROVE  OpTyped'
  BY <1>19 DEF SwapBegin, NoSwap
<1>20. ASSUME NEW f \in Frames, WriteFrame(f)
      PROVE  OpTyped'
  BY <1>20 DEF WriteFrame
<1>21. ASSUME NEW f \in Frames, SealCommit(f)
      PROVE  OpTyped'
  BY <1>21 DEF SealCommit
<1>22. ASSUME NEW f \in Frames, SwapCommit(f)
      PROVE  OpTyped'
  BY <1>22 DEF SwapCommit, Cleared
<1>23. ASSUME NEW f \in Frames, Reap(f)
      PROVE  OpTyped'
  BY <1>23 DEF Reap, Sweepable, InState, Cleared
<1>24. ASSUME NEW r \in records, ReleaseBegin(r)
      PROVE  OpTyped'
  BY <1>24 DEF ReleaseBegin
<1>25. CASE ReleaseCommit
  BY <1>25 DEF ReleaseCommit
<1>26. CASE MoveBack
  BY <1>26 DEF MoveBack
<1>27. ASSUME NEW r \in records, PurgeBegin(r)
      PROVE  OpTyped'
  BY <1>27 DEF PurgeBegin
<1>28. CASE PurgeExpiredBegin
  BY <1>28 DEF PurgeExpiredBegin, Expired
<1>29. CASE Drop
  BY <1>29 DEF Drop, Happens
<1>30. CASE Crash
  BY <1>30 DEF Crash, Happens
<1>31. ASSUME NEW f \in Frames, Damage(f)
      PROVE  OpTyped'
  BY <1>31 DEF Damage, Happens
<1> QED
  BY <1>1, <1>2, <1>3, <1>4, <1>5, <1>6, <1>7, <1>8, <1>9, <1>10, <1>11, <1>12, <1>13, <1>14,
     <1>15, <1>16, <1>17, <1>18, <1>19, <1>20, <1>21, <1>22, <1>23, <1>24, <1>25, <1>26, <1>27,
     <1>28, <1>29, <1>30, <1>31 DEF Next, Pass, Writers, Operator, Outside, CheckRow, PurgeUnlink

\* A frame gets its row or its record only when it is written.
LEMMA StepWriters ==
  ASSUME BaseInv, [Next]_vars
  PROVE  WritersOK'
<1> USE DEF BaseInv, Typed, TypeOK, WritersOK, disk, index, NoWriter, NoRow, Fresh, Writing, Kept,
            RowFrames, Held, InState
<1>1. CASE UNCHANGED vars
  BY <1>1 DEF vars
<1>2. CASE Replay \/ FsckBegin \/ ReadJournal \/ ListRows
  BY <1>2 DEF Replay, Sweepable, InState, FsckBegin, ReadJournal, Journaled, ListRows
<1>3. CASE Quarantine \/ MoveAside \/ ListHeld \/ ListOrphans
  BY <1>3 DEF Quarantine, WithRecord, Cleared, MoveAside, ListHeld, Held, InState, ListOrphans,
     Unclaimed, NotSeenTorn
<1>4. CASE ListExpired \/ PurgeForget \/ PassEnd \/ ReleaseCommit
  BY <1>4 DEF ListExpired, Expired, PurgeForget, PassEnd, ReleaseCommit, OpTyped, CurOK, RecordsOK
<1>5. CASE MoveBack \/ PurgeExpiredBegin \/ Drop \/ Crash
  BY <1>5 DEF MoveBack, PurgeExpiredBegin, Expired, Drop, Happens, Crash
<1>6. ASSUME NEW r \in op.todo, CheckRow(r)
      PROVE  WritersOK'
  BY <1>6 DEF CheckRow, Bad, ClassOf
<1>7. ASSUME NEW f \in Frames, CheckHeld(f) \/ CheckOrphan(f)
      PROVE  WritersOK'
  <2>1. CASE Adopt(f) /\ Placed(f)
    BY <1>7, <2>1, Checked DEF Adopt, Placed, Cleared
  <2>2. CASE UNCHANGED <<rows, nextId, fate>> /\ journal' \in {journal, Cleared(f)}
    BY <1>7, <2>2, Checked DEF Cleared
  <2>3. CASE /\ UNCHANGED <<rows, nextId, fate>> /\ Placed(f) /\ f \notin Sweepable
             /\ journal' = journal \cup {[frame |-> f, state |-> "held"]}
    BY <1>7, <2>3, Checked DEF Placed
  <2> QED BY <1>7, <2>1, <2>2, <2>3, Checked
<1>8. ASSUME NEW r \in op.todo, PurgeUnlink(r)
      PROVE  WritersOK'
  BY <1>8 DEF PurgeUnlink
<1>9. ASSUME NEW f \in Frames, SealBegin(f)
      PROVE  WritersOK'
  <2>1. /\ fate[f] = "none" /\ f \notin RowFrames /\ f \notin Held /\ \A q \in Kept : q.frame # f
        /\ \A g \in Frames : writer[g].for # NoRow => writer[g].for.frame # f
        /\ bytes[f] = "none"
    BY <1>9 DEF SealBegin, RowsOK, RecordsOK, JournalOK, Journaled
  <2> HIDE DEF RowFrames, Held, Kept, TypeOK
  <2>3. /\ bytes' = [bytes EXCEPT ![f] = "torn"] /\ loc' = [loc EXCEPT ![f] = "segments"]
        /\ UNCHANGED <<serving, rows, records, fate, RowFrames, Kept>> /\ serving
        /\ Held' = Held
    BY <1>9 DEF SealBegin, RowFrames, Kept, Held
  <2>4. /\ loc \in [Frames -> {"none", "segments", "quarantine"}]
        /\ bytes \in [Frames -> {"none", "torn", "good", "newer", "damaged"}]
        /\ writer \in [Frames -> [at : {"none", "writing", "written"}, for : Row \cup {NoRow}]]
    BY DEF TypeOK
  <2>5. writer' = [writer EXCEPT ![f] = [at |-> "writing", for |-> NoRow]]
    BY <1>9 DEF SealBegin
  <2> QED BY <2>1, <2>3, <2>4, <2>5
<1>10. ASSUME NEW f \in Frames, NEW r \in rows, SwapBegin(f, r)
      PROVE  WritersOK'
  <2>1. /\ fate[f] = "none" /\ f \notin RowFrames /\ f \notin Held /\ \A q \in Kept : q.frame # f
        /\ \A g \in Frames : writer[g].for # NoRow => writer[g].for.frame # f
        /\ bytes[f] = "none"
    BY <1>10 DEF SwapBegin, RowsOK, RecordsOK, JournalOK, Journaled
  <2>2. r.frame # f /\ bytes[r.frame] = "good" /\ r.frame \in Frames
    BY <1>10, <2>1 DEF SwapBegin, Row
  <2> HIDE DEF RowFrames, Held, Kept, TypeOK
  <2>3. /\ bytes' = [bytes EXCEPT ![f] = "torn"] /\ loc' = [loc EXCEPT ![f] = "segments"]
        /\ UNCHANGED <<serving, rows, records, fate, RowFrames, Kept>> /\ serving
        /\ Held' = Held
    BY <1>10 DEF SwapBegin, RowFrames, Kept, Held
  <2>4. /\ loc \in [Frames -> {"none", "segments", "quarantine"}]
        /\ bytes \in [Frames -> {"none", "torn", "good", "newer", "damaged"}]
        /\ writer \in [Frames -> [at : {"none", "writing", "written"}, for : Row \cup {NoRow}]]
    BY DEF TypeOK
  <2>5. writer' = [writer EXCEPT ![f] = [at |-> "writing", for |-> r]]
    BY <1>10 DEF SwapBegin
  <2> QED BY <2>1, <2>2, <2>3, <2>4, <2>5
<1>11. ASSUME NEW f \in Frames, WriteFrame(f)
      PROVE  WritersOK'
  BY <1>11 DEF WriteFrame
<1>12. ASSUME NEW f \in Frames, SealCommit(f)
      PROVE  WritersOK'
  BY <1>12 DEF SealCommit
<1>13. ASSUME NEW f \in Frames, SwapCommit(f)
      PROVE  WritersOK'
  BY <1>13 DEF SwapCommit, Cleared
<1>14. ASSUME NEW f \in Frames, Reap(f)
      PROVE  WritersOK'
  BY <1>14 DEF Reap, Sweepable, InState, Cleared
<1>15. ASSUME NEW r \in records, ReleaseBegin(r)
      PROVE  WritersOK'
  BY <1>15 DEF ReleaseBegin
<1>16. ASSUME NEW r \in records, PurgeBegin(r)
      PROVE  WritersOK'
  BY <1>16 DEF PurgeBegin
<1>17. CASE Age
  BY <1>17, Aged
<1>18. CASE Declare
  BY <1>18 DEF Declare, Happens
<1>19. ASSUME NEW f \in Frames, Damage(f)
      PROVE  WritersOK'
  BY <1>19 DEF Damage, Happens
<1> QED
  BY <1>1, <1>2, <1>3, <1>4, <1>5, <1>6, <1>7, <1>8, <1>9, <1>10, <1>11, <1>12, <1>13, <1>14,
     <1>15, <1>16, <1>17, <1>18, <1>19
  DEF Next, Pass, Writers, Operator, Outside, CheckRow, PurgeUnlink

\* A row comes back, or is added, only for a frame that has none.
LEMMA StepRows ==
  ASSUME BaseInv, [Next]_vars
  PROVE  RowsOK'
<1> USE DEF BaseInv, Typed, TypeOK, RowsOK, disk, index, Fresh, RowFrames, Held, InState
<1>1. CASE UNCHANGED vars
  BY <1>1 DEF vars
<1>2. CASE Replay \/ FsckBegin \/ ReadJournal \/ ListRows
  BY <1>2 DEF Replay, Sweepable, InState, FsckBegin, ReadJournal, Journaled, ListRows
<1>3. CASE Quarantine \/ MoveAside \/ ListHeld \/ ListOrphans
  BY <1>3 DEF Quarantine, WithRecord, Cleared, MoveAside, ListHeld, Held, InState, ListOrphans,
     Unclaimed, NotSeenTorn
<1>4. CASE ListExpired \/ PurgeForget \/ PassEnd \/ MoveBack
  BY <1>4 DEF ListExpired, Expired, PurgeForget, PassEnd, MoveBack
<1>5. CASE PurgeExpiredBegin \/ Drop \/ Crash \/ Age
  BY <1>5 DEF PurgeExpiredBegin, Expired, Drop, Happens, Crash, Age
<1>6. ASSUME NEW r \in op.todo, CheckRow(r)
      PROVE  RowsOK'
  BY <1>6 DEF CheckRow, Bad, ClassOf
<1>7. ASSUME NEW f \in Frames, CheckHeld(f) \/ CheckOrphan(f)
      PROVE  RowsOK'
  <2>1. CASE Adopt(f) /\ Placed(f)
    <3>1. /\ rows' = rows \cup {[frame |-> f, id |-> nextId]} /\ nextId' = nextId + 1
          /\ fate' = [fate EXCEPT ![f] = "live"] /\ Held' = Held \ {f}
      BY <2>1 DEF Adopt, Cleared
    <3>2. /\ \A r \in rows : r.frame # f
          /\ ~Fresh(f) /\ UNCHANGED bytes
      BY <1>7, <2>1, Checked DEF Placed
    <3> HIDE DEF Held
    <3> QED BY <3>1, <3>2 DEF Row
  <2>2. CASE UNCHANGED <<rows, nextId, fate>> /\ journal' \in {journal, Cleared(f)}
    BY <1>7, <2>2, Checked DEF Cleared
  <2>3. CASE /\ UNCHANGED <<rows, nextId, fate>> /\ Placed(f) /\ f \notin Sweepable
             /\ journal' = journal \cup {[frame |-> f, state |-> "held"]}
    BY <1>7, <2>3, Checked DEF Placed
  <2> QED BY <1>7, <2>1, <2>2, <2>3, Checked
<1>8. ASSUME NEW r \in op.todo, PurgeUnlink(r)
      PROVE  RowsOK'
  BY <1>8 DEF PurgeUnlink
<1>9. ASSUME NEW f \in Frames, SealBegin(f)
      PROVE  RowsOK'
  BY <1>9 DEF SealBegin
<1>10. ASSUME NEW f \in Frames, NEW r \in rows, SwapBegin(f, r)
      PROVE  RowsOK'
  BY <1>10 DEF SwapBegin, NoSwap
<1>11. ASSUME NEW f \in Frames, WriteFrame(f)
      PROVE  RowsOK'
  BY <1>11 DEF WriteFrame
<1>12. ASSUME NEW f \in Frames, SealCommit(f)
      PROVE  RowsOK'
  <2>1. /\ \A r \in rows : r.frame # f
        /\ ~Fresh(f) /\ f \notin Held
    BY <1>12 DEF SealCommit, WritersOK, Writing
  <2>2. /\ rows' = rows \cup {[frame |-> f, id |-> nextId]} /\ nextId' = nextId + 1
        /\ fate' = [fate EXCEPT ![f] = "live"] /\ UNCHANGED <<bytes, journal>>
    BY <1>12 DEF SealCommit
  <2> QED BY <2>1, <2>2 DEF Row
<1>13. ASSUME NEW f \in Frames, SwapCommit(f)
      PROVE  RowsOK'
  <2> DEFINE r == writer[f].for
  <2>1. CASE UNCHANGED <<rows, journal, fate>>
    BY <1>13, <2>1 DEF SwapCommit
  <2>2. CASE r \in rows /\ rows' = (rows \ {r}) \cup {[frame |-> f, id |-> r.id]}
             /\ journal' = Cleared(f) \cup {[frame |-> r.frame, state |-> "retired"]}
             /\ fate' = [fate EXCEPT ![f] = "live", ![r.frame] = "swapped"]
    <3>1. /\ f \notin RowFrames /\ f \notin Held /\ ~Fresh(f) /\ r.frame # f
      BY <1>13, <2>2 DEF SwapCommit, WritersOK, Writing
    <3>2. Held' \subseteq Held
      BY <2>2 DEF Cleared
    <3>3. /\ r.id < nextId /\ \A s \in rows : s.frame # f /\ (s.frame = r.frame => s = r)
      BY <2>2, <3>1
    <3>4. UNCHANGED <<nextId, bytes>>
      BY <1>13 DEF SwapCommit
    <3>5. \A s \in rows' : fate'[s.frame] # "none"
      BY <2>2, <3>1, <3>3 DEF Row
    <3> HIDE DEF Held
    <3> QED BY <2>2, <3>1, <3>2, <3>3, <3>4, <3>5 DEF Row
  <2> QED BY <1>13, <2>1, <2>2 DEF SwapCommit
<1>14. ASSUME NEW f \in Frames, Reap(f)
      PROVE  RowsOK'
  BY <1>14 DEF Reap, Sweepable, InState, Cleared
<1>15. ASSUME NEW r \in records, ReleaseBegin(r)
      PROVE  RowsOK'
  BY <1>15 DEF ReleaseBegin
<1>16. CASE ReleaseCommit
  <2>1. CASE UNCHANGED rows
    BY <1>16, <2>1 DEF ReleaseCommit
  <2>2. CASE rows' = rows \cup {[frame |-> op.cur.frame, id |-> op.cur.id]}
    <3>1. PICK q \in Kept : q.frame = op.cur.frame /\ q.id = op.cur.id
      BY <1>16 DEF ReleaseCommit, CurOK, OpTyped, Kept
    <3>2. /\ q.id < nextId /\ ~Fresh(q.frame) /\ fate[q.frame] # "none" /\ q.frame \notin Held
          /\ \A r \in rows : q.frame # r.frame
      BY DEF RecordsOK
    <3> QED BY <1>16, <2>2, <3>1, <3>2 DEF ReleaseCommit
  <2> QED BY <1>16, <2>1, <2>2 DEF ReleaseCommit
<1>17. ASSUME NEW r \in records, PurgeBegin(r)
      PROVE  RowsOK'
  BY <1>17 DEF PurgeBegin
<1>18. CASE Declare
  BY <1>18 DEF Declare, Happens
<1>19. ASSUME NEW f \in Frames, Damage(f)
      PROVE  RowsOK'
  BY <1>19 DEF Damage, Happens
<1> QED
  BY <1>1, <1>2, <1>3, <1>4, <1>5, <1>6, <1>7, <1>8, <1>9, <1>10, <1>11, <1>12, <1>13, <1>14,
     <1>15, <1>16, <1>17, <1>18, <1>19
  DEF Next, Pass, Writers, Operator, Outside, CheckRow, PurgeUnlink

\* A record is made as the row goes, and goes as the row comes back.
LEMMA StepRecords ==
  ASSUME BaseInv, [Next]_vars
  PROVE  RecordsOK'
<1> USE DEF BaseInv, Typed, TypeOK, RecordsOK, disk, index, Fresh, Kept, Held, InState
<1>1. CASE UNCHANGED vars
  BY <1>1 DEF vars
<1>2. CASE Replay \/ FsckBegin \/ ReadJournal \/ ListRows
  BY <1>2 DEF Replay, Sweepable, InState, Record, FsckBegin, ReadJournal, Journaled, ListRows
<1>3. CASE PurgeForget \/ PassEnd \/ MoveBack \/ PurgeExpiredBegin
  BY <1>3 DEF PurgeForget, PassEnd, MoveBack, CurOK, Record, Kept, PurgeExpiredBegin, Expired
<1>4. CASE Drop \/ Crash \/ Declare
  BY <1>4 DEF Drop, Happens, Crash, Declare
<1>5. ASSUME NEW r \in op.todo, CheckRow(r)
      PROVE  RecordsOK'
  BY <1>5 DEF CheckRow, Bad, ClassOf
<1>6. CASE Quarantine
  <2> DEFINE c == op.cur
             r == [frame |-> op.cur.frame, id |-> op.cur.id]
  <2>1. CASE UNCHANGED index
    BY <1>6, <2>1 DEF Quarantine
  <2>2. CASE c.id > 0 /\ r \in rows /\ records' = WithRecord(c) /\ rows' = rows \ {r} /\ UNCHANGED journal
    <3>1. /\ c.id < nextId /\ ~Fresh(c.frame) /\ fate[c.frame] # "none" /\ c.frame \notin Held
          /\ \A s \in rows' : s.frame # c.frame /\ s.id # c.id
          /\ \A q \in Kept : q.frame # c.frame /\ q.id # c.id
      BY <2>2 DEF RowsOK
    <3>2. bytes[c.frame] = "good" => loc[c.frame] # "segments"
      BY <1>6, <2>2 DEF Quarantine, CurOK, OpTyped, Acting, Loop
    <3>3. /\ \A q \in Kept' : q \in Kept \/ (q.frame = c.frame /\ q.id = c.id)
          /\ UNCHANGED Held
      BY <2>2 DEF WithRecord
    <3>4. UNCHANGED <<bytes, loc, fate, nextId>>
      BY <1>6 DEF Quarantine
    <3> HIDE DEF Kept, Held
    <3> QED BY <2>2, <3>1, <3>2, <3>3, <3>4
  <2>3. CASE /\ c.id = 0 /\ records' = WithRecord(c) /\ UNCHANGED rows
             /\ journal' = IF c.back = "held" THEN Cleared(c.frame) ELSE journal
    <3>1. \A q \in Kept' : q \in Kept
      BY <2>3 DEF WithRecord
    <3>2. Held' \subseteq Held
      BY <2>3 DEF Cleared
    <3>3. UNCHANGED <<bytes, loc, fate, nextId>>
      BY <1>6 DEF Quarantine
    <3> HIDE DEF Kept, Held
    <3> QED BY <2>3, <3>1, <3>2, <3>3
  <2> QED BY <1>6, <2>1, <2>2, <2>3 DEF Quarantine
<1>7. CASE MoveAside
  BY <1>7 DEF MoveAside
<1>8. CASE ListHeld
  BY <1>8 DEF ListHeld, Held, InState
<1>9. ASSUME NEW f \in Frames, CheckHeld(f) \/ CheckOrphan(f)
      PROVE  RecordsOK'
  <2>1. CASE Adopt(f) /\ Placed(f)
    <3>1. /\ rows' = rows \cup {[frame |-> f, id |-> nextId]} /\ nextId' = nextId + 1
          /\ fate' = [fate EXCEPT ![f] = "live"] /\ Held' = Held \ {f}
      BY <2>1 DEF Adopt, Cleared
    <3>2. /\ \A q \in Kept : q.frame # f
          /\ UNCHANGED <<bytes, loc, records>>
      BY <1>9, <2>1, Checked DEF Placed
    <3> HIDE DEF Held
    <3> QED BY <3>1, <3>2 DEF Record
  <2>2. CASE UNCHANGED <<rows, nextId, fate>> /\ journal' \in {journal, Cleared(f)}
    BY <1>9, <2>2, Checked DEF Cleared, RowFrames
  <2>3. CASE /\ UNCHANGED <<rows, nextId, fate>> /\ Placed(f) /\ f \notin Sweepable
             /\ journal' = journal \cup {[frame |-> f, state |-> "held"]}
    BY <1>9, <2>3, Checked DEF Placed, RowFrames
  <2> QED BY <1>9, <2>1, <2>2, <2>3, Checked
<1>10. CASE ListOrphans
  BY <1>10 DEF ListOrphans, Unclaimed, NotSeenTorn
<1>11. CASE ListExpired
  BY <1>11 DEF ListExpired, Expired
<1>12. ASSUME NEW r \in op.todo, PurgeUnlink(r)
      PROVE  RecordsOK'
  BY <1>12 DEF PurgeUnlink
<1>13. ASSUME NEW f \in Frames, SealBegin(f)
      PROVE  RecordsOK'
  BY <1>13 DEF SealBegin
<1>14. ASSUME NEW f \in Frames, NEW r \in rows, SwapBegin(f, r)
      PROVE  RecordsOK'
  BY <1>14 DEF SwapBegin, NoSwap
<1>15. ASSUME NEW f \in Frames, WriteFrame(f)
      PROVE  RecordsOK'
  BY <1>15 DEF WriteFrame, WritersOK, Writing, Record
<1>16. ASSUME NEW f \in Frames, SealCommit(f)
      PROVE  RecordsOK'
  <2>1. \A q \in Kept : q.frame # f
    BY <1>16 DEF SealCommit, WritersOK, Writing
  <2>2. /\ rows' = rows \cup {[frame |-> f, id |-> nextId]} /\ nextId' = nextId + 1
        /\ fate' = [fate EXCEPT ![f] = "live"] /\ UNCHANGED <<bytes, loc, journal, records>>
    BY <1>16 DEF SealCommit
  <2> QED BY <2>1, <2>2 DEF Record
<1>17. ASSUME NEW f \in Frames, SwapCommit(f)
      PROVE  RecordsOK'
  <2> DEFINE r == writer[f].for
  <2>1. CASE UNCHANGED <<rows, journal, fate>>
    BY <1>17, <2>1 DEF SwapCommit
  <2>2. CASE r \in rows /\ rows' = (rows \ {r}) \cup {[frame |-> f, id |-> r.id]}
             /\ journal' = Cleared(f) \cup {[frame |-> r.frame, state |-> "retired"]}
             /\ fate' = [fate EXCEPT ![f] = "live", ![r.frame] = "swapped"]
    <3>1. \A q \in Kept : q.frame # f
      BY <1>17 DEF SwapCommit, WritersOK, Writing
    <3>2. Held' \subseteq Held
      BY <2>2 DEF Cleared
    <3>3. UNCHANGED <<nextId, bytes, loc, records>>
      BY <1>17 DEF SwapCommit
    <3>4. \A q \in Kept : fate'[q.frame] # "none"
      BY <2>2 DEF Record
    <3>5. \A q \in Kept, s \in rows' : q.frame # s.frame /\ q.id # s.id
      BY <2>2, <3>1
    <3> HIDE DEF Held
    <3> QED BY <3>2, <3>3, <3>4, <3>5
  <2> QED BY <1>17, <2>1, <2>2 DEF SwapCommit
<1>18. ASSUME NEW f \in Frames, Reap(f)
      PROVE  RecordsOK'
  BY <1>18 DEF Reap, Sweepable, InState, Cleared
<1>19. ASSUME NEW r \in records, ReleaseBegin(r)
      PROVE  RecordsOK'
  BY <1>19 DEF ReleaseBegin
<1>20. CASE ReleaseCommit
  <2>1. CASE UNCHANGED <<rows, records>>
    BY <1>20, <2>1 DEF ReleaseCommit
  <2>2. CASE /\ rows' = rows \cup {[frame |-> op.cur.frame, id |-> op.cur.id]}
             /\ records' = {r \in records : ~(r.frame = op.cur.frame /\ r.id = op.cur.id)}
    <3>1. PICK p \in Kept : p.frame = op.cur.frame /\ p.id = op.cur.id
      BY <1>20 DEF ReleaseCommit, CurOK, OpTyped
    <3>2. \A q \in Kept' : q \in Kept /\ q.frame # op.cur.frame /\ q.id # op.cur.id
      BY <2>2, <3>1
    <3> QED BY <1>20, <2>2, <3>2 DEF ReleaseCommit
  <2> QED BY <1>20, <2>1, <2>2 DEF ReleaseCommit
<1>21. ASSUME NEW r \in records, PurgeBegin(r)
      PROVE  RecordsOK'
  BY <1>21 DEF PurgeBegin
<1>22. CASE Age
  BY <1>22, Aged
<1>23. ASSUME NEW f \in Frames, Damage(f)
      PROVE  RecordsOK'
  BY <1>23 DEF Damage, Happens
<1> QED
  BY <1>1, <1>2, <1>3, <1>4, <1>5, <1>6, <1>7, <1>8, <1>9, <1>10, <1>11, <1>12, <1>13, <1>14,
     <1>15, <1>16, <1>17, <1>18, <1>19, <1>20, <1>21, <1>22, <1>23
  DEF Next, Pass, Writers, Operator, Outside, CheckRow, PurgeUnlink

\* A swap retires a frame that this build could read.
LEMMA StepJournal ==
  ASSUME BaseInv, [Next]_vars
  PROVE  JournalOK'
<1> USE DEF BaseInv, Typed, TypeOK, JournalOK, disk, index, Fresh, Journaled, Sweepable, Held,
            InState
<1>1. CASE UNCHANGED vars
  BY <1>1 DEF vars
<1>2. CASE Replay \/ FsckBegin \/ ReadJournal \/ ListRows
  BY <1>2 DEF Replay, Sweepable, InState, FsckBegin, ReadJournal, Journaled, ListRows
<1>3. CASE Quarantine \/ MoveAside \/ ListHeld \/ ListOrphans
  BY <1>3 DEF Quarantine, WithRecord, Cleared, MoveAside, ListHeld, Held, InState, ListOrphans,
     Unclaimed, NotSeenTorn
<1>4. CASE ListExpired \/ PurgeForget \/ PassEnd \/ ReleaseCommit
  BY <1>4 DEF ListExpired, Expired, PurgeForget, PassEnd, ReleaseCommit
<1>5. CASE MoveBack \/ PurgeExpiredBegin \/ Drop \/ Crash
  BY <1>5 DEF MoveBack, PurgeExpiredBegin, Expired, Drop, Happens, Crash
<1>6. CASE Age \/ Declare
  BY <1>6 DEF Age, Happens, Declare
<1>7. ASSUME NEW r \in op.todo, CheckRow(r)
      PROVE  JournalOK'
  BY <1>7 DEF CheckRow, Bad, ClassOf
<1>8. ASSUME NEW f \in Frames, CheckHeld(f) \/ CheckOrphan(f)
      PROVE  JournalOK'
  <2>1. CASE Adopt(f) /\ Placed(f)
    BY <1>8, <2>1, Checked DEF Adopt, Placed, Cleared
  <2>2. CASE UNCHANGED <<rows, nextId, fate>> /\ journal' \in {journal, Cleared(f)}
    BY <1>8, <2>2, Checked DEF Cleared
  <2>3. CASE /\ UNCHANGED <<rows, nextId, fate>> /\ Placed(f) /\ f \notin Sweepable
             /\ journal' = journal \cup {[frame |-> f, state |-> "held"]}
    BY <1>8, <2>3, Checked DEF Placed
  <2> QED BY <1>8, <2>1, <2>2, <2>3, Checked
<1>9. ASSUME NEW r \in op.todo, PurgeUnlink(r)
      PROVE  JournalOK'
  BY <1>9 DEF PurgeUnlink
<1>10. ASSUME NEW f \in Frames, SealBegin(f)
      PROVE  JournalOK'
  BY <1>10 DEF SealBegin
<1>11. ASSUME NEW f \in Frames, NEW r \in rows, SwapBegin(f, r)
      PROVE  JournalOK'
  BY <1>11 DEF SwapBegin, NoSwap
<1>12. ASSUME NEW f \in Frames, WriteFrame(f)
      PROVE  JournalOK'
  BY <1>12 DEF WriteFrame
<1>13. ASSUME NEW f \in Frames, SealCommit(f)
      PROVE  JournalOK'
  BY <1>13 DEF SealCommit
<1>14. ASSUME NEW f \in Frames, SwapCommit(f)
      PROVE  JournalOK'
  <2> DEFINE r == writer[f].for
  <2>1. CASE UNCHANGED <<rows, journal, fate>>
    BY <1>14, <2>1 DEF SwapCommit
  <2>2. CASE r \in rows /\ journal' = Cleared(f) \cup {[frame |-> r.frame, state |-> "retired"]}
    <3>1. r.frame \notin Held /\ bytes[r.frame] \notin {"none", "newer"}
      BY <1>14, <2>2 DEF SwapCommit, WritersOK, RowsOK
    <3> QED BY <1>14, <2>2, <3>1 DEF SwapCommit, Cleared
  <2> QED BY <1>14, <2>1, <2>2 DEF SwapCommit
<1>15. ASSUME NEW f \in Frames, Reap(f)
      PROVE  JournalOK'
  BY <1>15 DEF Reap, Sweepable, InState, Cleared
<1>16. ASSUME NEW r \in records, ReleaseBegin(r)
      PROVE  JournalOK'
  BY <1>16 DEF ReleaseBegin
<1>17. ASSUME NEW r \in records, PurgeBegin(r)
      PROVE  JournalOK'
  BY <1>17 DEF PurgeBegin
<1>18. ASSUME NEW f \in Frames, Damage(f)
      PROVE  JournalOK'
  BY <1>18 DEF Damage, Happens
<1> QED
  BY <1>1, <1>2, <1>3, <1>4, <1>5, <1>6, <1>7, <1>8, <1>9, <1>10, <1>11, <1>12, <1>13, <1>14,
     <1>15, <1>16, <1>17, <1>18 DEF Next, Pass, Writers, Operator, Outside, CheckRow, PurgeUnlink

\* A pass that has read the rows after the journal misses no row that matters:
\* later ones are of frames written meanwhile.
LEMMA StepPass ==
  ASSUME BaseInv, [Next]_vars
  PROVE  PassOK'
<1> USE DEF BaseInv, Typed, PassOK, disk, index, Idle
<1>1. CASE UNCHANGED vars
  BY <1>1 DEF vars, Fresh, Writing, Watched, RowFrames, Held, InState, Sweepable, TodoFrames, Kept,
     Loop, Acting
<1>2. CASE Beside
  <2>1. Steady
    BY <1>2, BesideIsSteady
  <2>2. \A f \in Frames : ~Fresh(f) => ~Fresh(f)'
    BY <2>1 DEF Steady
  <2>3. /\ Held' = Held /\ Watched' \subseteq Watched /\ UNCHANGED <<op, Loop>> /\ TodoFrames' = TodoFrames
        /\ op.by = "restore" => Sweepable' = Sweepable
    BY <2>1 DEF Steady, Sweepable, InState, TodoFrames, Loop, Acting
  <2>4. /\ Loop = "rows" => \A r \in op.todo : r.frame \in Frames
        /\ Held \subseteq Frames
        /\ Loop = "orphans" => op.todo \subseteq Frames
    BY DEF Row, TypeOK, OpTyped, Held, InState
  <2>5. \A f \in Frames :
          /\ ~Fresh(f) /\ ~Writing(f) => ~Writing(f)'
          /\ fate[f] # "none" => fate'[f] # "none"
    BY <2>1 DEF Steady
  <2>6. Loop = "rows" => \A r \in op.todo : ~Fresh(r.frame)' /\ ~Writing(r.frame)' /\ fate'[r.frame] # "none"
    <3> SUFFICES ASSUME Loop = "rows", NEW r \in op.todo
                 PROVE  ~Fresh(r.frame)' /\ ~Writing(r.frame)' /\ fate'[r.frame] # "none"
      OBVIOUS
    <3>1. r.frame \in Frames /\ ~Fresh(r.frame) /\ ~Writing(r.frame) /\ fate[r.frame] # "none"
      BY <2>4
    <3>2. PICK g \in Frames : g = r.frame
      BY <3>1
    <3> HIDE DEF PassOK
    <3>3. ~Fresh(g)' /\ ~Writing(g)' /\ fate'[g] # "none"
      BY <2>2, <2>5, <3>1, <3>2
    <3> QED BY <3>2, <3>3 DEF Fresh, Writing
  <2>7. Loop = "orphans" => \A f \in op.todo : ~Fresh(f)'
    BY <2>2, <2>4
  <2> QED BY <2>3, <2>6, <2>7
<1>3. CASE Replay
  BY <1>3 DEF Replay, Sweepable, InState, Acting, Loop, OpTyped, Sweepable, InState
<1>4. CASE FsckBegin
  BY <1>4 DEF FsckBegin, Acting, Loop, OpTyped, Sweepable, InState
<1>5. CASE ReadJournal
  <2>1. Loop = "journal" /\ Loop' = "list"
    BY <1>5 DEF ReadJournal, Journaled, Acting, Loop, OpTyped
  <2> QED BY <1>5, <2>1 DEF ReadJournal, Journaled, Held, Sweepable, InState, OpTyped
<1>6. CASE ListRows
  <2>1. Loop = "list" /\ Loop' = "rows"
    BY <1>6 DEF ListRows, TypeOK, Acting, Loop, OpTyped
  <2>2. \A r \in rows : ~Fresh(r.frame) /\ ~Writing(r.frame) /\ fate[r.frame] # "none"
               /\ \A s \in rows : r.frame = s.frame => r = s
    BY DEF RowsOK, WritersOK, RowFrames, TypeOK, Row
  <2>3. Watched' \subseteq TodoFrames' /\ Sweepable' = Sweepable /\ Held' = Held
        /\ \A f \in Frames : Fresh(f)' = Fresh(f) /\ Writing(f)' = Writing(f)
    BY <1>6 DEF ListRows, Watched, TodoFrames, RowFrames, Sweepable, Held, InState, Fresh, Writing,
       OpTyped
  <2>4. /\ op'.todo = rows /\ op'.by = op.by /\ op'.known = op.known /\ UNCHANGED fate
        /\ \A r \in rows : r.frame \in Frames
    BY <1>6 DEF ListRows, OpTyped, TypeOK, Row
  <2> QED BY <2>1, <2>2, <2>3, <2>4
<1>7. ASSUME NEW r \in op.todo, CheckRow(r)
      PROVE  PassOK'
  <2>1. Loop = "rows" /\ Loop' = "rows" /\ op'.todo = op.todo \ {r} /\ op'.by = op.by
        /\ op'.known = op.known \cup {r.frame}
    BY <1>7 DEF CheckRow, Bad, OpTyped, Loop, Acting
  <2>2. UNCHANGED <<rows, journal, bytes, writer, fate>>
    BY <1>7 DEF CheckRow
  <2>3. /\ Watched' = Watched /\ Sweepable' = Sweepable /\ Held' = Held
        /\ \A f : Fresh(f)' = Fresh(f) /\ Writing(f)' = Writing(f)
        /\ TodoFrames \subseteq TodoFrames' \cup {r.frame}
    BY <2>1, <2>2 DEF Watched, TodoFrames, RowFrames, Sweepable, Held, InState, Fresh, Writing
  <2> QED BY <2>1, <2>2, <2>3
<1>8. CASE Quarantine
  <2>1. CASE op' = Idle
    BY <1>8, <2>1 DEF Loop, Acting
  <2>2. CASE op' = [op EXCEPT !.at = "move"]
    <3>1. Acting /\ Loop' = Loop /\ op'.todo = op.todo /\ op'.by = op.by /\ op'.known = op.known
      BY <1>8, <2>2 DEF Quarantine, OpTyped, Loop, Acting
    <3>2. UNCHANGED <<bytes, writer, fate>> /\ rows' \subseteq rows
          /\ journal' \in {journal, IF op.cur.back = "held" THEN Cleared(op.cur.frame) ELSE journal}
      BY <1>8 DEF Quarantine
    <3>3. /\ Watched' \subseteq Watched /\ Sweepable' \subseteq Sweepable /\ Held' \subseteq Held
          /\ TodoFrames' = TodoFrames /\ \A f : Fresh(f)' = Fresh(f) /\ Writing(f)' = Writing(f)
      BY <3>1, <3>2 DEF Watched, TodoFrames, RowFrames, Sweepable, Held, InState, Fresh, Writing,
         Cleared
    <3>4. Loop = "held" => op.todo \subseteq Held'
      BY <3>1, <3>2 DEF CurOK, Held, InState, Cleared
    <3> QED BY <3>1, <3>2, <3>3, <3>4
  <2> QED BY <1>8, <2>1, <2>2 DEF Quarantine
<1>9. CASE MoveAside
  <2>1. CASE op' = Idle
    BY <1>9, <2>1 DEF Loop, Acting
  <2>2. CASE op' = [op EXCEPT !.at = op.cur.back, !.cur = NoFrame]
    <3>1. Loop' = Loop /\ op'.todo = op.todo /\ op'.by = op.by /\ op'.known = op.known
      BY <1>9, <2>2 DEF MoveAside, OpTyped, Loop, Acting, Bads, Loops
    <3>2. UNCHANGED <<bytes, writer, fate, rows, journal>>
      BY <1>9 DEF MoveAside
    <3>3. /\ Watched' = Watched /\ Sweepable' = Sweepable /\ Held' = Held
          /\ TodoFrames' = TodoFrames /\ \A f : Fresh(f)' = Fresh(f) /\ Writing(f)' = Writing(f)
      BY <3>1, <3>2 DEF Watched, TodoFrames, RowFrames, Sweepable, Held, InState, Fresh, Writing
    <3> QED BY <3>1, <3>2, <3>3
  <2> QED BY <1>9, <2>1, <2>2 DEF MoveAside
<1>10. CASE ListHeld
  <2>1. Loop = "rows" /\ Loop' = "held" /\ op.todo = {} /\ op'.todo = Held /\ op'.by = op.by /\ op'.known = op.known
    BY <1>10 DEF ListHeld, OpTyped, Loop, Acting
  <2>2. /\ Watched' = Watched /\ Sweepable' = Sweepable /\ Held' = Held /\ TodoFrames = {}
    BY <1>10, <2>1 DEF ListHeld, Watched, TodoFrames, RowFrames, Sweepable, Held, InState
  <2> QED BY <2>1, <2>2
<1>11. ASSUME NEW f \in Frames, CheckHeld(f)
      PROVE  PassOK'
  <2>0. op.at = "held" /\ f \in op.todo
    BY <1>11 DEF CheckHeld
  <2>01. \/ op' = [op EXCEPT !.todo = @ \ {f}]
        \/ op' = [op EXCEPT !.todo = @ \ {f}, !.at = "bad",
                           !.cur = [frame |-> f, id |-> 0, class |-> ClassOf(f), back |-> "held"]]
    BY <1>11 DEF CheckHeld, Bad
  <2>1. /\ Loop = "held" /\ Loop' = "held" /\ op'.todo = op.todo \ {f} /\ op'.by = op.by /\ op'.known = op.known
    <3>1. op'.todo = op.todo \ {f} /\ op'.by = op.by /\ op'.known = op.known
      BY <2>01 DEF OpTyped
    <3>2. op'.at = "held" \/ (op'.at = "bad" /\ op'.cur.back = "held")
      <4> DEFINE c == [frame |-> f, id |-> 0, class |-> ClassOf(f), back |-> "held"]
      <4>1. c.back = "held"
        OBVIOUS
      <4> HIDE DEF c
      <4>2. ASSUME op' = [op EXCEPT !.todo = @ \ {f}, !.at = "bad", !.cur = c]
            PROVE  op'.at = "bad" /\ op'.cur = c
        BY <4>2 DEF OpTyped
      <4>3. ASSUME op' = [op EXCEPT !.todo = @ \ {f}]
            PROVE  op'.at = op.at
        BY <4>3 DEF OpTyped
      <4> QED BY <2>0, <2>01, <4>1, <4>2, <4>3 DEF c
    <3> QED BY <2>0, <3>1, <3>2 DEF Loop, Acting
  <2>2. UNCHANGED bytes /\ \A g : Fresh(g)' = Fresh(g)
    BY <1>11, Checked DEF Fresh
  <2>3. Watched' \subseteq Watched \cup (IF op.by = "restore" THEN {f} ELSE {})
    BY <1>11, <2>1, <2>2, Checked DEF Watched, RowFrames, Adopt, Placed
  <2>4. /\ Sweepable' \subseteq Sweepable /\ Held \ {f} \subseteq Held' /\ Held' \subseteq Held \cup {f}
    BY <1>11, Checked DEF Sweepable, Held, InState, Adopt, Cleared
  <2> QED BY <2>0, <2>1, <2>2, <2>3, <2>4
<1>12. CASE ListOrphans
  <2>1. Loop = "held" /\ Loop' = "orphans" /\ op'.todo = Unclaimed /\ op'.by = op.by /\ op'.known = op.known
    BY <1>12 DEF ListOrphans, OpTyped, Loop, Acting
  <2>2. /\ Watched' = Watched /\ Sweepable' = Sweepable /\ Held' = Held
        /\ \A f : Fresh(f)' = Fresh(f)
    BY <1>12, <2>1 DEF ListOrphans, Watched, RowFrames, Sweepable, Held, InState, Fresh
  <2>3. \A f \in Unclaimed : ~Fresh(f) /\ f \notin op.known
    BY DEF Unclaimed, WritersOK
  <2> QED BY <2>1, <2>2, <2>3
<1>13. ASSUME NEW f \in Frames, CheckOrphan(f)
      PROVE  PassOK'
  <2>0. op.at = "orphans" /\ f \in op.todo
    BY <1>13 DEF CheckOrphan
  <2>01. \/ op' = [op EXCEPT !.todo = @ \ {f}]
        \/ op' = [op EXCEPT !.todo = @ \ {f}, !.at = "bad",
                           !.cur = [frame |-> f, id |-> 0, class |-> ClassOf(f), back |-> "orphans"]]
    BY <1>13 DEF CheckOrphan, Bad
  <2>1. /\ Loop = "orphans" /\ Loop' = "orphans" /\ op'.todo = op.todo \ {f} /\ op'.by = op.by /\ op'.known = op.known
    <3>1. op'.todo = op.todo \ {f} /\ op'.by = op.by /\ op'.known = op.known
      BY <2>01 DEF OpTyped
    <3>2. op'.at = "orphans" \/ (op'.at = "bad" /\ op'.cur.back = "orphans")
      <4> DEFINE c == [frame |-> f, id |-> 0, class |-> ClassOf(f), back |-> "orphans"]
      <4>1. c.back = "orphans"
        OBVIOUS
      <4> HIDE DEF c
      <4>2. ASSUME op' = [op EXCEPT !.todo = @ \ {f}, !.at = "bad", !.cur = c]
            PROVE  op'.at = "bad" /\ op'.cur = c
        BY <4>2 DEF OpTyped
      <4>3. ASSUME op' = [op EXCEPT !.todo = @ \ {f}]
            PROVE  op'.at = op.at
        BY <4>3 DEF OpTyped
      <4> QED BY <2>0, <2>01, <4>1, <4>2, <4>3 DEF c
    <3> QED BY <2>0, <3>1, <3>2 DEF Loop, Acting
  <2>2. UNCHANGED bytes /\ \A g : Fresh(g)' = Fresh(g)
    BY <1>13, Checked DEF Fresh
  <2>3. Watched' \subseteq Watched \cup (IF op.by = "restore" THEN {f} ELSE {})
    BY <1>13, <2>1, <2>2, Checked DEF Watched, RowFrames, Adopt, Placed
  <2>4. /\ Sweepable' \subseteq Sweepable /\ Held \ {f} \subseteq Held' /\ Held' \subseteq Held \cup {f}
    BY <1>13, Checked DEF Sweepable, Held, InState, Adopt, Cleared
  <2> QED BY <2>0, <2>1, <2>2, <2>3, <2>4
<1>14. CASE ListExpired
  BY <1>14 DEF ListExpired, Expired, Acting, Loop, OpTyped, Sweepable, InState
<1>15. ASSUME NEW r \in op.todo, PurgeUnlink(r)
      PROVE  PassOK'
  BY <1>15 DEF PurgeUnlink, Acting, Loop, OpTyped, Sweepable, InState
<1>16. CASE PurgeForget
  BY <1>16 DEF PurgeForget, Acting, Loop, OpTyped, Sweepable, InState
<1>17. CASE PassEnd
  BY <1>17 DEF PassEnd, Acting, Loop, OpTyped, Sweepable, InState
<1>18. ASSUME NEW r \in records, ReleaseBegin(r)
      PROVE  PassOK'
  BY <1>18 DEF ReleaseBegin, Acting, Loop, OpTyped, Sweepable, InState
<1>19. CASE ReleaseCommit
  BY <1>19 DEF ReleaseCommit, Acting, Loop, OpTyped, Sweepable, InState
<1>20. CASE MoveBack
  BY <1>20 DEF MoveBack, Acting, Loop, OpTyped, Sweepable, InState
<1>21. ASSUME NEW r \in records, PurgeBegin(r)
      PROVE  PassOK'
  BY <1>21 DEF PurgeBegin, Acting, Loop, OpTyped, Sweepable, InState
<1>22. CASE PurgeExpiredBegin
  BY <1>22 DEF PurgeExpiredBegin, Expired, Acting, Loop, OpTyped, Sweepable, InState
<1>23. CASE Drop
  BY <1>23 DEF Drop, Happens, Acting, Loop, OpTyped, Sweepable, InState
<1>24. CASE Crash
  BY <1>24 DEF Crash, Happens, Acting, Loop, OpTyped, Sweepable, InState
<1> QED
  BY <1>1, <1>2, <1>3, <1>4, <1>5, <1>6, <1>7, <1>8, <1>9, <1>10, <1>11, <1>12, <1>13, <1>14,
     <1>15, <1>16, <1>17, <1>18, <1>19, <1>20, <1>21, <1>22, <1>23, <1>24
  DEF Next, Pass, Writers, Operator, Outside, CheckRow, PurgeUnlink, Beside

\* What holds of a frame when a pass looks at it still does when it acts.
LEMMA StepCur ==
  ASSUME BaseInv, [Next]_vars
  PROVE  CurOK'
<1> USE DEF BaseInv, Typed, CurOK, disk, index, Idle
<1>1. CASE UNCHANGED vars
  BY <1>1 DEF vars, Fresh, Writing, Watched, RowFrames, Held, InState, Sweepable, TodoFrames, Kept,
     Loop, Acting
<1>2. CASE Beside
  <2>1. Steady
    BY <1>2, BesideIsSteady
  <2>2. UNCHANGED <<op, Loop, Acting, TodoFrames>> /\ Watched' \subseteq Watched
    BY <2>1 DEF Steady, TodoFrames, Loop, Acting
  <2>3. CASE Acting
    <3> DEFINE g == op.cur.frame
    <3>1. g \in Frames /\ ~Fresh(g)
      BY <2>3 DEF OpTyped, Bads
    <3>2. ~Fresh(g)' /\ loc'[g] \in {loc[g], "none"} /\ (fate[g] # "none" => fate'[g] # "none")
      BY <2>1, <3>1 DEF Steady
    <3>3. ~Writing(g) => ~Writing(g)' /\ (bytes'[g] = bytes[g] \/ bytes'[g] = "damaged")
      BY <2>1, <3>1 DEF Steady
    <3>4. Loop = "orphans" /\ op.by = "restore" => ~Writing(g)
      BY <3>1 DEF OpTyped, WritersOK
    <3>5. op.at = "move" => \E q \in records' : q.frame = g
      BY <2>1, <2>3 DEF Steady
    <3>6. op.at \notin {"release", "released", "unlinked"}
      BY <2>3 DEF Acting
    <3> QED BY <2>2, <2>3, <3>1, <3>2, <3>3, <3>4, <3>5, <3>6 DEF Fresh, Writing
  <2>4. CASE op.at = "release"
    BY <2>1, <2>2, <2>4 DEF Steady, Acting
  <2>5. CASE op.at = "released"
    <3>1. op.cur.frame \in Frames /\ fate[op.cur.frame] # "none"
      BY <2>5 DEF OpTyped, Record
    <3>2. fate'[op.cur.frame] # "none"
      BY <2>1, <3>1 DEF Steady
    <3>3. \A q \in Kept' : q.frame # op.cur.frame
      BY <2>1, <2>5 DEF Steady, Kept
    <3> QED BY <2>2, <2>5, <3>2, <3>3 DEF Acting
  <2>6. CASE op.at = "unlinked"
    <3>1. op.cur.frame \in Frames /\ loc[op.cur.frame] # "quarantine"
      BY <2>6 DEF OpTyped, Record
    <3>2. loc'[op.cur.frame] # "quarantine"
      BY <2>1, <3>1 DEF Steady
    <3> QED BY <2>2, <2>6, <3>1, <3>2 DEF Acting
  <2> QED BY <2>2, <2>3, <2>4, <2>5, <2>6 DEF Acting
<1>3. CASE Replay \/ FsckBegin \/ ReadJournal \/ ListRows
  BY <1>3 DEF Replay, Sweepable, InState, Acting, OpTyped, FsckBegin, ReadJournal, Journaled,
     ListRows
<1>4. ASSUME NEW r \in op.todo, CheckRow(r)
      PROVE  CurOK'
  <2>1. CASE ~Acting'
    BY <1>4, <2>1 DEF CheckRow, Acting, OpTyped, Bad
  <2>2. CASE Acting'
    <3>1. /\ op.at = "rows" /\ op'.at = "bad" /\ op'.todo = op.todo \ {r} /\ op'.cur.frame = r.frame
          /\ op'.cur.back = "rows"
          /\ (bytes[r.frame] = "good" => loc[r.frame] # "segments")
      BY <1>4, <2>2 DEF CheckRow, Acting, OpTyped, Bad
    <3>2. Loop = "rows" /\ Loop' = "rows"
      BY <2>2, <3>1 DEF Loop, Acting
    <3>3. ~Fresh(r.frame) /\ ~Writing(r.frame) /\ fate[r.frame] # "none"
          /\ \A s \in op.todo : r.frame = s.frame => r = s
      BY <1>4, <3>2 DEF PassOK
    <3>4. r.frame \notin TodoFrames'
      BY <3>1, <3>3 DEF TodoFrames
    <3>5. UNCHANGED <<bytes, loc, fate, writer>>
      BY <1>4 DEF CheckRow
    <3> QED BY <3>1, <3>2, <3>3, <3>4, <3>5 DEF Fresh, Writing
  <2> QED BY <2>1, <2>2
<1>5. CASE Quarantine
  <2> DEFINE g == op.cur.frame
             r == [frame |-> op.cur.frame, id |-> op.cur.id]
  <2>1. CASE op' = Idle
    BY <2>1 DEF Acting
  <2>2. CASE op' = [op EXCEPT !.at = "move"] /\ op' # Idle
    <3>1. /\ op.at = "bad" /\ op'.at = "move" /\ op'.todo = op.todo /\ op'.by = op.by /\ op'.cur = op.cur
      BY <1>5, <2>2 DEF Quarantine, OpTyped
    <3>2. /\ op.cur \in Bads /\ (op.cur.id = 0 <=> op.cur.back # "rows") /\ op.cur.id \in Int
      BY <1>5, <3>1 DEF OpTyped, Acting, Bads
    <3>3. Acting /\ Acting' /\ Loop' = Loop /\ Loop = op.cur.back /\ TodoFrames' = TodoFrames
      BY <3>1 DEF Loop, Acting, TodoFrames
    <3>4. records' = WithRecord(op.cur) /\ UNCHANGED <<bytes, loc, fate, writer>>
      BY <1>5, <2>2 DEF Quarantine
    <3>5. \/ op.cur.id = 0 /\ rows' = rows
          \/ op.cur.id # 0 /\ r \in rows /\ rows' = rows \ {r}
      BY <1>5, <2>2, <3>2 DEF Quarantine
    <3>6. \E q \in records' : q.frame = g
      <4>1. [frame |-> g, id |-> op.cur.id, class |-> op.cur.class, old |-> FALSE] \in records'
        BY <3>4 DEF WithRecord
      <4> QED BY <4>1
    <3>7. /\ ~Fresh(g)
          /\ Loop = "rows" =>
               /\ ~Writing(g) /\ g \notin TodoFrames /\ fate[g] # "none"
               /\ bytes[g] = "good" => loc[g] # "segments"
          /\ Loop = "held" => bytes[g] # "good" /\ ~Writing(g) /\ g \notin op.todo
          /\ Loop = "orphans" /\ op.by = "restore" => bytes[g] # "good"
          /\ Loop # "rows" => g \notin Watched
      BY <3>3
    <3>8. g \notin Watched'
      <4>1. CASE op.cur.id = 0 /\ rows' = rows
        BY <3>1, <3>2, <3>3, <3>4, <3>7, <4>1 DEF Watched, RowFrames
      <4>2. CASE op.cur.id # 0 /\ r \in rows /\ rows' = rows \ {r}
        <5>1. \A s \in rows : s.frame = r.frame => s = r
          BY <4>2 DEF RowsOK
        <5>2. \A s \in rows' : s.frame # g
          BY <4>2, <5>1
        <5> QED BY <5>2 DEF Watched, RowFrames
      <4> QED BY <3>5, <4>1, <4>2
    <3>9. Fresh(g)' = Fresh(g) /\ Writing(g)' = Writing(g)
      BY <3>1, <3>4 DEF Fresh, Writing
    <3>10. op'.at \notin {"release", "released", "unlinked"}
      BY <3>1
    <3> QED BY <3>1, <3>3, <3>4, <3>6, <3>7, <3>8, <3>9, <3>10
  <2> QED BY <1>5, <2>1, <2>2 DEF Quarantine
<1>6. CASE MoveAside
  BY <1>6 DEF MoveAside, Acting, OpTyped, Bads, Loops
<1>7. CASE ListHeld
  BY <1>7 DEF ListHeld, Held, InState, Acting, OpTyped
<1>8. ASSUME NEW f \in Frames, CheckHeld(f)
      PROVE  CurOK'
  <2>1. CASE ~Acting'
    BY <1>8, <2>1 DEF CheckHeld, Acting, OpTyped, Bad
  <2>2. CASE Acting'
    <3>1. /\ op.at = "held" /\ op'.at = "bad" /\ op'.todo = op.todo \ {f} /\ f \in op.todo /\ op'.by = op.by
          /\ op'.cur = [frame |-> f, id |-> 0, class |-> ClassOf(f), back |-> "held"]
          /\ bytes[f] # "good" /\ loc[f] = "segments" /\ UNCHANGED rows
      BY <1>8, <2>2 DEF CheckHeld, Acting, OpTyped, Bad
    <3>2. Loop = "held" /\ Loop' = "held"
      BY <2>2, <3>1 DEF Loop, Acting
    <3>3. ~Fresh(f)
      BY <3>1 DEF WritersOK
    <3>4. f \notin Watched'
      BY <1>8, <3>1, <3>2, Checked DEF PassOK, Watched, RowFrames, RowsOK
    <3>5. UNCHANGED <<bytes, loc, fate, writer>>
      BY <1>8, <3>1, Checked DEF CheckHeld
    <3>6. ~Writing(f)
      BY <3>1, <3>2 DEF PassOK, WritersOK
    <3> QED BY <2>2, <3>1, <3>2, <3>3, <3>4, <3>5, <3>6 DEF Fresh, Writing
  <2> QED BY <2>1, <2>2
<1>9. CASE ListOrphans
  BY <1>9 DEF ListOrphans, Unclaimed, NotSeenTorn, Acting, OpTyped
<1>10. ASSUME NEW f \in Frames, CheckOrphan(f)
      PROVE  CurOK'
  <2>1. CASE ~Acting'
    BY <1>10, <2>1 DEF CheckOrphan, Acting, OpTyped, Bad
  <2>2. CASE Acting'
    <3>1. /\ op.at = "orphans" /\ op'.at = "bad" /\ op'.todo = op.todo \ {f} /\ f \in op.todo /\ op'.by = op.by
          /\ op'.cur = [frame |-> f, id |-> 0, class |-> ClassOf(f), back |-> "orphans"]
          /\ bytes[f] # "good" /\ loc[f] = "segments" /\ UNCHANGED rows
      BY <1>10, <2>2 DEF CheckOrphan, Acting, OpTyped, Bad
    <3>2. Loop = "orphans" /\ Loop' = "orphans"
      BY <2>2, <3>1 DEF Loop, Acting
    <3>3. ~Fresh(f)
      BY <3>1 DEF WritersOK
    <3>4. f \notin Watched'
      BY <1>10, <3>1, <3>2, Checked DEF PassOK, Watched, RowFrames, RowsOK
    <3>5. UNCHANGED <<bytes, loc, fate, writer>>
      BY <1>10, <3>1, Checked DEF CheckOrphan
    <3> QED BY <2>2, <3>1, <3>2, <3>3, <3>4, <3>5 DEF Fresh, Writing
  <2> QED BY <2>1, <2>2
<1>11. CASE ListExpired
  BY <1>11 DEF ListExpired, Expired, Acting, OpTyped
<1>12. ASSUME NEW r \in op.todo, PurgeUnlink(r)
      PROVE  CurOK'
  <2>1. op'.at = "unlinked" /\ op'.cur = r /\ r.frame \in Frames
    BY <1>12 DEF PurgeUnlink, OpTyped, Record
  <2>2. loc'[r.frame] # "quarantine"
    BY <1>12, <2>1 DEF PurgeUnlink, TypeOK
  <2> QED BY <2>1, <2>2 DEF Acting
<1>13. CASE PurgeForget
  BY <1>13 DEF PurgeForget, Acting, OpTyped
<1>14. CASE PassEnd
  BY <1>14 DEF PassEnd, Acting, OpTyped
<1>15. ASSUME NEW r \in records, ReleaseBegin(r)
      PROVE  CurOK'
  BY <1>15 DEF ReleaseBegin, Acting, OpTyped
<1>16. CASE ReleaseCommit
  <2>1. CASE op' = Idle
    BY <2>1 DEF Acting
  <2>2. CASE op' = [op EXCEPT !.at = "released"]
    <3>1. op.at = "release" /\ op'.at = "released" /\ op'.cur = op.cur
      BY <1>16, <2>2 DEF ReleaseCommit, OpTyped
    <3>2. records' = {r \in records : ~(r.frame = op.cur.frame /\ r.id = op.cur.id)} /\ UNCHANGED fate
      BY <1>16, <2>2, <3>1 DEF ReleaseCommit
    <3>3. PICK p \in Kept : p.frame = op.cur.frame /\ p.id = op.cur.id
      BY <3>1 DEF OpTyped, Kept
    <3>4. fate[p.frame] # "none" /\ \A q \in Kept : q.frame = p.frame => q.id = p.id
      BY DEF RecordsOK
    <3>5. \A q \in Kept' : q.frame # op.cur.frame
      BY <3>2, <3>3, <3>4 DEF Kept
    <3> QED BY <3>1, <3>2, <3>3, <3>4, <3>5 DEF Acting
  <2> QED BY <1>16, <2>1, <2>2 DEF ReleaseCommit
<1>17. CASE MoveBack
  BY <1>17 DEF MoveBack, Acting, OpTyped
<1>18. ASSUME NEW r \in records, PurgeBegin(r)
      PROVE  CurOK'
  BY <1>18 DEF PurgeBegin, Acting, OpTyped
<1>19. CASE PurgeExpiredBegin
  BY <1>19 DEF PurgeExpiredBegin, Expired, Acting, OpTyped
<1>20. CASE Drop
  BY <1>20 DEF Drop, Happens, Acting, OpTyped
<1>21. CASE Crash
  BY <1>21 DEF Crash, Happens, Acting, OpTyped
<1> QED
  BY <1>1, <1>2, <1>3, <1>4, <1>5, <1>6, <1>7, <1>8, <1>9, <1>10, <1>11, <1>12, <1>13, <1>14,
     <1>15, <1>16, <1>17, <1>18, <1>19, <1>20, <1>21
  DEF Next, Pass, Writers, Operator, Outside, CheckRow, PurgeUnlink, Beside

\* A restore that is cut off begins its pass anew while the marker is there.
LEMMA StepFound ==
  ASSUME BaseInv, [Next]_vars
  PROVE  FoundOK'
<1> USE DEF BaseInv, Typed, FoundOK, disk, index, Idle
<1>1. CASE UNCHANGED vars
  BY <1>1 DEF vars, Fresh, Writing, Watched, RowFrames, Held, InState, Sweepable, TodoFrames, Kept,
     Loop, Acting, Bound
<1>2. CASE Beside
  <2>1. Steady
    BY <1>2, BesideIsSteady
  <2>2. UNCHANGED <<op, Loop, found, intent>> /\ (declared => declared')
    BY <2>1 DEF Steady, Loop, Acting
  <2>3. ASSUME NEW f \in found
        PROVE  /\ bytes'[f] \notin {"none", "torn"} /\ ~Writing(f)'
               /\ Bound(f) => Bound(f)'
    <3>1. f \in Frames /\ ~Fresh(f) /\ ~Writing(f) /\ bytes[f] # "torn"
      BY DEF Fresh
    <3>2. /\ ~Writing(f)' /\ ~Fresh(f)' /\ Held' = Held /\ loc'[f] \in {loc[f], "none"}
          /\ bytes'[f] = bytes[f] \/ (bytes[f] = "good" /\ bytes'[f] = "damaged")
          /\ (fate'[f] = "none" => fate[f] = "none")
      BY <2>1, <3>1 DEF Steady
    <3> QED BY <3>1, <3>2, StaysBound DEF Fresh
  <2> QED BY <2>2, <2>3
<1>3. CASE Replay
  <2>1. StillFound
    <3>1. \A f \in found : /\ f \in Frames /\ ~Writing(f)' /\ (f \in Held => f \in Held')
                           /\ loc'[f] = "segments" => loc[f] = "segments"
                           /\ fate'[f] = "none" => fate[f] = "none"
      BY <1>3 DEF Replay, TypeOK, Writing, Held, InState, JournalOK, Sweepable
    <3>2. UNCHANGED <<found, bytes>>
      BY <1>3 DEF Replay
    <3> QED BY <3>1, <3>2, StaysBound DEF StillFound
  <2>2. UNCHANGED <<found, declared>>
    BY <1>3 DEF Replay
  <2> QED BY <1>3, <2>1, <2>2 DEF StillFound, Replay, Loop, Acting, OpTyped
<1>4. CASE FsckBegin
  BY <1>4, SameFilesFound DEF StillFound, FsckBegin, Loop, Acting, OpTyped
<1>5. CASE ReadJournal
  <2>1. StillFound
    BY <1>5, SameFilesFound DEF ReadJournal
  <2>2. UNCHANGED <<found, declared, intent, fate, loc>> /\ op'.known = Journaled /\ op'.by = op.by /\ op'.at = "list"
    BY <1>5 DEF ReadJournal, OpTyped
  <2>3. op.by = "restore" => \A f \in found : f \in op'.known => Bound(f)
    <3>1. Journaled \subseteq Sweepable \cup Held
      BY DEF Journaled, Sweepable, Held, InState, TypeOK
    <3>2. op.by = "restore" => Sweepable = {}
      BY DEF PassOK
    <3> QED BY <2>2, <3>1, <3>2 DEF Bound
  <2> QED BY <2>1, <2>2, <2>3 DEF StillFound, Loop, Acting
<1>6. CASE ListRows
  BY <1>6, SameFilesFound DEF StillFound, ListRows, Loop, Acting, OpTyped
<1>7. ASSUME NEW r \in op.todo, CheckRow(r)
      PROVE  FoundOK'
  <2>1. StillFound
    BY <1>7, SameFilesFound DEF CheckRow
  <2>2. UNCHANGED <<found, declared, intent>> /\ op.at = "rows" /\ op'.known = op.known \cup {r.frame} /\ op'.by = op.by
        /\ Loop = "rows" /\ Loop' = "rows"
    BY <1>7 DEF CheckRow, OpTyped, Bad, Loop, Acting
  <2>3. op'.at \in {"rows", "bad"}
    BY <1>7 DEF CheckRow, OpTyped, Bad
  <2>4. fate[r.frame] # "none"
    BY <1>7, <2>2 DEF PassOK
  <2>5. ASSUME NEW f \in found, op.by = "restore", f \in op'.known PROVE Bound(f)
    BY <2>2, <2>4, <2>5 DEF Bound
  <2> QED BY <2>1, <2>2, <2>3, <2>5 DEF StillFound
<1>8. CASE Quarantine
  <2> DEFINE g == op.cur.frame
  <2>1. UNCHANGED <<found, declared, intent, bytes, loc, fate, writer>>
        /\ journal' \in {journal, IF op.cur.back = "held" THEN Cleared(g) ELSE journal}
        /\ op.at = "bad"
    BY <1>8 DEF Quarantine
  <2>2. op.cur.back = "held" => bytes[g] # "good"
    BY <2>1 DEF CurOK, Acting, Loop
  <2>3. ASSUME NEW f \in found
        PROVE  /\ f \in Frames /\ bytes'[f] \notin {"none", "torn"} /\ ~Writing(f)'
               /\ Bound(f) => Bound(f)'
    <3>1. f \in Held => f \in Held' \/ bytes[f] # "good"
      BY <2>1, <2>2 DEF Held, InState, Cleared
    <3> QED BY <2>1, <3>1, StaysBound DEF Writing
  <2>4. CASE op' = Idle
    BY <2>1, <2>3, <2>4
  <2>5. CASE op' = [op EXCEPT !.at = "move"]
    <3>1. Loop' = Loop /\ op'.todo = op.todo /\ op'.by = op.by /\ op'.known = op.known /\ op'.at = "move"
      BY <2>1, <2>5 DEF OpTyped, Loop, Acting
    <3> QED BY <2>1, <2>3, <3>1
  <2> QED BY <1>8, <2>4, <2>5 DEF Quarantine
<1>9. CASE MoveAside
  <2>1. StillFound
    <3>1. \A f \in found : /\ f \in Frames /\ ~Writing(f)' /\ (f \in Held => f \in Held')
                           /\ loc'[f] = "segments" => loc[f] = "segments"
                           /\ fate'[f] = "none" => fate[f] = "none"
      BY <1>9 DEF MoveAside, TypeOK, Writing, Held, InState
    <3>2. UNCHANGED <<found, bytes>>
      BY <1>9 DEF MoveAside
    <3> QED BY <3>1, <3>2, StaysBound DEF StillFound
  <2>2. UNCHANGED <<found, declared, intent>>
    BY <1>9 DEF MoveAside
  <2>3. CASE op' = Idle
    BY <2>1, <2>2, <2>3 DEF StillFound
  <2>4. CASE op' = [op EXCEPT !.at = op.cur.back, !.cur = NoFrame]
    <3>1. Loop' = Loop /\ op'.todo = op.todo /\ op'.by = op.by /\ op'.known = op.known
          /\ op'.at \in Loops
      BY <1>9, <2>4 DEF MoveAside, OpTyped, Loop, Acting, Bads, Loops
    <3> QED BY <2>1, <2>2, <3>1 DEF Loops, StillFound
  <2> QED BY <1>9, <2>3, <2>4 DEF MoveAside
<1>10. CASE ListHeld
  BY <1>10, SameFilesFound DEF StillFound, ListHeld, Loop, Acting, OpTyped
<1>11. ASSUME NEW f \in Frames, CheckHeld(f)
      PROVE  FoundOK'
  <2>1. UNCHANGED <<found, declared, intent, bytes, loc, writer>>
    BY <1>11, Checked
  <2>2. op.at = "held" /\ f \in op.todo
    BY <1>11 DEF CheckHeld
  <2>3. /\ Loop = "held" /\ Loop' = "held" /\ op'.todo = op.todo \ {f} /\ op'.by = op.by /\ op'.known = op.known
        /\ op'.at \in {"held", "bad"}
    <3>1. CASE op' = [op EXCEPT !.todo = @ \ {f}]
      BY <2>2, <3>1 DEF OpTyped, Loop, Acting
    <3>2. CASE op' = [op EXCEPT !.todo = @ \ {f}, !.at = "bad", !.cur = Bad(f, 0, ClassOf(f), "held")]
      <4>1. /\ op'.at = "bad" /\ op'.todo = op.todo \ {f} /\ op'.by = op.by /\ op'.known = op.known
            /\ op'.cur = Bad(f, 0, ClassOf(f), "held")
        BY <3>2 DEF OpTyped
      <4>2. op'.cur.back = "held"
        BY <4>1 DEF Bad
      <4> QED BY <2>2, <4>1, <4>2 DEF Loop, Acting
    <3> QED BY <1>11, <3>1, <3>2 DEF CheckHeld
  <2>4. ASSUME NEW g \in found
        PROVE  /\ g \in Frames /\ bytes'[g] \notin {"none", "torn"} /\ ~Writing(g)'
               /\ Bound(g) => Bound(g)'
    <3>1. g \in Held => g \in Held' \/ loc'[g] # "segments" \/ fate'[g] # "none"
      BY <1>11 DEF CheckHeld, Adopt, Held, InState, Cleared, TypeOK
    <3>2. fate'[g] = "none" => fate[g] = "none"
      BY <1>11, Checked DEF Adopt, TypeOK
    <3> QED BY <2>1, <3>1, <3>2, StaysBound DEF Writing
  <2> QED BY <2>1, <2>2, <2>3, <2>4
<1>12. CASE ListOrphans
  <2>1. StillFound
    BY <1>12, SameFilesFound DEF ListOrphans
  <2>2. UNCHANGED <<found, declared, intent>> /\ op.at = "held" /\ op'.at = "orphans" /\ op'.by = op.by
        /\ op'.todo = Unclaimed
    BY <1>12 DEF ListOrphans, OpTyped
  <2>3. Loop = "held" /\ Loop' = "orphans"
    BY <2>2 DEF Loop, Acting
  <2>4. ASSUME NEW f \in found, op.by = "restore" PROVE Bound(f) \/ f \in Unclaimed
    BY <2>3, <2>4 DEF Bound, Unclaimed
  <2> QED BY <2>1, <2>2, <2>3, <2>4 DEF StillFound
<1>13. ASSUME NEW f \in Frames, CheckOrphan(f)
      PROVE  FoundOK'
  <2>1. UNCHANGED <<found, declared, intent, bytes, loc, writer>>
    BY <1>13, Checked
  <2>2. op.at = "orphans" /\ f \in op.todo
    BY <1>13 DEF CheckOrphan
  <2>3. /\ Loop = "orphans" /\ Loop' = "orphans" /\ op'.todo = op.todo \ {f} /\ op'.by = op.by /\ op'.known = op.known
        /\ op'.at \in {"orphans", "bad"}
    <3>1. CASE op' = [op EXCEPT !.todo = @ \ {f}]
      BY <2>2, <3>1 DEF OpTyped, Loop, Acting
    <3>2. CASE op' = [op EXCEPT !.todo = @ \ {f}, !.at = "bad", !.cur = Bad(f, 0, ClassOf(f), "orphans")]
      <4>1. /\ op'.at = "bad" /\ op'.todo = op.todo \ {f} /\ op'.by = op.by /\ op'.known = op.known
            /\ op'.cur = Bad(f, 0, ClassOf(f), "orphans")
        BY <3>2 DEF OpTyped
      <4>2. op'.cur.back = "orphans"
        BY <4>1 DEF Bad
      <4> QED BY <2>2, <4>1, <4>2 DEF Loop, Acting
    <3> QED BY <1>13, <3>1, <3>2 DEF CheckOrphan
  <2>4. ASSUME NEW g \in found
        PROVE  /\ g \in Frames /\ bytes'[g] \notin {"none", "torn"} /\ ~Writing(g)'
               /\ Bound(g) => Bound(g)'
    <3>1. g \in Held => g \in Held' \/ loc'[g] # "segments" \/ fate'[g] # "none"
      BY <1>13 DEF CheckOrphan, Adopt, Held, InState, Cleared, TypeOK
    <3>2. fate'[g] = "none" => fate[g] = "none"
      BY <1>13, Checked DEF Adopt, TypeOK
    <3> QED BY <2>1, <3>1, <3>2, StaysBound DEF Writing
  <2>5. ASSUME op.by = "restore", f \in found, bytes[f] = "good", loc[f] = "segments"
        PROVE  f \in Held' \/ fate'[f] # "none"
    <3>1. declared \/ f \in Tagged
      BY <2>5
    <3>2. CASE declared
      BY <1>13, <2>5, <3>2 DEF CheckOrphan, Adopt, TypeOK
    <3>3. CASE ~declared
      <4>1. journal' = journal \cup {[frame |-> f, state |-> "held"]}
        BY <1>13, <2>5, <3>1, <3>3 DEF CheckOrphan
      <4>2. [frame |-> f, state |-> "held"] \in journal'
        BY <4>1
      <4> QED BY <4>2 DEF Held, InState
    <3> QED BY <3>2, <3>3
  <2>6. op.by = "restore" /\ f \in found => Bound(f)'
    BY <2>1, <2>5 DEF Bound
  <2> QED BY <2>1, <2>2, <2>3, <2>4, <2>6
<1>14. CASE ListExpired
  BY <1>14, SameFilesFound DEF StillFound, ListExpired, Loop, Acting, OpTyped
<1>15. ASSUME NEW r \in op.todo, PurgeUnlink(r)
      PROVE  FoundOK'
  <2>1. StillFound
    <3>1. \A f \in found : /\ f \in Frames /\ ~Writing(f)' /\ (f \in Held => f \in Held')
                           /\ loc'[f] = "segments" => loc[f] = "segments"
                           /\ fate'[f] = "none" => fate[f] = "none"
      BY <1>15 DEF PurgeUnlink, TypeOK, Writing, Held, InState
    <3>2. UNCHANGED <<found, bytes>>
      BY <1>15 DEF PurgeUnlink
    <3> QED BY <3>1, <3>2, StaysBound DEF StillFound
  <2>2. UNCHANGED <<found, declared>>
    BY <1>15 DEF PurgeUnlink
  <2> QED BY <1>15, <2>1, <2>2 DEF StillFound, PurgeUnlink, Loop, Acting, OpTyped
<1>16. CASE PurgeForget
  BY <1>16, SameFilesFound DEF StillFound, PurgeForget, Loop, Acting, OpTyped
<1>17. CASE PassEnd
  <2>1. StillFound
    BY <1>17, SameFilesFound DEF PassEnd
  <2>2. UNCHANGED <<found, declared>> /\ op.at = "expired" /\ op'.at = "idle" /\ op'.by = "none"
        /\ intent' = (intent /\ op.by # "restore")
    BY <1>17 DEF PassEnd, OpTyped
  <2>3. ASSUME NEW f \in found, ~intent' PROVE Bound(f)
    BY <2>2, <2>3
  <2> QED BY <2>1, <2>2, <2>3 DEF StillFound
<1>18. ASSUME NEW r \in records, ReleaseBegin(r)
      PROVE  FoundOK'
  BY <1>18, SameFilesFound DEF StillFound, ReleaseBegin, Loop, Acting, OpTyped
<1>19. CASE ReleaseCommit
  BY <1>19, SameFilesFound DEF StillFound, ReleaseCommit, Loop, Acting, OpTyped
<1>20. CASE MoveBack
  <2>1. op.cur.frame \in Frames /\ fate[op.cur.frame] # "none" /\ op.by = "release"
    BY <1>20 DEF MoveBack, OpTyped, Record, CurOK
  <2>2. ASSUME NEW f \in found
        PROVE  /\ bytes'[f] \notin {"none", "torn"} /\ ~Writing(f)'
               /\ Bound(f) => Bound(f)'
    BY <1>20, <2>1 DEF MoveBack, Bound, Held, InState, Writing, TypeOK
  <2>3. UNCHANGED <<found, declared, intent>> /\ op' = Idle
    BY <1>20 DEF MoveBack
  <2> QED BY <2>2, <2>3
<1>21. ASSUME NEW r \in records, PurgeBegin(r)
      PROVE  FoundOK'
  BY <1>21, SameFilesFound DEF StillFound, PurgeBegin, Loop, Acting, OpTyped
<1>22. CASE PurgeExpiredBegin
  BY <1>22, SameFilesFound DEF StillFound, PurgeExpiredBegin, Loop, Acting, OpTyped
<1>23. CASE Drop
  BY <1>23, SameFilesFound DEF StillFound, Drop, Loop, Acting, OpTyped
<1>24. CASE Crash
  <2>1. StillFound
    <3>1. \A f \in found : /\ f \in Frames /\ ~Writing(f)' /\ (f \in Held => f \in Held')
                           /\ loc'[f] = "segments" => loc[f] = "segments"
                           /\ fate'[f] = "none" => fate[f] = "none"
      BY <1>24 DEF Crash, TypeOK, NoWriter, Writing, Writing, Held, InState
    <3>2. UNCHANGED <<found, bytes>>
      BY <1>24 DEF Crash
    <3> QED BY <3>1, <3>2, StaysBound DEF StillFound
  <2>2. UNCHANGED <<found, declared>>
    BY <1>24 DEF Crash
  <2> QED BY <1>24, <2>1, <2>2 DEF StillFound, Crash, Loop, Acting, OpTyped
<1> QED
  BY <1>1, <1>2, <1>3, <1>4, <1>5, <1>6, <1>7, <1>8, <1>9, <1>10, <1>11, <1>12, <1>13, <1>14,
     <1>15, <1>16, <1>17, <1>18, <1>19, <1>20, <1>21, <1>22, <1>23, <1>24
  DEF Next, Pass, Writers, Operator, Outside, CheckRow, PurgeUnlink, Beside

\* The whole invariant, step by step.
LEMMA NextBase ==
  ASSUME FramesAssumption, BaseInv, [Next]_vars
  PROVE  BaseInv'
<1>1. MaxId \in Nat /\ NoFrame \notin Frames
  BY DEF FramesAssumption
<1>2. TypeOK'
  BY <1>1, StepTypes DEF BaseInv
<1>3. OpTyped'
  BY <1>1, StepOp DEF BaseInv
<1> QED
  BY <1>2, <1>3, StepWriters, StepRows, StepRecords, StepJournal, StepPass, StepCur, StepFound
  DEF BaseInv, Typed

-----------------------------------------------------------------------------
(* What holds whatever is cut off, dies or is read half written. *)

\* The inductive invariant: frames being written, rows, records, journal, the
\* pass in progress and what a restore found fit together, over every
\* interleaving of passes, seals, swaps and the operator's requests.
THEOREM RecoveryInvariant == FramesAssumption => (Spec => []BaseInv)
<1> SUFFICES ASSUME FramesAssumption PROVE Spec => []BaseInv
  OBVIOUS
<1>1. Init => BaseInv
  BY InitBase
<1>2. BaseInv /\ [Next]_vars => BaseInv'
  BY NextBase
<1> QED BY <1>1, <1>2, PTL DEF Spec

\* fsck_inner: no pass gives a frame a second row, a restore's that is cut off
\* and run again included.
THEOREM FramesHaveOneRow == FramesAssumption => (Spec => []OneRowPerFrame)
<1> SUFFICES ASSUME FramesAssumption PROVE Spec => []OneRowPerFrame
  OBVIOUS
<1>1. BaseInv => OneRowPerFrame
  BY DEF BaseInv, RowsOK, OneRowPerFrame
<1> QED BY <1>1, RecoveryInvariant, PTL

\* open.rs: once the restore's marker is gone, every readable frame it brought
\* has a row or is held.
THEOREM RestoresAreBound == FramesAssumption => (Spec => []RestoreBinds)
<1> SUFFICES ASSUME FramesAssumption PROVE Spec => []RestoreBinds
  OBVIOUS
<1>1. BaseInv => RestoreBinds
  BY DEF BaseInv, FoundOK, Bound, RestoreBinds
<1> QED BY <1>1, RecoveryInvariant, PTL

\* quarantine_indexed_row: no step takes a row out of the index without its
\* record, but the swap that puts another under its id.
LEMMA RowsLeave ==
  ASSUME BaseInv, [Next]_vars, NEW r \in rows, r \notin rows'
  PROVE  \/ \E q \in records' : q.frame = r.frame /\ q.id = r.id
         \/ \E s \in rows' : s.id = r.id
<1>1. CASE Quarantine
  <2> DEFINE c == op.cur
             q == [frame |-> c.frame, id |-> c.id, class |-> c.class, old |-> FALSE]
  <2>1. r = [frame |-> c.frame, id |-> c.id] /\ records' = WithRecord(c)
    BY <1>1 DEF Quarantine, index
  <2>2. q \in records' /\ q.frame = r.frame /\ q.id = r.id
    BY <2>1 DEF WithRecord
  <2> QED BY <2>2
<1>2. ASSUME NEW f \in Frames, SwapCommit(f)
      PROVE  \E s \in rows' : s.id = r.id
  <2> DEFINE s == [frame |-> f, id |-> r.id]
  <2>1. s \in rows' /\ s.id = r.id
    BY <1>2 DEF SwapCommit
  <2> QED BY <2>1
<1>3. ASSUME NEW f \in Frames, CheckHeld(f) \/ CheckOrphan(f)
      PROVE  r \in rows'
  BY <1>3, Checked DEF Adopt
<1>4. CASE UNCHANGED vars
  BY <1>4 DEF vars, index
<1>5. CASE Pass
  BY <1>1, <1>3, <1>5
  DEF Pass, Replay, FsckBegin, ReadJournal, ListRows, ListHeld, ListOrphans, MoveAside, ListExpired,
      PurgeForget, PassEnd, CheckRow, PurgeUnlink, index
<1>6. CASE Writers
  BY <1>2, <1>6 DEF Writers, SealBegin, WriteFrame, SealCommit, Reap, SwapBegin, index
<1>7. CASE Operator \/ Outside
  BY <1>7
  DEF Operator, Outside, ReleaseBegin, PurgeBegin, PurgeExpiredBegin, ReleaseCommit, MoveBack, Drop,
      Crash, Age, Declare, Damage, index
<1> QED BY <1>1, <1>4, <1>5, <1>6, <1>7 DEF Next

\* quarantine_indexed_row: a row leaves the index with its record, or for the
\* row of the swap that replaces it.
THEOREM RowsLeaveOnRecord == FramesAssumption => (Spec => RowsLeaveRecorded)
<1> SUFFICES ASSUME FramesAssumption PROVE Spec => RowsLeaveRecorded
  OBVIOUS
<1>1. BaseInv /\ [Next]_vars =>
        [\A r \in rows \ rows' :
           \/ \E q \in records' : q.frame = r.frame /\ q.id = r.id
           \/ \E s \in rows' : s.id = r.id]_vars
  BY RowsLeave
<1> QED BY <1>1, RecoveryInvariant, PTL DEF Spec, RowsLeaveRecorded

-----------------------------------------------------------------------------
(* Where no pass reads a frame that is being written. *)

\* What SoundFrames speaks of.
LEMMA SoundFramesStay ==
  ASSUME SoundFrames, UNCHANGED <<rows, records, loc, bytes, fate, writer>>
  PROVE  SoundFrames'
BY DEF SoundFrames, Kept, Writing, RowFrames

\* Neither a pass nor a swap hides a good frame with a row.
LEMMA StepSoundFrames ==
  ASSUME BaseInv, SoundOK, [Next]_vars
  PROVE  SoundFrames'
<1> USE DEF BaseInv, Typed, SoundOK, SoundFrames, SoundCur, disk, index, Kept, Writing, RowFrames
<1>1. CASE UNCHANGED vars
  BY <1>1, SoundFramesStay DEF vars
<1>2. CASE FsckBegin \/ ReadJournal \/ ListRows \/ ListHeld
  BY <1>2, SoundFramesStay DEF FsckBegin, ReadJournal, ListRows, ListHeld
<1>3. CASE ListOrphans \/ ListExpired \/ PassEnd \/ PurgeExpiredBegin
  BY <1>3, SoundFramesStay DEF ListOrphans, ListExpired, PassEnd, PurgeExpiredBegin
<1>4. CASE Drop \/ Declare
  BY <1>4, SoundFramesStay DEF Drop, Declare
<1>5. CASE Replay
  <2>1. ~serving
    BY <1>5 DEF Replay, OpTyped
  <2>2. \A f \in Frames : ~Writing(f)
    BY <2>1 DEF WritersOK
  <2>3. \A f \in RowFrames : f \in Frames /\ loc'[f] = loc[f]
    BY <1>5 DEF Replay, TypeOK, Row
  <2> QED BY <1>5, <2>2, <2>3 DEF Replay
<1>6. ASSUME NEW r \in op.todo, CheckRow(r)
      PROVE  SoundFrames'
  BY <1>6, SoundFramesStay DEF CheckRow
<1>7. CASE Quarantine
  <2>1. UNCHANGED <<loc, bytes, fate, writer>>
    BY <1>7 DEF Quarantine
  <2> DEFINE g == op.cur.frame
             r == [frame |-> g, id |-> op.cur.id]
  <2>2. CASE UNCHANGED index
    BY <2>1, <2>2, SoundFramesStay
  <2>3. CASE op.cur.id > 0 /\ r \in rows /\ records' = WithRecord(op.cur) /\ rows' = rows \ {r}
    <3>1. bytes[g] # "good"
      BY <1>7, <2>3 DEF Quarantine
    <3>2. \A q \in Kept' : q \in Kept \/ q.frame = g
      BY <2>3 DEF WithRecord
    <3>3. \A f \in RowFrames : f # g => f \in RowFrames'
      BY <2>3
    <3> QED BY <2>1, <2>3, <3>1, <3>2, <3>3
  <2>4. CASE op.cur.id = 0 /\ records' = WithRecord(op.cur) /\ rows' = rows
    <3>1. Kept' \subseteq Kept
      BY <2>4 DEF WithRecord
    <3> QED BY <2>1, <2>4, <3>1
  <2> QED BY <1>7, <2>2, <2>3, <2>4 DEF Quarantine
<1>8. CASE MoveAside
  <2> DEFINE g == op.cur.frame
  <2>1. g \in Frames
    BY <1>8 DEF MoveAside, OpTyped, Acting, Bads
  <2>2. bytes[g] # "good" /\ ~Writing(g)
    BY <1>8 DEF MoveAside
  <2>3. \A f \in Frames : f # g => loc'[f] = loc[f]
    BY <1>8 DEF MoveAside, TypeOK
  <2>4. UNCHANGED <<rows, records, bytes, fate, writer>>
    BY <1>8 DEF MoveAside
  <2>5. \A q \in rows : q.frame \in Frames
    BY DEF TypeOK, Row
  <2> QED BY <2>1, <2>2, <2>3, <2>4, <2>5
<1>9. ASSUME NEW f \in Frames, CheckHeld(f) \/ CheckOrphan(f)
      PROVE  SoundFrames'
  <2>1. UNCHANGED <<bytes, loc, records, writer>>
    BY <1>9, Checked
  <2>2. CASE Adopt(f) /\ Placed(f)
    <3> DEFINE new == [frame |-> f, id |-> nextId]
    <3>1. rows' = rows \cup {new} /\ fate' = [fate EXCEPT ![f] = "live"] /\ new.frame = f
      BY <2>2 DEF Adopt
    <3>2. ~Writing(f) /\ loc[f] = "segments"
      BY <2>2 DEF Placed
    <3>3. (\A r \in rows' : r \in rows \/ r.frame = f) /\ new \in rows' /\ \A r \in rows : r \in rows'
      BY <3>1
    <3>4. \A g \in Frames : g # f => fate'[g] = fate[g]
      BY <3>1 DEF TypeOK
    <3> HIDE DEF new
    <3>5. f \in RowFrames' /\ \A g \in RowFrames : g \in RowFrames'
      BY <3>1, <3>3
    <3>6. \A r \in rows' : bytes'[r.frame] = "good" => loc'[r.frame] = "segments"
      BY <2>1, <3>2, <3>3
    <3>7. ASSUME NEW g \in Frames
          PROVE  /\ Writing(g)' => loc'[g] = "segments" /\ fate'[g] = "none"
                 /\ fate'[g] = "live" /\ bytes'[g] = "good" => g \in RowFrames'
      BY <2>1, <3>2, <3>4, <3>5
    <3> QED BY <2>1, <3>6, <3>7
  <2>3. CASE UNCHANGED <<rows, fate>>
    BY <2>1, <2>3, SoundFramesStay
  <2> QED BY <1>9, <2>2, <2>3, Checked
<1>10. ASSUME NEW r \in op.todo, PurgeUnlink(r)
      PROVE  SoundFrames'
  <2>1. r.frame \in Frames
    BY <1>10 DEF PurgeUnlink, OpTyped, Record
  <2>2. CASE loc[r.frame] # "quarantine"
    BY <1>10, <2>2, SoundFramesStay DEF PurgeUnlink
  <2>3. CASE loc[r.frame] = "quarantine"
    <3>1. UNCHANGED <<rows, records, bytes, writer>> /\ \A f \in Frames : f # r.frame => loc'[f] = loc[f] /\ fate'[f] = fate[f]
      BY <1>10, <2>3 DEF PurgeUnlink, TypeOK
    <3>2. fate'[r.frame] # "live"
      BY <1>10, <2>1, <2>3 DEF PurgeUnlink, TypeOK
    <3>3. ~Writing(r.frame) /\ \A q \in rows : q.frame = r.frame => bytes[q.frame] # "good"
      BY <2>1, <2>3
    <3>4. \A q \in rows : q.frame \in Frames
      BY DEF TypeOK, Row
    <3> QED BY <3>1, <3>2, <3>3, <3>4
  <2> QED BY <2>2, <2>3
<1>11. CASE PurgeForget
  BY <1>11 DEF PurgeForget
<1>12. ASSUME NEW f \in Frames, SealBegin(f)
      PROVE  SoundFrames'
  <2>1. /\ fate[f] = "none" /\ UNCHANGED <<rows, records, fate>>
        /\ \A g \in Frames : g # f => loc'[g] = loc[g] /\ bytes'[g] = bytes[g] /\ writer'[g] = writer[g]
        /\ loc'[f] = "segments" /\ bytes'[f] = "torn"
    BY <1>12 DEF SealBegin, TypeOK, WritersOK, Fresh
  <2>2. \A q \in rows : q.frame \in Frames
    BY DEF TypeOK, Row
  <2>3. \A q \in Kept : q.frame \in Frames
    BY DEF TypeOK, Record
  <2> QED BY <2>1, <2>2, <2>3
<1>13. ASSUME NEW f \in Frames, NEW r \in rows, SwapBegin(f, r)
      PROVE  SoundFrames'
  <2>1. /\ fate[f] = "none" /\ UNCHANGED <<rows, records, fate>>
        /\ \A g \in Frames : g # f => loc'[g] = loc[g] /\ bytes'[g] = bytes[g] /\ writer'[g] = writer[g]
        /\ loc'[f] = "segments" /\ bytes'[f] = "torn"
    BY <1>13 DEF SwapBegin, TypeOK, WritersOK, Fresh
  <2>2. \A q \in rows : q.frame \in Frames
    BY DEF TypeOK, Row
  <2>3. \A q \in Kept : q.frame \in Frames
    BY DEF TypeOK, Record
  <2> QED BY <2>1, <2>2, <2>3
<1>14. ASSUME NEW f \in Frames, WriteFrame(f)
      PROVE  SoundFrames'
  <2>1. Writing(f) /\ UNCHANGED <<rows, records, fate, loc>>
    BY <1>14 DEF WriteFrame
  <2>2. f \notin RowFrames /\ fate[f] # "live" /\ \A q \in Kept : q.frame # f
    BY <2>1 DEF WritersOK, Kept
  <2>3. \A g \in Frames : /\ g # f => bytes'[g] = bytes[g]
                          /\ Writing(g)' => Writing(g)
    BY <1>14, <2>1 DEF WriteFrame, TypeOK
  <2>4. (\A q \in rows : q.frame \in Frames) /\ \A q \in Kept : q.frame \in Frames
    BY DEF TypeOK, Row, Record
  <2> QED BY <2>1, <2>2, <2>3, <2>4
<1>15. ASSUME NEW f \in Frames, SealCommit(f)
      PROVE  SoundFrames'
  <2>1. Writing(f) /\ UNCHANGED <<records, loc, bytes>> /\ rows' = rows \cup {[frame |-> f, id |-> nextId]}
        /\ fate' = [fate EXCEPT ![f] = "live"] /\ writer' = [writer EXCEPT ![f] = NoWriter]
    BY <1>15 DEF SealCommit
  <2>2. \A g \in Frames : Writing(g)' => g # f /\ Writing(g)
    BY <2>1 DEF TypeOK, NoWriter
  <2>3. \A g \in Frames : g # f => fate'[g] = fate[g]
    BY <2>1 DEF TypeOK
  <2>4. /\ \A q \in rows' : q \in rows \/ q.frame = f
        /\ f \in RowFrames' /\ \A g \in RowFrames : g \in RowFrames'
    <3> DEFINE new == [frame |-> f, id |-> nextId]
    <3>1. new.frame = f /\ rows' = rows \cup {new}
      BY <2>1
    <3> HIDE DEF new
    <3> QED BY <3>1
  <2>5. \A q \in rows' : bytes'[q.frame] = "good" => loc'[q.frame] = "segments"
    BY <2>1, <2>4
  <2>6. ASSUME NEW g \in Frames
        PROVE  /\ Writing(g)' => loc'[g] = "segments" /\ fate'[g] = "none"
               /\ fate'[g] = "live" /\ bytes'[g] = "good" => g \in RowFrames'
    BY <2>1, <2>2, <2>3, <2>4
  <2> QED BY <2>1, <2>5, <2>6
<1>16. ASSUME NEW f \in Frames, SwapCommit(f)
      PROVE  SoundFrames'
  <2> DEFINE r == writer[f].for
  <2>1. Writing(f) /\ UNCHANGED <<records, loc, bytes>> /\ writer' = [writer EXCEPT ![f] = NoWriter]
    BY <1>16 DEF SwapCommit
  <2>2. \A g \in Frames : Writing(g)' => g # f /\ Writing(g)
    BY <2>1 DEF TypeOK, NoWriter
  <2>3. CASE UNCHANGED <<rows, fate>>
    BY <2>1, <2>2, <2>3
  <2>4. CASE /\ r \in rows /\ rows' = (rows \ {r}) \cup {[frame |-> f, id |-> r.id]}
             /\ fate' = [fate EXCEPT ![f] = "live", ![r.frame] = "swapped"]
    <3>1. r.frame \in Frames /\ r.frame # f
      BY <2>1, <2>4 DEF TypeOK, Row, WritersOK
    <3>2. \A g \in Frames : g \notin {f, r.frame} => fate'[g] = fate[g]
      BY <2>4 DEF TypeOK
    <3>3. fate'[r.frame] = "swapped"
      BY <2>4, <3>1 DEF TypeOK
    <3>4. \A g \in RowFrames : g # r.frame => g \in RowFrames'
      BY <2>4
    <3>5. f \in RowFrames' /\ \A q \in rows' : q \in rows \/ q.frame = f
      <4> DEFINE new == [frame |-> f, id |-> r.id]
      <4>1. new.frame = f /\ rows' = (rows \ {r}) \cup {new}
        BY <2>4
      <4> HIDE DEF new
      <4> QED BY <4>1
    <3>6. ~Writing(r.frame)
      BY <2>4, <3>1 DEF WritersOK
    <3>7. \A q \in rows' : bytes'[q.frame] = "good" => loc'[q.frame] = "segments"
      BY <2>1, <3>5
    <3>8. ASSUME NEW g \in Frames
          PROVE  /\ Writing(g)' => loc'[g] = "segments" /\ fate'[g] = "none"
                 /\ fate'[g] = "live" /\ bytes'[g] = "good" => g \in RowFrames'
      <4>1. ASSUME Writing(g)' PROVE loc'[g] = "segments" /\ fate'[g] = "none"
        <5>1. g # f /\ Writing(g)
          BY <2>2, <4>1
        <5>2. fate'[g] = fate[g]
          BY <3>2, <3>6, <5>1
        <5> QED BY <2>1, <5>1, <5>2
      <4>2. ASSUME fate'[g] = "live", bytes'[g] = "good" PROVE g \in RowFrames'
        <5>1. CASE g = f
          BY <3>5, <5>1
        <5>2. CASE g # f
          <6>1. g # r.frame
            BY <3>3, <4>2
          <6>2. fate[g] = "live" /\ bytes[g] = "good"
            BY <2>1, <3>2, <4>2, <5>2, <6>1
          <6> QED BY <3>4, <6>1, <6>2
        <5> QED BY <5>1, <5>2
      <4> QED BY <4>1, <4>2
    <3> QED BY <2>1, <3>7, <3>8
  <2> QED BY <1>16, <2>3, <2>4 DEF SwapCommit
<1>17. ASSUME NEW f \in Frames, Reap(f)
      PROVE  SoundFrames'
  <2>1. UNCHANGED <<rows, records, fate, bytes, writer>>
    BY <1>17 DEF Reap
  <2>2. ~Writing(f)
    BY <1>17 DEF Reap, NoWriter
  <2>3. \A g \in Frames : g # f \/ g \in RowFrames => loc'[g] = loc[g]
    BY <1>17 DEF Reap, TypeOK
  <2>4. \A q \in rows : q.frame \in Frames
    BY DEF TypeOK, Row
  <2> QED BY <2>1, <2>2, <2>3, <2>4
<1>18. ASSUME NEW r \in records, ReleaseBegin(r)
      PROVE  SoundFrames'
  BY <1>18, SoundFramesStay DEF ReleaseBegin
<1>19. CASE ReleaseCommit
  <2>1. UNCHANGED <<loc, bytes, fate, writer>> /\ op.at = "release"
    BY <1>19 DEF ReleaseCommit
  <2>2. CASE UNCHANGED <<rows, records>>
    BY <2>1, <2>2, SoundFramesStay
  <2>3. CASE /\ rows' = rows \cup {[frame |-> op.cur.frame, id |-> op.cur.id]}
             /\ records' \subseteq records
    <3>1. \E q \in Kept : q.frame = op.cur.frame
      BY <2>1 DEF CurOK, OpTyped
    <3> QED BY <2>1, <2>3, <3>1
  <2> QED BY <1>19, <2>2, <2>3 DEF ReleaseCommit
<1>20. CASE MoveBack
  <2>1. UNCHANGED <<rows, records, fate, bytes, writer>>
    BY <1>20 DEF MoveBack
  <2>2. \A g \in Frames : loc'[g] = loc[g] \/ loc'[g] = "segments"
    BY <1>20 DEF MoveBack, TypeOK
  <2>3. \A q \in rows : q.frame \in Frames
    BY DEF TypeOK, Row
  <2> QED BY <2>1, <2>2, <2>3
<1>21. ASSUME NEW r \in records, PurgeBegin(r)
      PROVE  SoundFrames'
  BY <1>21, SoundFramesStay DEF PurgeBegin
<1>22. CASE Crash
  <2>1. UNCHANGED <<rows, records, fate, bytes, loc>> /\ \A f \in Frames : ~Writing(f)'
    BY <1>22 DEF Crash, NoWriter
  <2> QED BY <2>1
<1>23. CASE Age
  <2>1. \A q \in Kept' : \E p \in Kept : p.frame = q.frame
    BY <1>23, Aged
  <2>2. UNCHANGED <<rows, fate, bytes, loc, writer>>
    BY <1>23, Aged
  <2> QED BY <2>1, <2>2
<1>24. ASSUME NEW f \in Frames, Damage(f)
      PROVE  SoundFrames'
  <2>1. UNCHANGED <<rows, records, fate, loc, writer>>
    BY <1>24 DEF Damage
  <2>2. \A g \in Frames : bytes'[g] = "good" => bytes[g] = "good"
    BY <1>24 DEF Damage, TypeOK
  <2>3. (\A q \in rows : q.frame \in Frames) /\ \A q \in Kept : q.frame \in Frames
    BY DEF TypeOK, Row, Record
  <2> QED BY <2>1, <2>2, <2>3
<1> QED
  BY <1>1, <1>2, <1>3, <1>4, <1>5, <1>6, <1>7, <1>8, <1>9, <1>10, <1>11, <1>12, <1>13, <1>14,
     <1>15, <1>16, <1>17, <1>18, <1>19, <1>20, <1>21, <1>22, <1>23, <1>24
  DEF Next, Pass, Writers, Operator, Outside, CheckRow, PurgeUnlink

\* What a pass is about to quarantine is not good: a frame being written is
\* not among the orphans it reads.
LEMMA StepSoundCur ==
  ASSUME ~Torn, BaseInv, SoundOK, [Next]_vars
  PROVE  SoundCur'
<1> USE DEF BaseInv, Typed, SoundOK, SoundCur, disk
<1>1. CASE UNCHANGED vars
  BY <1>1 DEF vars, Writing, index
<1>2. CASE Beside
  <2> DEFINE g == op.cur.frame
  <2>1. Steady
    BY <1>2, BesideIsSteady
  <2>2. op' = op
    BY <2>1 DEF Steady
  <2>3. ASSUME g \in Frames, ~Fresh(g), ~Writing(g)
        PROVE  ~Writing(g)' /\ (bytes'[g] = "good" => bytes[g] = "good")
    BY <2>1, <2>3 DEF Steady
  <2>4. CASE op.at = "bad" /\ op.cur.id # 0
    <3>1. g \in Frames /\ ~Fresh(g) /\ ~Writing(g) /\ op.cur.id \in 0 .. MaxId
      BY <2>4 DEF OpTyped, Acting, Bads, CurOK, Loop
    <3>2. [frame |-> g, id |-> op.cur.id] \in rows' => [frame |-> g, id |-> op.cur.id] \in rows
      BY <1>2, <3>1 DEF Beside, Writers, SealBegin, SwapBegin, WriteFrame, SealCommit, SwapCommit,
         Reap, Age, Declare, Damage, index, Writing
    <3> QED BY <2>2, <2>3, <2>4, <3>1, <3>2
  <2>5. CASE op.at = "move" \/ (op.at = "bad" /\ op.cur.id = 0)
    <3>1. g \in Frames /\ ~Fresh(g) /\ ~Writing(g) /\ bytes[g] # "good"
      BY <2>5 DEF OpTyped, Acting, Bads, CurOK, Loop
    <3> QED BY <2>2, <2>3, <2>5, <3>1
  <2>6. CASE op.at = "released"
    <3>1. g \in Frames /\ fate[g] # "none" /\ bytes[g] # "good"
      BY <2>6 DEF OpTyped, Record, CurOK
    <3>2. ~Fresh(g) /\ ~Writing(g)
      BY <3>1 DEF WritersOK, SoundFrames
    <3> QED BY <2>2, <2>3, <2>6, <3>1, <3>2
  <2> QED BY <2>2, <2>4, <2>5, <2>6
<1>3. CASE Replay \/ FsckBegin \/ ReadJournal \/ ListRows
  BY <1>3 DEF Replay, Idle, OpTyped, FsckBegin, ReadJournal, ListRows
<1>4. CASE ListHeld \/ ListOrphans \/ ListExpired \/ PurgeForget
  BY <1>4 DEF ListHeld, Idle, OpTyped, ListOrphans, ListExpired, PurgeForget
<1>5. ASSUME NEW r \in op.todo, CheckRow(r)
      PROVE  SoundCur'
  <2>1. CASE op'.at = "rows"
    BY <2>1
  <2>2. CASE op'.at # "rows"
    <3>1. /\ op'.at = "bad" /\ op'.cur.frame = r.frame /\ op'.cur.id = r.id /\ r \in Row
          /\ (bytes[r.frame] = "good" => loc[r.frame] # "segments")
      BY <1>5, <2>2 DEF CheckRow, OpTyped, Bad, Loop, Acting
    <3>2. r.id # 0 /\ [frame |-> r.frame, id |-> r.id] = r
      BY <3>1 DEF Row
    <3>3. r \in rows => bytes[r.frame] # "good"
      BY <3>1 DEF SoundFrames
    <3>4. UNCHANGED <<rows, bytes>>
      BY <1>5 DEF CheckRow, disk, index
    <3> QED BY <3>1, <3>2, <3>3, <3>4
  <2> QED BY <2>1, <2>2
<1>6. CASE Quarantine
  <2> DEFINE g == op.cur.frame
  <2>1. CASE op' = Idle
    BY <2>1 DEF Idle
  <2>2. CASE op' = [op EXCEPT !.at = "move"]
    <3>1. op'.at = "move" /\ op'.cur = op.cur /\ op.at = "bad" /\ UNCHANGED <<bytes, writer>>
          /\ g \in Frames /\ op.cur.id \in 0 .. MaxId
      BY <1>6, <2>2 DEF Quarantine, OpTyped, Acting, Bads
    <3>2. CASE op.cur.id = 0
      BY <3>1, <3>2 DEF Writing
    <3>3. CASE op.cur.id # 0
      <4>1. [frame |-> g, id |-> op.cur.id] \in rows
        BY <1>6, <2>2, <3>1, <3>3 DEF Quarantine, Idle
      <4>2. g \in RowFrames
        BY <4>1 DEF RowFrames
      <4>3. ~Writing(g)
        BY <3>1, <4>2 DEF WritersOK
      <4> QED BY <3>1, <4>1, <4>3 DEF Writing
    <3> QED BY <3>2, <3>3
  <2> QED BY <1>6, <2>1, <2>2 DEF Quarantine
<1>7. CASE MoveAside
  <2>1. op'.at \in Loops \cup {"idle"}
    BY <1>7 DEF MoveAside, OpTyped, Acting, Bads, Loops, Idle
  <2> QED BY <2>1 DEF Loops
<1>8. ASSUME NEW f \in Frames, CheckHeld(f)
      PROVE  SoundCur'
  <2>1. CASE op'.at = "held"
    BY <2>1
  <2>2. CASE op'.at # "held"
    <3>1. op'.at = "bad" /\ op'.cur.frame = f /\ op'.cur.id = 0 /\ bytes[f] # "good"
      <4>1. op' # [op EXCEPT !.todo = @ \ {f}]
        BY <1>8, <2>2 DEF CheckHeld, OpTyped
      <4>2. op' = [op EXCEPT !.todo = @ \ {f}, !.at = "bad", !.cur = Bad(f, 0, ClassOf(f), "held")] /\ bytes[f] # "good"
        BY <1>8, <4>1 DEF CheckHeld
      <4> QED BY <4>2 DEF OpTyped, Bad
    <3>2. UNCHANGED <<bytes, writer>>
      BY <1>8, Checked
    <3>3. ~Writing(f)
      <4>1. f \in Held
        BY <1>8 DEF CheckHeld, PassOK, Loop, Acting
      <4> QED BY <4>1 DEF WritersOK
    <3>4. [frame |-> f, id |-> 0] \notin rows'
      BY <1>8, <2>2 DEF CheckHeld, TypeOK, Row, OpTyped
    <3> QED BY <3>1, <3>2, <3>3, <3>4 DEF Writing
  <2> QED BY <2>1, <2>2
<1>9. ASSUME NEW f \in Frames, CheckOrphan(f)
      PROVE  SoundCur'
  <2>1. CASE op'.at = "orphans"
    BY <2>1
  <2>2. CASE op'.at # "orphans"
    <3>1. op'.at = "bad" /\ op'.cur.frame = f /\ op'.cur.id = 0 /\ bytes[f] # "good"
      <4>1. op' # [op EXCEPT !.todo = @ \ {f}]
        BY <1>9, <2>2 DEF CheckOrphan, OpTyped
      <4>2. op' = [op EXCEPT !.todo = @ \ {f}, !.at = "bad", !.cur = Bad(f, 0, ClassOf(f), "orphans")] /\ bytes[f] # "good"
        BY <1>9, <4>1 DEF CheckOrphan
      <4> QED BY <4>2 DEF OpTyped, Bad
    <3>2. UNCHANGED <<bytes, writer>>
      BY <1>9, Checked
    <3>3. ~Writing(f)
      <4>1. writer[f].at # "writing"
        BY <1>9 DEF CheckOrphan, NotSeenTorn
      <4> QED BY <3>1, <4>1 DEF WritersOK, Writing
    <3>4. [frame |-> f, id |-> 0] \notin rows'
      BY <1>9, <2>2 DEF CheckOrphan, TypeOK, Row, OpTyped
    <3> QED BY <3>1, <3>2, <3>3, <3>4 DEF Writing
  <2> QED BY <2>1, <2>2
<1>10. ASSUME NEW r \in op.todo, PurgeUnlink(r)
      PROVE  SoundCur'
  BY <1>10 DEF PurgeUnlink, Idle, OpTyped
<1>11. CASE PassEnd
  BY <1>11 DEF PassEnd, Idle, OpTyped
<1>12. ASSUME NEW r \in records, ReleaseBegin(r)
      PROVE  SoundCur'
  BY <1>12 DEF ReleaseBegin, Idle, OpTyped
<1>13. CASE ReleaseCommit
  <2>1. CASE op' = Idle
    BY <2>1 DEF Idle
  <2>2. CASE op' = [op EXCEPT !.at = "released"]
    <3>1. op.at = "release" /\ op'.at = "released" /\ op'.cur = op.cur /\ UNCHANGED bytes
      BY <1>13, <2>2 DEF ReleaseCommit, OpTyped, disk
    <3>2. \E q \in Kept : q.frame = op.cur.frame
      BY <3>1 DEF CurOK, OpTyped, Kept
    <3> QED BY <3>1, <3>2 DEF SoundFrames
  <2> QED BY <1>13, <2>1, <2>2 DEF ReleaseCommit
<1>14. CASE MoveBack
  BY <1>14 DEF MoveBack, Idle, OpTyped
<1>15. ASSUME NEW r \in records, PurgeBegin(r)
      PROVE  SoundCur'
  BY <1>15 DEF PurgeBegin, Idle, OpTyped
<1>16. CASE PurgeExpiredBegin
  BY <1>16 DEF PurgeExpiredBegin, Idle, OpTyped
<1>17. CASE Drop
  BY <1>17 DEF Drop, Idle, OpTyped
<1>18. CASE Crash
  BY <1>18 DEF Crash, Idle, OpTyped
<1> QED
  BY <1>1, <1>2, <1>3, <1>4, <1>5, <1>6, <1>7, <1>8, <1>9, <1>10, <1>11, <1>12, <1>13, <1>14,
     <1>15, <1>16, <1>17, <1>18 DEF Next, Pass, Writers, Operator, Outside, CheckRow, PurgeUnlink,
     Beside

\* fsck beside seals and swaps: what a commit published and nobody damaged
\* stays readable, if no pass reads a frame that a seal is still writing.
THEOREM HealthyStays == FramesAssumption /\ ~Torn => (Spec => []HealthyStaysReadable)
<1> SUFFICES ASSUME FramesAssumption, ~Torn PROVE Spec => []HealthyStaysReadable
  OBVIOUS
<1>1. Init => BaseInv /\ SoundOK
  BY InitBase
<1>2. (BaseInv /\ SoundOK) /\ [Next]_vars => (BaseInv /\ SoundOK)'
  BY NextBase, StepSoundFrames, StepSoundCur DEF SoundOK
<1>3. BaseInv /\ SoundOK => HealthyStaysReadable
  BY DEF SoundOK, SoundFrames, HealthyStaysReadable, RowFrames
<1> QED BY <1>1, <1>2, <1>3, PTL DEF Spec

-----------------------------------------------------------------------------
(* Where no release is cut off. *)

\* A step that moves nothing into or out of quarantine/, and of a frame that
\* another build wrote changes neither file, fate, row nor record.
Untouched ==
  /\ \A f \in Frames :
       /\ loc'[f] = "quarantine" <=> loc[f] = "quarantine"
       /\ bytes'[f] = "newer" =>
            /\ bytes[f] = "newer" /\ loc'[f] = loc[f] /\ fate'[f] = fate[f]
            /\ f \in RowFrames' => f \in RowFrames
  /\ \A q \in records' : \E p \in records : p.frame = q.frame /\ p.class = q.class
  /\ \A p \in records : \E q \in records' : q.frame = p.frame

\* What such a step preserves.
LEMMA ListedStays ==
  ASSUME ListedFrames, Untouched, op.at = "released" => op' = op
  PROVE  ListedFrames'
<1>1. QuarantineListed'
  BY DEF ListedFrames, QuarantineListed, Untouched
<1>2. SparedFrames'
  BY DEF ListedFrames, SparedFrames, Untouched, Gone
<1> QED BY <1>1, <1>2 DEF ListedFrames

\* A step of the index and the files that changes none is such a step.
LEMMA SameFilesUntouched ==
  ASSUME UNCHANGED <<loc, bytes, fate, rows, records>>
  PROVE  Untouched
BY DEF Untouched, RowFrames

\* So are those of the seals, the swaps and the reaper, and time and damage.
LEMMA BesideIsUntouched ==
  ASSUME BaseInv, Beside
  PROVE  Untouched /\ op' = op
<1> USE DEF BaseInv, Typed, disk, index
<1>1. ASSUME NEW f \in Frames, SealBegin(f) PROVE Untouched /\ op' = op
  BY <1>1 DEF SealBegin, Untouched, WritersOK, Fresh, RowFrames, TypeOK
<1>2. ASSUME NEW f \in Frames, NEW r \in rows, SwapBegin(f, r) PROVE Untouched /\ op' = op
  BY <1>2 DEF SwapBegin, Untouched, WritersOK, Fresh, RowFrames, TypeOK
<1>3. ASSUME NEW f \in Frames, WriteFrame(f) PROVE Untouched /\ op' = op
  BY <1>3 DEF WriteFrame, Untouched, RowFrames, TypeOK
<1>4. ASSUME NEW f \in Frames, SealCommit(f) PROVE Untouched /\ op' = op
  <2>1. bytes[f] = "good"
    BY <1>4 DEF SealCommit, WritersOK, Writing
  <2>2. \A g \in RowFrames' : g = f \/ g \in RowFrames
    BY <1>4 DEF SealCommit, RowFrames
  <2> QED BY <1>4, <2>1, <2>2 DEF SealCommit, Untouched, TypeOK
<1>5. ASSUME NEW f \in Frames, SwapCommit(f) PROVE Untouched /\ op' = op
  <2> DEFINE r == writer[f].for
  <2>1. bytes[f] = "good" /\ bytes[r.frame] # "newer" /\ UNCHANGED <<loc, bytes, records, op>>
    BY <1>5 DEF SwapCommit, WritersOK, Writing
  <2>2. \A g \in RowFrames' : g = f \/ g \in RowFrames
    BY <1>5 DEF SwapCommit, RowFrames
  <2>3. \A g \in Frames : g \notin {f, r.frame} => fate'[g] = fate[g]
    BY <1>5 DEF SwapCommit, TypeOK
  <2> HIDE DEF r
  <2> QED BY <2>1, <2>2, <2>3 DEF Untouched
<1>6. ASSUME NEW f \in Frames, Reap(f) PROVE Untouched /\ op' = op
  <2>1. bytes[f] # "newer"
    BY <1>6 DEF Reap, JournalOK
  <2> QED BY <1>6, <2>1 DEF Reap, Untouched, RowFrames, TypeOK
<1>7. CASE Age
  BY <1>7, Aged DEF Untouched, RowFrames
<1>8. CASE Declare
  BY <1>8, SameFilesUntouched DEF Declare
<1>9. ASSUME NEW f \in Frames, Damage(f) PROVE Untouched /\ op' = op
  BY <1>9 DEF Damage, Untouched, RowFrames, TypeOK
<1> QED
  BY <1>1, <1>2, <1>3, <1>4, <1>5, <1>6, <1>7, <1>8, <1>9 DEF Beside, Writers

\* And so is the check of a held frame or of an orphan: it adopts good ones.
LEMMA CheckedIsUntouched ==
  ASSUME BaseInv, NEW f \in Frames, CheckHeld(f) \/ CheckOrphan(f)
  PROVE  Untouched
<1>1. UNCHANGED <<loc, bytes, records>>
  BY Checked
<1>2. CASE Adopt(f) /\ Placed(f)
  <2>1. bytes[f] = "good" /\ fate' = [fate EXCEPT ![f] = "live"]
    BY <1>2 DEF Adopt, Placed
  <2>2. \A g \in RowFrames' : g = f \/ g \in RowFrames
    BY <1>2 DEF Adopt, RowFrames
  <2> QED BY <1>1, <2>1, <2>2 DEF Untouched, BaseInv, Typed, TypeOK
<1>3. CASE UNCHANGED <<rows, fate>>
  BY <1>1, <1>3, SameFilesUntouched
<1> QED BY <1>2, <1>3, Checked

\* A file enters quarantine/ after its record and leaves it before, but for a
\* release, which is in progress meanwhile.
LEMMA StepListed ==
  ASSUME "release" \notin CutOff, BaseInv, ReleaseUncut, [Next]_vars
  PROVE  ListedFrames'
<1> USE DEF BaseInv, Typed, ReleaseUncut, disk, index
<1>1. CASE UNCHANGED vars
  BY <1>1, SameFilesUntouched, ListedStays DEF vars
<1>2. CASE Beside
  BY <1>2, BesideIsUntouched, ListedStays
<1>3. CASE FsckBegin \/ ReadJournal \/ ListRows \/ ListHeld
  BY <1>3, SameFilesUntouched, ListedStays DEF FsckBegin, Idle, ReadJournal, ListRows, ListHeld
<1>4. CASE ListOrphans \/ ListExpired \/ PassEnd \/ PurgeExpiredBegin
  BY <1>4, SameFilesUntouched, ListedStays
  DEF ListOrphans, Idle, ListExpired, PassEnd, PurgeExpiredBegin
<1>5. CASE Replay
  <2>1. \A f \in Frames : /\ loc'[f] = loc[f] \/ (f \in Sweepable /\ loc[f] = "segments" /\ loc'[f] = "none")
    BY <1>5 DEF Replay, TypeOK
  <2>2. \A f \in Frames : bytes[f] = "newer" => loc'[f] = loc[f]
    BY <2>1 DEF JournalOK
  <2>3. UNCHANGED <<bytes, fate, rows, records>>
    BY <1>5 DEF Replay
  <2>4. Untouched
    BY <2>1, <2>2, <2>3 DEF Untouched, RowFrames
  <2> QED BY <1>5, <2>4, ListedStays DEF Replay
<1>6. ASSUME NEW r \in op.todo, CheckRow(r)
      PROVE  ListedFrames'
  BY <1>6, SameFilesUntouched, ListedStays DEF CheckRow, Idle
<1>7. CASE Quarantine
  <2> DEFINE g == op.cur.frame
  <2>1. op.at = "bad" /\ UNCHANGED <<loc, bytes, fate>> /\ rows' \subseteq rows
    BY <1>7 DEF Quarantine
  <2>2. CASE records' = records
    BY <2>1, <2>2, ListedStays DEF Untouched, RowFrames
  <2>3. CASE records' = WithRecord(op.cur)
    <3>1. \A q \in records' : q \in records \/ (q.frame = g /\ q.class = op.cur.class)
      BY <2>3 DEF WithRecord
    <3>2. \E q \in records' : q.frame = g
      <4> DEFINE new == [frame |-> g, id |-> op.cur.id, class |-> op.cur.class, old |-> FALSE]
      <4>1. new \in records'
        BY <2>3 DEF WithRecord
      <4>2. new.frame = g
        OBVIOUS
      <4> QED BY <4>1, <4>2
    <3>3. \A p \in records : p.frame = g \/ p \in records'
      BY <2>3 DEF WithRecord
    <3>4. QuarantineListed'
      BY <2>1, <3>2, <3>3 DEF ListedFrames, QuarantineListed
    <3>5. RowFrames' \subseteq RowFrames
      BY <2>1 DEF RowFrames
    <3>6. SparedFrames'
      BY <2>1, <3>1, <3>5 DEF ListedFrames, SparedFrames, SparedByPass, Gone
    <3> QED BY <3>4, <3>6 DEF ListedFrames
  <2> QED BY <1>7, <2>2, <2>3 DEF Quarantine
<1>8. CASE MoveAside
  <2> DEFINE g == op.cur.frame
  <2>1. /\ op.at = "move" /\ UNCHANGED <<bytes, fate, rows, records>> /\ g \in Frames
        /\ loc' = IF loc[g] = "segments" THEN [loc EXCEPT ![g] = "quarantine"] ELSE loc
    BY <1>8 DEF MoveAside, OpTyped, Acting, Bads
  <2>2. CASE loc[g] # "segments"
    BY <2>1, <2>2, SameFilesUntouched, ListedStays
  <2>3. CASE loc[g] = "segments"
    <3>1. loc'[g] = "quarantine" /\ \A f \in Frames : f # g => loc'[f] = loc[f]
      BY <2>1, <2>3 DEF TypeOK
    <3>2. (\E q \in records : q.frame = g) /\ g \notin Watched
      BY <2>1 DEF CurOK, Acting
    <3>3. QuarantineListed'
      BY <2>1, <3>1, <3>2 DEF ListedFrames, QuarantineListed
    <3>4. bytes[g] = "newer" => g \notin RowFrames /\ \A q \in records : q.frame = g => q.class # "corrupt"
      BY <2>1, <2>3, <3>2 DEF Watched, ListedFrames, SparedFrames, Gone
    <3>5. RowFrames' = RowFrames
      BY <2>1 DEF RowFrames
    <3>6. SparedFrames'
      BY <2>1, <3>1, <3>4, <3>5 DEF ListedFrames, SparedFrames, Gone
    <3> QED BY <3>3, <3>6 DEF ListedFrames
  <2> QED BY <2>2, <2>3
<1>9. ASSUME NEW f \in Frames, CheckHeld(f)
      PROVE  ListedFrames'
  BY <1>9, CheckedIsUntouched, ListedStays DEF CheckHeld
<1>10. ASSUME NEW f \in Frames, CheckOrphan(f)
      PROVE  ListedFrames'
  BY <1>10, CheckedIsUntouched, ListedStays DEF CheckOrphan
<1>11. ASSUME NEW r \in op.todo, PurgeUnlink(r)
      PROVE  ListedFrames'
  <2> DEFINE g == r.frame
  <2>1. /\ op.at = "expired" /\ r \in op.todo /\ g \in Frames /\ UNCHANGED <<bytes, rows, records>>
    BY <1>11 DEF PurgeUnlink, OpTyped, Record
  <2>2. CASE loc[g] # "quarantine"
    BY <1>11, <2>1, <2>2, SameFilesUntouched, ListedStays DEF PurgeUnlink
  <2>3. CASE loc[g] = "quarantine"
    <3>1. /\ loc'[g] = "none" /\ \A f \in Frames : f # g => loc'[f] = loc[f] /\ fate'[f] = fate[f]
          /\ (op.by = "purge" => fate'[g] = "purged")
      BY <1>11, <2>1, <2>3 DEF PurgeUnlink, TypeOK
    <3>2. bytes[g] = "newer" => op.by = "purge"
      BY <2>1, <2>3 DEF SparedByPass, Gone
    <3>3. QuarantineListed'
      BY <2>1, <3>1 DEF ListedFrames, QuarantineListed
    <3>4. RowFrames' = RowFrames
      BY <2>1 DEF RowFrames
    <3>5. SparedFrames'
      BY <2>1, <3>1, <3>2, <3>4 DEF ListedFrames, SparedFrames, Gone
    <3> QED BY <3>3, <3>5 DEF ListedFrames
  <2> QED BY <2>2, <2>3
<1>12. CASE PurgeForget
  <2>1. /\ op.at = "unlinked" /\ UNCHANGED <<loc, bytes, fate, rows>>
        /\ records' = {r \in records : ~(r.frame = op.cur.frame /\ r.id = op.cur.id)}
    BY <1>12 DEF PurgeForget
  <2>2. loc[op.cur.frame] # "quarantine"
    BY <2>1 DEF CurOK
  <2>3. QuarantineListed'
    BY <2>1, <2>2 DEF ListedFrames, QuarantineListed
  <2>4. RowFrames' = RowFrames
    BY <2>1 DEF RowFrames
  <2>5. SparedFrames'
    BY <2>1, <2>4 DEF ListedFrames, SparedFrames, Gone
  <2> QED BY <2>3, <2>5 DEF ListedFrames
<1>13. ASSUME NEW r \in records, ReleaseBegin(r)
      PROVE  ListedFrames'
  BY <1>13, SameFilesUntouched, ListedStays DEF ReleaseBegin, Idle
<1>14. CASE ReleaseCommit
  <2>1. op.at = "release" /\ UNCHANGED <<loc, bytes, fate>>
    BY <1>14 DEF ReleaseCommit
  <2>2. CASE UNCHANGED <<rows, records>>
    BY <2>1, <2>2, SameFilesUntouched, ListedStays
  <2>3. CASE /\ rows' = rows \cup {[frame |-> op.cur.frame, id |-> op.cur.id]}
             /\ records' = {r \in records : ~(r.frame = op.cur.frame /\ r.id = op.cur.id)}
             /\ op' = [op EXCEPT !.at = "released"]
    <3>1. op'.at = "released" /\ op'.cur = op.cur
      BY <2>3 DEF OpTyped
    <3>2. \A f \in RowFrames' : f = op.cur.frame \/ f \in RowFrames
      BY <2>3 DEF RowFrames
    <3>3. QuarantineListed'
      BY <2>1, <2>3, <3>1 DEF ListedFrames, QuarantineListed
    <3>4. SparedFrames'
      BY <2>1, <2>3, <3>1, <3>2 DEF ListedFrames, SparedFrames, Gone
    <3> QED BY <3>3, <3>4 DEF ListedFrames
  <2> QED BY <1>14, <2>2, <2>3 DEF ReleaseCommit
<1>15. CASE MoveBack
  <2> DEFINE g == op.cur.frame
  <2>1. /\ op.at = "released" /\ UNCHANGED <<bytes, fate, rows, records>> /\ g \in Frames
        /\ loc' = IF loc[g] = "quarantine" THEN [loc EXCEPT ![g] = "segments"] ELSE loc
    BY <1>15 DEF MoveBack, OpTyped, Record
  <2>2. loc'[g] # "quarantine" /\ (loc'[g] = "none" => loc[g] = "none")
    BY <2>1 DEF TypeOK
  <2>3. \A f \in Frames : f # g => loc'[f] = loc[f]
    BY <2>1 DEF TypeOK
  <2>4. QuarantineListed'
    BY <2>1, <2>2, <2>3 DEF ListedFrames, QuarantineListed
  <2>5. RowFrames' = RowFrames
    BY <2>1 DEF RowFrames
  <2>6. ASSUME NEW f \in Frames, bytes'[f] = "newer"
        PROVE  /\ Gone(f)' => fate'[f] = "purged"
               /\ loc'[f] = "quarantine" => f \notin RowFrames'
               /\ \A q \in records' : q.frame = f /\ q.class = "corrupt" => Gone(f)'
    <3>1. /\ loc[f] = "none" => fate[f] = "purged"
          /\ f \in RowFrames /\ loc[f] = "quarantine" => g = f
          /\ \A q \in records : q.frame = f /\ q.class = "corrupt" => loc[f] = "none"
      BY <2>1, <2>6 DEF ListedFrames, SparedFrames, Gone
    <3>2. loc[f] = "none" <=> loc'[f] = "none"
      BY <2>1, <2>2, <2>3
    <3>3. Gone(f)' <=> loc'[f] = "none"
      BY DEF Gone
    <3> QED BY <2>1, <2>2, <2>3, <2>5, <3>1, <3>2, <3>3
  <2> QED BY <2>4, <2>6 DEF ListedFrames, SparedFrames
<1>16. ASSUME NEW r \in records, PurgeBegin(r)
      PROVE  ListedFrames'
  BY <1>16, SameFilesUntouched, ListedStays DEF PurgeBegin, Idle
<1>17. CASE Drop
  <2>1. op.at # "released"
    BY <1>17 DEF Drop, OpTyped, Idle
  <2> QED BY <1>17, <2>1, SameFilesUntouched, ListedStays DEF Drop
<1>18. CASE Crash
  <2>1. op.at # "released"
    BY <1>18 DEF Crash, OpTyped, Idle
  <2> QED BY <1>18, <2>1, SameFilesUntouched, ListedStays DEF Crash
<1> QED
  BY <1>1, <1>2, <1>3, <1>4, <1>5, <1>6, <1>7, <1>8, <1>9, <1>10, <1>11, <1>12, <1>13, <1>14,
     <1>15, <1>16, <1>17, <1>18 DEF Next, Pass, Writers, Operator, Outside, CheckRow, PurgeUnlink,
     Beside

\* A pass classes a frame as corrupt, or takes it from the expired, only when it
\* is this build's, or gone.
LEMMA StepSparedByPass ==
  ASSUME BaseInv, ReleaseUncut, [Next]_vars
  PROVE  SparedByPass'
<1> USE DEF BaseInv, Typed, ReleaseUncut, SparedByPass
<1>1. CASE UNCHANGED vars
  BY <1>1 DEF vars, disk, Gone, Loop, Acting
<1>2. CASE Beside
  <2>1. Untouched /\ op' = op
    BY <1>2, BesideIsUntouched
  <2> QED BY <2>1 DEF Untouched, Gone, Loop, Acting
<1>3. CASE Replay \/ FsckBegin \/ ReadJournal \/ ListHeld
  BY <1>3 DEF Replay, Idle, Loop, Acting, OpTyped, FsckBegin, ReadJournal, ListHeld
<1>4. CASE ListRows
  <2>1. op.at = "list" /\ op'.at = "rows" /\ op'.todo = rows /\ UNCHANGED <<bytes, loc>>
    BY <1>4 DEF ListRows, OpTyped, disk
  <2>2. \A r \in rows : r.frame \in RowFrames
    BY DEF RowFrames
  <2> QED BY <2>1, <2>2 DEF ListedFrames, SparedFrames
<1>5. ASSUME NEW r \in op.todo, CheckRow(r)
      PROVE  SparedByPass'
  <2>1. op.at = "rows" /\ r \in op.todo /\ UNCHANGED <<bytes, loc>> /\ op'.todo = op.todo \ {r}
    BY <1>5 DEF CheckRow, OpTyped, disk
  <2>2. Loop = "rows" /\ op'.at \in {"rows", "bad"}
    BY <1>5, <2>1 DEF CheckRow, OpTyped, Loop, Acting
  <2>3. ASSUME op'.at = "bad", bytes[r.frame] = "newer", op'.cur.class = "corrupt"
        PROVE  Gone(r.frame)
    <3>1. loc[r.frame] # "segments"
      BY <1>5, <2>1, <2>3 DEF CheckRow, OpTyped, Bad, ClassOf
    <3>2. r.frame \in Frames
      BY <2>1, <2>2 DEF OpTyped, Row
    <3>3. loc[r.frame] # "quarantine"
      BY <2>1, <2>2, <2>3, <3>2
    <3> QED BY <3>1, <3>2, <3>3 DEF TypeOK, Gone
  <2>4. op'.at = "bad" => op'.cur.frame = r.frame
    BY <1>5, <2>1 DEF CheckRow, OpTyped, Bad
  <2> QED BY <2>1, <2>2, <2>3, <2>4 DEF Gone
<1>6. CASE Quarantine
  <2>1. CASE op' = Idle
    BY <2>1 DEF Idle, Loop, Acting
  <2>2. CASE op' = [op EXCEPT !.at = "move"]
    <3>1. op.at = "bad" /\ op'.at = "move" /\ op'.cur = op.cur /\ op'.todo = op.todo /\ UNCHANGED <<bytes, loc>>
      BY <1>6, <2>2 DEF Quarantine, OpTyped, disk
    <3>2. Loop' = Loop
      BY <3>1 DEF Loop, Acting
    <3> QED BY <3>1, <3>2
  <2> QED BY <1>6, <2>1, <2>2 DEF Quarantine
<1>7. CASE MoveAside
  <2>1. CASE op' = Idle
    BY <2>1 DEF Idle, Loop, Acting
  <2>2. CASE op' = [op EXCEPT !.at = op.cur.back, !.cur = NoFrame]
    <3>1. op'.at = op.cur.back /\ op.cur.back \in Loops /\ op'.todo = op.todo /\ UNCHANGED bytes /\ op.at = "move"
      BY <1>7, <2>2 DEF MoveAside, OpTyped, Acting, Bads
    <3>2. Loop = op.cur.back /\ Loop' = op.cur.back
      BY <3>1 DEF Loop, Acting, Loops
    <3>3. Loop = "rows" => \A r \in op.todo : r.frame # op.cur.frame
      BY <3>1 DEF CurOK, Acting, TodoFrames
    <3>4. \A f \in Frames : f # op.cur.frame => loc'[f] = loc[f]
      BY <1>7 DEF MoveAside, TypeOK
    <3> QED BY <3>1, <3>2, <3>3, <3>4 DEF Loops
  <2> QED BY <1>7, <2>1, <2>2 DEF MoveAside
<1>8. ASSUME NEW f \in Frames, CheckHeld(f)
      PROVE  SparedByPass'
  <2>1. op.at = "held" /\ UNCHANGED <<bytes, loc>>
    BY <1>8, Checked DEF CheckHeld
  <2>2. CASE op' = [op EXCEPT !.todo = @ \ {f}]
    BY <2>1, <2>2 DEF OpTyped, Loop, Acting
  <2>3. CASE op' = [op EXCEPT !.todo = @ \ {f}, !.at = "bad", !.cur = Bad(f, 0, ClassOf(f), "held")]
    <3>1. op'.at = "bad" /\ op'.cur = Bad(f, 0, ClassOf(f), "held")
      BY <2>3 DEF OpTyped
    <3>2. op'.cur.frame = f /\ op'.cur.back = "held" /\ (bytes[f] = "newer" => op'.cur.class = "suspect")
      BY <3>1 DEF Bad, ClassOf
    <3> QED BY <2>1, <3>1, <3>2 DEF Loop, Acting
  <2> QED BY <1>8, <2>2, <2>3 DEF CheckHeld
<1>9. CASE ListOrphans
  BY <1>9 DEF ListOrphans, Idle, Loop, Acting, OpTyped
<1>10. ASSUME NEW f \in Frames, CheckOrphan(f)
      PROVE  SparedByPass'
  <2>1. op.at = "orphans" /\ UNCHANGED <<bytes, loc>>
    BY <1>10, Checked DEF CheckOrphan
  <2>2. CASE op' = [op EXCEPT !.todo = @ \ {f}]
    BY <2>1, <2>2 DEF OpTyped, Loop, Acting
  <2>3. CASE op' = [op EXCEPT !.todo = @ \ {f}, !.at = "bad", !.cur = Bad(f, 0, ClassOf(f), "orphans")]
    <3>1. op'.at = "bad" /\ op'.cur = Bad(f, 0, ClassOf(f), "orphans")
      BY <2>3 DEF OpTyped
    <3>2. op'.cur.frame = f /\ op'.cur.back = "orphans" /\ (bytes[f] = "newer" => op'.cur.class = "suspect")
      BY <3>1 DEF Bad, ClassOf
    <3> QED BY <2>1, <3>1, <3>2 DEF Loop, Acting
  <2> QED BY <1>10, <2>2, <2>3 DEF CheckOrphan
<1>11. CASE ListExpired
  <2>1. op'.at = "expired" /\ op'.todo = Expired /\ UNCHANGED <<bytes, loc>>
    BY <1>11 DEF ListExpired, OpTyped, Idle, disk
  <2>2. \A q \in Expired : q \in records /\ q.class = "corrupt"
    BY DEF Expired
  <2> QED BY <2>1, <2>2 DEF ListedFrames, SparedFrames, Gone, Loop, Acting
<1>12. ASSUME NEW r \in op.todo, PurgeUnlink(r)
      PROVE  SparedByPass'
  <2>1. op.at = "expired" /\ op'.at = "unlinked" /\ op'.by = op.by /\ op'.todo = op.todo \ {r} /\ UNCHANGED bytes
    BY <1>12 DEF PurgeUnlink, OpTyped
  <2>2. \A f \in Frames : Gone(f) => Gone(f)'
    BY <1>12 DEF PurgeUnlink, TypeOK, Gone
  <2> QED BY <2>1, <2>2 DEF Loop, Acting
<1>13. CASE PurgeForget
  <2>1. op.at = "unlinked" /\ op'.at = "expired" /\ op'.by = op.by /\ op'.todo = op.todo /\ UNCHANGED <<bytes, loc>>
    BY <1>13 DEF PurgeForget, OpTyped, disk
  <2> QED BY <2>1 DEF Loop, Acting, Gone
<1>14. CASE PassEnd
  BY <1>14 DEF PassEnd, Idle, Loop, Acting, OpTyped
<1>15. ASSUME NEW r \in records, ReleaseBegin(r)
      PROVE  SparedByPass'
  BY <1>15 DEF ReleaseBegin, Idle, Loop, Acting, OpTyped
<1>16. CASE ReleaseCommit
  BY <1>16 DEF ReleaseCommit, Idle, Loop, Acting, OpTyped
<1>17. CASE MoveBack
  BY <1>17 DEF MoveBack, Idle, Loop, Acting, OpTyped
<1>18. ASSUME NEW r \in records, PurgeBegin(r)
      PROVE  SparedByPass'
  BY <1>18 DEF PurgeBegin, Idle, Loop, Acting, OpTyped
<1>19. CASE PurgeExpiredBegin
  <2>1. op'.at = "expired" /\ op'.todo = Expired /\ UNCHANGED <<bytes, loc>>
    BY <1>19 DEF PurgeExpiredBegin, OpTyped, Idle, disk
  <2>2. \A q \in Expired : q \in records /\ q.class = "corrupt"
    BY DEF Expired
  <2> QED BY <2>1, <2>2 DEF ListedFrames, SparedFrames, Gone, Loop, Acting
<1>20. CASE Drop
  BY <1>20 DEF Drop, Idle, Loop, Acting, OpTyped
<1>21. CASE Crash
  BY <1>21 DEF Crash, Idle, Loop, Acting, OpTyped
<1> QED
  BY <1>1, <1>2, <1>3, <1>4, <1>5, <1>6, <1>7, <1>8, <1>9, <1>10, <1>11, <1>12, <1>13, <1>14,
     <1>15, <1>16, <1>17, <1>18, <1>19, <1>20, <1>21
  DEF Next, Pass, Writers, Operator, Outside, CheckRow, PurgeUnlink, Beside

\* Both parts, with the base.
LEMMA Uncut ==
  ASSUME FramesAssumption, "release" \notin CutOff
  PROVE  Spec => [](BaseInv /\ ReleaseUncut)
<1>1. Init => BaseInv /\ ReleaseUncut
  BY InitBase
<1>2. (BaseInv /\ ReleaseUncut) /\ [Next]_vars => (BaseInv /\ ReleaseUncut)'
  BY NextBase, StepListed, StepSparedByPass DEF ReleaseUncut
<1> QED BY <1>1, <1>2, PTL DEF Spec

\* What is in quarantine/ is on record, so that an operator finds it, if no
\* release stops between its transaction and the move of the file.
THEOREM QuarantineIsListed ==
  FramesAssumption /\ "release" \notin CutOff => (Spec => []QuarantineListed)
<1> SUFFICES ASSUME FramesAssumption, "release" \notin CutOff PROVE Spec => []QuarantineListed
  OBVIOUS
<1>1. BaseInv /\ ReleaseUncut => QuarantineListed
  BY DEF ReleaseUncut, ListedFrames
<1> QED BY <1>1, Uncut, PTL

\* quarantine.rs: a frame of another build is never purged by itself, only by
\* the operator or a swap, if no release stops between its two steps.
THEOREM SuspectsAreKept ==
  FramesAssumption /\ "release" \notin CutOff => (Spec => []SuspectKept)
<1> SUFFICES ASSUME FramesAssumption, "release" \notin CutOff PROVE Spec => []SuspectKept
  OBVIOUS
<1>1. BaseInv /\ ReleaseUncut => SuspectKept
  BY DEF ReleaseUncut, ListedFrames, SparedFrames, Gone, SuspectKept
<1> QED BY <1>1, Uncut, PTL
=============================================================================

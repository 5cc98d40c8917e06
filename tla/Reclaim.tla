------------------------------ MODULE Reclaim ------------------------------
(***************************************************************************)
(* Who may still open a frame, and when it may be unlinked: one aspect's   *)
(* segment index, its frame journal and the frame files in segments/, with *)
(*                                                                         *)
(*   - seals, which add a row for a frame they wrote;                      *)
(*   - one maintenance operation at a time (the aspect's maintenance       *)
(*     lock), which journals its outputs as pending, writes them, and      *)
(*     swaps them in for its members in one transaction (seal.rs, M1-M6);  *)
(*   - the reaper's pass under the same lock (maint.rs, G1-G5);            *)
(*   - reads, which pin an epoch, prune the index and then open one frame  *)
(*     after the other, without any lock;                                  *)
(*   - a whole-store backup, which holds the reaper off, snapshots the     *)
(*     index and links the frames the snapshot names;                      *)
(*   - a restart, after which the open replays the journal.                *)
(*                                                                         *)
(* A frame is its name here: what it holds is SegmentStore's matter.       *)
(***************************************************************************)
EXTENDS ReclaimEpochs, FiniteSets

VARIABLES
  live,      \* the names the index's rows reference
  linked,    \* the names present in segments/
  used,      \* the names ever handed out: the generation counter is past them
  litter,    \* history: the frames stopped seals left, which nothing records
  journal,   \* name -> "pending" | "retired" | NotJournaled
  maint,     \* where the maintenance lock's holder stands
  members,   \* the names the running swap retires
  outputs,   \* the names the running swap writes
  entries,   \* the journal rows the running reaper pass has still to look at
  picked,    \* the name it found reclaimable and is about to unlink (or none)
  processed, \* the names it may clear from the journal
  unread,    \* reader -> the names its prune returned and it has not opened
  backup,    \* where the backup stands
  unlinkedB  \* the names its snapshot references and it has not linked

maintVars == <<maint, members, outputs, entries, picked, processed>>
backupVars == <<backup, unlinkedB>>
vars == <<epochVars, live, linked, used, litter, journal, maintVars, unread, backupVars>>

NotJournaled == "none"
JournalState == {"pending", "retired", NotJournaled}

\* "free": nobody holds the maintenance lock.  "planned": a swap has its
\* members and its pending outputs.  "committed": its transaction committed
\* and the retired names are not yet in the epochs.  "sweep", "cleared": the
\* reaper's pass, before and after its journal rows are deleted.
MaintState == {"free", "planned", "committed", "sweep", "cleared"}
BackupState == {"idle", "held", "snapshot"}

TypeOK ==
  /\ EpochTypeOK
  /\ live \subseteq Names
  /\ linked \subseteq Names
  /\ used \subseteq Names
  /\ litter \subseteq Names
  /\ journal \in [Names -> JournalState]
  /\ maint \in MaintState
  /\ members \subseteq Names
  /\ outputs \subseteq Names
  /\ entries \subseteq Names
  /\ picked \subseteq Names
  /\ processed \subseteq Names
  /\ unread \in [Readers -> SUBSET Names]
  /\ backup \in BackupState
  /\ unlinkedB \subseteq Names

Init ==
  /\ EpochInit
  /\ live = {} /\ linked = {} /\ used = {} /\ litter = {}
  /\ journal = [n \in Names |-> NotJournaled]
  /\ maint = "free"
  /\ members = {} /\ outputs = {}
  /\ entries = {} /\ picked = {} /\ processed = {}
  /\ unread = [r \in Readers |-> {}]
  /\ backup = "idle" /\ unlinkedB = {}

Journaled(names, state) ==
  [n \in Names |-> IF n \in names THEN state ELSE journal[n]]

Journal == {n \in Names : journal[n] # NotJournaled}
-----------------------------------------------------------------------------
(* Seals *)

\* A seal's commit adds the row of a frame it wrote under a name never used.
Seal(n) ==
  /\ n \notin used
  /\ used' = used \cup {n}
  /\ linked' = linked \cup {n}
  /\ live' = live \cup {n}
  /\ UNCHANGED <<epochVars, journal, maintVars, unread, backupVars, litter>>

\* A seal that stops before its commit leaves its frame, which no row names.
SealLitter(n) ==
  /\ n \notin used
  /\ used' = used \cup {n}
  /\ linked' = linked \cup {n}
  /\ litter' = litter \cup {n}
  /\ UNCHANGED <<epochVars, live, journal, maintVars, unread, backupVars>>
-----------------------------------------------------------------------------
(* A maintenance swap *)

\* M1-M4: the members are read from the index, the outputs get fresh names,
\* are journaled as pending, written and synced.
SwapPlan(olds, news) ==
  /\ maint = "free"
  /\ olds # {} /\ olds \subseteq live
  /\ news \cap used = {}
  /\ maint' = "planned"
  /\ members' = olds
  /\ outputs' = news
  /\ used' = used \cup news
  /\ linked' = linked \cup news
  /\ journal' = Journaled(news, "pending")
  /\ UNCHANGED <<epochVars, live, entries, picked, processed, unread, backupVars, litter>>

\* M5: one transaction puts the outputs' rows in the place of the members',
\* retires the members' names and clears the outputs' pending rows.
SwapTxn ==
  /\ live' = (live \ members) \cup outputs
  /\ journal' = [n \in Names |-> IF n \in members THEN "retired"
                                 ELSE IF n \in outputs THEN NotJournaled
                                 ELSE journal[n]]

SwapCommit ==
  /\ maint = "planned"
  /\ SwapTxn
  /\ maint' = "committed"
  /\ UNCHANGED <<epochVars, linked, used, members, outputs, entries, picked, processed, unread, backupVars, litter>>

\* After the COMMIT returned: the retired names enter the reclaim epochs, and
\* finish_swap runs the reaper's pass under the same lock.
SwapRetire ==
  /\ maint = "committed"
  /\ Retire(members)
  /\ maint' = "sweep"
  /\ members' = {} /\ outputs' = {}
  /\ entries' = Journal /\ picked' = {} /\ processed' = {}
  /\ UNCHANGED <<pins, holds, live, linked, used, journal, unread, backupVars, litter>>

\* A swap certain not to commit unlinks its outputs and clears their rows.
SwapDiscard ==
  /\ maint = "planned"
  /\ linked' = linked \ outputs
  /\ journal' = Journaled(outputs, NotJournaled)
  /\ maint' = "free"
  /\ members' = {} /\ outputs' = {}
  /\ UNCHANGED <<epochVars, live, used, entries, picked, processed, unread, backupVars, litter>>

\* The swap's future is dropped, or it panics, before its transaction: the
\* outputs stay where they are, journaled as pending, for the reaper.
SwapAbandon ==
  /\ maint = "planned"
  /\ maint' = "free"
  /\ members' = {} /\ outputs' = {}
  /\ UNCHANGED <<epochVars, live, linked, used, journal, entries, picked, processed, unread, backupVars, litter>>
-----------------------------------------------------------------------------
(* The reaper's pass *)

ReapBegin ==
  /\ maint = "free"
  /\ Journal # {}
  /\ maint' = "sweep"
  /\ entries' = Journal /\ picked' = {} /\ processed' = {}
  /\ UNCHANGED <<epochVars, live, linked, used, journal, members, outputs, unread, backupVars, litter>>

\* G1: a retired name may go only when no pin and no hold protects it; a
\* pending one may always.  G2: a name a live row references is never picked,
\* only its journal row goes.
SweepTake(n) ==
  /\ maint = "sweep" /\ picked = {}
  /\ n \in entries
  /\ journal[n] = "retired" => Reclaimable(n)
  /\ picked' = {n} \ live
  /\ processed' = processed \cup ({n} \cap live)
  /\ entries' = entries \ {n}
  /\ UNCHANGED <<epochVars, live, linked, used, journal, maint, members, outputs, unread, backupVars, litter>>

\* A name a pin or a hold protects waits for a later pass.
SweepWait(n) ==
  /\ maint = "sweep" /\ picked = {}
  /\ n \in entries
  /\ journal[n] = "retired" /\ ~Reclaimable(n)
  /\ entries' = entries \ {n}
  /\ UNCHANGED <<epochVars, live, linked, used, journal, maint, members, outputs, picked, processed, unread, backupVars, litter>>

\* G3: the unlink of the picked name.
SweepUnlink ==
  /\ maint = "sweep" /\ picked # {}
  /\ linked' = linked \ picked
  /\ processed' = processed \cup picked
  /\ picked' = {}
  /\ UNCHANGED <<epochVars, live, used, journal, maint, members, outputs, entries, unread, backupVars, litter>>

BugSweepRefused ==
  /\ maint = "sweep" /\ picked # {}
  /\ processed' = processed \cup picked
  /\ picked' = {}
  /\ UNCHANGED <<epochVars, live, linked, used, journal, maint, members, outputs, entries, unread, backupVars, litter>>

\* The file system refuses the unlink, now or for good: the row stays.
SweepRefused ==
  /\ maint = "sweep" /\ picked # {}
  /\ picked' = {}
  /\ UNCHANGED <<epochVars, live, linked, used, journal, maint, members, outputs, entries, processed, unread, backupVars, litter>>

\* G5: one commit deletes the processed rows.
ReapClear ==
  /\ maint = "sweep" /\ entries = {} /\ picked = {}
  /\ journal' = Journaled(processed, NotJournaled)
  /\ maint' = "cleared"
  /\ UNCHANGED <<epochVars, live, linked, used, members, outputs, entries, picked, processed, unread, backupVars, litter>>

ReapForget ==
  /\ maint = "cleared"
  /\ Forget(processed)
  /\ maint' = "free"
  /\ processed' = {}
  /\ UNCHANGED <<current, pins, holds, live, linked, used, journal, members, outputs, entries, picked, unread, backupVars, litter>>

\* The pass stops part way: an error, or its future is dropped.
ReapStop ==
  /\ maint \in {"sweep", "cleared"}
  /\ maint' = "free"
  /\ entries' = {} /\ picked' = {} /\ processed' = {}
  /\ UNCHANGED <<epochVars, live, linked, used, journal, members, outputs, unread, backupVars, litter>>
-----------------------------------------------------------------------------
(* Reads and the backup *)

\* A read pins first; its prune of the index is a later step.
ReadPin(r) ==
  /\ pins[r] = NoEpoch
  /\ Pin(r)
  /\ UNCHANGED <<current, retiredIn, holds, live, linked, used, journal, maintVars, unread, backupVars, litter>>

ReadPrune(r, names) ==
  /\ pins[r] # NoEpoch
  /\ unread[r] = {}
  /\ names # {} /\ names \subseteq live
  /\ unread' = [unread EXCEPT ![r] = names]
  /\ UNCHANGED <<epochVars, live, linked, used, journal, maintVars, backupVars, litter>>

ReadOpen(r, n) ==
  /\ n \in unread[r]
  /\ unread' = [unread EXCEPT ![r] = @ \ {n}]
  /\ UNCHANGED <<epochVars, live, linked, used, journal, maintVars, backupVars, litter>>

\* The read returns, or its future is dropped half way.
ReadEnd(r) ==
  /\ pins[r] # NoEpoch
  /\ Unpin(r)
  /\ unread' = [unread EXCEPT ![r] = {}]
  /\ UNCHANGED <<current, retiredIn, holds, live, linked, used, journal, maintVars, backupVars, litter>>

\* B1
BackupHold ==
  /\ backup = "idle"
  /\ backup' = "held"
  /\ holds' = holds + 1
  /\ UNCHANGED <<current, pins, retiredIn, live, linked, used, journal, maintVars, unread, unlinkedB, litter>>

\* B2
BackupSnapshot ==
  /\ backup = "held"
  /\ backup' = "snapshot"
  /\ unlinkedB' = live
  /\ UNCHANGED <<epochVars, live, linked, used, journal, maintVars, unread, litter>>

\* B3
BackupLink(n) ==
  /\ n \in unlinkedB
  /\ unlinkedB' = unlinkedB \ {n}
  /\ UNCHANGED <<epochVars, live, linked, used, journal, maintVars, unread, backup, litter>>

\* B4, or any earlier return: the hold drops.
BackupRelease ==
  /\ backup # "idle"
  /\ backup' = "idle"
  /\ unlinkedB' = {}
  /\ holds' = holds - 1
  /\ UNCHANGED <<current, pins, retiredIn, live, linked, used, journal, maintVars, unread, litter>>
-----------------------------------------------------------------------------
\* The process dies and the store is opened again: nothing is reading, so the
\* replay consults no pin.  It unlinks each journaled name no row references
\* and clears the rows it processed; a refused unlink stays journaled.
Restart(replayed) ==
  /\ replayed \subseteq Journal
  /\ EpochReset
  /\ linked' = linked \ (replayed \ live)
  /\ journal' = Journaled(replayed, NotJournaled)
  /\ maint' = "free"
  /\ members' = {} /\ outputs' = {}
  /\ entries' = {} /\ picked' = {} /\ processed' = {}
  /\ unread' = [r \in Readers |-> {}]
  /\ backup' = "idle" /\ unlinkedB' = {}
  /\ UNCHANGED <<live, used, litter>>

SealStep == \E n \in Names : Seal(n) \/ SealLitter(n)

SwapStep ==
  \/ \E olds \in SUBSET live, news \in SUBSET Names : SwapPlan(olds, news)
  \/ SwapCommit
  \/ SwapRetire
  \/ SwapDiscard
  \/ SwapAbandon

ReapStep ==
  \/ ReapBegin
  \/ \E n \in Names : SweepTake(n) \/ SweepWait(n)
  \/ SweepUnlink
  \/ SweepRefused
  \/ ReapClear
  \/ ReapForget
  \/ ReapStop

ReadStep ==
  \E r \in Readers :
    \/ ReadPin(r)
    \/ \E names \in SUBSET live : ReadPrune(r, names)
    \/ \E n \in Names : ReadOpen(r, n)
    \/ ReadEnd(r)

BackupStep ==
  \/ BackupHold
  \/ BackupSnapshot
  \/ \E n \in Names : BackupLink(n)
  \/ BackupRelease

Next ==
  \/ SealStep
  \/ SwapStep
  \/ ReapStep
  \/ ReadStep
  \/ BackupStep
  \/ \E replayed \in SUBSET Names : Restart(replayed)

Spec == Init /\ [][Next]_vars

\* What Next leaves out: a swap's future dropped while its COMMIT was in
\* flight, when the COMMIT lands.  The names never reach the epochs, and the
\* maintenance lock is free again.
SwapDroppedAtCommit ==
  /\ maint = "planned"
  /\ SwapTxn
  /\ maint' = "free"
  /\ members' = {} /\ outputs' = {}
  /\ UNCHANGED <<epochVars, linked, used, entries, picked, processed, unread, backupVars, litter>>

SpecDrops == Init /\ [][Next \/ SwapDroppedAtCommit]_vars
-----------------------------------------------------------------------------
\* Every frame a running read found in the index and has still to open is in
\* segments/: a swap beside it never makes it fail (reaper.rs, "the frame
\* stays on disk until no such read can be running").
ReadsFindFrames == \A r \in Readers : unread[r] \subseteq linked

\* The same for a backup between its snapshot and its last link
\* (build_backup, B1-B4).
BackupFindsFrames == unlinkedB \subseteq linked

\* No row is left without its frame by any order of swaps, dropped
\* operations, reaper passes and restarts.
RowsHaveFrames == live \subseteq linked

\* The guard G2 of the sweep never has to keep data: "that cannot happen by
\* construction" (reaper.rs).
RetiredIsNotLive == \A n \in live : journal[n] # "retired"

\* Maintenance leaks no disk space: a frame in segments/ is live, or the
\* journal still holds it for the reaper or the replay, or a stopped seal left
\* it.  No swap stopped once its outputs are written, refused unlink, stopped
\* pass or restart loses track of one (a swap stopped while it writes them is
\* SegmentStore's matter).
NoLeak == linked \subseteq live \cup Journal \cup litter
-----------------------------------------------------------------------------
(***************************************************************************)
(* The inductive invariant behind the properties above, in named parts.    *)
(***************************************************************************)

\* A name is handed out before anything refers to it, so a fresh name is new
\* to every table.
NamesAreUsed ==
  /\ linked \subseteq used
  /\ Journal \subseteq used
  /\ \A r \in Readers : unread[r] \subseteq used
  /\ unlinkedB \subseteq used
  /\ processed \subseteq used

\* Rows and journal never name the same frame.
LiveIsNotJournaled == \A n \in live : journal[n] = NotJournaled

\* What the maintenance lock's holder relies on at each of its steps.
MaintInv ==
  /\ maint \in {"free", "planned", "committed"} =>
       entries = {} /\ picked = {} /\ processed = {}
  /\ maint \notin {"planned", "committed"} => members = {} /\ outputs = {}
  /\ maint = "planned" =>
       /\ members \subseteq live
       /\ \A n \in outputs : journal[n] = "pending" /\ n \in linked
  /\ maint = "committed" => \A n \in members : journal[n] = "retired"
  /\ entries \subseteq Journal
  /\ picked \subseteq Journal
  /\ processed \cap linked = {}
  /\ maint = "cleared" => entries = {} /\ picked = {}

\* A frame a backup has still to link is on disk, and is either live or
\* retired, so that the hold protects it; it is not the one being unlinked.
BackupInv ==
  /\ holds = (IF backup = "idle" THEN 0 ELSE 1)
  /\ unlinkedB # {} => backup = "snapshot"
  /\ \A n \in unlinkedB :
       /\ n \in linked
       /\ n \in live \/ journal[n] = "retired"
       /\ n \notin picked

DiskInv ==
  TypeOK /\ NamesAreUsed /\ LiveIsNotJournaled /\ MaintInv /\ BackupInv
  /\ RowsHaveFrames /\ NoLeak

\* A frame a read has still to open is on disk, and either live, or about to
\* enter the epochs, or retired in the read's epoch or a later one; it is not
\* the one being unlinked.
ReadInv ==
  \A r \in Readers :
    /\ pins[r] <= current
    /\ unread[r] # {} => pins[r] # NoEpoch
    /\ \A n \in unread[r] :
         /\ n \in linked
         /\ n \notin picked
         /\ \/ n \in live
            \/ journal[n] = "retired" /\ maint = "committed" /\ n \in members
            \/ journal[n] = "retired" /\ retiredIn[n] >= pins[r]

IInv == DiskInv /\ ReadInv
=============================================================================

---------------------------- MODULE ReclaimProofs ----------------------------
(***************************************************************************)
(* Theorems about Reclaim, for any sets of reads and frame names.          *)
(*                                                                         *)
(* DiskInv is inductive under Next and under SwapDroppedAtCommit, so what  *)
(* it implies holds however operations are dropped.  ReadInv needs the     *)
(* epochs to hear of every swap, so it is inductive under Next only.       *)
(***************************************************************************)
EXTENDS Reclaim, TLAPS

(***************************************************************************)
(* The disk half, one lemma per actor.                                     *)
(***************************************************************************)

USE DEF NoEpoch, NotJournaled

\* Nothing exists in an empty store, so nothing can be lost.
LEMMA InitDisk == Init => DiskInv
BY DEF Init, EpochInit, DiskInv, TypeOK, EpochTypeOK, NamesAreUsed, LiveIsNotJournaled,
       MaintInv, BackupInv, RowsHaveFrames, NoLeak, Journal, JournalState, MaintState, BackupState

\* A seal, or the litter of one that stopped, takes a name no table knows
\* (publish_seal).
LEMMA SealDisk == DiskInv /\ SealStep => DiskInv'
<1> SUFFICES ASSUME DiskInv, NEW n \in Names, Seal(n) \/ SealLitter(n)
             PROVE  DiskInv'
  BY DEF SealStep
<1> USE DEF DiskInv, maintVars, backupVars, epochVars
<1>1. TypeOK'
  BY DEF Seal, SealLitter, TypeOK, EpochTypeOK
<1>2. NamesAreUsed' /\ LiveIsNotJournaled' /\ RowsHaveFrames' /\ NoLeak'
  BY DEF Seal, SealLitter, NamesAreUsed, LiveIsNotJournaled, RowsHaveFrames, NoLeak, Journal, TypeOK
<1>3. MaintInv'
  BY DEF Seal, SealLitter, MaintInv, NamesAreUsed, Journal, TypeOK
<1>4. BackupInv'
  BY DEF Seal, SealLitter, BackupInv
<1> QED BY <1>1, <1>2, <1>3, <1>4

\* The swap's transaction trades rows for retired journal entries and pending
\* entries for rows, each name exactly once (PreparedPlan::ops).
LEMMA SwapTxnDisk ==
  ASSUME DiskInv, maint = "planned", SwapTxn,
         UNCHANGED <<epochVars, linked, used, litter, unread, backupVars, picked, entries, processed>>,
         \/ maint' = "committed" /\ UNCHANGED <<members, outputs>>
         \/ maint' = "free" /\ members' = {} /\ outputs' = {}
  PROVE  DiskInv'
<1> USE DEF DiskInv, SwapTxn, epochVars, backupVars
<1>1. TypeOK'
  BY DEF TypeOK, EpochTypeOK, JournalState, MaintState
<1>2. LiveIsNotJournaled'
  BY DEF LiveIsNotJournaled, MaintInv, TypeOK
<1>3. RowsHaveFrames'
  BY DEF RowsHaveFrames, MaintInv
<1>4. Journal \subseteq Journal' \cup outputs /\ Journal' \subseteq Journal \cup members
  BY DEF Journal, TypeOK
<1>5. NamesAreUsed'
  BY <1>4 DEF NamesAreUsed, MaintInv, RowsHaveFrames
<1>6. NoLeak'
  BY <1>4 DEF NoLeak, Journal, MaintInv, TypeOK
<1>7. MaintInv'
  BY <1>4 DEF MaintInv, Journal, TypeOK
<1>8. BackupInv'
  BY DEF BackupInv, TypeOK, MaintInv
<1> QED BY <1>1, <1>2, <1>3, <1>5, <1>6, <1>7, <1>8

\* The steps of a swap, M1 to its discard or its pass (swap_plans).
LEMMA SwapDisk == DiskInv /\ SwapStep => DiskInv'
<1> SUFFICES ASSUME DiskInv, SwapStep PROVE DiskInv'
  OBVIOUS
<1> USE DEF epochVars, backupVars
<1>1. CASE \E olds \in SUBSET live, news \in SUBSET Names : SwapPlan(olds, news)
  <2> PICK olds \in SUBSET live, news \in SUBSET Names : SwapPlan(olds, news)
    BY <1>1
  <2> USE DEF DiskInv, SwapPlan, Journaled
  <2>1. TypeOK'
    BY DEF TypeOK, EpochTypeOK, JournalState, MaintState
  <2>2. Journal' = Journal \cup news
    BY DEF Journal, TypeOK
  <2>3. NamesAreUsed' /\ NoLeak' /\ RowsHaveFrames'
    BY <2>2 DEF NamesAreUsed, NoLeak, RowsHaveFrames
  <2>4. LiveIsNotJournaled'
    BY DEF LiveIsNotJournaled, RowsHaveFrames, NamesAreUsed, TypeOK
  <2>5. MaintInv'
    BY <2>2 DEF MaintInv, TypeOK
  <2>6. BackupInv'
    BY DEF BackupInv, NamesAreUsed, TypeOK
  <2> QED BY <2>1, <2>3, <2>4, <2>5, <2>6
<1>2. CASE SwapCommit
  BY <1>2, SwapTxnDisk DEF SwapCommit
<1>3. CASE SwapRetire
  <2> USE <1>3 DEF DiskInv, SwapRetire, Retire
  <2>1. TypeOK'
    BY DEF TypeOK, EpochTypeOK, MaintState, Journal
  <2>2. MaintInv'
    BY DEF MaintInv, Journal
  <2>3. NamesAreUsed' /\ NoLeak' /\ RowsHaveFrames' /\ LiveIsNotJournaled'
    BY DEF NamesAreUsed, NoLeak, RowsHaveFrames, LiveIsNotJournaled, Journal
  <2>4. BackupInv'
    BY DEF BackupInv
  <2> QED BY <2>1, <2>2, <2>3, <2>4
<1>4. CASE SwapDiscard
  <2> USE <1>4 DEF DiskInv, SwapDiscard, Journaled
  <2>1. TypeOK'
    BY DEF TypeOK, EpochTypeOK, JournalState, MaintState
  <2>2. Journal' = Journal \ outputs
    BY DEF Journal, TypeOK
  <2>3. outputs \cap live = {}
    BY DEF MaintInv, LiveIsNotJournaled
  <2>4. NamesAreUsed' /\ NoLeak' /\ RowsHaveFrames'
    BY <2>2, <2>3 DEF NamesAreUsed, NoLeak, RowsHaveFrames
  <2>5. LiveIsNotJournaled'
    BY DEF LiveIsNotJournaled, TypeOK
  <2>6. MaintInv'
    BY DEF MaintInv, Journal
  <2>7. BackupInv'
    BY <2>3 DEF BackupInv, MaintInv, TypeOK
  <2> QED BY <2>1, <2>4, <2>5, <2>6, <2>7
<1>5. CASE SwapAbandon
  BY <1>5 DEF SwapAbandon, DiskInv, TypeOK, EpochTypeOK, MaintState, NamesAreUsed, Journal,
              NoLeak, RowsHaveFrames, LiveIsNotJournaled, MaintInv, BackupInv
<1> QED BY <1>1, <1>2, <1>3, <1>4, <1>5 DEF SwapStep

\* The steps of the reaper's pass: what it unlinks no row references, and what
\* it clears it unlinked (reap_held, sweep).
LEMMA ReapDisk == DiskInv /\ ReapStep => DiskInv'
<1> SUFFICES ASSUME DiskInv, ReapStep PROVE DiskInv'
  OBVIOUS
<1> USE DEF DiskInv, epochVars, backupVars
<1>1. CASE ReapBegin
  BY <1>1 DEF ReapBegin, TypeOK, EpochTypeOK, MaintState, NamesAreUsed, Journal, NoLeak,
              RowsHaveFrames, LiveIsNotJournaled, MaintInv, BackupInv
<1>2. CASE \E n \in Names : SweepTake(n)
  <2> PICK n \in Names : SweepTake(n)
    BY <1>2
  <2> USE DEF SweepTake
  <2>1. n \notin live /\ n \in Journal
    BY DEF MaintInv, LiveIsNotJournaled, Journal
  <2>2. TypeOK' /\ NamesAreUsed' /\ NoLeak' /\ RowsHaveFrames' /\ LiveIsNotJournaled'
    BY <2>1 DEF TypeOK, EpochTypeOK, NamesAreUsed, Journal, NoLeak, RowsHaveFrames, LiveIsNotJournaled
  <2>3. MaintInv'
    BY <2>1 DEF MaintInv, Journal
  <2>4. n \notin unlinkedB
    BY <2>1 DEF BackupInv, Reclaimable, Held
  <2>5. BackupInv'
    BY <2>4 DEF BackupInv
  <2> QED BY <2>2, <2>3, <2>5
<1>3. CASE \E n \in Names : SweepWait(n)
  BY <1>3 DEF SweepWait, TypeOK, EpochTypeOK, NamesAreUsed, Journal, NoLeak,
              RowsHaveFrames, LiveIsNotJournaled, MaintInv, BackupInv
<1>4. CASE SweepUnlink
  <2> USE <1>4 DEF SweepUnlink
  <2>1. picked \cap live = {}
    BY DEF MaintInv, LiveIsNotJournaled, Journal
  <2>2. TypeOK' /\ RowsHaveFrames' /\ LiveIsNotJournaled'
    BY <2>1 DEF TypeOK, EpochTypeOK, RowsHaveFrames, LiveIsNotJournaled
  <2>3. NamesAreUsed' /\ NoLeak'
    BY DEF NamesAreUsed, NoLeak, Journal, MaintInv
  <2>4. MaintInv'
    BY DEF MaintInv, Journal
  <2>5. BackupInv'
    BY DEF BackupInv
  <2> QED BY <2>2, <2>3, <2>4, <2>5
<1>5. CASE SweepRefused
  BY <1>5 DEF SweepRefused, TypeOK, EpochTypeOK, NamesAreUsed, Journal, NoLeak,
              RowsHaveFrames, LiveIsNotJournaled, MaintInv, BackupInv
<1>6. CASE ReapClear
  <2> USE <1>6 DEF ReapClear, Journaled
  <2>1. Journal' = Journal \ processed
    BY DEF Journal, TypeOK
  <2>2. TypeOK' /\ RowsHaveFrames' /\ LiveIsNotJournaled'
    BY DEF TypeOK, EpochTypeOK, RowsHaveFrames, LiveIsNotJournaled, JournalState, MaintState
  <2>3. NamesAreUsed' /\ NoLeak'
    BY <2>1 DEF NamesAreUsed, NoLeak, MaintInv
  <2>4. MaintInv'
    BY <2>1 DEF MaintInv
  <2>5. BackupInv'
    BY DEF BackupInv, MaintInv, TypeOK
  <2> QED BY <2>2, <2>3, <2>4, <2>5
<1>7. CASE ReapForget
  BY <1>7 DEF ReapForget, Forget, TypeOK, EpochTypeOK, MaintState, NamesAreUsed, Journal, NoLeak,
              RowsHaveFrames, LiveIsNotJournaled, MaintInv, BackupInv
<1>8. CASE ReapStop
  BY <1>8 DEF ReapStop, TypeOK, EpochTypeOK, MaintState, NamesAreUsed, Journal, NoLeak,
              RowsHaveFrames, LiveIsNotJournaled, MaintInv, BackupInv
<1> QED BY <1>1, <1>2, <1>3, <1>4, <1>5, <1>6, <1>7, <1>8 DEF ReapStep

\* Reads change nothing on disk (pin_reads).
LEMMA ReadDisk == DiskInv /\ ReadStep => DiskInv'
<1> SUFFICES ASSUME DiskInv, NEW r \in Readers,
                    \/ ReadPin(r)
                    \/ \E names \in SUBSET live : ReadPrune(r, names)
                    \/ \E n \in Names : ReadOpen(r, n)
                    \/ ReadEnd(r)
             PROVE  DiskInv'
  BY DEF ReadStep
<1> USE DEF DiskInv, epochVars, maintVars, backupVars
<1>1. live \subseteq used
  BY DEF RowsHaveFrames, NamesAreUsed
<1>2. CASE ReadPin(r)
  BY <1>2 DEF ReadPin, Pin, TypeOK, EpochTypeOK, NamesAreUsed, Journal, NoLeak,
              RowsHaveFrames, LiveIsNotJournaled, MaintInv, BackupInv
<1>3. CASE \E names \in SUBSET live : ReadPrune(r, names)
  BY <1>1, <1>3 DEF ReadPrune, TypeOK, EpochTypeOK, NamesAreUsed, Journal, NoLeak,
              RowsHaveFrames, LiveIsNotJournaled, MaintInv, BackupInv
<1>4. CASE \E n \in Names : ReadOpen(r, n)
  BY <1>4 DEF ReadOpen, TypeOK, EpochTypeOK, NamesAreUsed, Journal, NoLeak,
              RowsHaveFrames, LiveIsNotJournaled, MaintInv, BackupInv
<1>5. CASE ReadEnd(r)
  BY <1>5 DEF ReadEnd, Unpin, TypeOK, EpochTypeOK, NamesAreUsed, Journal, NoLeak,
              RowsHaveFrames, LiveIsNotJournaled, MaintInv, BackupInv
<1> QED BY <1>2, <1>3, <1>4, <1>5

\* While the backup has frames to link its hold keeps them (build_backup).
LEMMA BackupDisk == DiskInv /\ BackupStep => DiskInv'
<1> SUFFICES ASSUME DiskInv, BackupStep PROVE DiskInv'
  OBVIOUS
<1> USE DEF DiskInv, epochVars, maintVars
<1>1. live \subseteq used /\ \A n \in picked : n \notin live
  BY DEF RowsHaveFrames, NamesAreUsed, MaintInv, LiveIsNotJournaled, Journal
<1>2. CASE BackupHold
  BY <1>2 DEF BackupHold, TypeOK, EpochTypeOK, BackupState, NamesAreUsed, Journal, NoLeak,
              RowsHaveFrames, LiveIsNotJournaled, MaintInv, BackupInv
<1>3. CASE BackupSnapshot
  BY <1>1, <1>3 DEF BackupSnapshot, TypeOK, EpochTypeOK, BackupState, NamesAreUsed, Journal, NoLeak,
              RowsHaveFrames, LiveIsNotJournaled, MaintInv, BackupInv
<1>4. CASE \E n \in Names : BackupLink(n)
  BY <1>4 DEF BackupLink, TypeOK, EpochTypeOK, NamesAreUsed, Journal, NoLeak,
              RowsHaveFrames, LiveIsNotJournaled, MaintInv, BackupInv
<1>5. CASE BackupRelease
  BY <1>5 DEF BackupRelease, TypeOK, EpochTypeOK, BackupState, NamesAreUsed, Journal, NoLeak,
              RowsHaveFrames, LiveIsNotJournaled, MaintInv, BackupInv
<1> QED BY <1>2, <1>3, <1>4, <1>5 DEF BackupStep

\* The replay unlinks only what no row references, and clears only what it
\* unlinked (replay_journal).
LEMMA RestartDisk ==
  ASSUME DiskInv, NEW replayed \in SUBSET Names, Restart(replayed)
  PROVE  DiskInv'
<1> USE DEF DiskInv, Restart, EpochReset, Journaled
<1>1. TypeOK'
  BY DEF TypeOK, EpochTypeOK, JournalState, MaintState, BackupState
<1>2. Journal' = Journal \ replayed /\ replayed \cap live = {}
  BY DEF Journal, TypeOK, LiveIsNotJournaled
<1>3. NamesAreUsed' /\ NoLeak' /\ RowsHaveFrames'
  BY <1>2 DEF NamesAreUsed, NoLeak, RowsHaveFrames
<1>4. LiveIsNotJournaled'
  BY DEF LiveIsNotJournaled, TypeOK
<1>5. MaintInv'
  BY DEF MaintInv
<1>6. BackupInv'
  BY DEF BackupInv
<1> QED BY <1>1, <1>3, <1>4, <1>5, <1>6

\* Nothing in the invariant looks beyond the variables.
LEMMA StutterDisk == DiskInv /\ UNCHANGED vars => DiskInv'
BY DEF vars, epochVars, maintVars, backupVars, DiskInv, TypeOK, EpochTypeOK, NamesAreUsed, Journal,
       NoLeak, RowsHaveFrames, LiveIsNotJournaled, MaintInv, BackupInv

\* The swap whose future was dropped while its COMMIT landed leaves the disk as
\* sound as one that returned (PendingOutputs).
LEMMA DroppedDisk == DiskInv /\ SwapDroppedAtCommit => DiskInv'
BY SwapTxnDisk DEF SwapDroppedAtCommit, epochVars, backupVars

\* Every step, a dropped one included, preserves DiskInv.
LEMMA NextDisk == DiskInv /\ [Next]_vars => DiskInv'
BY SealDisk, SwapDisk, ReapDisk, ReadDisk, BackupDisk, RestartDisk, StutterDisk DEF Next

\* However operations are dropped, DiskInv holds.
THEOREM DiskSafety == SpecDrops => []DiskInv
<1>1. Init => DiskInv
  BY InitDisk
<1>2. DiskInv /\ [Next \/ SwapDroppedAtCommit]_vars => DiskInv'
  BY NextDisk, DroppedDisk
<1> QED BY <1>1, <1>2, PTL DEF SpecDrops

\* The invariant implies what it is for.
LEMMA DiskInvImplies == DiskInv => TypeOK /\ BackupFindsFrames /\ RowsHaveFrames /\ RetiredIsNotLive /\ NoLeak
BY DEF DiskInv, BackupFindsFrames, BackupInv, RetiredIsNotLive, LiveIsNotJournaled

\* A backup finds every frame its snapshot references (build_backup, B1-B4),
\* whatever swaps, reaper passes, restarts and dropped operations run beside it.
THEOREM BackupsFindTheirFrames == SpecDrops => []BackupFindsFrames
BY DiskSafety, DiskInvImplies, PTL

\* No row ever loses its frame (reaper.rs, sweep; seal.rs, swap_plans).
THEOREM RowsKeepTheirFrames == SpecDrops => []RowsHaveFrames
BY DiskSafety, DiskInvImplies, PTL

\* The guard G2 never has a retired frame to keep, as reaper.rs says.
THEOREM GuardIsIdle == SpecDrops => []RetiredIsNotLive
BY DiskSafety, DiskInvImplies, PTL

\* Maintenance never loses track of a frame it wrote or retired.
THEOREM MaintenanceDoesNotLeak == SpecDrops => []NoLeak
BY DiskSafety, DiskInvImplies, PTL

(***************************************************************************)
(* The reading half.                                                       *)
(***************************************************************************)

\* No read is running in a fresh process.
LEMMA InitRead == Init => ReadInv
<1> SUFFICES ASSUME Init, NEW r \in Readers
             PROVE  pins[r] <= current /\ unread[r] = {}
  BY DEF ReadInv
<1>1. pins[r] = -1 /\ current = 0
  BY DEF Init, EpochInit
<1>2. unread[r] = {}
  BY DEF Init
<1> QED BY <1>1, <1>2

\* A seal's name is in no read's hands (ingest).
LEMMA SealRead == IInv /\ SealStep => ReadInv'
BY DEF IInv, DiskInv, ReadInv, SealStep, Seal, SealLitter, epochVars, maintVars

\* What a swap takes from the index under a read is retired in the read's
\* epoch or a later one (commit_plans: retire after the COMMIT).
LEMMA SwapRead == IInv /\ SwapStep => ReadInv'
<1> SUFFICES ASSUME IInv, SwapStep, NEW r \in Readers
             PROVE  /\ pins'[r] <= current'
                    /\ unread'[r] # {} => pins'[r] # NoEpoch
                    /\ \A n \in unread'[r] :
                         /\ n \in linked'
                         /\ n \notin picked'
                         /\ \/ n \in live'
                            \/ journal'[n] = "retired" /\ maint' = "committed" /\ n \in members'
                            \/ journal'[n] = "retired" /\ retiredIn'[n] >= pins'[r]
  BY DEF ReadInv
<1> USE DEF IInv, DiskInv, ReadInv, epochVars
<1>1. CASE \E olds \in SUBSET live, news \in SUBSET Names : SwapPlan(olds, news)
  BY <1>1 DEF SwapPlan, Journaled, NamesAreUsed, TypeOK
<1>2. CASE SwapCommit
  BY <1>2 DEF SwapCommit, SwapTxn, MaintInv, TypeOK
<1>3. CASE SwapRetire
  BY <1>3 DEF SwapRetire, Retire, TypeOK, EpochTypeOK, MaintInv
<1>4. CASE SwapDiscard
  BY <1>4 DEF SwapDiscard, Journaled, MaintInv, LiveIsNotJournaled, TypeOK
<1>5. CASE SwapAbandon
  BY <1>5 DEF SwapAbandon
<1> QED BY <1>1, <1>2, <1>3, <1>4, <1>5 DEF SwapStep

\* A name the sweep takes is in no running read's hands: a read that still had
\* to open it would have pinned the epoch it was retired in, or an earlier one.
LEMMA TakenIsUnread ==
  ASSUME IInv, NEW n \in Names, SweepTake(n), NEW r \in Readers
  PROVE  n \notin unread[r]
<1> SUFFICES ASSUME n \in unread[r] PROVE FALSE
  OBVIOUS
<1>1. n \notin live
  BY DEF SweepTake, IInv, DiskInv, MaintInv, LiveIsNotJournaled, Journal
<1>2. journal[n] = "retired" /\ retiredIn[n] >= pins[r] /\ pins[r] # NoEpoch
  BY <1>1 DEF IInv, ReadInv, SweepTake
<1>3. retiredIn[n] # NoEpoch
  BY <1>2 DEF IInv, DiskInv, TypeOK, EpochTypeOK
<1> QED BY <1>2, <1>3 DEF SweepTake, Reclaimable, IInv, DiskInv, TypeOK, EpochTypeOK

\* The pass unlinks nothing that a read has still to open (sweep, G1).
LEMMA ReapRead == IInv /\ ReapStep => ReadInv'
<1> SUFFICES ASSUME IInv, ReapStep PROVE ReadInv'
  OBVIOUS
<1> USE DEF IInv, DiskInv, ReadInv, epochVars
<1>1. CASE ReapBegin
  BY <1>1 DEF ReapBegin
<1>2. CASE \E n \in Names : SweepTake(n)
  BY <1>2, TakenIsUnread DEF SweepTake
<1>3. CASE \E n \in Names : SweepWait(n)
  BY <1>3 DEF SweepWait
<1>4. CASE SweepUnlink
  BY <1>4 DEF SweepUnlink
<1>5. CASE SweepRefused
  BY <1>5 DEF SweepRefused
<1>6. CASE ReapClear
  BY <1>6 DEF ReapClear, Journaled, MaintInv, TypeOK
<1>7. CASE ReapForget
  BY <1>7 DEF ReapForget, Forget, MaintInv, TypeOK, EpochTypeOK
<1>8. CASE ReapStop
  BY <1>8 DEF ReapStop, MaintInv
<1> QED BY <1>1, <1>2, <1>3, <1>4, <1>5, <1>6, <1>7, <1>8 DEF ReapStep

\* A read pins before it prunes, so what it finds live is protected from then
\* on (ReadPin).
LEMMA ReadRead == IInv /\ ReadStep => ReadInv'
<1> SUFFICES ASSUME IInv, NEW r \in Readers,
                    \/ ReadPin(r)
                    \/ \E names \in SUBSET live : ReadPrune(r, names)
                    \/ \E n \in Names : ReadOpen(r, n)
                    \/ ReadEnd(r)
             PROVE  ReadInv'
  BY DEF ReadStep
<1> USE DEF IInv, DiskInv, ReadInv, epochVars, maintVars, TypeOK, EpochTypeOK
<1>1. CASE ReadPin(r)
  BY <1>1 DEF ReadPin, Pin
<1>2. CASE \E names \in SUBSET live : ReadPrune(r, names)
  BY <1>2 DEF ReadPrune, RowsHaveFrames, MaintInv, LiveIsNotJournaled, Journal
<1>3. CASE \E n \in Names : ReadOpen(r, n)
  BY <1>3 DEF ReadOpen
<1>4. CASE ReadEnd(r)
  BY <1>4 DEF ReadEnd, Unpin
<1> QED BY <1>1, <1>2, <1>3, <1>4

\* A backup holds and releases, and moves no frame.
LEMMA BackupRead == IInv /\ BackupStep => ReadInv'
BY DEF IInv, ReadInv, BackupStep, BackupHold, BackupSnapshot, BackupLink, BackupRelease,
       epochVars, maintVars

\* Every step of Spec preserves the reads' part of the invariant.
LEMMA NextRead == IInv /\ [Next]_vars => ReadInv'
<1> SUFFICES ASSUME IInv, [Next]_vars PROVE ReadInv'
  OBVIOUS
<1>1. CASE \E replayed \in SUBSET Names : Restart(replayed)
  BY <1>1 DEF Restart, EpochReset, ReadInv
<1>2. CASE UNCHANGED vars
  BY <1>2 DEF vars, epochVars, maintVars, backupVars, IInv, ReadInv
<1> QED BY <1>1, <1>2, SealRead, SwapRead, ReapRead, ReadRead, BackupRead DEF Next

\* No read fails because a swap retired what its prune returned: every frame
\* it has still to open is in segments/ (reaper.rs, the module comment).
THEOREM ReadsFindTheirFrames == Spec => []ReadsFindFrames
<1>1. Init => IInv
  BY InitDisk, InitRead DEF IInv
<1>2. IInv /\ [Next]_vars => IInv'
  BY NextDisk, NextRead DEF IInv
<1>3. IInv => ReadsFindFrames
  BY DEF IInv, ReadInv, ReadsFindFrames
<1> QED BY <1>1, <1>2, <1>3, PTL DEF Spec
=============================================================================

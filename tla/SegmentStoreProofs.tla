-------------------------- MODULE SegmentStoreProofs --------------------------
(***************************************************************************)
(* Theorems about SegmentStore, for any batches, times and faults.         *)
(*                                                                         *)
(* IInv is the inductive invariant.  It ties what the index names to what  *)
(* is on the disk, through the three ways a frame is on its way between    *)
(* the two: a seal that has not committed, a swap that has not, and a pass *)
(* that has unlinked what its journal rows still name.                     *)
(***************************************************************************)
EXTENDS SegmentStore, FiniteSetTheorems, SequenceTheorems, WellFoundedInduction, TLAPS

\* TypeOK, by parts.
TypeIndex ==
  /\ rows \in SUBSET [id : Nat, gen : Gens]
  /\ journal \in [Gens -> {"pending", "retired", NotJournaled}]
  /\ seq \in [nextId : Nat, nextGen : Nat, epoch : Nat]
  /\ rollup \subseteq Gens
  /\ changes \in SUBSET [epoch : Nat, batch : Batches]

TypeDisk ==
  /\ data \in [Gens -> [rows : Runs, sorted : BOOLEAN]]
  /\ whole \subseteq Gens /\ visible \subseteq Gens
  /\ durable \subseteq Gens /\ dropped \subseteq Gens

TypeProcess ==
  /\ mode \in {"opening", "up"}
  /\ poison \in {"no", "commit", "sync"}
  /\ alloc \in [nextId : Nat, epoch : Nat]
  /\ genNext \in 1..MaxGen + 1
  /\ late \subseteq Gens
  /\ sealPc \in [Batches -> SealPc] /\ sealGen \in [Batches -> Gens \cup {0}]

TypePlan ==
  /\ maint \in MaintPc
  /\ members \subseteq rows
  /\ parts \in Seq(Runs) /\ gens \in Seq(Gens) /\ keep \in BOOLEAN
  /\ processed \subseteq Gens

TypeRest ==
  /\ fetched \in SUBSET [epoch : Nat, batch : Batches]
  /\ restarts \in 0..MaxRestarts
  /\ landed \subseteq Batches /\ acked \subseteq landed /\ batched \subseteq landed

LEMMA TypeParts == TypeOK <=> TypeIndex /\ TypeDisk /\ TypeProcess /\ TypePlan /\ TypeRest
BY DEF TypeOK, TypeIndex, TypeDisk, TypeProcess, TypePlan, TypeRest

\* A seal that may still commit.
Active(b) == sealPc[b] \in {"written", "synced"}

\* No generation and no id is in use twice.
NamesInv ==
  /\ \A r, q \in rows : r.gen = q.gen \/ r.id = q.id => r = q
  /\ \A g \in Live : journal[g] = NotJournaled
  /\ \A b \in Batches : Active(b) =>
       /\ sealGen[b] \in Gens \ Live /\ journal[sealGen[b]] = NotJournaled
       /\ \A c \in Batches : Active(c) /\ sealGen[b] = sealGen[c] => b = c
  /\ \A k \in DOMAIN gens :
       /\ journal[gens[k]] = "pending"
       /\ \A j \in DOMAIN gens : gens[j] = gens[k] => j = k

\* The index's record of the allocators is past what the index names, and the
\* process's allocators are past that record and past every file.
AheadInv ==
  /\ \A g \in Gens : g \in Live \/ journal[g] # NotJournaled => g < seq.nextGen
  /\ \A r \in rows : r.id < seq.nextId
  /\ \A c \in changes : c.epoch <= seq.epoch
  /\ seq.nextGen <= MaxGen + 1
  /\ \A g \in whole \ visible : g < seq.nextGen
  /\ mode = "up" =>
       /\ seq.nextGen <= genNext
       /\ \A g \in visible \cup late : g < genNext
       /\ \A b \in Batches : Active(b) => sealGen[b] < genNext
       /\ seq.nextId <= alloc.nextId
       /\ seq.epoch <= alloc.epoch + 1

\* Where a maintenance operation stands says what it has in hand.
PlanInv ==
  /\ maint \in {"free", "committed"} => members = {}
  /\ maint \in {"planned", "journaled", "synced", "rejected"} => members # {}
  /\ members = {} => parts = <<>> /\ gens = <<>> /\ ~keep
  /\ members # {} => IF keep THEN parts = <<>> ELSE Len(parts) \in {1, 2}
  /\ maint = "planned" => ~keep /\ gens = <<>>
  /\ maint = "journaled" => ~keep
  /\ maint \in {"journaled", "synced", "rejected"} => Len(gens) = Len(parts)
  /\ gens # <<>> => Len(gens) = Len(parts)
  /\ \A k \in DOMAIN gens : data[gens[k]] = [rows |-> parts[k], sorted |-> TRUE]

\* What is opening runs nothing but the replay.
OpenInv ==
  mode = "opening" =>
    /\ poison = "no" /\ late = {} /\ fetched = {} /\ members = {}
    /\ maint \in {"free", "unlinked", "cleanable", "cleared"}
    /\ \A b \in Batches : ~Active(b)

\* A frame whose fsync can still be trusted.
Trusted(g) == g \in visible \cap whole /\ (poison # "sync" => g \notin dropped)
Fsynced(g) == g \in visible \cap durable \cap whole

DiskInv ==
  /\ RowsDurable
  /\ NoResurrection
  /\ \A b \in Batches :
       /\ sealPc[b] = "written" => Trusted(sealGen[b])
       /\ sealPc[b] = "synced" => Fsynced(sealGen[b])
  /\ maint = "journaled" => \A g \in Outputs \cap whole : Trusted(g)
  /\ maint = "synced" => \A g \in Outputs : Fsynced(g)
  /\ maint \in {"cleanable", "cleared"} =>
       (durable \ visible) \cap whole \cap processed \subseteq dropped

\* The change log beside its consumer: what was read is still there, and what
\* has come since has a later epoch.
LogInv ==
  /\ ChangesComplete
  /\ fetched \subseteq changes
  /\ \A c \in changes : c.batch \in landed
  /\ \A c \in changes \ fetched, f \in fetched : f.epoch < c.epoch
  /\ \A b \in landed : sealPc[b] \in {"acked", "failed"}

Typed == TypeIndex /\ TypeDisk /\ TypeProcess /\ TypePlan /\ TypeRest

IInv == Typed /\ NamesInv /\ AheadInv /\ PlanInv /\ OpenInv /\ DiskInv /\ LogInv /\ RollupExact

-----------------------------------------------------------------------------
(* What only the refinement needs. *)

\* No row comes between two of a plan's members where they hold one.
Apart(S) ==
  \A q \in rows \ S : \/ \A r \in S : q.id < r.id
                      \/ \A r \in S : r.id < q.id
                      \/ DOMAIN Held(q) \cap TimesOf(S) = {}

\* What a plan's outputs, or the member it keeps, hold is the fold of its
\* members.
FoldsTo(S, outputs, kept) ==
  /\ \A k \in DOMAIN outputs :
       /\ DOMAIN outputs[k] \subseteq TimesOf(S)
       /\ \A t \in DOMAIN outputs[k] : outputs[k][t] = Held(Newest(Holding(S, t)))[t]
       /\ \A j \in DOMAIN outputs : j # k => DOMAIN outputs[j] \cap DOMAIN outputs[k] = {}
  /\ S # {} =>
       IF kept THEN Held(Oldest(S)) = Fold(S)
       ELSE TimesOf(S) \subseteq UNION {DOMAIN outputs[k] : k \in DOMAIN outputs}
  /\ Apart(S)

PlanFolds == FoldsTo(members, parts, keep)

SealData ==
  \A b \in Batches : Active(b) => data[sealGen[b]].rows = Content[b]

-----------------------------------------------------------------------------
(* Runs, and the newest and the oldest of a set of rows. *)

LEMMA RunIs ==
  \A f : f \in Runs <=> \E S \in SUBSET Times : f \in [S -> Values]
BY DEF Runs

LEMMA EmptyRun == <<>> \in Runs /\ DOMAIN <<>> = {}
<1>1. <<>> \in [{} -> Values]
  OBVIOUS
<1> QED BY <1>1, RunIs

\* A set of naturals has a least element, and a greatest if it is bounded.
LEMMA LeastNat ==
  ASSUME NEW T \in SUBSET Nat, T # {}
  PROVE  \E n \in T : \A m \in T : n <= m
<1>1. PICK n \in T : \A m \in T : ~(<<m, n>> \in OpToRel(<, Nat))
  BY NatLessThanWellFounded, WFMin
<1>2. ASSUME NEW a \in Nat, NEW b \in Nat, a < b
      PROVE  <<a, b>> \in OpToRel(<, Nat)
  <2>1. <<a, b>> \in Nat \X Nat /\ <<a, b>>[1] = a /\ <<a, b>>[2] = b
    OBVIOUS
  <2>2. <<a, b>> \in {ss \in Nat \X Nat : ss[1] < ss[2]}
    BY <1>2, <2>1
  <2> QED BY <2>2, Zenon DEF OpToRel
<1>3. \A m \in T : ~(m < n)
  BY <1>1, <1>2
<1> QED BY <1>3, SMT

LEMMA GreatestNat ==
  ASSUME NEW T \in SUBSET Nat, T # {}, NEW bound \in Nat, \A n \in T : n <= bound
  PROVE  \E n \in T : \A m \in T : m <= n
<1> DEFINE U == {d \in Nat : bound - d \in T}
<1>1. \A n \in T : bound - n \in U
  BY SMT
<1>2. PICK d \in U : \A e \in U : d <= e
  <2>1. U # {}
    BY <1>1
  <2> QED BY <2>1, LeastNat
<1>3. \A m \in T : m <= bound - d
  BY <1>1, <1>2, SMT
<1> QED BY <1>2, <1>3

\* What MaxOr0 says of a set of generations.
LEMMA MaxOr0Bounds ==
  ASSUME NEW S, S \subseteq Gens, MaxGen \in Nat
  PROVE  /\ MaxOr0(S) \in 0..MaxGen /\ \A g \in S : g <= MaxOr0(S)
         /\ MaxOr0(S) \in S \cup {0}
<1>1. CASE S = {}
  BY <1>1 DEF MaxOr0
<1>2. CASE S # {}
  <2>1. S \in SUBSET Nat /\ \A n \in S : n <= MaxGen
    BY DEF Gens
  <2>2. \E n \in S : \A m \in S : m <= n
    BY <1>2, <2>1, GreatestNat
  <2>3. MaxOr0(S) \in S /\ \A m \in S : m <= MaxOr0(S)
    BY <1>2, <2>2 DEF MaxOr0
  <2>4. MaxOr0(S) \in Nat /\ MaxOr0(S) <= MaxGen
    BY <2>1, <2>3
  <2> HIDE DEF MaxOr0
  <2> QED BY <2>3, <2>4
<1> QED BY <1>1, <1>2

\* Rows whose ids are naturals, and unique.
Identified(S) ==
  /\ \A r \in S : r.id \in Nat
  /\ \A r, q \in S : r.id = q.id => r = q

LEMMA NewestIs ==
  ASSUME NEW S, Identified(S), NEW r \in S, \A q \in S : q.id <= r.id
  PROVE  Newest(S) = r
<1>1. \A v \in S : (\A q \in S : q.id <= v.id) => v = r
  BY DEF Identified
<1> QED BY <1>1 DEF Newest

LEMMA NewestIn ==
  ASSUME NEW S, Identified(S), S # {}, NEW bound \in Nat, \A q \in S : q.id < bound
  PROVE  Newest(S) \in S /\ \A q \in S : q.id <= Newest(S).id
<1> DEFINE T == {q.id : q \in S}
<1>1. \E n \in T : \A m \in T : m <= n
  <2>1. T \in SUBSET Nat /\ T # {} /\ \A n \in T : n <= bound
    BY DEF Identified
  <2> QED BY <2>1, GreatestNat
<1>2. \E r \in S : \A q \in S : q.id <= r.id
  BY <1>1
<1> QED BY <1>2 DEF Newest

LEMMA OldestIn ==
  ASSUME NEW S, Identified(S), S # {}
  PROVE  Oldest(S) \in S /\ \A q \in S : Oldest(S).id <= q.id
<1> DEFINE T == {q.id : q \in S}
<1>1. \E n \in T : \A m \in T : n <= m
  <2>1. T \in SUBSET Nat /\ T # {}
    BY DEF Identified
  <2> QED BY <2>1, LeastNat
<1>2. \E r \in S : \A q \in S : r.id <= q.id
  BY <1>1
<1> QED BY <1>2 DEF Oldest

LEMMA GensOfOne ==
  ASSUME NEW r
  PROVE  GensOf({r}) = {r.gen}
BY DEF GensOf

LEMMA GensOfUnion ==
  ASSUME NEW S, NEW T
  PROVE  GensOf(S \cup T) = GensOf(S) \cup GensOf(T)
BY DEF GensOf

-----------------------------------------------------------------------------
(* The invariant, one lemma per group of steps. *)

USE DEF index, disk, process, seals, plan, history

LEMMA InitInv == Init => IInv
<1> SUFFICES ASSUME Init PROVE IInv
  OBVIOUS
<1> USE StoreAssumption
<1>1. TypeDisk
  <2>1. [rows |-> <<>>, sorted |-> TRUE] \in [rows : Runs, sorted : BOOLEAN]
    BY EmptyRun
  <2> QED BY <2>1 DEF Init, TypeDisk
<1>2. TypePlan
  BY EmptySeq DEF Init, TypePlan, MaintPc
<1>3. TypeIndex /\ TypeRest
  BY DEF Init, TypeIndex, TypeRest, NotJournaled
<1>4. TypeProcess
  BY DEF Init, TypeProcess, SealPc
<1>5. NamesInv /\ AheadInv /\ OpenInv
  BY DEF Init, NamesInv, AheadInv, OpenInv, Live, GensOf, Active, Gens, NotJournaled
<1>6. PlanInv /\ DiskInv
  BY DEF Init, PlanInv, DiskInv, RowsDurable, NoResurrection, Live, GensOf
<1>7. LogInv /\ RollupExact
  BY DEF Init, LogInv, ChangesComplete, RollupExact, Live, GensOf
<1> QED BY <1>1, <1>2, <1>3, <1>4, <1>5, <1>6, <1>7 DEF IInv, Typed

\* Nothing knows a generation that was not given out yet (seed_gen).
LEMMA FreshGen ==
  ASSUME IInv, mode = "up", NEW g \in Gens, g >= genNext
  PROVE  /\ g \notin Live \cup visible \cup whole \cup late
         /\ journal[g] = NotJournaled
         /\ \A b \in Batches : Active(b) => sealGen[b] # g
         /\ \A k \in DOMAIN gens : gens[k] # g
<1> USE DEF IInv, Typed
<1>1. seq.nextGen \in Nat /\ genNext \in Nat /\ seq.nextGen <= genNext /\ g \in Nat
  BY StoreAssumption DEF TypeIndex, TypeProcess, AheadInv, Gens
<1>2. g \notin Live /\ journal[g] = NotJournaled
  BY <1>1 DEF AheadInv
<1>3. g \notin visible \cup late
  BY <1>1 DEF AheadInv
<1>4. g \notin whole
  BY <1>1, <1>3 DEF AheadInv
<1>5. \A b \in Batches : Active(b) => sealGen[b] # g
  BY <1>1 DEF AheadInv
<1>6. \A k \in DOMAIN gens : gens[k] # g
  BY <1>2 DEF NamesInv, NotJournaled
<1> QED BY <1>2, <1>3, <1>4, <1>5, <1>6

\* A seal's frame takes a generation that nothing knows (write_seal_frame).
LEMMA SealWriteInv ==
  ASSUME IInv, NEW b \in Batches, SealWrite(b)
  PROVE  IInv'
<1> USE StoreAssumption DEF IInv, Typed, SealWrite, Seal, Writable
<1> PICK g \in Gens : g = genNext
  OBVIOUS
<1>0. /\ g \in Nat /\ g \notin Live \cup visible \cup whole
      /\ journal[g] = NotJournaled
      /\ \A c \in Batches : Active(c) => sealGen[c] # g
      /\ \A k \in DOMAIN gens : gens[k] # g
      /\ mode = "up" /\ mode' = "up" /\ genNext' = g + 1
      /\ sealGen' = [sealGen EXCEPT ![b] = g]
      /\ data' = [data EXCEPT ![g] = [rows |-> Content[b], sorted |-> b \notin Late]]
      /\ \/ Written(g) /\ Seal(b, "written")
         \/ WriteFails(g) /\ Seal(b, "failed")
  <2>1. g \in Nat /\ g >= genNext /\ mode = "up"
    BY DEF Gens
  <2> QED BY <2>1, FreshGen
<1>1. TypeIndex' /\ TypePlan' /\ TypeRest'
  BY DEF TypeIndex, TypePlan, TypeRest
<1>2. TypeProcess'
  <2>1. sealPc' \in [Batches -> SealPc] /\ sealGen' \in [Batches -> Gens \cup {0}]
    BY <1>0 DEF TypeProcess, SealPc
  <2>2. genNext' \in 1..MaxGen + 1
    BY <1>0 DEF Gens
  <2>3. late' \subseteq late \cup {g}
    BY <1>0 DEF Written, WriteFails
  <2> QED BY <2>1, <2>2, <2>3 DEF TypeProcess
<1>3. TypeDisk'
  <2>1. [rows |-> Content[b], sorted |-> b \notin Late] \in [rows : Runs, sorted : BOOLEAN]
    OBVIOUS
  <2>2. /\ whole' \subseteq whole \cup {g} /\ visible' \subseteq visible \cup {g}
        /\ dropped' \subseteq dropped
    BY <1>0 DEF Written, WriteFails, Create
  <2> QED BY <1>0, <2>1, <2>2 DEF TypeDisk
<1>4. NamesInv'
  BY <1>0 DEF TypeProcess, NamesInv, Live, GensOf, Active
<1>5. AheadInv'
  <2>1. \A h \in visible' \cup late' : h < genNext'
    <3>1. visible' \cup late' \subseteq visible \cup late \cup {g}
      BY <1>0 DEF Written, WriteFails, Create
    <3>2. \A h \in visible \cup late : h \in Nat /\ h < g
      BY <1>0 DEF TypeDisk, TypeProcess, AheadInv, Gens
    <3> QED BY <1>0, <3>1, <3>2
  <2>2. \A h \in whole' \ visible' : h < seq'.nextGen
    BY <1>0 DEF AheadInv, Written, WriteFails, Create
  <2>3. \A c \in Batches : Active(c)' => sealGen'[c] < genNext'
    BY <1>0 DEF TypeProcess, AheadInv, Active, Gens
  <2>4. seq.nextGen <= genNext'
    BY <1>0 DEF TypeIndex, AheadInv
  <2> QED BY <1>0, <2>1, <2>2, <2>3, <2>4 DEF AheadInv, Live, GensOf
<1>6. PlanInv'
  BY <1>0 DEF TypeDisk, TypePlan, PlanInv
<1>7. OpenInv'
  BY <1>0 DEF OpenInv
<1>8. DiskInv'
  <2>1. RowsDurable' /\ NoResurrection'
    BY <1>0 DEF DiskInv, RowsDurable, NoResurrection, Live, GensOf, Journal, Written, WriteFails, Create
  <2>2. \A h : h # g /\ Trusted(h) => Trusted(h)'
    BY DEF Trusted, Written, WriteFails, Create
  <2>3. \A h : Fsynced(h) => Fsynced(h)'
    BY DEF Fsynced, Written, WriteFails, Create
  <2>4. Written(g) => Trusted(g)'
    BY DEF Trusted, Written, Create
  <2>5. \A c \in Batches : /\ sealPc'[c] = "written" => Trusted(sealGen[c])'
                           /\ sealPc'[c] = "synced" => Fsynced(sealGen[c])'
    BY <1>0, <2>2, <2>3, <2>4 DEF TypeProcess, DiskInv, Active
  <2>6. maint = "journaled" => \A h \in Outputs \cap whole' : Trusted(h)'
    BY <1>0, <2>2 DEF DiskInv, Outputs, Written, WriteFails
  <2>7. (durable \ visible') \cap whole' \subseteq (durable \ visible) \cap whole
    BY DEF Written, WriteFails, Create
  <2>8. dropped \ dropped' \subseteq {g}
    BY DEF Written, WriteFails, Create
  <2> QED BY <1>0, <2>1, <2>3, <2>5, <2>6, <2>7, <2>8 DEF DiskInv, Outputs
<1>9. LogInv' /\ RollupExact'
  <2>1. \A c \in landed : sealPc'[c] = sealPc[c]
    BY <1>0 DEF TypeProcess, TypeRest, LogInv
  <2> QED BY <2>1 DEF LogInv, ChangesComplete, RollupExact, Live, GensOf
<1> QED BY <1>1, <1>2, <1>3, <1>4, <1>5, <1>6, <1>7, <1>8, <1>9

\* A seal that stops leaves its frame as litter.
LEMMA SealDropInv ==
  ASSUME IInv, NEW b \in Batches, SealDrop(b)
  PROVE  IInv'
<1> USE DEF IInv, Typed, SealDrop, Seal
<1>1. Typed'
  BY DEF TypeIndex, TypeDisk, TypeProcess, TypePlan, TypeRest, SealPc
<1>2. \A c \in Batches : Active(c)' => Active(c) /\ sealPc'[c] = sealPc[c]
  BY DEF TypeProcess, Active
<1>3. NamesInv' /\ AheadInv' /\ OpenInv'
  BY <1>2 DEF NamesInv, AheadInv, OpenInv, Live, GensOf
<1>4. PlanInv' /\ RollupExact'
  BY DEF PlanInv, RollupExact, Live, GensOf
<1>5. DiskInv'
  BY <1>2 DEF DiskInv, RowsDurable, NoResurrection, Live, GensOf, Journal, Trusted, Fsynced, Outputs, Active
<1>6. LogInv'
  BY DEF LogInv, ChangesComplete, TypeProcess, TypeRest
<1> QED BY <1>1, <1>3, <1>4, <1>5, <1>6

\* What an fsync of segments/ does for the entries it may be trusted with, and
\* what its failure leaves of them (DirSyncer).
LEMMA SyncDirDoes ==
  ASSUME SyncDir
  PROVE  /\ \A g : Fsynced(g) => Fsynced(g)'
         /\ \A g : Trusted(g) => Trusted(g)' /\ Fsynced(g)'
         /\ durable' \ visible' \subseteq dropped'
         /\ durable' \subseteq durable \cup visible
         /\ UNCHANGED <<data, whole, visible, dropped, process>>
BY DEF SyncDir, Trusted, Fsynced

LEMMA SyncDirFailsDoes ==
  ASSUME SyncDirFails
  PROVE  /\ \A g : Fsynced(g) => Fsynced(g)'
         /\ \A g : Trusted(g) => Trusted(g)'
         /\ dropped \subseteq dropped' /\ dropped' \subseteq dropped \cup visible \cup durable
         /\ poison' = "sync"
         /\ UNCHANGED <<data, whole, visible, durable, mode, alloc, genNext>>
BY DEF SyncDirFails, Trusted, Fsynced

\* A seal commits only after an fsync of segments/ that returned.
LEMMA SealSyncInv ==
  ASSUME IInv, NEW b \in Batches, SealSync(b)
  PROVE  IInv'
<1> USE DEF IInv, Typed, SealSync, Seal
<1>0. /\ \/ SyncDir /\ sealPc' = [sealPc EXCEPT ![b] = "synced"]
         \/ SyncDirFails /\ sealPc' = [sealPc EXCEPT ![b] = "failed"]
      /\ sealPc[b] = "written" /\ mode = "up" /\ mode' = "up"
      /\ UNCHANGED <<data, whole, visible, mode, alloc, genNext>>
      /\ UNCHANGED <<index, late, sealGen, maint, plan, processed, fetched, history>>
      /\ durable' \subseteq durable \cup visible
      /\ dropped' \subseteq dropped \cup visible \cup durable
      /\ poison' \in {poison, "sync"}
  BY SyncDirDoes, SyncDirFailsDoes DEF SyncDir
<1> HIDE DEF SealSync
<1>1. Typed'
  BY <1>0 DEF TypeIndex, TypeDisk, TypeProcess, TypePlan, TypeRest, SealPc
<1>2. \A c \in Batches : Active(c)' => Active(c)
  BY <1>0 DEF TypeProcess, Active
<1>3. NamesInv' /\ AheadInv' /\ OpenInv'
  BY <1>0, <1>2 DEF NamesInv, AheadInv, OpenInv, Live, GensOf
<1>4. PlanInv' /\ RollupExact'
  BY <1>0 DEF PlanInv, RollupExact, Live, GensOf
<1>5. DiskInv'
  <2>1. RowsDurable' /\ NoResurrection'
    BY <1>0, SyncDirDoes, SyncDirFailsDoes
       DEF DiskInv, RowsDurable, NoResurrection, Live, GensOf, Journal, Fsynced
  <2>2. \A c \in Batches : /\ sealPc'[c] = "written" => Trusted(sealGen[c])'
                           /\ sealPc'[c] = "synced" => Fsynced(sealGen[c])'
    BY <1>0, SyncDirDoes, SyncDirFailsDoes DEF DiskInv, TypeProcess
  <2>3. (maint = "journaled" => \A g \in Outputs \cap whole : Trusted(g)')
        /\ (maint = "synced" => \A g \in Outputs : Fsynced(g)')
    BY <1>0, SyncDirDoes, SyncDirFailsDoes DEF DiskInv
  <2>4. maint \in {"cleanable", "cleared"} =>
          (durable' \ visible) \cap whole \cap processed \subseteq dropped'
    BY <1>0, SyncDirDoes, SyncDirFailsDoes DEF DiskInv
  <2> QED BY <1>0, <2>1, <2>2, <2>3, <2>4 DEF DiskInv, Outputs
<1>6. LogInv'
  BY <1>0 DEF LogInv, ChangesComplete, TypeProcess, TypeRest
<1> QED BY <1>1, <1>3, <1>4, <1>5, <1>6

\* The frame of an operation that was dropped is litter, or journaled.
LEMMA LateWriteInv ==
  ASSUME IInv, NEW g \in late, LateWrite(g)
  PROVE  IInv'
<1> USE DEF IInv, Typed, LateWrite, Create
<1>1. Typed'
  BY DEF TypeIndex, TypeDisk, TypeProcess, TypePlan, TypeRest
<1>2. NamesInv' /\ PlanInv' /\ RollupExact'
  BY DEF NamesInv, PlanInv, RollupExact, Live, GensOf, Active
<1>3. AheadInv' /\ OpenInv'
  BY DEF AheadInv, OpenInv, Live, GensOf, Active
<1>4. DiskInv'
  <2>1. \A h : (Trusted(h) => Trusted(h)') /\ (Fsynced(h) => Fsynced(h)')
    BY DEF Trusted, Fsynced
  <2>2. Trusted(g)'
    BY DEF Trusted
  <2> QED BY <2>1, <2>2 DEF DiskInv, RowsDurable, NoResurrection, Live, GensOf, Journal, Fsynced, Outputs
<1>5. LogInv'
  BY DEF LogInv, ChangesComplete
<1> QED BY <1>1, <1>2, <1>3, <1>4, <1>5

\* A seal's row takes an id and an epoch nothing has, and names a frame that is
\* durable (publish_seal).
LEMMA SealCommitInv ==
  ASSUME IInv, NEW b \in Batches, SealCommit(b)
  PROVE  IInv'
<1> USE StoreAssumption DEF IInv, Typed
<1> DEFINE r == [id |-> alloc.nextId, gen |-> sealGen[b]]
           e == alloc.epoch + 1
<1>0. /\ mode = "up" /\ poison = "no" /\ sealPc[b] = "synced" /\ poison' \in {"no", "commit"}
      /\ sealPc' \in {[sealPc EXCEPT ![b] = "acked"], [sealPc EXCEPT ![b] = "failed"]}
      /\ alloc' = [nextId |-> alloc.nextId + 1, epoch |-> alloc.epoch]
           \/ alloc' = [nextId |-> alloc.nextId + 1, epoch |-> e]
      /\ \/ SealLands(b) /\ acked' = acked \cup {b}
         \/ SealLands(b) /\ acked' = acked
         \/ UNCHANGED <<index, landed, acked>>
      /\ UNCHANGED <<disk, mode, genNext, late, sealGen, maint, plan, processed, fetched, batched, restarts>>
  BY DEF SealCommit, Writable, Seal, Rejected, Ambiguous, DroppedInFlight, Epoch, TypeProcess
<1>1. /\ Active(b) /\ sealGen[b] \in Gens /\ sealGen[b] \notin Live
      /\ journal[sealGen[b]] = NotJournaled
      /\ alloc.nextId \in Nat /\ alloc.epoch \in Nat /\ seq.nextId \in Nat
      /\ seq.nextGen \in Nat /\ seq.epoch \in Nat /\ genNext \in Nat
      /\ sealGen[b] \in Nat /\ sealGen[b] <= MaxGen /\ sealGen[b] < genNext
      /\ Fsynced(sealGen[b]) /\ seq.nextId <= alloc.nextId /\ seq.epoch <= e
      /\ seq.nextGen <= genNext /\ seq.nextGen <= MaxGen + 1
  BY <1>0 DEF Active, NamesInv, AheadInv, DiskInv, TypeIndex, TypeProcess, Gens
<1>2. /\ alloc' \in [nextId : Nat, epoch : Nat] /\ alloc'.nextId = alloc.nextId + 1
      /\ alloc'.epoch \in {alloc.epoch, e}
  BY <1>0, <1>1
<1>3. /\ \A c \in Batches : Active(c)' => c # b /\ Active(c) /\ sealPc'[c] = sealPc[c]
      /\ \A c \in Batches : c # b => sealPc'[c] = sealPc[c]
      /\ sealPc'[b] \in {"acked", "failed"}
      /\ sealPc' \in [Batches -> SealPc]
  BY <1>0 DEF TypeProcess, Active, SealPc
<1>4. CASE SealLands(b)
  <2>0. /\ EpochIsNew /\ rows' = rows \cup {r}
        /\ seq'.nextId = Max2(seq.nextId, alloc.nextId + 1)
        /\ seq'.nextGen = Max2(seq.nextGen, sealGen[b] + 1)
        /\ seq'.epoch = Max2(seq.epoch, e)
        /\ rollup' = rollup \cup {sealGen[b]}
        /\ changes' = changes \cup {[epoch |-> e, batch |-> b]}
        /\ landed' = landed \cup {b} /\ UNCHANGED journal
        /\ Live' = Live \cup {sealGen[b]}
        /\ seq' \in [nextId : Nat, nextGen : Nat, epoch : Nat]
    <3>1. seq' = [nextId |-> Max2(seq.nextId, alloc.nextId + 1),
                  nextGen |-> Max2(seq.nextGen, sealGen[b] + 1),
                  epoch |-> Max2(seq.epoch, e)]
      BY <1>4 DEF SealLands, Epoch
    <3>2. Max2(seq.nextId, alloc.nextId + 1) \in Nat /\ Max2(seq.nextGen, sealGen[b] + 1) \in Nat
          /\ Max2(seq.epoch, e) \in Nat
      BY <1>1 DEF Max2
    <3>3. /\ seq'.nextId = Max2(seq.nextId, alloc.nextId + 1)
          /\ seq'.nextGen = Max2(seq.nextGen, sealGen[b] + 1)
          /\ seq'.epoch = Max2(seq.epoch, e)
          /\ seq' \in [nextId : Nat, nextGen : Nat, epoch : Nat]
      BY <3>1, <3>2
    <3>4. /\ EpochIsNew /\ rows' = rows \cup {r}
          /\ rollup' = rollup \cup {sealGen[b]}
          /\ changes' = changes \cup {[epoch |-> e, batch |-> b]}
          /\ landed' = landed \cup {b} /\ UNCHANGED journal
      BY <1>4 DEF SealLands, Epoch
    <3>5. Live' = Live \cup {sealGen[b]}
      <4>1. Live' = GensOf(rows')
        BY DEF Live, GensOf
      <4>2. r.gen = sealGen[b]
        OBVIOUS
      <4>3. GensOf(rows \cup {r}) = GensOf(rows) \cup GensOf({r})
        BY GensOfUnion
      <4>4. GensOf({r}) = {sealGen[b]}
        BY <4>2, GensOfOne
      <4> HIDE DEF r
      <4> QED BY <3>4, <4>1, <4>3, <4>4 DEF Live
    <3> QED BY <3>3, <3>4, <3>5
  <2>1. /\ seq'.nextId > alloc.nextId /\ seq'.nextId >= seq.nextId /\ seq'.nextId <= alloc'.nextId
        /\ seq'.nextGen > sealGen[b] /\ seq'.nextGen >= seq.nextGen
        /\ seq'.nextGen <= genNext /\ seq'.nextGen <= MaxGen + 1
        /\ seq'.epoch = e
    BY <1>1, <1>2, <2>0 DEF Max2
  <2>2. /\ r \in [id : Nat, gen : Gens] /\ r.id = alloc.nextId /\ r.gen = sealGen[b]
        /\ \A q \in rows : q.id < alloc.nextId /\ q.id \in Nat /\ q.gen \in Live
    BY <1>1 DEF TypeIndex, AheadInv, Live, GensOf
  <2>3. Typed'
    <3>1. TypeIndex'
      BY <1>1, <2>0, <2>2 DEF TypeIndex
    <3>2. TypeRest'
      BY <1>0, <2>0 DEF TypeRest
    <3> QED BY <1>0, <1>2, <1>3, <2>0, <3>1, <3>2 DEF TypeDisk, TypeProcess, TypePlan
  <2>4. NamesInv'
    <3>1. \A p, q \in rows' : p.gen = q.gen \/ p.id = q.id => p = q
      BY <1>1, <2>0, <2>2 DEF NamesInv
    <3>2. \A g \in Live' : journal'[g] = NotJournaled
      BY <1>1, <2>0 DEF NamesInv
    <3>3. \A c \in Batches : Active(c)' => sealGen[c] \notin Live'
      BY <1>1, <1>3, <2>0 DEF NamesInv
    <3> QED BY <1>0, <1>3, <2>0, <3>1, <3>2, <3>3 DEF NamesInv
  <2>5. AheadInv'
    <3>1. \A g \in Gens : g \in Live' \/ journal'[g] # NotJournaled => g < seq'.nextGen
      BY <1>1, <2>0, <2>1 DEF AheadInv, Gens
    <3>2. \A q \in rows' : q.id < seq'.nextId
      BY <1>1, <2>0, <2>1, <2>2
    <3>3. \A c \in changes' : c.epoch <= seq'.epoch
      BY <1>1, <2>0, <2>1 DEF AheadInv, TypeIndex
    <3>4. \A g \in whole' \ visible' : g < seq'.nextGen
      BY <1>0, <1>1, <2>0, <2>1 DEF AheadInv, TypeDisk, Gens
    <3>5. seq'.epoch <= alloc'.epoch + 1
      BY <1>1, <1>2, <2>1
    <3> QED BY <1>0, <1>1, <1>3, <2>0, <2>1, <3>1, <3>2, <3>3, <3>4, <3>5 DEF AheadInv
  <2>6. PlanInv' /\ OpenInv'
    BY <1>0 DEF PlanInv, OpenInv
  <2>7. DiskInv'
    <3>1. RowsDurable' /\ NoResurrection'
      BY <1>0, <1>1, <2>0 DEF DiskInv, RowsDurable, NoResurrection, Journal, Fsynced
    <3>2. \A g : (Trusted(g) => Trusted(g)') /\ (Fsynced(g) => Fsynced(g)')
      BY <1>0 DEF Trusted, Fsynced
    <3> QED BY <1>0, <1>3, <3>1, <3>2 DEF DiskInv, Outputs, Active
  <2>8. LogInv' /\ RollupExact'
    <3>1. \A f \in fetched : f.epoch < e
      BY <1>1, <2>0 DEF LogInv, EpochIsNew, Epoch, AheadInv, TypeIndex
    <3>2. \A c \in landed' : sealPc'[c] \in {"acked", "failed"}
      BY <1>3, <2>0 DEF LogInv, TypeRest
    <3>3. ChangesComplete'
      <4>1. [epoch |-> e, batch |-> b] \in changes' /\ [epoch |-> e, batch |-> b].batch = b
        BY <2>0
      <4>2. changes \subseteq changes'
        BY <2>0
      <4>3. landed' = landed \cup {b} /\ batched' = batched
        BY <1>0, <2>0
      <4>4. \A c \in landed : c \in batched \/ \E d \in changes : c = d.batch
        BY DEF LogInv, ChangesComplete
      <4>5. \A c \in landed' : c \in batched' \/ \E d \in changes' : c = d.batch
        BY <4>1, <4>2, <4>3, <4>4
      <4> QED BY <4>5 DEF ChangesComplete
    <3>4. /\ fetched' \subseteq changes'
          /\ \A c \in changes' : c.batch \in landed'
          /\ \A c \in changes' \ fetched', f \in fetched' : f.epoch < c.epoch
      BY <1>0, <2>0, <3>1 DEF LogInv
    <3>5. RollupExact'
      BY <2>0 DEF RollupExact
    <3> QED BY <3>2, <3>3, <3>4, <3>5 DEF LogInv
  <2> QED BY <2>3, <2>4, <2>5, <2>6, <2>7, <2>8
<1>5. CASE UNCHANGED <<index, landed, acked>>
  <2>1. Typed'
    BY <1>0, <1>2, <1>3, <1>5 DEF TypeIndex, TypeDisk, TypeProcess, TypePlan, TypeRest
  <2>2. NamesInv' /\ PlanInv' /\ OpenInv'
    BY <1>0, <1>3, <1>5 DEF NamesInv, PlanInv, OpenInv, Live, GensOf
  <2>3. AheadInv'
    BY <1>0, <1>1, <1>2, <1>3, <1>5 DEF AheadInv, Live, GensOf
  <2>4. DiskInv'
    BY <1>0, <1>3, <1>5 DEF DiskInv, RowsDurable, NoResurrection, Live, GensOf, Journal, Trusted, Fsynced, Outputs, Active
  <2>5. LogInv' /\ RollupExact'
    BY <1>0, <1>3, <1>5 DEF LogInv, ChangesComplete, RollupExact, Live, GensOf, TypeRest
  <2> QED BY <2>1, <2>2, <2>3, <2>4, <2>5
<1> QED BY <1>0, <1>4, <1>5

\* What a row holds is a run, and so are the parts of one and a fold of several.
LEMMA HeldRun ==
  ASSUME TypeIndex, TypeDisk, NEW r \in rows
  PROVE  /\ Held(r) \in Runs /\ DOMAIN Held(r) \subseteq Times
         /\ \A t \in DOMAIN Held(r) : Held(r)[t] \in Values
<1>1. Held(r) \in Runs
  BY DEF TypeIndex, TypeDisk, Held
<1> QED BY <1>1, RunIs

LEMMA CutRun ==
  ASSUME NEW f \in Runs, NEW t
  PROVE  Before(f, t) \in Runs /\ From(f, t) \in Runs
<1>1. PICK S \in SUBSET Times : f \in [S -> Values]
  BY RunIs
<1>2. Before(f, t) \in [{v \in S : v < t} -> Values]
  BY <1>1 DEF Before
<1>3. From(f, t) \in [{v \in S : t <= v} -> Values]
  BY <1>1 DEF From
<1> QED BY <1>2, <1>3, RunIs

LEMMA RowsIdentified ==
  ASSUME IInv, NEW S \in SUBSET rows
  PROVE  Identified(S) /\ (S # {} => /\ Newest(S) \in S /\ \A q \in S : q.id <= Newest(S).id
                                     /\ Oldest(S) \in S /\ \A q \in S : Oldest(S).id <= q.id)
<1>1. Identified(S) /\ seq.nextId \in Nat /\ \A q \in S : q.id < seq.nextId
  BY DEF IInv, Typed, TypeIndex, NamesInv, AheadInv, Identified
<1> QED BY <1>1, NewestIn, OldestIn

LEMMA FoldRun ==
  ASSUME IInv, NEW S \in SUBSET rows
  PROVE  Fold(S) \in Runs
<1>1. TimesOf(S) \in SUBSET Times
  BY HeldRun DEF IInv, Typed, TimesOf
<1>2. ASSUME NEW t \in TimesOf(S)
      PROVE  Held(Newest(Holding(S, t)))[t] \in Values
  <2>1. Holding(S, t) # {} /\ Holding(S, t) \in SUBSET rows
    BY DEF TimesOf, Holding
  <2>2. Newest(Holding(S, t)) \in Holding(S, t)
    BY <2>1, RowsIdentified
  <2>3. Newest(Holding(S, t)) \in rows /\ t \in DOMAIN Held(Newest(Holding(S, t)))
    BY <2>1, <2>2 DEF Holding
  <2> QED BY <2>3, HeldRun DEF IInv, Typed
<1>3. Fold(S) \in [TimesOf(S) -> Values]
  BY <1>2 DEF Fold
<1> QED BY <1>1, <1>3, RunIs

\* A plan reads its members and chooses its outputs; nothing is written yet.
LEMMA PlanIsInv ==
  ASSUME IInv, Writable, maint = "free",
         NEW S \in SUBSET rows, S # {}, NEW outputs \in Seq(Runs), NEW kept \in BOOLEAN,
         IF kept THEN outputs = <<>> ELSE Len(outputs) \in {1, 2},
         PlanIs(S, outputs, kept)
  PROVE  IInv'
<1> USE DEF IInv, Typed, PlanIs, Writable
<1>1. Typed'
  BY EmptySeq DEF TypeIndex, TypeDisk, TypeProcess, TypePlan, TypeRest, MaintPc
<1>2. NamesInv' /\ AheadInv' /\ OpenInv'
  BY DEF NamesInv, AheadInv, OpenInv, Live, GensOf, Active
<1>3. PlanInv'
  BY DEF PlanInv
<1>4. DiskInv'
  BY DEF DiskInv, RowsDurable, NoResurrection, Live, GensOf, Journal, Trusted, Fsynced, Outputs
<1>5. LogInv' /\ RollupExact'
  BY DEF LogInv, ChangesComplete, RollupExact, Live, GensOf
<1> QED BY <1>1, <1>2, <1>3, <1>4, <1>5

LEMMA PlanStepInv ==
  ASSUME IInv, PlanStep
  PROVE  IInv'
<1> USE DEF PlanStep
<1>1. ASSUME NEW r \in rows, PlanReconcile(r)
      PROVE  IInv'
  <2>1. <<Held(r)>> \in Seq(Runs) /\ Len(<<Held(r)>>) = 1 /\ {r} \in SUBSET rows
    BY HeldRun DEF IInv, Typed
  <2> QED BY <1>1, <2>1, PlanIsInv DEF PlanReconcile
<1>2. ASSUME NEW r \in rows, NEW t \in Times, PlanSplit(r, t)
      PROVE  IInv'
  <2>1. Before(Held(r), t) \in Runs /\ From(Held(r), t) \in Runs /\ {r} \in SUBSET rows
    BY HeldRun, CutRun DEF IInv, Typed
  <2>2. <<Before(Held(r), t), From(Held(r), t)>> \in Seq(Runs)
        /\ Len(<<Before(Held(r), t), From(Held(r), t)>>) = 2
    BY <2>1
  <2> QED BY <1>2, <2>1, <2>2, PlanIsInv DEF PlanSplit
<1>3. ASSUME NEW S \in SUBSET rows, Cardinality(S) > 1
      PROVE  S # {}
  BY <1>3, FS_EmptySet
<1>4. ASSUME NEW S \in SUBSET rows, PlanOverlap(S)
      PROVE  IInv'
  <2>1. Fold(S) \in Runs /\ Before(Fold(S), ColdBoundary(S)) \in Runs
        /\ From(Fold(S), ColdBoundary(S)) \in Runs
    BY FoldRun, CutRun
  <2>2. /\ <<Fold(S)>> \in Seq(Runs) /\ Len(<<Fold(S)>>) = 1
        /\ <<Before(Fold(S), ColdBoundary(S)), From(Fold(S), ColdBoundary(S))>> \in Seq(Runs)
        /\ Len(<<Before(Fold(S), ColdBoundary(S)), From(Fold(S), ColdBoundary(S))>>) = 2
    BY <2>1
  <2>3. S # {} /\ \/ PlanIs(S, <<>>, TRUE)
                  \/ PlanIs(S, <<Fold(S)>>, FALSE)
                  \/ PlanIs(S, <<Before(Fold(S), ColdBoundary(S)), From(Fold(S), ColdBoundary(S))>>, FALSE)
    BY <1>3, <1>4 DEF PlanOverlap
  <2> QED BY <2>2, <2>3, PlanIsInv, EmptySeq
<1>5. ASSUME NEW S \in SUBSET rows, PlanSquash(S)
      PROVE  IInv'
  <2>1. <<Fold(S)>> \in Seq(Runs) /\ Len(<<Fold(S)>>) = 1
    BY FoldRun
  <2> QED BY <1>3, <1>5, <2>1, PlanIsInv DEF PlanSquash
<1> QED BY <1>1, <1>2, <1>4, <1>5

\* An operation that ends leaves no plan behind.
LEMMA ReleaseDoes ==
  ASSUME Release
  PROVE  /\ maint' = "free" /\ members' = {} /\ parts' = <<>> /\ gens' = <<>> /\ keep' = FALSE
         /\ processed' = {} /\ Outputs' = {}
         /\ TypePlan' /\ PlanInv'
<1>1. maint' = "free" /\ members' = {} /\ parts' = <<>> /\ gens' = <<>> /\ keep' = FALSE
      /\ processed' = {}
  BY DEF Release, PlanDone
<1>2. Outputs' = {}
  BY <1>1 DEF Outputs
<1>3. TypePlan'
  BY <1>1, EmptySeq DEF TypePlan, MaintPc
<1>4. PlanInv'
  BY <1>1 DEF PlanInv
<1> QED BY <1>1, <1>2, <1>3, <1>4

\* M3 journals names nothing knows, in one commit, before any of them is
\* written.
LEMMA MaintJournalInv ==
  ASSUME IInv, MaintJournal
  PROVE  IInv'
<1> USE StoreAssumption DEF IInv, Typed
<1> DEFINE outs == genNext..genNext + Len(parts) - 1
           Lands == /\ journal' = [g \in Gens |-> IF g \in outs THEN "pending" ELSE journal[g]]
                    /\ seq' = [seq EXCEPT !.nextId = Max2(@, alloc.nextId),
                                          !.nextGen = Max2(@, genNext'),
                                          !.epoch = Max2(@, alloc.epoch)]
           New(g) == [rows |-> parts[g - genNext + 1], sorted |-> TRUE]
<1>0. /\ maint = "planned" /\ genNext + Len(parts) - 1 \in Gens
      /\ genNext' = genNext + Len(parts) /\ poison' \in {"no", "commit", "sync"}
      /\ poison = "no" \/ poison' = poison
      /\ poison' = "sync" <=> poison = "sync"
      /\ \/ /\ Lands /\ maint' = "journaled"
            /\ gens' = [k \in DOMAIN parts |-> genNext + k - 1]
            /\ data' = [g \in Gens |-> IF g \in outs THEN New(g) ELSE data[g]]
            /\ UNCHANGED <<members, parts, keep, processed>>
         \/ Lands /\ Release /\ UNCHANGED data
         \/ UNCHANGED <<journal, seq, data>> /\ Release
      /\ UNCHANGED <<rows, rollup, changes, whole, visible, durable, dropped, mode, alloc, late, seals, fetched, history>>
  BY DEF MaintJournal, Ambiguous, Rejected, DroppedInFlight, TypeProcess
<1>1. /\ mode = "up" /\ Len(parts) \in {1, 2} /\ parts \in Seq(Runs) /\ gens = <<>>
      /\ DOMAIN parts = 1..Len(parts)
      /\ genNext \in Nat \ {0} /\ genNext' \in 1..MaxGen + 1 /\ outs \subseteq Gens
  <2>1. mode = "up" /\ Len(parts) \in {1, 2} /\ gens = <<>>
    BY <1>0 DEF PlanInv, OpenInv, TypeProcess
  <2>2. parts \in Seq(Runs) /\ genNext \in Nat \ {0} /\ MaxGen \in Nat
    BY DEF TypeProcess, TypePlan
  <2>3. DOMAIN parts = 1..Len(parts)
    BY <2>2
  <2>4. genNext + Len(parts) - 1 \in 1..MaxGen /\ genNext' = genNext + Len(parts)
    BY <1>0 DEF Gens
  <2>5. genNext' \in 1..MaxGen + 1
    BY <2>1, <2>2, <2>4
  <2>6. outs \subseteq Gens
    BY <2>1, <2>2, <2>4 DEF Gens
  <2> QED BY <2>1, <2>2, <2>3, <2>5, <2>6
<1>2. \A g \in outs : /\ g \notin Live \cup visible \cup whole \cup late
                      /\ journal[g] = NotJournaled
                      /\ \A b \in Batches : Active(b) => sealGen[b] # g
  <2> TAKE g \in outs
  <2>1. g \in Gens /\ g >= genNext
    BY <1>1
  <2> QED BY <1>1, <2>1, FreshGen
<1>3. ASSUME Lands
      PROVE  TypeIndex' /\ AheadInv' /\ Journal \subseteq Journal'
  <2>0. /\ seq' \in [nextId : Nat, nextGen : Nat, epoch : Nat]
        /\ seq'.nextId = alloc.nextId /\ seq'.nextGen = genNext'
        /\ seq'.epoch <= alloc.epoch + 1 /\ seq'.epoch >= seq.epoch
        /\ seq.nextId <= alloc.nextId /\ seq.nextGen <= genNext
    <3>1. seq.nextId \in Nat /\ seq.nextGen \in Nat /\ seq.epoch \in Nat
          /\ alloc.nextId \in Nat /\ alloc.epoch \in Nat /\ genNext' \in Nat
          /\ seq.nextId <= alloc.nextId /\ seq.nextGen <= genNext /\ seq.epoch <= alloc.epoch + 1
      BY <1>0, <1>1 DEF TypeIndex, TypeProcess, AheadInv
    <3>2. seq' = [nextId |-> Max2(seq.nextId, alloc.nextId), nextGen |-> Max2(seq.nextGen, genNext'),
                  epoch |-> Max2(seq.epoch, alloc.epoch)]
      BY <1>3 DEF TypeIndex
    <3>3. /\ Max2(seq.nextId, alloc.nextId) = alloc.nextId
          /\ Max2(seq.nextGen, genNext') = genNext'
          /\ Max2(seq.epoch, alloc.epoch) \in Nat
          /\ Max2(seq.epoch, alloc.epoch) <= alloc.epoch + 1
          /\ Max2(seq.epoch, alloc.epoch) >= seq.epoch
      <4>1. genNext' >= genNext /\ genNext \in Nat
        BY <1>0, <1>1
      <4> HIDE <1>3
      <4> QED BY <3>1, <4>1 DEF Max2
    <3> QED BY <3>1, <3>2, <3>3
  <2>1. /\ \A g \in outs : journal'[g] = "pending"
        /\ \A g \in Gens \ outs : journal'[g] = journal[g]
        /\ Journal \subseteq Journal'
    BY <1>0, <1>1, <1>3 DEF Journal, NotJournaled
  <2>2. TypeIndex'
    BY <1>0, <1>1, <1>3, <2>0 DEF TypeIndex
  <2>3. AheadInv'
    <3>1. \A g \in Gens : g \in Live' \/ journal'[g] # NotJournaled => g < seq'.nextGen
      <4> TAKE g \in Gens
      <4>1. CASE g \in outs
        BY <1>0, <1>1, <2>0, <4>1
      <4>2. CASE g \notin outs
        BY <1>0, <1>1, <2>0, <2>1, <4>2 DEF AheadInv, Live, GensOf, TypeIndex, Gens
      <4> QED BY <4>1, <4>2
    <3>2. \A r \in rows' : r.id < seq'.nextId
      BY <1>0, <1>1, <2>0 DEF AheadInv, TypeIndex, TypeProcess
    <3>3. \A c \in changes' : c.epoch <= seq'.epoch
      BY <1>0, <2>0 DEF AheadInv, TypeIndex
    <3>4. (\A g \in whole' \ visible' : g < seq'.nextGen) /\ seq'.nextGen <= MaxGen + 1
      BY <1>0, <1>1, <2>0 DEF AheadInv, TypeDisk, TypeIndex, Gens
    <3>5. \A g \in visible' \cup late' : g < genNext'
      BY <1>0, <1>1 DEF AheadInv, TypeDisk, TypeProcess, Gens
    <3>6. \A b \in Batches : Active(b)' => sealGen'[b] < genNext'
      BY <1>0, <1>1 DEF AheadInv, TypeProcess, Active, NamesInv, Gens
    <3>7. seq'.nextGen <= genNext' /\ seq'.nextId <= alloc'.nextId /\ seq'.epoch <= alloc'.epoch + 1
      BY <1>0, <1>1, <2>0 DEF TypeProcess
    <3> QED BY <3>1, <3>2, <3>3, <3>4, <3>5, <3>6, <3>7 DEF AheadInv
  <2> QED BY <2>1, <2>2, <2>3
<1>4. ASSUME UNCHANGED <<journal, seq, data>>, Release
      PROVE  TypeIndex' /\ AheadInv' /\ Journal \subseteq Journal'
  <2>1. TypeIndex'
    BY <1>0, <1>4 DEF TypeIndex
  <2>2. AheadInv'
    <3>1. UNCHANGED <<rows, journal, seq, changes, whole, visible, mode, alloc, late, seals>>
      BY <1>0, <1>4
    <3>2. \A g \in visible \cup late : g \in Nat
      BY DEF TypeDisk, TypeProcess, Gens
    <3>3. \A b \in Batches : Active(b) => sealGen[b] \in Nat
      BY DEF NamesInv, Gens
    <3>4. genNext' >= genNext /\ genNext' \in Nat /\ genNext \in Nat /\ seq.nextGen \in Nat
      BY <1>0, <1>1 DEF TypeIndex
    <3> HIDE <1>4
    <3>5. /\ \A g \in visible \cup late : g < genNext'
          /\ \A b \in Batches : Active(b) => sealGen[b] < genNext'
          /\ seq.nextGen <= genNext'
      BY <1>1, <3>2, <3>3, <3>4 DEF AheadInv
    <3> QED BY <3>1, <3>5 DEF AheadInv, Live, GensOf, Active
  <2>3. Journal' = Journal
    BY <1>4 DEF Journal
  <2> QED BY <2>1, <2>2, <2>3
<1>5. TypeProcess' /\ TypeRest' /\ LogInv' /\ RollupExact' /\ OpenInv'
  BY <1>0, <1>1 DEF TypeProcess, TypeRest, LogInv, ChangesComplete, RollupExact, OpenInv, Live, GensOf
<1>6. /\ RowsDurable'
      /\ \A g : (Trusted(g) => Trusted(g)') /\ (Fsynced(g) => Fsynced(g)')
      /\ \A b \in Batches : /\ sealPc'[b] = "written" => Trusted(sealGen[b])'
                            /\ sealPc'[b] = "synced" => Fsynced(sealGen[b])'
  <2>1. \A g : (Trusted(g) => Trusted(g)') /\ (Fsynced(g) => Fsynced(g)')
    BY <1>0 DEF Trusted, Fsynced
  <2> QED BY <1>0, <2>1 DEF DiskInv, RowsDurable, Live, GensOf
<1>7. CASE Release /\ UNCHANGED data /\ (Lands \/ UNCHANGED <<journal, seq, data>>)
  <2>1. TypeDisk'
    BY <1>0, <1>7 DEF TypeDisk
  <2>2. /\ \A g \in Live : journal'[g] = NotJournaled
        /\ \A b \in Batches : Active(b) => journal'[sealGen[b]] = NotJournaled
    BY <1>2, <1>7, <1>1 DEF NamesInv, Live, GensOf, TypeIndex
  <2>3. NamesInv'
    <3>1. gens' = <<>>
      BY <1>7, ReleaseDoes
    <3> QED BY <1>0, <2>2, <3>1 DEF NamesInv, Live, GensOf, Active
  <2>4. Journal \subseteq Journal'
    BY <1>7, <1>0, <1>1 DEF Journal, NotJournaled
  <2>5. DiskInv'
    <3>1. NoResurrection'
      BY <1>0, <2>4 DEF DiskInv, NoResurrection
    <3>2. maint' = "free"
      BY <1>7, ReleaseDoes
    <3> QED BY <1>6, <3>1, <3>2 DEF DiskInv
  <2> QED BY <1>3, <1>4, <1>5, <1>7, <2>1, <2>3, <2>5, ReleaseDoes
<1>8. CASE /\ Lands /\ maint' = "journaled"
           /\ gens' = [k \in DOMAIN parts |-> genNext + k - 1]
           /\ data' = [g \in Gens |-> IF g \in outs THEN New(g) ELSE data[g]]
           /\ UNCHANGED <<members, parts, keep, processed>>
  <2>1. /\ gens' \in Seq(Gens) /\ Len(gens') = Len(parts) /\ DOMAIN gens' = DOMAIN parts
        /\ \A k \in DOMAIN parts : gens'[k] = genNext + k - 1 /\ gens'[k] \in outs
                                   /\ gens'[k] - genNext + 1 = k
    <3>1. \A k \in 1..Len(parts) : genNext + k - 1 \in outs /\ (genNext + k - 1) - genNext + 1 = k
      BY <1>1
    <3>2. gens' = [k \in 1..Len(parts) |-> genNext + k - 1]
      BY <1>1, <1>8
    <3>3. gens' \in [1..Len(parts) -> Gens]
      BY <1>1, <3>1, <3>2
    <3>4. Len(gens') = Len(parts) /\ gens' \in Seq(Gens)
      <4>1. Len(parts) \in Nat
        BY <1>1
      <4> HIDE DEF outs
      <4> QED BY <3>3, <4>1, LenProperties
    <3> QED BY <1>1, <3>1, <3>2, <3>4
  <2>2. TypePlan'
    BY <1>0, <1>8, <2>1 DEF TypePlan, MaintPc
  <2>3. \A g \in outs : data'[g] = New(g) /\ New(g) \in [rows : Runs, sorted : BOOLEAN]
    <3> TAKE g \in outs
    <3>1. g - genNext + 1 \in DOMAIN parts /\ g \in Gens
      BY <1>1
    <3>2. parts[g - genNext + 1] \in Runs
      BY <1>1, <3>1
    <3> QED BY <1>8, <3>1, <3>2
  <2>4. TypeDisk'
    BY <1>0, <1>8, <2>3 DEF TypeDisk
  <2>5. NamesInv'
    <3>1. /\ \A g \in Live' : journal'[g] = NotJournaled
          /\ \A b \in Batches : Active(b)' =>
               sealGen'[b] \in Gens \ Live' /\ journal'[sealGen'[b]] = NotJournaled
      BY <1>0, <1>2, <1>8, <1>1 DEF NamesInv, Live, GensOf, TypeIndex, Active
    <3>2. \A k \in DOMAIN gens' : /\ journal'[gens'[k]] = "pending"
                                  /\ \A j \in DOMAIN gens' : gens'[j] = gens'[k] => j = k
      <4>1. \A k \in DOMAIN gens' : gens'[k] \in outs /\ gens'[k] - genNext + 1 = k
        BY <2>1
      <4>2. \A g \in outs : journal'[g] = "pending"
        BY <1>1, <1>8
      <4> QED BY <4>1, <4>2
    <3> QED BY <1>0, <3>1, <3>2 DEF NamesInv, Active
  <2>6. PlanInv'
    <3>1. \A k \in DOMAIN gens' : data'[gens'[k]] = [rows |-> parts[k], sorted |-> TRUE]
      BY <2>1, <2>3
    <3>2. members # {} /\ ~keep
      BY <1>0 DEF PlanInv
    <3>3. maint' = "journaled" /\ UNCHANGED <<members, parts, keep>>
      BY <1>8
    <3> HIDE <1>8
    <3> QED BY <1>1, <2>1, <3>1, <3>2, <3>3 DEF PlanInv
  <2>7. DiskInv'
    <3>1. NoResurrection'
      BY <1>0, <1>1, <1>8 DEF DiskInv, NoResurrection, Journal, NotJournaled
    <3>2. Outputs' \cap whole' = {} /\ maint' = "journaled"
      BY <1>0, <1>2, <1>8, <2>1 DEF Outputs
    <3> QED BY <1>6, <3>1, <3>2 DEF DiskInv
  <2> QED BY <1>3, <1>5, <1>8, <2>2, <2>4, <2>5, <2>6, <2>7
<1> QED BY <1>0, <1>7, <1>8

\* An output's entry is journaled before it is there (M4).
LEMMA MaintWriteInv ==
  ASSUME IInv, NEW k \in DOMAIN gens, MaintWrite(k)
  PROVE  IInv'
<1> USE DEF IInv, Typed, MaintWrite, Writing
<1> PICK g \in Gens : g = gens[k]
  BY DEF TypePlan
<1>0. /\ g \notin whole /\ maint = "journaled" /\ g \in Outputs
      /\ \/ Written(g) /\ UNCHANGED <<maint, plan, processed>>
         \/ WriteFails(g) /\ late' = late /\ maint' = "rejected" /\ UNCHANGED <<plan, processed>>
         \/ WriteFails(g) /\ Release
      /\ UNCHANGED <<index, data, durable, process, seals, fetched, history>>
  BY DEF Outputs
<1>1. /\ journal[g] = "pending" /\ g \in Journal /\ g \notin Live /\ g < seq.nextGen /\ mode = "up"
      /\ g < genNext /\ \A b \in Batches : Active(b) => sealGen[b] # g
  <2>1. journal[g] = "pending" /\ mode = "up"
    BY <1>0 DEF NamesInv, PlanInv, OpenInv, TypeProcess
  <2>2. g \in Journal /\ g < seq.nextGen /\ g \notin Live
    BY <2>1 DEF NamesInv, AheadInv, Journal, NotJournaled
  <2>3. g < genNext
    BY <2>1, <2>2 DEF AheadInv, TypeIndex, TypeProcess, Gens
  <2> QED BY <2>1, <2>2, <2>3 DEF NamesInv, NotJournaled
<1> HIDE DEF MaintWrite, Writing
<1>2. /\ visible \subseteq visible' /\ visible' \subseteq visible \cup {g}
      /\ dropped \ {g} \subseteq dropped' /\ dropped' \subseteq dropped
      /\ whole \subseteq whole' /\ whole' \subseteq whole \cup {g} /\ late' \subseteq late \cup {g}
      /\ g \in whole' => g \in visible' \ dropped'
      /\ \/ maint' = "journaled" /\ UNCHANGED <<plan, processed>>
         \/ maint' = "rejected" /\ UNCHANGED <<plan, processed>>
         \/ Release
  BY <1>0 DEF Written, WriteFails, Create
<1>3. TypeIndex' /\ TypeDisk' /\ TypeProcess' /\ TypeRest'
  BY <1>0, <1>2 DEF TypeIndex, TypeDisk, TypeProcess, TypeRest
<1>4. TypePlan' /\ PlanInv'
  <2>1. CASE Release
    BY <2>1, ReleaseDoes
  <2>2. CASE maint' \in {"journaled", "rejected"} /\ UNCHANGED <<plan, processed>>
    BY <1>0, <2>2 DEF TypePlan, PlanInv, MaintPc
  <2> QED BY <1>2, <2>1, <2>2
<1>5. \A j \in DOMAIN gens' : j \in DOMAIN gens /\ gens'[j] = gens[j]
  <2>1. gens' = gens \/ gens' = <<>>
    BY <1>2, ReleaseDoes
  <2> QED BY <2>1, EmptyRun
<1>6. NamesInv'
  BY <1>0, <1>5 DEF NamesInv, Live, GensOf, Active
<1>7. AheadInv' /\ OpenInv'
  BY <1>0, <1>1, <1>2 DEF AheadInv, OpenInv, Live, GensOf, Active
<1>8. DiskInv'
  <2>1. \A h : (Trusted(h) => Trusted(h)') /\ (Fsynced(h) => Fsynced(h)')
    BY <1>0, <1>2 DEF Trusted, Fsynced
  <2>2. \A h \in Outputs' \cap whole' : maint' = "journaled" => Trusted(h)'
    <3>1. \A h \in Outputs' : h \in Outputs
      BY <1>5 DEF Outputs
    <3>2. g \in whole' => Trusted(g)'
      BY <1>2 DEF Trusted
    <3> QED BY <1>0, <1>2, <2>1, <3>1, <3>2 DEF DiskInv
  <2>3. RowsDurable' /\ NoResurrection'
    BY <1>0, <1>1, <1>2 DEF DiskInv, RowsDurable, NoResurrection, Live, GensOf, Journal
  <2>4. maint' \in {"journaled", "rejected", "free"}
    BY <1>2, ReleaseDoes
  <2> QED BY <1>0, <2>1, <2>2, <2>3, <2>4 DEF DiskInv
<1>9. LogInv' /\ RollupExact'
  BY <1>0 DEF LogInv, ChangesComplete, RollupExact, Live, GensOf
<1> QED BY <1>3, <1>4, <1>6, <1>7, <1>8, <1>9

\* The outputs are durable once the fsync after them returned (M4).
LEMMA MaintSyncInv ==
  ASSUME IInv, MaintSync
  PROVE  IInv'
<1> USE DEF IInv, Typed, MaintSync
<1>0. /\ maint = "journaled" /\ Outputs \subseteq whole
      /\ \/ SyncDir /\ maint' = "synced"
         \/ SyncDirFails /\ UNCHANGED maint
      /\ UNCHANGED <<data, whole, visible, mode, alloc, genNext>>
      /\ UNCHANGED <<index, late, seals, plan, processed, fetched, history>>
      /\ durable' \subseteq durable \cup visible
      /\ dropped' \subseteq dropped \cup visible \cup durable
      /\ poison' \in {poison, "sync"}
      /\ mode = "up"
  BY SyncDirDoes, SyncDirFailsDoes DEF PlanInv, OpenInv, TypeProcess
<1>1. \A g : Fsynced(g) => Fsynced(g)'
  BY <1>0, SyncDirDoes, SyncDirFailsDoes
<1>2. \A g : Trusted(g) => Trusted(g)' /\ (maint' = "synced" => Fsynced(g)')
  BY <1>0, SyncDirDoes, SyncDirFailsDoes
<1>3. NoResurrection'
  BY <1>0, SyncDirDoes, SyncDirFailsDoes DEF DiskInv, NoResurrection, Journal
<1> HIDE DEF MaintSync
<1>4. Typed'
  BY <1>0 DEF TypeIndex, TypeDisk, TypeProcess, TypePlan, TypeRest, MaintPc
<1>5. NamesInv' /\ AheadInv' /\ PlanInv' /\ OpenInv'
  BY <1>0 DEF NamesInv, AheadInv, PlanInv, OpenInv, Live, GensOf, Active
<1>6. DiskInv'
  <2>1. RowsDurable'
    BY <1>0, <1>1 DEF DiskInv, RowsDurable, Live, GensOf, Fsynced
  <2>2. \A b \in Batches : /\ sealPc'[b] = "written" => Trusted(sealGen[b])'
                           /\ sealPc'[b] = "synced" => Fsynced(sealGen[b])'
    BY <1>0, <1>1, <1>2 DEF DiskInv
  <2>3. \A g \in Outputs : Trusted(g)' /\ (maint' = "synced" => Fsynced(g)')
    BY <1>0, <1>2 DEF DiskInv
  <2>4. maint' \in {"journaled", "synced"} /\ Outputs' = Outputs
    BY <1>0 DEF Outputs
  <2> QED BY <1>0, <1>3, <2>1, <2>2, <2>3, <2>4 DEF DiskInv
<1>7. LogInv' /\ RollupExact'
  BY <1>0 DEF LogInv, ChangesComplete, RollupExact, Live, GensOf
<1> QED BY <1>4, <1>5, <1>6, <1>7

\* What an unlink of journaled names leaves: they stay journaled until they
\* are known to be gone.
LEMMA UnlinkDoes ==
  ASSUME IInv, NEW S \in SUBSET Journal, Unlink(S),
         UNCHANGED <<index, data, whole, durable, process, late, seals>>
  PROVE  /\ TypeDisk' /\ RowsDurable' /\ NoResurrection' /\ AheadInv'
         /\ \A b \in Batches : /\ sealPc'[b] = "written" => Trusted(sealGen[b])'
                               /\ sealPc'[b] = "synced" => Fsynced(sealGen[b])'
<1> USE DEF IInv, Typed, Unlink
<1>1. /\ S \subseteq Gens /\ S \cap Live = {}
      /\ \A b \in Batches : Active(b) => sealGen[b] \notin S
      /\ \A g \in S : g < seq.nextGen
  BY DEF Journal, NamesInv, AheadInv
<1>2. TypeDisk'
  BY DEF TypeDisk
<1>3. RowsDurable' /\ NoResurrection'
  BY <1>1 DEF DiskInv, RowsDurable, NoResurrection, Journal, Live, GensOf
<1>4. AheadInv'
  BY <1>1 DEF AheadInv, Live, GensOf, Active
<1>5. \A h \in Gens \ S : (Trusted(h) => Trusted(h)') /\ (Fsynced(h) => Fsynced(h)')
  BY DEF Trusted, Fsynced
<1>6. \A b \in Batches : Active(b) => sealGen[b] \in Gens \ S
  BY <1>1 DEF NamesInv
<1>7. \A b \in Batches : /\ sealPc'[b] = "written" => Trusted(sealGen[b])'
                         /\ sealPc'[b] = "synced" => Fsynced(sealGen[b])'
  BY <1>5, <1>6 DEF DiskInv, Active
<1> QED BY <1>2, <1>3, <1>4, <1>7

\* A swap that gives up removes its outputs, which stay journaled
\* (discard_outputs).
LEMMA MaintDiscardInv ==
  ASSUME IInv, NEW removed \in SUBSET Gens, MaintDiscard(removed)
  PROVE  IInv'
<1> USE DEF IInv, Typed, MaintDiscard
<1>1. removed \in SUBSET Journal /\ mode = "up"
  <2>1. \A g \in Outputs : g \in Gens /\ journal[g] = "pending"
    BY DEF Outputs, NamesInv, TypePlan
  <2> QED BY <2>1 DEF Journal, NotJournaled, PlanInv, OpenInv, TypeProcess
<1>2. \/ maint' = "unlinked" /\ processed' = removed /\ UNCHANGED plan
      \/ Release
  OBVIOUS
<1>3. TypeIndex' /\ TypeProcess' /\ TypeRest'
  BY DEF TypeIndex, TypeProcess, TypeRest
<1>4. TypePlan' /\ PlanInv'
  <2>1. CASE maint' = "unlinked" /\ processed' = removed /\ UNCHANGED plan
    BY <2>1 DEF TypePlan, PlanInv, MaintPc
  <2> QED BY <1>2, <2>1, ReleaseDoes
<1>5. \A k \in DOMAIN gens' : k \in DOMAIN gens /\ gens'[k] = gens[k]
  <2>1. gens' = gens \/ gens' = <<>>
    BY <1>2, ReleaseDoes
  <2> QED BY <2>1, EmptyRun
<1>6. NamesInv' /\ OpenInv'
  BY <1>1, <1>5 DEF NamesInv, OpenInv, Live, GensOf, Active
<1>7. DiskInv' /\ AheadInv' /\ TypeDisk'
  <2>1. maint' \in {"unlinked", "free"}
    BY <1>2, ReleaseDoes
  <2> QED BY <1>1, <2>1, UnlinkDoes DEF DiskInv
<1>8. LogInv' /\ RollupExact'
  BY DEF LogInv, ChangesComplete, RollupExact, Live, GensOf
<1> QED BY <1>3, <1>4, <1>6, <1>7, <1>8

\* An operation that ends without touching index or disk (MaintDrop,
\* SweepNothing).
LEMMA ReleaseInv ==
  ASSUME IInv, mode = "up", Release,
         UNCHANGED <<index, disk, process, late, seals, fetched, history>>
  PROVE  IInv'
<1> USE DEF IInv, Typed
<1>1. Typed' /\ PlanInv'
  BY ReleaseDoes DEF TypeIndex, TypeDisk, TypeProcess, TypeRest
<1>2. NamesInv' /\ AheadInv' /\ OpenInv'
  BY ReleaseDoes DEF NamesInv, AheadInv, OpenInv, Live, GensOf, Active
<1>3. DiskInv'
  BY ReleaseDoes DEF DiskInv, RowsDurable, NoResurrection, Journal, Live, GensOf, Trusted, Fsynced
<1>4. LogInv' /\ RollupExact'
  BY DEF LogInv, ChangesComplete, RollupExact, Live, GensOf
<1> QED BY <1>1, <1>2, <1>3, <1>4

\* The pass unlinks journaled names, and no row names one.
LEMMA SweepInv ==
  ASSUME IInv, NEW done \in SUBSET Gens, Sweep(done)
  PROVE  IInv'
<1> USE DEF IInv, Typed, Sweep
<1>1. /\ done \ Live = done /\ done \in SUBSET Journal /\ members = {}
      /\ maint' \in {"unlinked", "cleanable"}
      /\ maint' = "cleanable" => done = {}
  <2>1. done \cap Live = {}
    BY DEF NamesInv, Journal, NotJournaled
  <2> QED BY <2>1 DEF AfterUnlink, PlanInv, Writable
<1>2. TypeIndex' /\ TypeProcess' /\ TypeRest' /\ TypePlan'
  BY <1>1 DEF TypeIndex, TypeProcess, TypeRest, TypePlan, MaintPc
<1>3. NamesInv' /\ OpenInv' /\ PlanInv'
  BY <1>1 DEF NamesInv, OpenInv, PlanInv, Live, GensOf, Active
<1>4. DiskInv' /\ AheadInv' /\ TypeDisk'
  BY <1>1, UnlinkDoes DEF DiskInv
<1>5. LogInv' /\ RollupExact'
  BY DEF LogInv, ChangesComplete, RollupExact, Live, GensOf
<1> QED BY <1>2, <1>3, <1>4, <1>5

\* What it unlinked cannot come back once an fsync after it returned.
LEMMA SweepSyncInv ==
  ASSUME IInv, SweepSync
  PROVE  IInv'
<1> USE DEF IInv, Typed
<1>0. /\ maint = "unlinked"
      /\ \/ SyncDir /\ maint' = "cleanable" /\ UNCHANGED <<plan, processed>>
         \/ SyncDirFails /\ mode = "up" /\ Release
         \/ mode = "up" /\ Release /\ UNCHANGED <<disk, process>>
      /\ UNCHANGED <<index, late, seals, fetched, history>>
  BY DEF SweepSync, OpenInv, TypeProcess
<1>1. /\ UNCHANGED <<data, whole, visible, mode, alloc, genNext>>
      /\ durable' \subseteq durable \cup visible
      /\ dropped' \subseteq dropped \cup visible \cup durable
      /\ poison' \in {poison, "sync"}
      /\ mode = "opening" => poison' = poison
      /\ \A g : (Fsynced(g) => Fsynced(g)') /\ (Trusted(g) => Trusted(g)')
  <2>1. CASE SyncDir
    BY <2>1, SyncDirDoes
  <2>2. CASE SyncDirFails /\ mode = "up"
    BY <2>2, SyncDirFailsDoes
  <2>3. CASE UNCHANGED <<disk, process>>
    BY <2>3 DEF Fsynced, Trusted
  <2> QED BY <1>0, <2>1, <2>2, <2>3
<1>2. NoResurrection' /\ (maint' = "cleanable" => durable' \ visible' \subseteq dropped')
  BY <1>0, SyncDirDoes, SyncDirFailsDoes, ReleaseDoes DEF DiskInv, NoResurrection, Journal
<1>3. /\ TypePlan' /\ PlanInv' /\ maint' \in {"free", "cleanable"}
      /\ UNCHANGED plan \/ (gens' = <<>> /\ members' = {})
  <2>1. CASE maint' = "cleanable" /\ UNCHANGED <<plan, processed>>
    BY <1>0, <1>1, <2>1 DEF TypePlan, PlanInv, MaintPc
  <2> QED BY <1>0, <2>1, ReleaseDoes
<1>4. TypeIndex' /\ TypeDisk' /\ TypeProcess' /\ TypeRest'
  BY <1>0, <1>1 DEF TypeIndex, TypeDisk, TypeProcess, TypeRest
<1>5. NamesInv'
  <2>1. \A k \in DOMAIN gens' : k \in DOMAIN gens /\ gens'[k] = gens[k]
    BY <1>3, EmptyRun
  <2> QED BY <1>0, <2>1 DEF NamesInv, Live, GensOf, Active
<1>6. AheadInv' /\ OpenInv'
  BY <1>0, <1>1, <1>3 DEF AheadInv, OpenInv, Live, GensOf, Active
<1>7. DiskInv'
  BY <1>0, <1>1, <1>2, <1>3 DEF DiskInv, RowsDurable, Live, GensOf, Fsynced
<1>8. LogInv' /\ RollupExact'
  BY <1>0 DEF LogInv, ChangesComplete, RollupExact, Live, GensOf
<1> QED BY <1>3, <1>4, <1>5, <1>6, <1>7, <1>8

\* Only then do its journal rows go.
LEMMA SweepClearInv ==
  ASSUME IInv, SweepClear
  PROVE  IInv'
<1> USE DEF IInv, Typed
<1>0. /\ maint = "cleanable" /\ poison' \in {poison, "commit"} /\ (poison # "no" => poison' = poison)
      /\ \/ journal' = [g \in Gens |-> IF g \in processed THEN NotJournaled ELSE journal[g]]
         \/ UNCHANGED journal
      /\ \/ mode = "up" /\ Release
         \/ mode = "opening" /\ maint' = "cleared" /\ UNCHANGED <<poison, plan, processed>>
      /\ UNCHANGED <<rows, seq, rollup, changes, disk, mode, alloc, genNext, late, seals, fetched, history>>
  BY DEF SweepClear, Rejected, Ambiguous, TypeProcess
<1>1. /\ TypePlan' /\ PlanInv' /\ maint' \in {"free", "cleared"} /\ gens' = <<>> /\ members' = {}
      /\ maint' = "cleared" => processed' = processed /\ mode = "opening" /\ UNCHANGED poison
      /\ mode = "opening" => maint' = "cleared"
  <2>1. CASE mode = "up" /\ Release
    BY <2>1, ReleaseDoes
  <2>2. CASE mode = "opening" /\ maint' = "cleared" /\ UNCHANGED <<poison, plan, processed>>
    BY <1>0, <2>2 DEF TypePlan, PlanInv, OpenInv, MaintPc
  <2> QED BY <1>0, <2>1, <2>2
<1>2. /\ journal' \in [Gens -> {"pending", "retired", NotJournaled}]
      /\ \A g \in Gens : journal'[g] = journal[g] \/ (journal'[g] = NotJournaled /\ g \in processed)
  BY <1>0 DEF TypeIndex
<1>3. TypeIndex' /\ TypeDisk' /\ TypeProcess' /\ TypeRest'
  BY <1>0, <1>2 DEF TypeIndex, TypeDisk, TypeProcess, TypeRest
<1>4. NamesInv'
  <2>1. Live \subseteq Gens
    BY DEF Live, GensOf, TypeIndex
  <2> QED BY <1>0, <1>1, <1>2, <2>1, EmptyRun DEF NamesInv, Live, GensOf, Active
<1>5. AheadInv' /\ OpenInv'
  BY <1>0, <1>1, <1>2 DEF AheadInv, OpenInv, Live, GensOf, Active
<1>6. DiskInv'
  <2>1. NoResurrection'
    BY <1>0, <1>2 DEF DiskInv, NoResurrection, Journal, TypeDisk
  <2>2. \A g : (Fsynced(g) => Fsynced(g)') /\ (Trusted(g) => Trusted(g)')
    BY <1>0 DEF Fsynced, Trusted, TypeProcess
  <2> QED BY <1>0, <1>1, <2>1, <2>2 DEF DiskInv, RowsDurable, Live, GensOf
<1>7. LogInv' /\ RollupExact'
  BY <1>0 DEF LogInv, ChangesComplete, RollupExact, Live, GensOf
<1> QED BY <1>1, <1>3, <1>4, <1>5, <1>6, <1>7

\* The consumer batches a prefix of what it read before that leaves the log.
LEMMA ConsumerInv ==
  ASSUME IInv, ConsumerFetch \/ ConsumerAck \/ ConsumerStop
  PROVE  IInv'
<1> USE DEF IInv, Typed
<1>0. /\ mode = "up"
      /\ \/ UNCHANGED <<changes, batched, poison>> /\ fetched' \in {changes, {}}
         \/ /\ poison = "no" /\ poison' \in {"no", "commit"} /\ fetched' = {}
            /\ \E last \in fetched :
                 /\ batched' = batched \cup {c.batch : c \in {f \in fetched : f.epoch <= last.epoch}}
                 /\ changes' = {c \in changes : last.epoch < c.epoch} \/ changes' = changes
      /\ UNCHANGED <<rows, journal, seq, rollup, disk, mode, alloc, genNext, late, seals, maint, plan, processed, landed, acked, restarts>>
  BY DEF ConsumerFetch, ConsumerAck, ConsumerStop, AckChanges, Writable, Rejected, Ambiguous, OpenInv, TypeProcess
<1>1. changes' \subseteq changes /\ fetched' \subseteq changes' /\ changes' \ fetched' \subseteq changes
      /\ (fetched' = {} \/ changes' = fetched')
  BY <1>0
<1>2. ChangesComplete' /\ batched' \subseteq landed
  <2>1. CASE UNCHANGED <<changes, batched>>
    BY <1>0, <2>1 DEF LogInv, ChangesComplete, TypeRest
  <2>2. ASSUME NEW last \in fetched,
               batched' = batched \cup {c.batch : c \in {f \in fetched : f.epoch <= last.epoch}},
               changes' = {c \in changes : last.epoch < c.epoch} \/ changes' = changes
        PROVE  ChangesComplete' /\ batched' \subseteq landed
    <3>1. \A c \in changes : c \in changes' \/ c.batch \in batched'
      <4> TAKE c \in changes
      <4>1. c.epoch \in Nat /\ last.epoch \in Nat
        BY DEF TypeIndex, TypeRest
      <4>2. c \notin changes' => c \in fetched /\ c.epoch <= last.epoch
        BY <2>2, <4>1 DEF LogInv
      <4> QED BY <2>2, <4>2
    <3>2. ChangesComplete'
      BY <1>0, <2>2, <3>1 DEF LogInv, ChangesComplete
    <3>3. batched' \subseteq landed
      BY <2>2 DEF LogInv, TypeRest
    <3> QED BY <3>2, <3>3
  <2> QED BY <1>0, <2>1, <2>2
<1>3. Typed'
  BY <1>0, <1>1, <1>2 DEF TypeIndex, TypeDisk, TypeProcess, TypePlan, TypeRest
<1>4. NamesInv' /\ AheadInv' /\ PlanInv' /\ OpenInv'
  BY <1>0, <1>1 DEF NamesInv, AheadInv, PlanInv, OpenInv, Live, GensOf, Active
<1>5. DiskInv'
  <2>1. \A g : (Fsynced(g) => Fsynced(g)') /\ (Trusted(g) => Trusted(g)')
    BY <1>0 DEF Fsynced, Trusted
  <2> QED BY <1>0, <2>1 DEF DiskInv, RowsDurable, NoResurrection, Journal, Live, GensOf, Outputs
<1>6. LogInv' /\ RollupExact'
  <2>1. RollupExact'
    BY <1>0 DEF RollupExact, Live, GensOf
  <2> QED BY <1>0, <1>1, <1>2, <2>1 DEF LogInv
<1> QED BY <1>3, <1>4, <1>5, <1>6

\* Whatever a power cut leaves, the rows' frames are in it, and what is left
\* has no entry that may come back.
LEMMA RestartInv ==
  ASSUME IInv, restarts < MaxRestarts, NEW left \in SUBSET Gens, Kill \/ PowerCut(left)
  PROVE  IInv'
<1> USE StoreAssumption DEF IInv, Typed, ProcessEnds
<1>0. /\ restarts' = restarts + 1 /\ late' = {} /\ mode' = "opening" /\ poison' = "no"
      /\ alloc' = [nextId |-> 0, epoch |-> 0] /\ genNext' = 1
      /\ sealPc' = [b \in Batches |-> IF sealPc[b] \in {"idle", "acked"} THEN sealPc[b] ELSE "failed"]
      /\ fetched' = {} /\ Release
      /\ UNCHANGED <<index, data, sealGen, landed, acked, batched>>
      /\ \/ UNCHANGED <<whole, visible, durable, dropped>>
         \/ /\ visible \cap durable \subseteq left
            /\ visible' = left /\ durable' = left /\ whole' = whole \cap left /\ dropped' = {}
  BY DEF Kill, PowerCut
<1>1. TypeIndex' /\ TypeDisk' /\ TypeRest'
  BY <1>0 DEF TypeIndex, TypeDisk, TypeRest
<1>2. TypeProcess'
  BY <1>0 DEF TypeProcess, SealPc
<1>3. \A b \in Batches : ~Active(b)' /\ (sealPc[b] \in {"acked", "failed"} => sealPc'[b] \in {"acked", "failed"})
  BY <1>0 DEF Active
<1>4. NamesInv' /\ OpenInv'
  BY <1>0, <1>3, ReleaseDoes DEF NamesInv, OpenInv, Live, GensOf
<1>5. AheadInv'
  BY <1>0 DEF AheadInv, Live, GensOf
<1>6. DiskInv'
  <2>1. RowsDurable' /\ NoResurrection'
    BY <1>0 DEF DiskInv, RowsDurable, NoResurrection, Journal, Live, GensOf
  <2> QED BY <1>0, <1>3, <2>1, ReleaseDoes DEF DiskInv, Active
<1>7. LogInv' /\ RollupExact'
  BY <1>0, <1>3 DEF LogInv, ChangesComplete, RollupExact, Live, GensOf, TypeRest
<1> QED BY <1>0, <1>1, <1>2, <1>4, <1>5, <1>6, <1>7, ReleaseDoes

\* The open seeds the allocators past everything the index and the directory
\* know of (seed_gen, seed_allocator).
LEMMA OpenDoneInv ==
  ASSUME IInv, OpenDone
  PROVE  IInv'
<1> USE StoreAssumption DEF IInv, Typed
<1> DEFINE id == IF rows = {} THEN 0 ELSE Newest(rows).id + 1
<1>0. /\ mode = "opening" /\ mode' = "up" /\ poison = "no"
      /\ alloc' = [nextId |-> Max2(seq.nextId, id), epoch |-> seq.epoch]
      /\ genNext' = SeedGen /\ rollup' \in {rollup, Live} /\ Release
      /\ UNCHANGED <<rows, journal, seq, changes, disk, poison, late, seals, fetched, history>>
  BY DEF OpenDone, OpenInv
<1>1. id \in Nat
  <2>1. rows # {} => Newest(rows) \in rows
    BY RowsIdentified
  <2> QED BY <2>1 DEF TypeIndex
<1>2. /\ alloc'.nextId \in Nat /\ alloc'.nextId >= seq.nextId /\ alloc'.epoch = seq.epoch
      /\ alloc' \in [nextId : Nat, epoch : Nat]
  <2>1. seq.nextId \in Nat /\ seq.epoch \in Nat
    BY DEF TypeIndex
  <2> HIDE DEF id
  <2>2. Max2(seq.nextId, id) \in Nat /\ Max2(seq.nextId, id) >= seq.nextId
    BY <1>1, <2>1 DEF Max2
  <2> QED BY <1>0, <2>1, <2>2
<1>3. /\ genNext' \in 1..MaxGen + 1 /\ genNext' >= seq.nextGen
      /\ \A g \in visible : g < genNext'
  <2>1. Live \subseteq Gens /\ visible \subseteq Gens /\ seq.nextGen \in Nat /\ seq.nextGen <= MaxGen + 1
    BY DEF Live, GensOf, TypeIndex, TypeDisk, AheadInv
  <2>2. MaxOr0(Live) \in 0..MaxGen /\ MaxOr0(visible) \in 0..MaxGen
        /\ \A g \in visible : g <= MaxOr0(visible)
    BY <2>1, MaxOr0Bounds
  <2>3. /\ SeedGen \in 1..MaxGen + 1 /\ SeedGen >= seq.nextGen
        /\ SeedGen >= MaxOr0(visible) + 1
    BY <2>1, <2>2 DEF SeedGen, Max2
  <2> QED BY <1>0, <2>1, <2>2, <2>3 DEF Gens
<1>4. Typed' /\ PlanInv'
  <2>1. TypeIndex'
    BY <1>0 DEF TypeIndex, Live, GensOf
  <2>2. TypeProcess'
    BY <1>0, <1>2, <1>3 DEF TypeProcess
  <2>3. TypeDisk' /\ TypeRest'
    BY <1>0 DEF TypeDisk, TypeRest
  <2> QED BY <1>0, <2>1, <2>2, <2>3, ReleaseDoes
<1>5. NamesInv' /\ OpenInv'
  BY <1>0, ReleaseDoes DEF NamesInv, OpenInv, Live, GensOf, Active
<1>6. AheadInv'
  BY <1>0, <1>2, <1>3 DEF AheadInv, OpenInv, Live, GensOf, Active, TypeIndex
<1>7. DiskInv'
  BY <1>0, ReleaseDoes DEF DiskInv, RowsDurable, NoResurrection, Journal, Live, GensOf, Fsynced, Trusted
<1>8. LogInv' /\ RollupExact'
  BY <1>0 DEF LogInv, ChangesComplete, RollupExact, Live, GensOf
<1> QED BY <1>4, <1>5, <1>6, <1>7, <1>8

-----------------------------------------------------------------------------
(* The swap's transaction. *)

LEMMA RowsFinite ==
  ASSUME IInv, NEW S \in SUBSET rows
  PROVE  /\ IsFiniteSet(IdsOf(S)) /\ IdsOf(S) \in SUBSET Nat
         /\ IsFiniteSet(S) /\ Cardinality(S) = Cardinality(IdsOf(S))
<1> USE DEF IInv, Typed
<1>1. IdsOf(S) \in SUBSET Nat /\ seq.nextId \in Nat /\ \A i \in IdsOf(S) : i <= seq.nextId
  BY DEF TypeIndex, AheadInv, IdsOf
<1>2. IsFiniteSet(IdsOf(S))
  BY <1>1, FS_BoundedSetOfNaturals
<1> DEFINE f == [r \in S |-> r.id]
<1>3. f \in Bijection(S, IdsOf(S))
  BY DEF IdsOf, NamesInv, Bijection, Injection, Surjection, IsInjective
<1>4. ExistsBijection(S, IdsOf(S))
  BY <1>3 DEF ExistsBijection
<1> HIDE DEF f
<1>5. f \in Injection(S, IdsOf(S)) /\ f \in Surjection(S, IdsOf(S))
  BY <1>3 DEF Bijection
<1>6. IsFiniteSet(S)
  BY <1>2, <1>5, FS_Injection
<1>7. Cardinality(S) = Cardinality(IdsOf(S))
  BY <1>2, <1>5, <1>6, FS_Injection, FS_Surjection
<1> QED BY <1>1, <1>2, <1>6, <1>7

\* Rules P1 and P2: an output takes a member's id, or the next one where there
\* is no member left; no two take the same.
LEMMA OutputIds ==
  ASSUME IInv, maint = "synced"
  PROVE  /\ Extra \in {0, 1} /\ (gens = <<>> => Extra = 0)
         /\ \A k \in DOMAIN gens :
              /\ \/ OutputId(k) \in IdsOf(members) /\ k <= Cardinality(members)
                 \/ OutputId(k) = alloc.nextId /\ Extra = 1 /\ k = 2 /\ k > Cardinality(members)
              /\ \A j \in DOMAIN gens : OutputId(j) = OutputId(k) => j = k
<1> USE DEF IInv, Typed
<1> DEFINE ids == IdsOf(members)
           n == Cardinality(members)
           below(i) == {j \in ids : j < i}
           Is(i, k) == i \in ids /\ Cardinality(below(i)) = k - 1
<1>1. /\ members # {} /\ members \in SUBSET rows /\ Len(gens) = Len(parts) /\ Len(parts) \in {0, 1, 2}
      /\ DOMAIN gens = 1..Len(gens) /\ (gens = <<>> <=> Len(parts) = 0)
  BY EmptySeq DEF PlanInv, TypePlan
<1>2. IsFiniteSet(ids) /\ ids \in SUBSET Nat /\ ids # {} /\ n = Cardinality(ids)
      /\ n \in Nat /\ n # 0
  <2>1. ids # {}
    BY <1>1 DEF IdsOf
  <2> QED BY <1>1, <2>1, RowsFinite, FS_CardinalityType, FS_EmptySet
<1>3. Extra \in {0, 1} /\ (Extra = 1 <=> Len(parts) = 2 /\ n = 1) /\ (gens = <<>> => Extra = 0)
  <2>1. n \in Nat /\ n # 0 /\ Len(parts) \in {0, 1, 2} /\ (gens = <<>> => Len(parts) = 0)
    BY <1>1, <1>2
  <2>2. Extra = IF Len(parts) > n THEN Len(parts) - n ELSE 0
    BY DEF Extra
  <2> HIDE DEF n
  <2>3. CASE Len(parts) = 2
    BY <2>1, <2>2, <2>3
  <2>4. CASE Len(parts) # 2
    <3>1. ~(Len(parts) > n)
      BY <2>1, <2>4
    <3> QED BY <2>1, <2>2, <2>4, <3>1
  <2> QED BY <2>1, <2>3, <2>4
<1>4. PICK i \in ids : \A j \in ids : i <= j
  BY <1>2, LeastNat
<1>5. Is(i, 1)
  <2>1. below(i) = {}
    BY <1>2, <1>4
  <2> QED BY <2>1, FS_EmptySet
<1>6. ASSUME n >= 2
      PROVE  \E k \in ids : Is(k, 2)
  <2>1. ids \ {i} # {}
    BY <1>2, <1>6, FS_Singleton
  <2>2. PICK k \in ids \ {i} : \A j \in ids \ {i} : k <= j
    <3>1. ids \ {i} \in SUBSET Nat
      BY <1>2
    <3> HIDE DEF ids
    <3> QED BY <2>1, <3>1, LeastNat
  <2>3. below(k) = {i}
    BY <1>2, <1>4, <2>2
  <2>4. Cardinality(below(k)) = 1
    BY <2>3, FS_Singleton
  <2> QED BY <2>2, <2>4
<1>7. ASSUME NEW k \in {1, 2}, k <= n
      PROVE  OutputId(k) = MemberId(k) /\ Is(MemberId(k), k)
  <2>1. \E m \in ids : Is(m, k)
    BY <1>2, <1>5, <1>6, <1>7
  <2>2. Is(MemberId(k), k)
    BY <2>1 DEF MemberId
  <2> QED BY <1>7, <2>2 DEF OutputId
<1>8. ASSUME NEW k \in {1, 2}, k > n
      PROVE  k = 2 /\ n = 1 /\ OutputId(k) = alloc.nextId
  <2>1. k = 2 /\ n = 1
    BY <1>2, <1>8
  <2>2. alloc.nextId \in Nat
    BY DEF TypeProcess
  <2> QED BY <2>1, <2>2 DEF OutputId
<1>9. alloc.nextId \notin ids
  <2>1. mode = "up"
    BY <1>1 DEF OpenInv, TypeProcess
  <2> QED BY <1>1, <2>1 DEF AheadInv, IdsOf, TypeIndex, TypeProcess
<1> HIDE DEF ids, n, below, Is
<1>10. \A k \in DOMAIN gens : k \in {1, 2} /\ (k = 2 => Len(parts) = 2)
  BY <1>1
<1>11. ASSUME NEW k \in DOMAIN gens
       PROVE  \/ OutputId(k) \in ids /\ k <= n
              \/ OutputId(k) = alloc.nextId /\ Extra = 1 /\ k = 2 /\ k > n
  <2>1. CASE k <= n
    BY <1>7, <1>10, <2>1 DEF Is
  <2>2. CASE k > n
    BY <1>3, <1>8, <1>10, <2>2
  <2> QED BY <1>2, <1>10, <2>1, <2>2
<1>12. ASSUME NEW k \in DOMAIN gens, NEW j \in DOMAIN gens, OutputId(j) = OutputId(k)
       PROVE  j = k
  <2>1. CASE k <= n /\ j <= n
    <3>1. Cardinality(below(OutputId(k))) = k - 1 /\ Cardinality(below(OutputId(j))) = j - 1
      BY <1>7, <1>10, <2>1 DEF Is
    <3> QED BY <1>10, <1>12, <3>1
  <2>2. CASE k > n /\ j > n
    BY <1>8, <1>10, <2>2
  <2>3. CASE (k > n /\ j <= n) \/ (j > n /\ k <= n)
    BY <1>7, <1>8, <1>9, <1>10, <1>12, <2>3 DEF Is
  <2> QED BY <1>2, <1>10, <2>1, <2>2, <2>3
<1> QED BY <1>3, <1>11, <1>12 DEF ids, n

\* What the swap's rows name, and which journal rows it leaves.
LEMMA SwapRows ==
  ASSUME IInv, maint = "synced", SwapLands
  PROVE  /\ members # {} /\ members \in SUBSET rows /\ Kept \in SUBSET members
         /\ Outputs \in SUBSET Gens /\ Outputs \cap Live = {}
         /\ Live' = GensOf(rows \ members) \cup Outputs \cup GensOf(Kept)
         /\ Live' \subseteq Gens
         /\ \A g \in Live' : journal'[g] = NotJournaled
         /\ \A g \in Gens : journal'[g] # NotJournaled => g \in Live \/ journal[g] # NotJournaled
         /\ Journal \ Outputs \subseteq Journal'
         /\ journal' \in [Gens -> {"pending", "retired", NotJournaled}]
         /\ \A p \in OutputRows : \E k \in DOMAIN gens : p = [id |-> OutputId(k), gen |-> gens[k]]
<1> USE DEF IInv, Typed
<1>1. /\ members # {} /\ members \in SUBSET rows
      /\ Kept \in SUBSET members
  <2>1. members # {} /\ members \in SUBSET rows
    BY DEF PlanInv, TypePlan
  <2> QED BY <2>1, RowsIdentified DEF Kept
<1>2. /\ Outputs \in SUBSET Gens
      /\ \A g \in Outputs : journal[g] = "pending" /\ g \notin Live
  BY DEF Outputs, NamesInv, TypePlan, NotJournaled
<1>3. \A p \in OutputRows : \E k \in DOMAIN gens : p = [id |-> OutputId(k), gen |-> gens[k]]
  BY DEF OutputRows
<1>4. GensOf(OutputRows) = Outputs
  <2>1. \A k \in DOMAIN gens : [id |-> OutputId(k), gen |-> gens[k]] \in OutputRows
                               /\ [id |-> OutputId(k), gen |-> gens[k]].gen = gens[k]
    BY DEF OutputRows
  <2>2. \A g \in Outputs : \E k \in DOMAIN gens : g = gens[k]
    BY DEF Outputs
  <2>3. \A k \in DOMAIN gens : gens[k] \in Outputs
    BY DEF Outputs
  <2>4. \A g \in Outputs : g \in GensOf(OutputRows)
    BY <2>1, <2>2 DEF GensOf
  <2>5. \A p \in OutputRows : p.gen \in Outputs
    BY <1>3, <2>3
  <2>6. \A g \in GensOf(OutputRows) : g \in Outputs
    BY <2>5 DEF GensOf
  <2> QED BY <2>4, <2>6
<1>5. Live' = GensOf(rows \ members) \cup Outputs \cup GensOf(Kept)
  <2>1. Live' = GensOf(rows') /\ rows' = ((rows \ members) \cup OutputRows) \cup Kept
    BY DEF Live, GensOf, SwapLands
  <2>2. GensOf((rows \ members) \cup OutputRows) = GensOf(rows \ members) \cup GensOf(OutputRows)
    BY GensOfUnion
  <2>3. GensOf(((rows \ members) \cup OutputRows) \cup Kept)
          = GensOf((rows \ members) \cup OutputRows) \cup GensOf(Kept)
    BY GensOfUnion
  <2> QED BY <1>4, <2>1, <2>2, <2>3
<1>6. /\ Live \subseteq Gens /\ GensOf(rows \ members) \subseteq Live /\ GensOf(Kept) \subseteq Live
      /\ GensOf(members \ Kept) \subseteq Live
      /\ GensOf(members \ Kept) \cap (GensOf(rows \ members) \cup GensOf(Kept)) = {}
  BY <1>1 DEF Live, GensOf, TypeIndex, NamesInv
<1>7. \A g \in Gens : journal'[g] = IF g \in GensOf(members \ Kept) THEN "retired"
                                    ELSE IF g \in Outputs THEN NotJournaled
                                    ELSE journal[g]
  BY DEF SwapLands
<1>8. journal' \in [Gens -> {"pending", "retired", NotJournaled}]
  BY DEF SwapLands, TypeIndex
<1>9. \A g \in Live' : journal'[g] = NotJournaled
  BY <1>2, <1>5, <1>6, <1>7 DEF NamesInv
<1>10. /\ \A g \in Gens : journal'[g] # NotJournaled => g \in Live \/ journal[g] # NotJournaled
       /\ Journal \ Outputs \subseteq Journal'
  BY <1>6, <1>7 DEF Journal, NotJournaled
<1> QED BY <1>1, <1>2, <1>3, <1>5, <1>6, <1>8, <1>9, <1>10

\* The invariant where the swap lands, whatever its caller saw of it.
LEMMA SwapLandsInv ==
  ASSUME IInv, mode = "up", maint = "synced", SwapLands,
         alloc' \in [nextId : Nat, epoch : Nat], alloc'.nextId = alloc.nextId + Extra,
         alloc'.epoch \in {alloc.epoch, Epoch}, poison = "no", poison' \in {"no", "commit"},
         maint' \in {"committed", "free"}, PlanDone, processed' \in {processed, {}},
         UNCHANGED <<disk, mode, genNext, late, seals, fetched, history>>
  PROVE  IInv'
<1> USE StoreAssumption DEF IInv, Typed
<1>0. /\ rows' = ((rows \ members) \cup OutputRows) \cup Kept
      /\ seq' = [nextId |-> Max2(seq.nextId, alloc.nextId + Extra),
                 nextGen |-> Max2(seq.nextGen, MaxOr0(Outputs) + 1),
                 epoch |-> Max2(seq.epoch, Epoch)]
      /\ rollup' = GensOf(rows') /\ changes' = changes
  BY DEF SwapLands, SwapRollup
<1>1. /\ alloc.nextId \in Nat /\ alloc.epoch \in Nat /\ Epoch \in Nat /\ Epoch = alloc.epoch + 1
      /\ seq.nextId \in Nat /\ seq.nextGen \in Nat /\ seq.epoch \in Nat /\ genNext \in Nat \ {0}
      /\ seq.nextId <= alloc.nextId /\ seq.epoch <= Epoch
      /\ seq.nextGen <= genNext /\ seq.nextGen <= MaxGen + 1
      /\ Extra \in {0, 1}
  BY OutputIds DEF TypeIndex, TypeProcess, AheadInv, Epoch
<1>2. \A g \in Outputs : g \in Nat /\ g < seq.nextGen
  <2>1. Outputs \in SUBSET Gens /\ \A g \in Outputs : journal[g] = "pending"
    BY DEF Outputs, NamesInv, TypePlan
  <2> QED BY <2>1 DEF AheadInv, NotJournaled, Gens
<1>3. /\ MaxOr0(Outputs) + 1 <= genNext /\ MaxOr0(Outputs) + 1 <= MaxGen + 1
      /\ MaxOr0(Outputs) \in Nat
  <2>1. Outputs \subseteq Gens
    BY SwapRows
  <2>2. MaxOr0(Outputs) \in 0..MaxGen /\ MaxOr0(Outputs) \in Outputs \cup {0}
    BY <2>1, MaxOr0Bounds
  <2> QED BY <1>1, <1>2, <2>2
<1>4. /\ seq' \in [nextId : Nat, nextGen : Nat, epoch : Nat]
      /\ seq'.nextId = alloc.nextId + Extra /\ seq'.nextId >= seq.nextId
      /\ seq'.nextGen >= seq.nextGen /\ seq'.nextGen <= genNext /\ seq'.nextGen <= MaxGen + 1
      /\ seq'.epoch = Epoch
  <2>1. /\ Max2(seq.nextId, alloc.nextId + Extra) = alloc.nextId + Extra
        /\ alloc.nextId + Extra \in Nat /\ alloc.nextId + Extra >= seq.nextId
    BY <1>1 DEF Max2
  <2>2. LET m == Max2(seq.nextGen, MaxOr0(Outputs) + 1)
        IN m \in Nat /\ m >= seq.nextGen /\ m <= genNext /\ m <= MaxGen + 1
    BY <1>1, <1>3 DEF Max2
  <2>3. Max2(seq.epoch, Epoch) = Epoch
    BY <1>1 DEF Max2
  <2> QED BY <1>0, <1>1, <2>1, <2>2, <2>3
<1>5. \A p \in OutputRows :
        /\ p \in [id : Nat, gen : Gens] /\ p.gen \in Outputs
        /\ p.id \in IdsOf(members) \/ (p.id = alloc.nextId /\ Extra = 1)
        /\ \A q \in OutputRows : p.id = q.id \/ p.gen = q.gen => p = q
  <2>1. \A k \in DOMAIN gens :
          /\ OutputId(k) \in Nat /\ gens[k] \in Gens /\ gens[k] \in Outputs
          /\ OutputId(k) \in IdsOf(members) \/ (OutputId(k) = alloc.nextId /\ Extra = 1)
          /\ \A j \in DOMAIN gens : OutputId(j) = OutputId(k) \/ gens[j] = gens[k] => j = k
    <3>1. IdsOf(members) \subseteq Nat
      BY DEF IdsOf, TypePlan, TypeIndex
    <3> TAKE k \in DOMAIN gens
    <3>2. gens[k] \in Gens /\ gens[k] \in Outputs
          /\ \A j \in DOMAIN gens : gens[j] = gens[k] => j = k
      BY DEF NamesInv, Outputs, TypePlan
    <3>3. /\ OutputId(k) \in IdsOf(members) \/ (OutputId(k) = alloc.nextId /\ Extra = 1)
          /\ \A j \in DOMAIN gens : OutputId(j) = OutputId(k) => j = k
      BY OutputIds
    <3> QED BY <1>1, <3>1, <3>2, <3>3
  <2>2. \A p \in OutputRows : \E k \in DOMAIN gens : p = [id |-> OutputId(k), gen |-> gens[k]]
    BY SwapRows
  <2> QED BY <2>1, <2>2
<1>6. \A r \in rows : /\ r \in [id : Nat, gen : Gens] /\ r.id < alloc.nextId /\ r.gen \in Live
                      /\ (r \notin members => r.id \notin IdsOf(members))
  <2>1. members \subseteq rows
    BY DEF TypePlan
  <2> QED BY <1>1, <2>1 DEF TypeIndex, AheadInv, NamesInv, Live, GensOf, IdsOf
<1>7. TypeIndex'
  <2>1. rows' \subseteq [id : Nat, gen : Gens] /\ Live' \subseteq Gens
    BY <1>0, <1>5, <1>6, SwapRows
  <2>2. rollup' \subseteq Gens
    BY <1>0, <2>1 DEF Live, GensOf
  <2> QED BY <1>0, <1>4, <2>1, <2>2, SwapRows DEF TypeIndex
<1>8. TypeDisk' /\ TypeProcess' /\ TypeRest'
  BY DEF TypeDisk, TypeProcess, TypeRest
<1>9. TypePlan' /\ PlanInv' /\ gens' = <<>> /\ Outputs' = {}
  <2>1. members' = {} /\ parts' = <<>> /\ gens' = <<>> /\ keep' = FALSE
    BY DEF PlanDone
  <2>2. TypePlan'
    BY <2>1, EmptySeq DEF TypePlan, MaintPc
  <2>3. PlanInv' /\ Outputs' = {}
    BY <2>1, EmptyRun DEF PlanInv, Outputs
  <2> QED BY <2>1, <2>2, <2>3
<1>10. NamesInv'
  <2>1. \A r, q \in rows' : r.gen = q.gen \/ r.id = q.id => r = q
    <3>1. \A r \in rows, q \in OutputRows : r \in (rows \ members) \cup Kept => r.gen # q.gen /\ r.id # q.id
      <4> TAKE r \in rows, q \in OutputRows
      <4>1. r.gen # q.gen
        BY <1>5, <1>6, SwapRows
      <4>2. r \notin members => r.id # q.id
        BY <1>1, <1>5, <1>6
      <4>3. r \notin Kept
        \* What is kept has no outputs beside it.
        <5>1. CASE keep
          <6>1. gens = <<>>
            <7>1. parts = <<>> /\ Len(gens) = Len(parts) /\ gens \in Seq(Gens)
              BY <5>1, SwapRows DEF PlanInv, TypePlan
            <7> QED BY <7>1, EmptySeq
          <6> QED BY <6>1, SwapRows, EmptyRun
        <5>2. CASE ~keep
          BY <5>2 DEF Kept
        <5> QED BY <5>1, <5>2
      <4> QED BY <4>1, <4>2, <4>3
    <3>2. \A r, q \in rows : r.gen = q.gen \/ r.id = q.id => r = q
      BY DEF NamesInv
    <3>3. Kept \subseteq rows
      BY SwapRows
    <3> QED BY <1>0, <1>5, <3>1, <3>2, <3>3
  <2>2. \A b \in Batches : Active(b)' =>
          /\ sealGen'[b] \in Gens \ Live' /\ journal'[sealGen'[b]] = NotJournaled
          /\ \A c \in Batches : Active(c)' /\ sealGen'[b] = sealGen'[c] => b = c
    <3> TAKE b \in Batches
    <3> HAVE Active(b)'
    <3>1. /\ Active(b) /\ sealGen[b] \in Gens \ Live /\ journal[sealGen[b]] = NotJournaled
          /\ sealGen' = sealGen /\ \A c \in Batches : Active(c)' => Active(c)
      BY DEF NamesInv, Active
    <3>2. sealGen[b] \notin Outputs
      BY <3>1 DEF Outputs, NamesInv, NotJournaled
    <3>3. GensOf(rows \ members) \subseteq Live /\ GensOf(Kept) \subseteq Live
      BY SwapRows DEF GensOf, Live
    <3>4. sealGen[b] \notin Live' /\ journal'[sealGen[b]] = NotJournaled
      BY <3>1, <3>2, <3>3, SwapRows
    <3> QED BY <3>1, <3>4 DEF NamesInv
  <2> QED BY <1>9, <2>1, <2>2, SwapRows, EmptyRun DEF NamesInv
<1>11. AheadInv'
  <2>1. \A g \in Gens : g \in Live' \/ journal'[g] # NotJournaled => g < seq'.nextGen
    <3>1. \A g \in Gens : g \in Live' \/ journal'[g] # NotJournaled
                            => g \in Live \/ journal[g] # NotJournaled \/ g \in Outputs
      <4>1. GensOf(rows \ members) \subseteq Live /\ GensOf(Kept) \subseteq Live
        BY SwapRows DEF GensOf, Live
      <4> QED BY <4>1, SwapRows
    <3>2. \A g \in Gens : g \in Live \/ journal[g] # NotJournaled \/ g \in Outputs => g < seq.nextGen
      BY <1>2 DEF AheadInv
    <3> QED BY <1>1, <1>4, <3>1, <3>2 DEF Gens
  <2>2. \A r \in rows' : r.id < seq'.nextId
    <3>1. \A r \in OutputRows : r.id < alloc.nextId + Extra
      <4>1. \A i \in IdsOf(members) : i \in Nat /\ i < alloc.nextId
        <5>1. members \subseteq rows
          BY SwapRows
        <5> QED BY <1>6, <5>1 DEF IdsOf
      <4> QED BY <1>1, <1>5, <4>1
    <3>2. \A r \in rows : r.id < alloc.nextId + Extra
      BY <1>1, <1>6
    <3>3. Kept \subseteq rows
      BY SwapRows
    <3> QED BY <1>0, <1>4, <3>1, <3>2, <3>3
  <2>3. \A c \in changes' : c.epoch <= seq'.epoch
    BY <1>0, <1>1, <1>4 DEF AheadInv, TypeIndex
  <2>4. \A g \in whole' \ visible' : g < seq'.nextGen
    BY <1>1, <1>4 DEF AheadInv, TypeDisk, Gens
  <2>5. \A b \in Batches : Active(b)' => sealGen'[b] < genNext'
    BY DEF AheadInv, Active
  <2>6. seq'.nextId <= alloc'.nextId /\ seq'.epoch <= alloc'.epoch + 1
    BY <1>1, <1>4
  <2> QED BY <1>1, <1>4, <2>1, <2>2, <2>3, <2>4, <2>5, <2>6 DEF AheadInv
<1>12. OpenInv'
  BY DEF OpenInv
<1>13. DiskInv'
  <2>1. \A g : (Fsynced(g) => Fsynced(g)') /\ (Trusted(g) => Trusted(g)')
    BY DEF Fsynced, Trusted
  <2>2. RowsDurable'
    <3>1. Live' \subseteq Live \cup Outputs
      BY SwapRows DEF GensOf, Live
    <3> QED BY <3>1 DEF DiskInv, RowsDurable, Fsynced
  <2>3. NoResurrection'
    <3>1. Outputs \subseteq visible /\ Journal \ Outputs \subseteq Journal'
      BY SwapRows DEF DiskInv, Fsynced
    <3> QED BY <3>1 DEF DiskInv, NoResurrection
  <2> QED BY <1>9, <2>1, <2>2, <2>3 DEF DiskInv, Active
<1>14. LogInv' /\ RollupExact'
  BY <1>0 DEF LogInv, ChangesComplete, RollupExact, Live, GensOf
<1> QED BY <1>7, <1>8, <1>9, <1>10, <1>11, <1>12, <1>13, <1>14

LEMMA SwapCommitInv ==
  ASSUME IInv, SwapCommit
  PROVE  IInv'
<1> USE DEF IInv, Typed
<1>0. /\ mode = "up" /\ poison = "no" /\ poison' \in {"no", "commit"} /\ maint = "synced"
      /\ UNCHANGED <<disk, mode, genNext, late, seals, fetched, history>>
  BY DEF SwapCommit, Writable, Rejected, Ambiguous, DroppedInFlight
<1>1. /\ alloc' \in [nextId : Nat, epoch : Nat] /\ alloc'.nextId = alloc.nextId + Extra
      /\ alloc'.epoch \in {alloc.epoch, Epoch}
  <2>1. alloc.nextId + Extra \in Nat /\ Epoch \in Nat /\ alloc.epoch \in Nat
    BY <1>0, OutputIds DEF TypeProcess, Epoch
  <2>2. alloc' = [nextId |-> alloc.nextId + Extra, epoch |-> alloc.epoch]
        \/ alloc' = [nextId |-> alloc.nextId + Extra, epoch |-> Epoch]
    BY DEF SwapCommit, TypeProcess
  <2> QED BY <2>1, <2>2
<1>2. \/ SwapLands /\ maint' = "committed" /\ PlanDone /\ processed' = processed
      \/ SwapLands /\ Release
      \/ UNCHANGED index /\ Release
      \/ UNCHANGED index /\ maint' = "rejected" /\ UNCHANGED <<plan, processed>>
  BY DEF SwapCommit
<1>3. CASE SwapLands /\ (Release \/ (maint' = "committed" /\ PlanDone /\ processed' = processed))
  <2>1. maint' \in {"committed", "free"} /\ PlanDone /\ processed' \in {processed, {}}
    BY <1>3 DEF Release
  <2> QED BY <1>0, <1>1, <1>3, <2>1, SwapLandsInv
<1>4. CASE UNCHANGED index /\ (Release \/ (maint' = "rejected" /\ UNCHANGED <<plan, processed>>))
  <2>1. TypePlan' /\ PlanInv'
    <3>1. CASE maint' = "rejected" /\ UNCHANGED <<plan, processed>>
      BY <1>0, <1>4, <3>1 DEF TypePlan, PlanInv, MaintPc
    <3> QED BY <1>4, <3>1, ReleaseDoes
  <2>2. TypeIndex' /\ TypeDisk' /\ TypeProcess' /\ TypeRest'
    BY <1>0, <1>1, <1>4 DEF TypeIndex, TypeDisk, TypeProcess, TypeRest
  <2>3. NamesInv'
    <3>1. gens' = gens \/ gens' = <<>>
      BY <1>4, ReleaseDoes
    <3> QED BY <1>0, <1>4, <3>1, EmptyRun DEF NamesInv, Live, GensOf, Active
  <2>4. AheadInv'
    <3>1. alloc'.nextId >= alloc.nextId /\ alloc'.epoch >= alloc.epoch
          /\ alloc.nextId \in Nat /\ alloc.epoch \in Nat
      BY <1>0, <1>1, OutputIds DEF TypeProcess, Epoch
    <3> QED BY <1>0, <1>1, <1>4, <3>1 DEF AheadInv, TypeIndex, Live, GensOf, Active
  <2>5. DiskInv' /\ OpenInv'
    <3>1. \A g : (Fsynced(g) => Fsynced(g)') /\ (Trusted(g) => Trusted(g)')
      BY <1>0 DEF Fsynced, Trusted
    <3>2. maint' \in {"free", "rejected"}
      BY <1>4, ReleaseDoes
    <3> QED BY <1>0, <1>4, <3>1, <3>2 DEF DiskInv, OpenInv, RowsDurable, NoResurrection, Journal, Live, GensOf
  <2>6. LogInv' /\ RollupExact'
    BY <1>0, <1>4 DEF LogInv, ChangesComplete, RollupExact, Live, GensOf
  <2> QED BY <2>1, <2>2, <2>3, <2>4, <2>5, <2>6
<1> QED BY <1>2, <1>3, <1>4

-----------------------------------------------------------------------------
(* The theorems. *)

LEMMA StutterInv == IInv /\ UNCHANGED vars => IInv'
<1> SUFFICES ASSUME IInv, UNCHANGED vars PROVE IInv'
  OBVIOUS
<1> USE DEF IInv, Typed, vars
<1>1. Typed'
  BY DEF TypeIndex, TypeDisk, TypeProcess, TypePlan, TypeRest
<1>2. NamesInv' /\ AheadInv' /\ PlanInv' /\ OpenInv'
  BY DEF NamesInv, AheadInv, PlanInv, OpenInv, Live, GensOf, Active
<1>3. DiskInv'
  BY DEF DiskInv, RowsDurable, NoResurrection, Journal, Live, GensOf, Trusted, Fsynced, Outputs
<1>4. LogInv' /\ RollupExact'
  BY DEF LogInv, ChangesComplete, RollupExact, Live, GensOf
<1> QED BY <1>1, <1>2, <1>3, <1>4

LEMMA StepInv == IInv /\ [Next]_vars => IInv'
<1> SUFFICES ASSUME IInv, [Next]_vars PROVE IInv'
  OBVIOUS
<1>1. CASE SealStep
  BY <1>1, SealWriteInv, SealDropInv, SealSyncInv, SealCommitInv DEF SealStep
<1>2. CASE \E g \in late : LateWrite(g)
  BY <1>2, LateWriteInv
<1>3. CASE PlanStep
  BY <1>3, PlanStepInv
<1>4. CASE SwapStep
  <2>1. CASE MaintDrop
    BY <2>1, ReleaseInv DEF MaintDrop
  <2> QED BY <1>4, <2>1, MaintJournalInv, MaintWriteInv, MaintSyncInv, MaintDiscardInv, SwapCommitInv
          DEF SwapStep
<1>5. CASE SweepStep
  <2>1. CASE SweepNothing
    <3>1. mode = "up"
      BY <2>1 DEF SweepNothing, IInv, Typed, TypeProcess, OpenInv
    <3> QED BY <2>1, <3>1, ReleaseInv DEF SweepNothing
  <2> QED BY <1>5, <2>1, SweepInv, SweepSyncInv, SweepClearInv DEF SweepStep
<1>6. CASE ConsumerFetch \/ ConsumerAck \/ ConsumerStop
  BY <1>6, ConsumerInv
<1>7. CASE restarts < MaxRestarts /\ (Kill \/ \E left \in SUBSET Gens : PowerCut(left))
  <2>1. {} \in SUBSET Gens
    OBVIOUS
  <2> QED BY <1>7, <2>1, RestartInv
<1>8. CASE OpenDone
  BY <1>8, OpenDoneInv
<1>9. CASE UNCHANGED vars
  BY <1>9, StutterInv
<1> QED BY <1>1, <1>2, <1>3, <1>4, <1>5, <1>6, <1>7, <1>8, <1>9 DEF Next

THEOREM StoreInvariant == Spec => []IInv
BY InitInv, StepInv, PTL DEF Spec

\* The tables, the disk and the plan keep their types, and after every seal,
\* swap and replay the rollup summarises exactly the rows there are
\* (publish_seal, post_swap_rollup).
THEOREM RollupIsExact == Spec => []RollupSound
<1>1. IInv => RollupSound
  BY TypeParts DEF IInv, Typed, RollupSound
<1> QED BY <1>1, StoreInvariant, PTL

\* No power cut, failed fsync or late write takes a frame a row names
\* (write_seal_frame, M4).
THEOREM RowsAreDurable == Spec => []RowsDurable
<1>1. IInv => RowsDurable
  BY DEF IInv, DiskInv
<1> QED BY <1>1, StoreInvariant, PTL

\* A name that was unlinked stays journaled until no power cut can bring it
\* back (discard_outputs, reap_held).
THEOREM NothingResurrects == Spec => []NoResurrection
<1>1. IInv => NoResurrection
  BY DEF IInv, DiskInv
<1> QED BY <1>1, StoreInvariant, PTL

\* No generation and no id is given out twice, across restarts that lost
\* files, rows or in-memory counters (seed_gen, seed_allocator).
THEOREM AllocatorsStayAhead == Spec => []AllocatorsAhead
<1>1. ASSUME IInv
      PROVE  AllocatorsAhead
  <2> SUFFICES ASSUME mode = "up"
               PROVE  /\ \A g \in visible \cup Journal \cup Live \cup late \cup Outputs : g < genNext
                      /\ \A r \in rows : r.id < alloc.nextId
    BY DEF AllocatorsAhead
  <2> USE <1>1 DEF IInv, Typed
  <2>1. /\ seq.nextGen \in Nat /\ genNext \in Nat /\ seq.nextGen <= genNext
        /\ seq.nextId \in Nat /\ alloc.nextId \in Nat /\ seq.nextId <= alloc.nextId
    BY StoreAssumption DEF TypeIndex, TypeProcess, AheadInv
  <2>2. \A g \in Journal \cup Live \cup Outputs : g \in Nat /\ g < seq.nextGen
    <3>1. Live \subseteq Gens /\ Outputs \subseteq Gens
          /\ \A g \in Outputs : journal[g] # NotJournaled
      BY DEF Live, GensOf, Outputs, NamesInv, TypeIndex, TypePlan, NotJournaled
    <3> QED BY <3>1 DEF Journal, AheadInv, Gens
  <2>3. \A g \in visible \cup late : g < genNext
    BY DEF AheadInv
  <2>4. \A r \in rows : r.id \in Nat /\ r.id < seq.nextId
    BY DEF AheadInv, TypeIndex
  <2> QED BY <2>1, <2>2, <2>3, <2>4
<1> QED BY <1>1, StoreInvariant, PTL

\* A batch that landed is in the change log or was batched, whatever the
\* consumer's acknowledgements met (record_change, ack_changes).
THEOREM ChangesAreComplete == Spec => []ChangesComplete
<1>1. IInv => ChangesComplete
  BY DEF IInv, LogInv
<1> QED BY <1>1, StoreInvariant, PTL

-----------------------------------------------------------------------------
(* The abstract store. *)

\* What the rows hold stays: data changes only under generations no row has.
HeldKept == \A r \in rows : Held(r)' = Held(r)

\* The value a timestamp reads as, where every frame can be opened.
LEMMA NewestAtIs ==
  ASSUME IInv
  PROVE  \A t : NewestAt(t) = ValueAt(Holding(rows, t), t)
<1>1. Readable = rows
  BY DEF IInv, DiskInv, RowsDurable, Readable, Live, GensOf
<1> QED BY <1>1 DEF NewestAt

LEMMA NewestAtIsNext ==
  ASSUME IInv'
  PROVE  \A t : NewestAt(t)' = ValueAt(Holding(rows, t), t)'
<1>1. Readable' = rows'
  BY DEF IInv, DiskInv, RowsDurable, Readable, Live, GensOf
<1> QED BY <1>1 DEF NewestAt

\* A step that leaves the rows and what they hold does not show.
LEMMA ValuesKept ==
  ASSUME IInv, IInv', rows' = rows, HeldKept, NEW t
  PROVE  NewestAt(t)' = NewestAt(t)
<1> PICK S \in SUBSET rows : S = Holding(rows, t)
  BY DEF Holding
<1>1. Holding(rows, t)' = S
  BY DEF Holding, HeldKept
<1>2. ASSUME S # {}
      PROVE  Held(Newest(S))' = Held(Newest(S))
  BY <1>2, RowsIdentified DEF HeldKept
<1>3. ValueAt(Holding(rows, t), t)' = ValueAt(S, t)
  BY <1>1, <1>2 DEF ValueAt
<1> QED BY <1>3, NewestAtIs, NewestAtIsNext

\* The plan in hand stays the fold of its members while only newer rows come.
LEMMA FoldsKept ==
  ASSUME IInv, PlanFolds, HeldKept, UNCHANGED <<members, parts, keep>>, rows \subseteq rows',
         \A q \in rows' \ rows, r \in members : r.id < q.id
  PROVE  PlanFolds'
<1>1. members \subseteq rows
  BY DEF IInv, Typed, TypePlan
<1>2. TimesOf(members)' = TimesOf(members)
  BY <1>1 DEF TimesOf, HeldKept
<1>3. \A t : Holding(members, t)' = Holding(members, t)
  BY <1>1 DEF Holding, HeldKept
<1>4. ASSUME NEW t \in TimesOf(members)
      PROVE  Held(Newest(Holding(members, t)))' = Held(Newest(Holding(members, t)))
  <2> PICK S \in SUBSET rows : S = Holding(members, t)
    BY <1>1 DEF Holding
  <2>1. S # {}
    BY DEF Holding, TimesOf
  <2>2. Newest(S) \in rows
    BY <2>1, RowsIdentified
  <2>3. Held(Newest(S))' = Held(Newest(S))
    BY <2>2 DEF HeldKept
  <2>4. Newest(Holding(members, t))' = Newest(S)
    BY <1>3 DEF Newest
  <2> QED BY <2>3, <2>4 DEF Held
<1>5. \A k \in DOMAIN parts' :
        /\ DOMAIN parts'[k] \subseteq TimesOf(members)'
        /\ \A t \in DOMAIN parts'[k] : parts'[k][t] = Held(Newest(Holding(members, t)))'[t]
        /\ \A j \in DOMAIN parts' : j # k => DOMAIN parts'[j] \cap DOMAIN parts'[k] = {}
  BY <1>2, <1>4 DEF PlanFolds, FoldsTo, Apart
<1>6. members' # {} =>
        IF keep' THEN Held(Oldest(members))' = Fold(members)'
        ELSE TimesOf(members)' \subseteq UNION {DOMAIN parts'[k] : k \in DOMAIN parts'}
  <2>1. Fold(members)' = Fold(members)
    BY <1>2, <1>4 DEF Fold
  <2>2. members # {} => Held(Oldest(members))' = Held(Oldest(members))
    <3> SUFFICES ASSUME members # {} PROVE Held(Oldest(members))' = Held(Oldest(members))
      OBVIOUS
    <3> PICK S \in SUBSET rows : S = members
      BY <1>1
    <3>1. Held(Oldest(S))' = Held(Oldest(S))
      BY RowsIdentified DEF HeldKept
    <3>2. Oldest(members)' = Oldest(S)
      BY DEF Oldest
    <3> QED BY <3>1, <3>2 DEF Held
  <2> QED BY <1>2, <2>1, <2>2 DEF PlanFolds, FoldsTo, Apart
<1>7. \A q \in rows' \ members' :
        \/ \A r \in members' : q.id < r.id
        \/ \A r \in members' : r.id < q.id
        \/ DOMAIN Held(q)' \cap TimesOf(members)' = {}
  BY <1>2 DEF PlanFolds, FoldsTo, Apart, HeldKept
<1> QED BY <1>5, <1>6, <1>7 DEF PlanFolds, FoldsTo, Apart

LEMMA PlanIsFolds ==
  ASSUME NEW S \in SUBSET rows, NEW outputs, NEW kept,
         PlanIs(S, outputs, kept), FoldsTo(S, outputs, kept)
  PROVE  PlanFolds'
<1>1. /\ members' = S /\ parts' = outputs /\ keep' = kept /\ rows' = rows /\ data' = data
  BY DEF PlanIs
<1>2. \A r : Held(r)' = Held(r)
  BY <1>1 DEF Held
<1>3. TimesOf(S)' = TimesOf(S) /\ \A t : Holding(S, t)' = Holding(S, t)
  BY <1>2 DEF TimesOf, Holding
<1>4. \A t : Held(Newest(Holding(S, t)))' = Held(Newest(Holding(S, t)))
  <2> TAKE t
  <2>1. Newest(Holding(S, t))' = Newest(Holding(S, t))
    BY <1>3 DEF Newest
  <2> QED BY <1>1, <2>1 DEF Held
<1>5. Fold(S)' = Fold(S) /\ Held(Oldest(S))' = Held(Oldest(S))
  BY <1>1, <1>3, <1>4 DEF Fold, Held, Oldest
<1>6. FoldsTo(S, outputs, kept)'
  BY <1>1, <1>2, <1>3, <1>4, <1>5 DEF FoldsTo, Apart
<1> QED BY <1>1, <1>6 DEF PlanFolds

LEMMA FoldIs ==
  ASSUME NEW S
  PROVE  /\ DOMAIN Fold(S) = TimesOf(S)
         /\ \A t \in TimesOf(S) : Fold(S)[t] = Held(Newest(Holding(S, t)))[t]
BY DEF Fold

LEMMA FoldWhole ==
  ASSUME NEW S \in SUBSET rows, Apart(S)
  PROVE  FoldsTo(S, <<Fold(S)>>, FALSE)
<1> DEFINE outputs == <<Fold(S)>>
<1>1. DOMAIN outputs = {1} /\ outputs[1] = Fold(S)
  OBVIOUS
<1> HIDE DEF outputs
<1>2. FoldsTo(S, outputs, FALSE)
  BY <1>1, FoldIs DEF FoldsTo, Apart
<1> QED BY <1>2 DEF outputs

\* A fold that is cut in two at a timestamp is still the fold.
LEMMA FoldCut ==
  ASSUME IInv, NEW S \in SUBSET rows, Apart(S), NEW at \in Int
  PROVE  FoldsTo(S, <<Before(Fold(S), at), From(Fold(S), at)>>, FALSE)
<1> DEFINE before == Before(Fold(S), at)
           from == From(Fold(S), at)
           outputs == <<before, from>>
<1>1. \A t \in TimesOf(S) : t \in Int
  <2>1. \A r \in S : DOMAIN Held(r) \subseteq Times
    BY HeldRun DEF IInv, Typed
  <2> QED BY <2>1, StoreAssumption DEF TimesOf
<1>2. /\ DOMAIN before = {t \in TimesOf(S) : t < at} /\ DOMAIN from = {t \in TimesOf(S) : at <= t}
      /\ \A t \in DOMAIN before : before[t] = Held(Newest(Holding(S, t)))[t]
      /\ \A t \in DOMAIN from : from[t] = Held(Newest(Holding(S, t)))[t]
  BY FoldIs DEF Before, From
<1>3. DOMAIN before \cap DOMAIN from = {} /\ TimesOf(S) \subseteq DOMAIN before \cup DOMAIN from
  BY <1>1, <1>2
<1> HIDE DEF before, from
<1>4. DOMAIN outputs = {1, 2} /\ outputs[1] = before /\ outputs[2] = from
  OBVIOUS
<1> HIDE DEF outputs
<1>5. \A k \in DOMAIN outputs :
        /\ DOMAIN outputs[k] \subseteq TimesOf(S)
        /\ \A t \in DOMAIN outputs[k] : outputs[k][t] = Held(Newest(Holding(S, t)))[t]
        /\ \A j \in DOMAIN outputs : j # k => DOMAIN outputs[j] \cap DOMAIN outputs[k] = {}
  BY <1>2, <1>3, <1>4
<1>6. TimesOf(S) \subseteq UNION {DOMAIN outputs[k] : k \in DOMAIN outputs}
  BY <1>3, <1>4
<1>7. FoldsTo(S, outputs, FALSE)
  BY <1>5, <1>6 DEF FoldsTo, Apart
<1> QED BY <1>7 DEF outputs, before, from

\* Where the cold prefix of an overlap component ends is a timestamp.
LEMMA LeastTime ==
  ASSUME NEW T \in SUBSET Times, T # {}
  PROVE  \E t \in T : \A u \in T : t <= u
<1>1. PICK lo \in Times : \A t \in Times : lo <= t
  BY StoreAssumption
<1> DEFINE U == {n \in Nat : lo + n \in T}
<1>2. \A t \in T : t \in Int /\ lo \in Int /\ t - lo \in U
  BY <1>1, StoreAssumption
<1>3. PICK n \in U : \A m \in U : n <= m
  <2>1. U # {} /\ U \in SUBSET Nat
    BY <1>2
  <2> HIDE DEF U
  <2> QED BY <2>1, LeastNat
<1>4. \A u \in T : lo + n <= u
  <2> TAKE u \in T
  <2>1. n <= u - lo /\ n \in Nat /\ u \in Int /\ lo \in Int
    BY <1>2, <1>3
  <2> QED BY <2>1
<1> QED BY <1>3, <1>4

LEMMA ColdIsTime ==
  ASSUME IInv, NEW S \in SUBSET rows, Cardinality(S) > 1, IsComponent(S)
  PROVE  ColdBoundary(S) \in Int
<1> DEFINE first == CHOOSE r \in S : \A q \in S : First(Held(r)) <= First(Held(q))
           starts == {First(Held(r)) : r \in S \ {first}}
<1>1. \A p : S # {p}
  BY FS_Singleton
<1>2. \A r \in S : DOMAIN Held(r) # {} /\ DOMAIN Held(r) \in SUBSET Times
  <2> TAKE r \in S
  <2>1. {r} \in SUBSET S /\ {r} \notin {{}, S}
    BY <1>1
  <2>2. \E q \in S \ {r} : Overlap(Held(r), Held(q))
    BY <2>1 DEF IsComponent
  <2> QED BY <2>2, HeldRun DEF Overlap, IInv, Typed
<1>3. \A r \in S : First(Held(r)) \in Times
  <2> TAKE r \in S
  <2>1. \E t \in DOMAIN Held(r) : \A u \in DOMAIN Held(r) : t <= u
    BY <1>2, LeastTime
  <2>2. First(Held(r)) \in DOMAIN Held(r)
    BY <2>1 DEF First
  <2> QED BY <1>2, <2>2
<1>4. S # {}
  BY FS_EmptySet
<1> HIDE DEF first
<1>5. starts # {} /\ starts \in SUBSET Times
  BY <1>1, <1>3, <1>4
<1> HIDE DEF starts
<1>6. \E t \in starts : \A u \in starts : t <= u
  BY <1>5, LeastTime
<1>7. ColdBoundary(S) = CHOOSE t \in starts : \A u \in starts : t <= u
  BY DEF ColdBoundary, first, starts
<1> QED BY <1>5, <1>6, <1>7, StoreAssumption

\* A single row's fold is what it holds, and no row comes between.
LEMMA OneRow ==
  ASSUME IInv, NEW r \in rows
  PROVE  /\ Fold({r}) = Held(r)
         /\ \A q \in rows \ {r} : q.id < r.id \/ r.id < q.id
<1>1. TimesOf({r}) = DOMAIN Held(r)
  BY DEF TimesOf
<1>2. \A t \in DOMAIN Held(r) : Holding({r}, t) = {r}
  BY DEF Holding
<1>3. Newest({r}) = r
  <2>1. r.id \in Nat
    BY DEF IInv, Typed, TypeIndex
  <2> QED BY <2>1 DEF Newest
<1>4. Held(r) = [t \in DOMAIN Held(r) |-> Held(r)[t]]
  BY HeldRun, RunIs DEF IInv, Typed
<1>5. Fold({r}) = Held(r)
  BY <1>1, <1>2, <1>3, <1>4 DEF Fold
<1>6. \A q \in rows \ {r} : q.id < r.id \/ r.id < q.id
  BY DEF IInv, Typed, TypeIndex, NamesInv
<1> QED BY <1>5, <1>6

LEMMA PlanStepFolds ==
  ASSUME IInv, PlanStep
  PROVE  PlanFolds'
<1> USE DEF PlanStep
<1>0. \A r \in rows : Apart({r}) /\ Fold({r}) = Held(r) /\ {r} \in SUBSET rows
  BY OneRow DEF Apart
<1>1. ASSUME NEW r \in rows, PlanReconcile(r)
      PROVE  PlanFolds'
  <2>1. FoldsTo({r}, <<Held(r)>>, FALSE)
    BY <1>0, FoldWhole
  <2> QED BY <1>0, <1>1, <2>1, PlanIsFolds DEF PlanReconcile
<1>2. ASSUME NEW r \in rows, NEW t \in Times, PlanSplit(r, t)
      PROVE  PlanFolds'
  <2>1. FoldsTo({r}, <<Before(Held(r), t), From(Held(r), t)>>, FALSE)
    BY <1>0, FoldCut, StoreAssumption
  <2> QED BY <1>0, <1>2, <2>1, PlanIsFolds DEF PlanSplit
<1>3. ASSUME NEW S \in SUBSET rows, PlanOverlap(S)
      PROVE  PlanFolds'
  <2> DEFINE cold == ColdBoundary(S)
             fold == Fold(S)
  <2>1. Apart(S)
    <3> SUFFICES ASSUME NEW q \in rows \ S, NEW r \in S, NEW t \in DOMAIN Held(q) \cap DOMAIN Held(r)
                 PROVE  FALSE
      BY DEF Apart, TimesOf
    <3>1. t \in Int
      BY HeldRun, StoreAssumption DEF IInv, Typed
    <3>2. Overlap(Held(r), Held(q))
      BY <3>1 DEF Overlap
    <3> QED BY <1>3, <3>2 DEF PlanOverlap, IsComponent
  <2>2. CASE Held(Oldest(S)) = fold /\ PlanIs(S, <<>>, TRUE)
    <3>1. FoldsTo(S, <<>>, TRUE)
      BY <2>1, <2>2, EmptyRun DEF FoldsTo, Apart
    <3> QED BY <2>2, <3>1, PlanIsFolds
  <2>3. CASE PlanIs(S, <<fold>>, FALSE)
    BY <2>1, <2>3, FoldWhole, PlanIsFolds
  <2>4. CASE PlanIs(S, <<Before(fold, cold), From(fold, cold)>>, FALSE)
    BY <1>3, <2>1, <2>4, ColdIsTime, FoldCut, PlanIsFolds DEF PlanOverlap
  <2> QED BY <1>3, <2>2, <2>3, <2>4 DEF PlanOverlap
<1>4. ASSUME NEW S \in SUBSET rows, PlanSquash(S)
      PROVE  PlanFolds'
  <2>1. Apart(S)
    BY <1>4 DEF PlanSquash, IsRun, Apart
  <2> QED BY <1>4, <2>1, FoldWhole, PlanIsFolds DEF PlanSquash
<1> QED BY <1>1, <1>2, <1>3, <1>4

\* Rows that stand to the others as the members do: one of a member's id, or
\* of a fresh one where no other row is above the members.
LEMMA NewestOfMoved ==
  ASSUME IInv, mode = "up", members # {},
         NEW HO \in SUBSET rows, NEW HM \in SUBSET rows, HM \subseteq members, HM # {},
         \A q \in HO : q \notin members,
         \A q \in HO : (\A r \in members : q.id < r.id) \/ (\A r \in members : r.id < q.id),
         NEW n,
         \/ n.id \in IdsOf(members)
         \/ n.id = alloc.nextId /\ \A q \in HO, r \in members : q.id < r.id
  PROVE  \/ Newest(HO \cup HM) = Newest(HM) /\ Newest(HO \cup {n}) = n
         \/ Newest(HO \cup HM) = Newest(HO \cup {n})
<1>1. /\ \A r \in rows : r.id \in Nat /\ r.id < alloc.nextId
      /\ alloc.nextId \in Nat /\ members \subseteq rows
      /\ \A r, q \in rows : r.id = q.id => r = q
  BY DEF IInv, Typed, TypeIndex, TypeProcess, TypePlan, AheadInv, NamesInv
<1>2. /\ n.id \in Nat
      /\ (\E r \in members : n.id = r.id)
           \/ (n.id = alloc.nextId /\ \A q \in HO, r \in members : q.id < r.id)
  BY <1>1 DEF IdsOf
<1>3. /\ Identified(HO) /\ Identified(HO \cup HM)
      /\ Newest(HM) \in HM /\ \A q \in HM : q.id <= Newest(HM).id
      /\ HO # {} => Newest(HO) \in HO /\ \A q \in HO : q.id <= Newest(HO).id
  BY RowsIdentified
<1>4. \A p \in HO : p.id # n.id
  BY <1>1, <1>2
<1>5. Identified(HO \cup {n})
  BY <1>1, <1>2, <1>4 DEF Identified
<1>6. CASE \A q \in HO, r \in members : q.id < r.id
  <2>1. \A q \in HO : q.id <= n.id
    BY <1>1, <1>2, <1>6
  <2>2. \A q \in HO \cup HM : q.id <= Newest(HM).id
    BY <1>1, <1>3, <1>6
  <2>3. Newest(HO \cup HM) = Newest(HM)
    BY <1>3, <2>2, NewestIs
  <2>4. Newest(HO \cup {n}) = n
    BY <1>2, <1>5, <2>1, NewestIs
  <2> QED BY <2>3, <2>4
<1>7. CASE \E q \in HO : \A r \in members : r.id < q.id
  <2>1. PICK q \in HO : \A r \in members : r.id < q.id
    BY <1>7
  <2>2. PICK x \in HO : \A p \in HO : p.id <= x.id
    BY <1>3, <2>1
  <2>3. \A r \in members : r.id < x.id
    BY <1>1, <2>1, <2>2
  <2>4. \E r \in members : n.id = r.id
    BY <1>1, <1>2, <2>1
  <2>5. n.id <= x.id
    BY <1>1, <1>2, <2>3, <2>4
  <2>6. Newest(HO \cup HM) = x
    <3>1. \A p \in HO \cup HM : p.id <= x.id
      BY <1>1, <2>2, <2>3
    <3> QED BY <1>3, <3>1, NewestIs
  <2>7. Newest(HO \cup {n}) = x
    BY <1>5, <2>2, <2>5, NewestIs
  <2> QED BY <2>6, <2>7
<1> QED BY <1>6, <1>7

\* The swap does not show: at each timestamp the one row that takes its
\* members' place says what their newest said, and stands to every other row
\* there as they did (SwapPlan).
LEMMA SwapValues ==
  ASSUME IInv, IInv', PlanFolds, mode = "up", maint = "synced", SwapLands, UNCHANGED disk,
         Extra > 0 => \A k \in DOMAIN parts :
                        k > Cardinality(members) => ~Outranked(members, parts[k]),
         NEW t \in Times
  PROVE  NewestAt(t)' = NewestAt(t)
<1> USE DEF IInv, Typed
<1> DEFINE new == OutputRows \cup Kept
<1> PICK HM \in SUBSET rows : HM = Holding(members, t)
  BY SwapRows DEF Holding
<1> PICK HO \in SUBSET rows : HO = Holding(rows \ members, t)
  BY DEF Holding
<1> PICK HN : HN = Holding(new, t)
  OBVIOUS
<1>0. members # {} /\ members \in SUBSET rows /\ Kept \in SUBSET members /\ t \in Int
  BY SwapRows, StoreAssumption
<1>1. \A r : Held(r)' = Held(r)
  BY DEF Held
<1>2. Holding(rows, t) = HO \cup HM
  BY <1>0 DEF Holding
<1>3. Holding(rows, t)' = HO \cup HN
  BY <1>1 DEF Holding, SwapLands
<1>4. \A k \in DOMAIN gens : /\ k \in DOMAIN parts
                             /\ Held([id |-> OutputId(k), gen |-> gens[k]]) = parts[k]
  <2>1. DOMAIN gens = DOMAIN parts
    <3>1. Len(gens) = Len(parts) /\ gens \in Seq(Gens) /\ parts \in Seq(Runs)
      BY DEF PlanInv, TypePlan
    <3> QED BY <3>1
  <2>2. \A k \in DOMAIN gens : data[gens[k]].rows = parts[k]
    <3> TAKE k \in DOMAIN gens
    <3>1. data[gens[k]] = [rows |-> parts[k], sorted |-> TRUE]
      BY DEF PlanInv
    <3> QED BY <3>1
  <2>3. \A k \in DOMAIN gens : [id |-> OutputId(k), gen |-> gens[k]].gen = gens[k]
    OBVIOUS
  <2> QED BY <2>1, <2>2, <2>3 DEF Held
<1>5. \A n \in new : DOMAIN Held(n) \subseteq TimesOf(members)
  <2>1. \A n \in OutputRows : DOMAIN Held(n) \subseteq TimesOf(members)
    BY <1>4, SwapRows DEF PlanFolds, FoldsTo
  <2>2. \A n \in Kept : DOMAIN Held(n) \subseteq TimesOf(members)
    BY <1>0 DEF TimesOf
  <2> QED BY <2>1, <2>2
<1>6. \A r \in rows : r.id \in Nat /\ r.id < alloc.nextId
  BY DEF TypeIndex, TypeProcess, AheadInv
<1>7. alloc.nextId \in Nat
  BY DEF TypeProcess
<1> HIDE DEF IInv, Typed
<1>8. CASE HM = {}
  <2>1. t \notin TimesOf(members)
    BY <1>8 DEF Holding, TimesOf
  <2>2. HN = {}
    BY <1>5, <2>1 DEF Holding
  <2>3. Holding(rows, t)' = Holding(rows, t)
    BY <1>2, <1>3, <1>8, <2>2
  <2>4. ValueAt(Holding(rows, t), t)' = ValueAt(Holding(rows, t), t)
    <3>1. Newest(Holding(rows, t))' = Newest(Holding(rows, t))
      BY <2>3 DEF Newest
    <3> QED BY <2>3, <3>1 DEF ValueAt, Held
  <2> QED BY <2>4, NewestAtIs, NewestAtIsNext
<1>9. CASE HM # {}
  <2> PICK m \in HM : m = Newest(HM)
    BY <1>9, RowsIdentified
  <2>1. m \in members /\ m \in rows /\ t \in DOMAIN Held(m) /\ t \in TimesOf(members)
        /\ \A r \in HM : r.id <= m.id
    BY <1>9, <1>0, RowsIdentified DEF Holding, TimesOf
  <2>2. \A q \in HO : \/ \A r \in members : q.id < r.id
                      \/ \A r \in members : r.id < q.id
    BY <2>1 DEF PlanFolds, FoldsTo, Apart, Holding
  <2>3. \E n \in new : /\ HN = {n} /\ t \in DOMAIN Held(n) /\ Held(n)[t] = Held(m)[t]
                       /\ \/ n.id \in IdsOf(members)
                          \/ n.id = alloc.nextId /\ \A q \in HO, r \in members : q.id < r.id
    <3>1. CASE keep
      <4>1. gens = <<>>
        BY <3>1, EmptySeq, SwapRows DEF PlanInv, TypePlan, IInv, Typed
      <4>2. new = {Oldest(members)}
        BY <3>1, <4>1, EmptyRun DEF OutputRows, Kept
      <4>3. Oldest(members) \in members /\ Held(Oldest(members)) = Fold(members)
        BY <1>0, <3>1, <4>2 DEF Kept, PlanFolds, FoldsTo
      <4>4. t \in DOMAIN Held(Oldest(members)) /\ Held(Oldest(members))[t] = Held(m)[t]
        BY <2>1, <4>3, FoldIs
      <4>5. Oldest(members).id \in IdsOf(members)
        BY <4>3 DEF IdsOf
      <4> QED BY <4>2, <4>4, <4>5 DEF Holding
    <3>2. CASE ~keep
      <4>1. PICK k \in DOMAIN parts : t \in DOMAIN parts[k]
        BY <1>0, <2>1, <3>2 DEF PlanFolds, FoldsTo
      <4>2. k \in DOMAIN gens
        <5>1. Len(gens) = Len(parts) /\ gens \in Seq(Gens) /\ parts \in Seq(Runs)
          BY DEF PlanInv, TypePlan, IInv, Typed
        <5> QED BY <5>1
      <4> PICK n \in OutputRows : n = [id |-> OutputId(k), gen |-> gens[k]]
        BY <4>2 DEF OutputRows
      <4>3. Held(n) = parts[k] /\ n.id = OutputId(k)
        BY <1>4, <4>2
      <4>4. Held(n)[t] = Held(m)[t]
        BY <4>1, <4>3 DEF PlanFolds, FoldsTo
      <4>5. \A p \in OutputRows : t \in DOMAIN Held(p) => p = n
        <5> TAKE p \in OutputRows
        <5> HAVE t \in DOMAIN Held(p)
        <5>1. PICK j \in DOMAIN gens : p = [id |-> OutputId(j), gen |-> gens[j]]
          BY SwapRows
        <5>2. t \in DOMAIN parts[j] /\ j \in DOMAIN parts
          BY <1>4, <5>1
        <5>3. j = k
          BY <4>1, <5>2 DEF PlanFolds, FoldsTo
        <5> QED BY <5>1, <5>3
      <4>6. HN = {n}
        BY <3>2, <4>1, <4>3, <4>5 DEF Holding, Kept
      <4>7. \/ OutputId(k) \in IdsOf(members)
            \/ OutputId(k) = alloc.nextId /\ Extra = 1 /\ k > Cardinality(members)
        BY <4>2, OutputIds
      <4>8. ASSUME Extra = 1, k > Cardinality(members), NEW q \in HO, NEW r \in members
            PROVE  q.id < r.id
        <5>1. ~Outranked(members, parts[k])
          BY <4>1, <4>8
        <5>2. t \in DOMAIN Held(q) /\ q \in rows
          BY DEF Holding
        <5>3. Overlap(parts[k], Held(q))
          BY <1>0, <4>1, <5>2 DEF Overlap
        <5> QED BY <2>2, <5>1, <5>2, <5>3 DEF Outranked
      <4> QED BY <4>1, <4>3, <4>4, <4>6, <4>7, <4>8
    <3> QED BY <3>1, <3>2
  <2> PICK n \in new : /\ HN = {n} /\ t \in DOMAIN Held(n) /\ Held(n)[t] = Held(m)[t]
                       /\ \/ n.id \in IdsOf(members)
                          \/ n.id = alloc.nextId /\ \A q \in HO, r \in members : q.id < r.id
    BY <2>3
  <2>4. \A q \in HO : q \in rows /\ q \notin members
    BY DEF Holding
  <2>5. Held(Newest(HO \cup HM))[t] = Held(Newest(HO \cup {n}))[t]
    <3>1. HM \subseteq members
      BY DEF Holding
    <3>2. \/ n.id \in IdsOf(members)
          \/ n.id = alloc.nextId /\ \A q \in HO, r \in members : q.id < r.id
      OBVIOUS
    <3>3. \/ Newest(HO \cup HM) = m /\ Newest(HO \cup {n}) = n
          \/ Newest(HO \cup HM) = Newest(HO \cup {n})
      <4>1. \A q \in HO : q \notin members
        BY <2>4
      <4>2. members # {}
        BY <1>0
      <4> HIDE DEF new
      <4>3. \/ Newest(HO \cup HM) = Newest(HM) /\ Newest(HO \cup {n}) = n
            \/ Newest(HO \cup HM) = Newest(HO \cup {n})
        BY ONLY IInv, mode = "up", <1>9, <2>2, <3>1, <3>2, <4>1, <4>2, NewestOfMoved
      <4> QED BY <4>3
    <3> QED BY <3>3
  <2>6. ValueAt(Holding(rows, t), t) = Held(Newest(HO \cup HM))[t]
    BY <1>2, <1>9 DEF ValueAt
  <2>7. ValueAt(Holding(rows, t), t)' = Held(Newest(HO \cup {n}))[t]
    <3>1. Newest(Holding(rows, t))' = Newest(HO \cup {n})
      BY <1>3 DEF Newest
    <3>2. Holding(rows, t)' # {}
      BY <1>3
    <3> QED BY <3>1, <3>2 DEF ValueAt, Held
  <2> QED BY <2>5, <2>6, <2>7, NewestAtIs, NewestAtIsNext
<1> QED BY <1>8, <1>9

\* A seal's row is the newest wherever its batch has one (publish_seal).
LEMMA LandsValues ==
  ASSUME IInv, IInv', SealData, mode = "up", NEW b \in Batches, Active(b), SealLands(b),
         UNCHANGED data, NEW t
  PROVE  NewestAt(t)' = IF t \in DOMAIN Content[b] THEN Content[b][t] ELSE NewestAt(t)
<1> DEFINE r == [id |-> alloc.nextId, gen |-> sealGen[b]]
<1>1. PICK H \in SUBSET rows : H = Holding(rows, t)
  BY DEF Holding
<1>2. PICK n : n = r
  OBVIOUS
<1>3. rows' = rows \cup {n} /\ n.id = alloc.nextId /\ Held(n) = Content[b]
  BY <1>2 DEF SealLands, SealData, Held
<1>4. \A q : Held(q)' = Held(q)
  BY DEF Held
<1>5. Holding(rows, t)' = H \cup {q \in {n} : t \in DOMAIN Content[b]}
  BY <1>1, <1>3, <1>4 DEF Holding
<1>6. /\ Identified(H) /\ alloc.nextId \in Nat
      /\ \A q \in H : q.id \in Nat /\ q.id < alloc.nextId
  <2>1. Identified(H)
    BY RowsIdentified
  <2> QED BY <2>1 DEF IInv, Typed, TypeIndex, TypeProcess, AheadInv
<1> HIDE DEF r
<1>7. CASE t \in DOMAIN Content[b]
  <2>1. Newest(H \cup {n}) = n
    <3>1. Identified(H \cup {n})
      BY <1>3, <1>6 DEF Identified
    <3>2. \A q \in H \cup {n} : q.id <= n.id
      BY <1>3, <1>6
    <3> QED BY <3>1, <3>2, NewestIs
  <2>2. Holding(rows, t)' = H \cup {n}
    BY <1>5, <1>7
  <2>3. Newest(Holding(rows, t))' = n
    BY <2>1, <2>2 DEF Newest
  <2>4. ValueAt(Holding(rows, t), t)' = Held(n)[t]
    BY <1>4, <2>2, <2>3 DEF ValueAt, Held
  <2> QED BY <1>3, <1>7, <2>4, NewestAtIsNext
<1>8. CASE t \notin DOMAIN Content[b]
  <2>1. Holding(rows, t)' = Holding(rows, t)
    BY <1>1, <1>5, <1>8
  <2>2. Newest(Holding(rows, t))' = Newest(Holding(rows, t))
    BY <2>1 DEF Newest
  <2>3. ValueAt(Holding(rows, t), t)' = ValueAt(Holding(rows, t), t)
    BY <2>1, <2>2 DEF ValueAt, Held
  <2> QED BY <1>8, <2>3, NewestAtIs, NewestAtIsNext
<1> QED BY <1>7, <1>8

\* What most steps leave: the rows and what they hold, the batches that landed,
\* the plan or none, and what the seals under way have written.
Unseen == rows' = rows /\ HeldKept /\ UNCHANGED <<landed, acked>>
PlanKept == UNCHANGED <<members, parts, keep>> \/ PlanDone
SealsKept == \A b \in Batches : Active(b)' => data'[sealGen'[b]].rows = Content[b]

LEMMA QuietSteps ==
  ASSUME SealData, UNCHANGED <<rows, data, sealGen, landed, acked>>,
         \A b \in Batches : Active(b)' => Active(b)
  PROVE  Unseen /\ SealsKept
BY DEF Unseen, HeldKept, Held, SealsKept, SealData

LEMMA SealWriteUnseen ==
  ASSUME IInv, SealData, NEW b \in Batches, SealWrite(b)
  PROVE  Unseen /\ PlanKept /\ SealsKept
<1> USE StoreAssumption DEF SealWrite, Writable, Seal
<1> PICK g \in Gens : g = genNext
  OBVIOUS
<1>1. g \notin Live /\ \A c \in Batches : Active(c) => sealGen[c] # g
  <2>1. g >= genNext /\ mode = "up"
    BY DEF Gens
  <2> QED BY <2>1, FreshGen
<1>2. /\ data' = [data EXCEPT ![g] = [rows |-> Content[b], sorted |-> b \notin Late]]
      /\ sealGen' = [sealGen EXCEPT ![b] = g]
      /\ sealPc' \in {[sealPc EXCEPT ![b] = "written"], [sealPc EXCEPT ![b] = "failed"]}
      /\ data \in [Gens -> [rows : Runs, sorted : BOOLEAN]]
      /\ sealPc \in [Batches -> SealPc] /\ sealGen \in [Batches -> Gens \cup {0}]
      /\ \A c \in Batches : Active(c) => sealGen[c] \in Gens
      /\ rows \in SUBSET [id : Nat, gen : Gens]
  BY DEF IInv, Typed, TypeIndex, TypeDisk, TypeProcess, NamesInv
<1>3. Unseen /\ PlanKept
  <2>1. \A r \in rows : r.gen # g /\ r.gen \in Gens
    BY <1>1, <1>2 DEF Live, GensOf
  <2>2. HeldKept
    BY <1>2, <2>1 DEF HeldKept, Held
  <2> QED BY <2>2 DEF Unseen, PlanKept
<1>4. SealsKept
  <2> SUFFICES ASSUME NEW c \in Batches, Active(c)' PROVE data'[sealGen'[c]].rows = Content[c]
    BY DEF SealsKept
  <2>1. CASE c = b
    <3>1. sealGen'[c] = g
      BY <1>2, <2>1
    <3>2. data'[g] = [rows |-> Content[b], sorted |-> b \notin Late]
      BY <1>2
    <3> QED BY <2>1, <3>1, <3>2
  <2>2. CASE c # b
    <3>1. Active(c) /\ sealGen'[c] = sealGen[c]
      BY <1>2, <2>2 DEF Active
    <3>2. data'[sealGen[c]] = data[sealGen[c]]
      BY <1>1, <1>2, <3>1
    <3> QED BY <3>1, <3>2 DEF SealData
  <2> QED BY <2>1, <2>2
<1> QED BY <1>3, <1>4

LEMMA MaintJournalUnseen ==
  ASSUME IInv, SealData, MaintJournal
  PROVE  Unseen /\ PlanKept /\ SealsKept
<1> DEFINE outs == genNext..genNext + Len(parts) - 1
<1>1. /\ UNCHANGED <<rows, landed, acked, sealPc, sealGen>>
      /\ UNCHANGED <<members, parts, keep>> \/ PlanDone
      /\ \A g \in Gens \ outs : data'[g] = data[g]
  BY DEF MaintJournal, Release
<1>2. \A g \in Gens : g \in outs => g \notin Live /\ \A b \in Batches : Active(b) => sealGen[b] # g
  <2>1. mode = "up" /\ genNext \in Nat
    BY StoreAssumption DEF MaintJournal, IInv, Typed, TypeProcess, PlanInv, OpenInv
  <2>2. \A g \in Gens : g \in outs => g >= genNext
    BY <2>1 DEF Gens
  <2> QED BY <2>1, <2>2, FreshGen
<1> HIDE DEF outs
<1>3. Unseen
  <2>1. \A r \in rows : r.gen \in Gens \ outs
    BY <1>2 DEF Live, GensOf, IInv, Typed, TypeIndex
  <2> QED BY <1>1, <2>1 DEF Unseen, HeldKept, Held
<1>4. SealsKept
  <2>1. \A b \in Batches : Active(b) => sealGen[b] \in Gens \ outs
    BY <1>2 DEF IInv, NamesInv
  <2> QED BY <1>1, <2>1 DEF SealsKept, SealData, Active
<1> QED BY <1>1, <1>3, <1>4 DEF PlanKept

\* Only a seal that lands and a swap that lands touch the rows; a plan's step
\* takes the fold of its members.
LEMMA StepsSeen ==
  ASSUME IInv, SealData, Next
  PROVE  \/ Unseen /\ PlanKept /\ SealsKept
         \/ Unseen /\ PlanStep /\ SealsKept
         \/ \E b \in Batches : SealCommit(b) /\ SealLands(b)
         \/ SwapCommit /\ SwapLands
<1>1. CASE SealStep
  <2>1. ASSUME NEW b \in Batches, SealDrop(b) \/ SealSync(b)
        PROVE  Unseen /\ PlanKept /\ SealsKept
    <3>1. /\ UNCHANGED <<rows, data, sealGen, landed, acked, members, parts, keep>>
          /\ \A c \in Batches : sealPc'[c] \in {"written", "synced"} => sealPc[c] \in {"written", "synced"}
      BY <2>1 DEF SealDrop, SealSync, SyncDir, SyncDirFails, Seal, IInv, Typed, TypeProcess
    <3> QED BY <3>1, QuietSteps DEF PlanKept, Active
  <2>2. ASSUME NEW b \in Batches, SealCommit(b), ~SealLands(b)
        PROVE  Unseen /\ PlanKept /\ SealsKept
    <3>1. /\ UNCHANGED <<rows, data, sealGen, landed, acked, members, parts, keep>>
          /\ \A c \in Batches : sealPc'[c] \in {"written", "synced"} => sealPc[c] \in {"written", "synced"}
      BY <2>2 DEF SealCommit, Seal, IInv, Typed, TypeProcess
    <3> QED BY <3>1, QuietSteps DEF PlanKept, Active
  <2> QED BY <1>1, <2>1, <2>2, SealWriteUnseen DEF SealStep
<1>2. CASE /\ UNCHANGED <<rows, data, seals, landed, acked>>
           /\ UNCHANGED <<members, parts, keep>> \/ PlanDone
  BY <1>2, QuietSteps DEF PlanKept, Active
<1>3. CASE (\E g \in late : LateWrite(g)) \/ ConsumerFetch \/ ConsumerAck \/ ConsumerStop \/ OpenDone
  <2>1. /\ UNCHANGED <<rows, data, seals, landed, acked>>
        /\ UNCHANGED <<members, parts, keep>> \/ PlanDone
    BY <1>3 DEF LateWrite, ConsumerFetch, ConsumerAck, ConsumerStop, OpenDone, Release
  <2> QED BY <1>2, <2>1
<1>4. CASE PlanStep
  <2>1. UNCHANGED <<rows, data, seals, landed, acked>>
    BY <1>4 DEF PlanStep, PlanReconcile, PlanSplit, PlanOverlap, PlanSquash, PlanIs
  <2> QED BY <1>4, <2>1, QuietSteps DEF Active
<1>5. CASE SwapStep
  <2>1. ASSUME \/ \E k \in DOMAIN gens : MaintWrite(k)
               \/ MaintSync \/ MaintDrop
               \/ \E removed \in SUBSET Gens : MaintDiscard(removed)
               \/ SwapCommit /\ ~SwapLands
        PROVE  /\ UNCHANGED <<rows, data, seals, landed, acked>>
               /\ UNCHANGED <<members, parts, keep>> \/ PlanDone
    BY <2>1 DEF MaintWrite, MaintSync, MaintDrop, MaintDiscard, SwapCommit, Release, SyncDir, SyncDirFails
  <2> QED BY <1>2, <1>5, <2>1, MaintJournalUnseen DEF SwapStep
<1>6. CASE SweepStep
  <2>1. /\ UNCHANGED <<rows, data, seals, landed, acked>>
        /\ UNCHANGED <<members, parts, keep>> \/ PlanDone
    BY <1>6 DEF SweepStep, Sweep, SweepNothing, SweepSync, SweepClear, Release, SyncDir, SyncDirFails
  <2> QED BY <1>2, <2>1
<1>7. CASE Kill \/ \E left \in SUBSET Gens : PowerCut(left)
  <2>1. /\ UNCHANGED <<rows, data, sealGen, landed, acked>> /\ PlanDone
        /\ \A b \in Batches : sealPc'[b] \notin {"written", "synced"}
    BY <1>7 DEF Kill, PowerCut, ProcessEnds, Release
  <2> QED BY <2>1, QuietSteps DEF PlanKept, Active
<1> QED BY <1>1, <1>3, <1>4, <1>5, <1>6, <1>7 DEF Next

RInv == IInv /\ PlanFolds /\ SealData

LEMMA NoPlanFolds ==
  ASSUME PlanDone
  PROVE  PlanFolds'
<1>1. members' = {} /\ parts' = <<>> /\ DOMAIN parts' = {}
  BY EmptyRun DEF PlanDone
<1> QED BY <1>1 DEF PlanFolds, FoldsTo, Apart

\* Every step of the store is a step of the abstract one, or does not show.
LEMMA StepRefines ==
  ASSUME RInv, [Next]_vars
  PROVE  /\ PlanFolds' /\ SealData'
         /\ \/ UNCHANGED <<landed, acked>> /\ \A t \in Times : NewestAt(t)' = NewestAt(t)
            \/ \E b \in Batches :
                 /\ b \notin landed /\ landed' = landed \cup {b}
                 /\ \A t \in Times : NewestAt(t)' = IF t \in DOMAIN Content[b] THEN Content[b][t] ELSE NewestAt(t)
                 /\ acked' \in {acked, acked \cup {b}}
<1> USE DEF RInv
<1>0. IInv'
  BY StepInv
<1>1. CASE Unseen /\ SealsKept /\ (PlanKept \/ PlanStep)
  <2>1. SealData'
    BY <1>1 DEF SealsKept, SealData
  <2>2. PlanFolds'
    <3>1. CASE UNCHANGED <<members, parts, keep>>
      BY <1>1, <3>1, FoldsKept DEF Unseen
    <3> QED BY <1>1, <3>1, NoPlanFolds, PlanStepFolds DEF PlanKept
  <2>3. \A t \in Times : NewestAt(t)' = NewestAt(t)
    BY <1>0, <1>1, ValuesKept DEF Unseen
  <2> QED BY <1>1, <2>1, <2>2, <2>3 DEF Unseen
<1>2. ASSUME NEW b \in Batches, SealCommit(b), SealLands(b)
      PROVE  /\ PlanFolds' /\ SealData'
             /\ b \notin landed /\ landed' = landed \cup {b}
             /\ \A t \in Times : NewestAt(t)' = IF t \in DOMAIN Content[b] THEN Content[b][t] ELSE NewestAt(t)
             /\ acked' \in {acked, acked \cup {b}}
  <2>1. /\ mode = "up" /\ sealPc[b] = "synced" /\ landed' = landed \cup {b}
        /\ acked' \in {acked, acked \cup {b}}
        /\ UNCHANGED <<data, sealGen, members, parts, keep>>
        /\ sealPc' \in {[sealPc EXCEPT ![b] = "acked"], [sealPc EXCEPT ![b] = "failed"]}
    BY <1>2 DEF SealCommit, SealLands, Writable, Seal
  <2>2. Active(b) /\ b \notin landed
    BY <2>1 DEF Active, IInv, LogInv
  <2>3. SealData'
    BY <2>1 DEF SealData, Active, IInv, Typed, TypeProcess
  <2>4. PlanFolds'
    <3>1. HeldKept
      BY <2>1 DEF HeldKept, Held
    <3>2. rows \subseteq rows' /\ \A q \in rows' \ rows : q.id = alloc.nextId
      BY <1>2 DEF SealLands
    <3>3. \A r \in members : r.id < alloc.nextId
      BY <2>1 DEF IInv, Typed, TypeIndex, TypeProcess, TypePlan, AheadInv
    <3> QED BY <2>1, <3>1, <3>2, <3>3, FoldsKept
  <2> QED BY <1>0, <1>2, <2>1, <2>2, <2>3, <2>4, LandsValues
<1>3. CASE SwapCommit /\ SwapLands
  <2>1. /\ mode = "up" /\ maint = "synced" /\ UNCHANGED disk /\ UNCHANGED <<seals, landed, acked>>
        /\ Extra > 0 => \A k \in DOMAIN parts :
                          k > Cardinality(members) => ~Outranked(members, parts[k])
    BY <1>3 DEF SwapCommit, Writable
  <2>2. SealData'
    BY <2>1 DEF SealData, Active
  <2>3. PlanFolds'
    <3>1. CASE PlanDone
      BY <3>1, NoPlanFolds
    \* A swap that landed beside one of the outcomes that kept the index.
    <3>2. CASE ~PlanDone
      <4>1. UNCHANGED <<index, plan, disk>>
        BY <1>3, <3>2 DEF SwapCommit, Release
      <4>2. HeldKept
        BY <4>1 DEF HeldKept, Held
      <4> QED BY <4>1, <4>2, FoldsKept
    <3> QED BY <3>1, <3>2
  <2>4. \A t \in Times : NewestAt(t)' = NewestAt(t)
    BY <1>0, <1>3, <2>1, SwapValues
  <2> QED BY <2>1, <2>2, <2>3, <2>4
<1>4. CASE UNCHANGED vars
  <2>1. Unseen /\ SealsKept /\ PlanKept
    BY <1>4 DEF vars, Unseen, HeldKept, Held, SealsKept, SealData, PlanKept, Active
  <2> QED BY <1>1, <2>1
<1>5. CASE Next
  BY <1>1, <1>2, <1>3, <1>5, StepsSeen
<1> QED BY <1>4, <1>5

\* However the steps of seals, maintenance, consumers, crashes and replays
\* interleave, the store reads as its batches in the order they landed, and
\* keeps what it acknowledged (the module's account of SegmentStore).
THEOREM StoreRefines == Spec => Refinement
<1>1. Init => Store!StoreInit /\ RInv
  <2> SUFFICES ASSUME Init PROVE Store!StoreInit /\ RInv
    OBVIOUS
  <2>1. Readable = {} /\ landed = {} /\ acked = {}
    BY DEF Init, Readable
  <2>2. \A t \in Times : NewestAt(t) = Missing
    BY <2>1 DEF NewestAt, ValueAt, Holding
  <2>3. Store!StoreInit
    BY <2>1, <2>2 DEF Store!StoreInit
  <2>4. PlanFolds /\ SealData
    <3>1. members = {} /\ DOMAIN parts = {} /\ \A b \in Batches : ~Active(b)
      BY EmptyRun DEF Init, Active
    <3> QED BY <3>1 DEF PlanFolds, FoldsTo, Apart, SealData
  <2> QED BY <2>3, <2>4, InitInv DEF RInv
<1>2. RInv /\ [Next]_vars => RInv'
  BY StepRefines, StepInv DEF RInv
<1>3. RInv /\ [Next]_vars => [\E b \in Batches : Store!Land(b)]_Store!storeVars
  <2> SUFFICES ASSUME RInv, [Next]_vars
               PROVE  [\E b \in Batches : Store!Land(b)]_Store!storeVars
    OBVIOUS
  <2>1. CASE UNCHANGED <<landed, acked>> /\ \A t \in Times : NewestAt(t)' = NewestAt(t)
    <3>1. [t \in Times |-> NewestAt(t)]' = [t \in Times |-> NewestAt(t)]
      BY <2>1
    <3> QED BY <2>1, <3>1 DEF Store!storeVars
  <2>2. ASSUME NEW b \in Batches,
               b \notin landed, landed' = landed \cup {b}, acked' \in {acked, acked \cup {b}},
               \A t \in Times : NewestAt(t)' = IF t \in DOMAIN Content[b] THEN Content[b][t] ELSE NewestAt(t)
        PROVE  Store!Land(b)
    <3>1. [t \in Times |-> NewestAt(t)]'
            = [t \in Times |-> IF t \in DOMAIN Content[b] THEN Content[b][t]
                               ELSE [u \in Times |-> NewestAt(u)][t]]
      BY <2>2
    <3> QED BY <2>2, <3>1 DEF Store!Land
  <2> QED BY <2>1, <2>2, StepRefines
<1> QED BY <1>1, <1>2, <1>3, PTL DEF Spec, Refinement, Store!StoreSpec

=============================================================================

------------------------------- MODULE Backups ------------------------------
(***************************************************************************)
(* Backups in their base directory (backup.rs, build_backup in maint.rs,    *)
(* backup_daemon.rs): how one is built under a staging name and published,  *)
(* how retention retires the oldest and the sweep removes litter, and how a *)
(* whole-store backup is restored into a new root; with failures, process   *)
(* ends and power cuts between any two steps.                               *)
(*                                                                          *)
(* After a power cut a directory has one of the names it had since its base *)
(* was last synced, and holds what is certain of it and any part of the     *)
(* rest (durable/sim.rs).                                                   *)
(***************************************************************************)
EXTENDS Integers, FiniteSets

CONSTANTS
  Keep,       \* the daemon's retention
  SweepAge,   \* STAGING_SWEEP_AGE
  Tolerance,  \* FUTURE_STAMP_TOLERANCE
  Unsynced,   \* whether a prune may stop between its rename and its sync
  MaxDirs,    \* bounds the directories made
  MaxTime,    \* bounds the clock
  MaxCuts     \* bounds process ends and power cuts

\* A stamp is a number of seconds, and no write takes as long as the sweep waits.
BackupsAssumption == {Keep, Tolerance, MaxDirs, MaxTime, MaxCuts} \subseteq Nat /\ SweepAge \in Nat \ {0}

VARIABLES
  now,
  dirs,   \* the directories of backups and of the restored root
  job,    \* what the daemon and the operator's request are at: one at a time
  cuts,
  told    \* history: the labels whose maker was told Ok

backupVars == <<now, dirs, job, cuts, told>>

Ids == 1 .. MaxDirs
Jobs == {"daemon", "operator"}

\* Labels: the daemon's are stamps from 1 on.
Operators == 0
Root == 0 - 1

Databases == {"index", "rest"}
Needs(kind) ==
  CASE kind = "control" -> Databases \cup {"manifest"}
    [] kind = "whole" -> Databases \cup {"frames", "manifest"}
    [] kind = "root" -> Databases \cup {"intent", "frames", "format"}
    [] kind = "old" -> Databases

Nothing ==
  [kind |-> "control", label |-> Root, name |-> "none", disk |-> {"none"}, parts |-> {},
   kept |-> {}, mtime |-> 0]
NoJob == [at |-> "idle", dir |-> 0, from |-> 0, victims |-> {}]

Names == {"none", "partial", "final", "deleting"}

BackupsTypeOK ==
  /\ now \in 1 .. MaxTime
  /\ \A d \in Ids :
       /\ dirs[d].name \in dirs[d].disk /\ dirs[d].disk \subseteq Names
       /\ dirs[d].name = "none" => dirs[d].parts = {}
       /\ dirs[d].parts \cup dirs[d].kept \subseteq Needs("whole") \cup Needs("root")
  /\ \A a \in Jobs : job[a].dir \in Ids \cup {0} /\ job[a].victims \subseteq Ids
  /\ told \subseteq Root .. MaxTime + MaxDirs

\* An older release may have left half a backup under a generated name.
BackupsInit ==
  /\ now = 2
  /\ dirs = [d \in Ids |-> IF d = 1
                           THEN [Nothing EXCEPT !.kind = "old", !.label = 1, !.name = "final",
                                                !.disk = {"final"}, !.parts = {"index"},
                                                !.kept = {"index"}, !.mtime = 1]
                           ELSE Nothing]
  /\ job = [a \in Jobs |-> NoJob]
  /\ cuts = 0 /\ told = {}

-----------------------------------------------------------------------------
(* Directories. *)

Unused == {d \in Ids : dirs[d] = Nothing}
Exists(label) == \E d \in Ids : dirs[d].name = "final" /\ dirs[d].label = label
Renamed(d, name) == [dirs EXCEPT ![d].name = name, ![d].disk = @ \cup {name}]

\* sync_dir of the base: the names of its entries are durable.  The root's
\* base is another.
Synced(ds, roots) ==
  [d \in Ids |-> IF (ds[d].label = Root) # roots THEN ds[d]
                 ELSE IF ds[d].name = "none" THEN Nothing
                 ELSE [ds[d] EXCEPT !.disk = {ds[d].name}]]

\* remove_dir_all, which may fail on the way: what is left is litter, and
\* which of its files are left makes no difference.
Removed(d) == [dirs[d] EXCEPT !.name = "none", !.disk = @ \cup {"none"}, !.parts = {}]
Litter(d) == [dirs[d] EXCEPT !.parts = {}]
Removals(d) == {[dirs EXCEPT ![d] = Removed(d)], [dirs EXCEPT ![d] = Litter(d)]}

Goes(a, at) == job' = [job EXCEPT ![a].at = at]
Ends(a) == job' = [job EXCEPT ![a] = NoJob]

-----------------------------------------------------------------------------
(* Building: build_backup, with the callers that publish. *)

\* fresh_dir: the clock's stamp, or the next that is free.
FreshStamp ==
  CHOOSE s \in now .. now + MaxDirs :
    ~Exists(s) /\ \A r \in now .. s - 1 : Exists(r)

Create(a, kind, label, at) ==
  \E d \in Unused :
    /\ \A e \in Unused : d <= e
    /\ dirs' = [dirs EXCEPT ![d] = [Nothing EXCEPT !.kind = kind, !.label = label,
                 !.name = "partial", !.disk = {"none", "partial"}, !.mtime = now]]
    /\ job' = [job EXCEPT ![a].at = at, ![a].dir = d]

\* A tick of the daemon, which takes the control plane only.
DaemonBegins ==
  /\ job["daemon"].at = "tick"
  /\ Create("daemon", "control", FreshStamp, "index")
  /\ UNCHANGED <<now, cuts, told>>

OperatorBegins ==
  /\ job["operator"] = NoJob /\ ~Exists(Operators)
  /\ Create("operator", "whole", Operators, "index")
  /\ UNCHANGED <<now, cuts, told>>

\* The step after each part of a build, and of a restore.
After(kind, at) ==
  CASE at = "intent" -> "index"
    [] at = "index" -> "rest"
    [] at = "rest" -> IF kind = "control" THEN "manifest" ELSE "frames"
    [] at = "frames" -> IF kind = "root" THEN "format" ELSE "manifest"
    [] at \in {"manifest", "format"} -> "sync"

Writing(a) == job[a].at \in {"intent", "index", "rest", "frames", "manifest", "format"}

\* What a restore copies it must find in the backup, under the backup's name.
SourceHas(a) ==
  job[a].from # 0 /\ job[a].at \in Databases \cup {"frames"} =>
    dirs[job[a].from].name = "final" /\ job[a].at \in dirs[job[a].from].parts

\* The file is written and synced; its entry in the directory is not yet.
WritePart(a) ==
  LET d == job[a].dir IN
  /\ Writing(a) /\ dirs[d].name = "partial" /\ SourceHas(a)
  /\ dirs' = [dirs EXCEPT ![d].parts = @ \cup {job[a].at}, ![d].mtime = now]
  /\ Goes(a, After(dirs[d].kind, job[a].at))
  /\ UNCHANGED <<now, cuts, told>>

\* sync_dir of the build directory; segments/ was synced before.
SyncBuild(a) ==
  LET d == job[a].dir IN
  /\ job[a].at = "sync" /\ dirs[d].name = "partial"
  /\ dirs' = [dirs EXCEPT ![d].kept = dirs[d].parts]
  /\ Goes(a, "publish")
  /\ UNCHANGED <<now, cuts, told>>

Publish(a) ==
  LET d == job[a].dir IN
  /\ job[a].at = "publish" /\ dirs[d].name = "partial" /\ ~Exists(dirs[d].label)
  /\ dirs' = Renamed(d, "final")
  /\ Goes(a, "base")
  /\ UNCHANGED <<now, cuts, told>>

\* An error before the rename removes the build directory, as well as it can.
BuildFails(a) ==
  /\ Writing(a) \/ job[a].at \in {"sync", "publish"}
  /\ dirs' \in IF dirs[job[a].dir].name = "partial" THEN Removals(job[a].dir) ELSE {dirs}
  /\ Ends(a)
  /\ UNCHANGED <<now, cuts, told>>

SyncBase(a) ==
  /\ job[a].at = "base"
  /\ dirs' = Synced(dirs, job[a].from # 0)
  /\ told' = told \cup {dirs[job[a].dir].label}
  /\ job' = [job EXCEPT ![a] = IF a = "daemon" THEN [NoJob EXCEPT !.at = "list"] ELSE NoJob]
  /\ UNCHANGED <<now, cuts>>

\* An error after the rename is returned, although the backup is there.
SyncBaseFails(a) ==
  /\ job[a].at = "base"
  /\ Ends(a)
  /\ UNCHANGED <<now, dirs, cuts, told>>

-----------------------------------------------------------------------------
(* Retention: prune_generated_backups and retire_backup. *)

\* is_complete_backup.
Complete(d) ==
  /\ dirs[d].name = "final"
  /\ "manifest" \in dirs[d].parts \/ Databases \subseteq dirs[d].parts

\* stamp_is_trusted.
Trusted(d) ==
  dirs[d].label <= now + Tolerance /\ dirs[d].label <= dirs[d].mtime + Tolerance

Listed == {d \in Ids : dirs[d].label > Operators /\ Trusted(d) /\ Complete(d)}
Younger(d) == {e \in Listed : dirs[e].label > dirs[d].label}

\* The victims, after a tick that succeeded.
List ==
  /\ job["daemon"].at = "list"
  /\ LET victims == {d \in Listed : Cardinality(Younger(d)) >= Keep} IN
     job' = [job EXCEPT !["daemon"] = IF victims = {} THEN NoJob
                                      ELSE [NoJob EXCEPT !.at = "retire", !.victims = victims]]
  /\ UNCHANGED <<now, dirs, cuts, told>>

\* The oldest first.  A victim that cannot be renamed ends the prune.
RetireRename ==
  LET victims == job["daemon"].victims
      d == CHOOSE v \in victims : \A w \in victims : dirs[v].label <= dirs[w].label
  IN
  /\ job["daemon"].at = "retire"
  /\ \/ /\ dirs[d].name = "final"
        /\ dirs' = Renamed(d, "deleting")
        /\ job' = [job EXCEPT !["daemon"].at = "retired", !["daemon"].dir = d,
                              !["daemon"].victims = @ \ {d}]
     \/ UNCHANGED dirs /\ Ends("daemon")
  /\ UNCHANGED <<now, cuts, told>>

\* The bug: the rename is not made durable before the files are removed.
BugRetireSync ==
  /\ job["daemon"].at = "retired"
  /\ Goes("daemon", "remove")
  /\ UNCHANGED <<now, dirs, cuts, told>>

RetireSync ==
  /\ job["daemon"].at = "retired"
  /\ \/ dirs' = Synced(dirs, FALSE) /\ Goes("daemon", "remove")
     \/ Unsynced /\ UNCHANGED dirs /\ Ends("daemon")
  /\ UNCHANGED <<now, cuts, told>>

RetireRemove ==
  LET d == job["daemon"].dir IN
  /\ job["daemon"].at = "remove"
  /\ \E ds \in Removals(d) :
       /\ dirs' = ds
       /\ IF ds[d].name = "none" /\ job["daemon"].victims # {} THEN Goes("daemon", "retire")
          ELSE Ends("daemon")
  /\ UNCHANGED <<now, cuts, told>>

-----------------------------------------------------------------------------
\* sweep_backup_staging, before each tick: what has not changed for Age.
Stale == {d \in Ids : /\ dirs[d].label # Root /\ dirs[d].name \in {"partial", "deleting"}
                      /\ now >= dirs[d].mtime + SweepAge}

Sweep ==
  /\ job["daemon"] = NoJob
  /\ \E gone \in SUBSET Stale :
       dirs' = [d \in Ids |-> IF d \in gone THEN Removed(d)
                              ELSE IF d \in Stale THEN Litter(d) ELSE dirs[d]]
  /\ Goes("daemon", "tick")
  /\ UNCHANGED <<now, cuts, told>>

-----------------------------------------------------------------------------
(* restore_store_with. *)

RestoreBegins(d) ==
  /\ job["operator"] = NoJob /\ ~Exists(Root)
  /\ Complete(d) /\ dirs[d].kind = "whole"
  /\ \E e \in Unused :
       /\ \A u \in Unused : e <= u
       /\ dirs' = [dirs EXCEPT ![e] = [Nothing EXCEPT !.kind = "root", !.name = "partial",
                    !.disk = {"none", "partial"}, !.mtime = now]]
       /\ job' = [job EXCEPT !["operator"] = [NoJob EXCEPT !.at = "intent", !.dir = e, !.from = d]]
  /\ UNCHANGED <<now, cuts, told>>

-----------------------------------------------------------------------------
(* The clock and the faults. *)

\* No write of a build takes as long as Age: STAGING_SWEEP_AGE.
Tick ==
  /\ now < MaxTime
  /\ \A a \in Jobs : job[a].dir # 0 => now + 1 < dirs[job[a].dir].mtime + SweepAge
  /\ now' = now + 1
  /\ UNCHANGED <<dirs, job, cuts, told>>

\* The clock is corrected.
SetBack ==
  /\ now = MaxTime
  /\ now' = 1
  /\ UNCHANGED <<dirs, job, cuts, told>>

\* What the disk may hold of a directory: for what is not litter, what is
\* certain and any of the rest.
Certain(d) == dirs[d].parts \cap dirs[d].kept
Image(d, name, parts) ==
  IF name = "none" THEN Nothing
  ELSE [dirs[d] EXCEPT !.name = name, !.disk = {name}, !.parts = parts, !.kept = parts]
Images(d) ==
  {Image(d, name, {}) : name \in dirs[d].disk \ {"final"}}
    \cup {Image(d, "final", Certain(d) \cup P) :
           P \in IF "final" \in dirs[d].disk
                 THEN SUBSET ((dirs[d].parts \cup dirs[d].kept) \ Certain(d)) ELSE {}}

\* Of each base, any of the operations since its last sync may be lost: when
\* only the process ends, none is.
PowerCut ==
  LET open == {d \in Ids : Images(d) # {dirs[d]}} IN
  /\ cuts < MaxCuts /\ cuts' = cuts + 1
  /\ \E image \in [open -> UNION {Images(d) : d \in open}] :
       /\ \A d \in open : image[d] \in Images(d)
       /\ dirs' = [d \in Ids |-> IF d \in open THEN image[d] ELSE dirs[d]]
  /\ job' = [a \in Jobs |-> NoJob]
  /\ UNCHANGED <<now, told>>

BackupsNext ==
  \/ DaemonBegins \/ OperatorBegins \/ \E d \in Ids : RestoreBegins(d)
  \/ \E a \in Jobs : WritePart(a) \/ SyncBuild(a) \/ Publish(a) \/ BuildFails(a)
                     \/ SyncBase(a) \/ SyncBaseFails(a)
  \/ List \/ RetireRename \/ RetireSync \/ RetireRemove \/ Sweep
  \/ Tick \/ SetBack \/ PowerCut

BackupsSpec == BackupsInit /\ [][BackupsNext]_backupVars

-----------------------------------------------------------------------------
Whole(d) == dirs[d].name = "final" /\ Needs(dirs[d].kind) \subseteq dirs[d].parts

\* backup.rs: whatever passes for a backup, or has the root's name, is whole.
OnlyWholeAppear == \A d \in Ids : Complete(d) \/ (dirs[d].label = Root /\ dirs[d].name = "final") => Whole(d)

\* What an operator was told is there stays; so do Keep of those that the
\* daemon took, however its prunes were cut off.
ToldStays ==
  LET stamps == {l \in told : l > Operators}
      least == IF Cardinality(stamps) < Keep THEN Cardinality(stamps) ELSE Keep
  IN /\ \A l \in told \ stamps : \E d \in Ids : dirs[d].label = l /\ Whole(d)
     /\ Cardinality({d \in Ids : dirs[d].label > Operators /\ Whole(d)}) >= least

\* A power cut included.
BackupsSound == OnlyWholeAppear /\ ToldStays
=============================================================================

----------------------------- MODULE StoreOpen ------------------------------
(***************************************************************************)
(* How a store root is opened (segment_store/open.rs, store_format.rs,      *)
(* migrations.rs): the STORE_FORMAT marker and its gate, the migrations,    *)
(* and the copy of the marker in store_meta, by builds of several layouts   *)
(* that take turns under the root's LOCK and may die at any step.           *)
(*                                                                          *)
(* Migrations are numbered in the order of the registry; a build registers  *)
(* a prefix of them.  The marker is replaced atomically (write_marker), so  *)
(* that a write of it is one step; so is the mirror, one transaction.       *)
(***************************************************************************)
EXTENDS Integers, FiniteSets

CONSTANTS
  Builds,
  Layout,      \* per build, its SUPPORTED_LAYOUT
  Registered,  \* per build, how many migrations its REGISTRY has
  LayoutOf,    \* per migration, the layout it belongs to
  FloorOf,     \* per migration, its min_write_after
  OlderSafe,   \* the migrations that declare older writers safe
  Checked,     \* the migrations whose precheck refuses an unsafe store
  MaxUuid,     \* bounds the identities drawn
  MaxOpens,    \* bounds the opens
  NoBuild

VARIABLES
  marker,    \* STORE_FORMAT, or Missing
  meta,      \* the copy in store_meta, or Missing
  present,   \* whether the databases exist
  ddl,       \* the migrations whose DDL has run
  recorded,  \* store_migrations
  unsafe,    \* whether the index names a frame outside segments/
  holder,    \* the build that holds LOCK
  pc,        \* how far its open has come
  format,    \* the format it has in memory
  todo,      \* the pending migrations it has still to apply
  opens, nextUuid,
  stale,     \* history: older-safe migrations written past since they were derived
  cut        \* history: migrations whose open did not settle

storeFiles == <<marker, meta, present, ddl, recorded, unsafe>>
memory == <<holder, pc, format, todo>>
history == <<stale, cut>>
storeVars == <<storeFiles, memory, opens, nextUuid, history>>

Migrations == DOMAIN LayoutOf
Layouts == {Layout[b] : b \in Builds}
Registry(b) == 1 .. Registered[b]
Missing == [layout |-> 0, floor |-> 0, last |-> 0, migrating |-> 0, through |-> 0, uuid |-> 0]
Larger(S) == CHOOSE x \in S : \A y \in S : y <= x

\* Layouts count from 1; a build's own migrations are within its layout, and it
\* checks a store from before markers for what its migrations could not keep.
RegistryWithin(top) ==
  /\ Migrations \subseteq 1 .. top /\ Layout \in [Builds -> 1 .. top]
  /\ LayoutOf \in [Migrations -> 1 .. top] /\ FloorOf \in [Migrations -> 1 .. top]
  /\ \A b \in Builds :
       /\ Registry(b) \subseteq Migrations /\ Registry(b) \cap Checked # {}
       /\ \A m \in Registry(b) : FloorOf[m] <= Layout[b] /\ LayoutOf[m] <= Layout[b]
  /\ NoBuild \notin Builds

RegistryAssumption == \E top \in Nat : RegistryWithin(top)

\* A build can tell what older ones left underived: a migration that lets them
\* write is of a layout above theirs, and a build that knows such a migration is
\* kept out of the store by every migration of a layout above its own.
RederiveAssumption ==
  /\ \A b \in Builds : \A m \in (OlderSafe \cap Migrations) \ Registry(b) :
       Layout[b] < LayoutOf[m]
  /\ \A b \in Builds : Registry(b) \cap OlderSafe # {} =>
       \A n \in Migrations : LayoutOf[n] > Layout[b] => FloorOf[n] > Layout[b]

StoreTypeOK ==
  /\ \A f \in {marker, meta, format} :
       /\ {f.layout, f.last, f.floor, f.migrating} \subseteq Layouts \cup {0, 1}
       /\ f.through \in Migrations \cup {0} /\ f.uuid \in 0 .. MaxUuid
  /\ recorded \subseteq ddl /\ ddl \subseteq Migrations /\ todo \subseteq Migrations
  /\ meta.migrating = 0
  /\ holder = NoBuild <=> pc = "closed"

\* StoreFormat::legacy and new_store.
Legacy(u) == [layout |-> 1, floor |-> 1, last |-> 1, migrating |-> 0, through |-> 0, uuid |-> u]
NewStore(b, u) ==
  [layout |-> Layout[b], floor |-> Layout[b], last |-> Layout[b],
   migrating |-> Layout[b], through |-> 0, uuid |-> u]

\* An empty directory, or a store from before markers, where an index of the
\* wrong kind may name frames outside segments/.
StoreInit ==
  /\ marker = Missing /\ meta = Missing
  /\ present \in BOOLEAN
  /\ unsafe \in (IF present THEN BOOLEAN ELSE {FALSE})
  /\ ddl = {} /\ recorded = {}
  /\ holder = NoBuild /\ pc = "closed" /\ format = Missing /\ todo = {}
  /\ opens = 0 /\ nextUuid = 1
  /\ stale = {} /\ cut = {}

Closed == holder' = NoBuild /\ pc' = "closed" /\ format' = Missing /\ todo' = {}

-----------------------------------------------------------------------------
\* StoreFormat::writable_by.
Fits(b, f) == f.floor <= Layout[b]

\* open_preflight, to the marker's gate.
Preflight(b) ==
  /\ holder = NoBuild /\ opens < MaxOpens /\ nextUuid <= MaxUuid
  /\ opens' = opens + 1
  /\ IF marker # Missing /\ ~Fits(b, marker)
     THEN UNCHANGED memory
     ELSE holder' = b /\ pc' = "databases" /\ UNCHANGED <<format, todo>>
  /\ UNCHANGED <<storeFiles, nextUuid, history>>

\* migrations::pending.
Pending(b) == Registry(b) \ recorded

\* The databases of a root that has them, gated again by store_meta, and then
\* the format to go on with.
Found(b) ==
  CASE marker # Missing -> marker
    [] marker = Missing /\ present /\ meta # Missing -> meta
    [] marker = Missing /\ present /\ meta = Missing -> Legacy(nextUuid)
    [] OTHER -> NewStore(b, nextUuid)

Newer == format.layout > Layout[holder]

OpenDatabases ==
  LET b == holder
      f == Found(b)
      newer == f.layout > Layout[b]
      refused == \/ present /\ ~Fits(b, meta)
                 \/ ~Fits(b, f)
                 \/ newer /\ ~present
  IN
  /\ pc = "databases"
  /\ nextUuid' = nextUuid + (IF f.uuid = nextUuid THEN 1 ELSE 0)
  /\ IF refused THEN Closed
     ELSE /\ format' = f
          /\ pc' = IF newer THEN "mirror" ELSE "precheck"
          /\ UNCHANGED <<holder, todo>>
  /\ UNCHANGED <<storeFiles, opens, history>>

BugRefuses(b) == FALSE

\* The prechecks of the pending migrations read an existing store.
Refuses(b) == unsafe /\ Pending(b) \cap Checked # {}

Precheck ==
  /\ pc = "precheck"
  /\ IF Refuses(holder) THEN Closed ELSE pc' = "floors" /\ UNCHANGED <<holder, format, todo>>
  /\ UNCHANGED <<storeFiles, opens, nextUuid, history>>

BugRaised(f, ms) ==
  IF ms = {} THEN f ELSE [f EXCEPT !.migrating = Larger({@} \cup {LayoutOf[m] : m \in ms})]

\* raised_for: the floors go up to what the migrations need, and never down.
Raised(f, ms) ==
  IF ms = {} THEN f
  ELSE [f EXCEPT !.floor = Larger({@} \cup {FloorOf[m] : m \in ms}),
                 !.migrating = Larger({@} \cup {LayoutOf[m] : m \in ms})]

\* Step 5: by what the marker says is still to run.
RaiseExpected ==
  LET f == Raised(format, {m \in Registry(holder) : m > format.through}) IN
  /\ pc = "floors"
  /\ marker' = f /\ format' = f
  /\ pc' = "create"
  /\ UNCHANGED <<meta, present, ddl, recorded, unsafe, holder, todo, opens, nextUuid, history>>

\* Step 7, for a new store.
CreateDatabases ==
  /\ pc = "create"
  /\ present' = TRUE
  /\ pc' = "pending"
  /\ UNCHANGED <<marker, meta, ddl, recorded, unsafe, holder, format, todo, opens, nextUuid, history>>

\* Step 8: the floors again, for the migrations the marker did not expect.
RaisePending ==
  LET f == Raised(format, Pending(holder)) IN
  /\ pc = "pending"
  /\ marker' = f /\ format' = f
  /\ todo' = Pending(holder)
  /\ pc' = "apply"
  /\ UNCHANGED <<meta, present, ddl, recorded, unsafe, holder, opens, nextUuid, history>>

NextMigration == CHOOSE m \in todo : \A n \in todo : m <= n

\* Its DDL, outside any transaction, then its record.
ApplyDdl ==
  /\ pc = "apply" /\ todo # {}
  /\ ddl' = ddl \cup {NextMigration}
  /\ cut' = cut \cup {NextMigration}
  /\ pc' = "record"
  /\ UNCHANGED <<marker, meta, present, recorded, unsafe, holder, format, todo, opens, nextUuid, stale>>

RecordApplied ==
  /\ pc = "record"
  /\ recorded' = recorded \cup {NextMigration}
  /\ todo' = todo \ {NextMigration}
  /\ pc' = "apply"
  /\ UNCHANGED <<marker, meta, present, ddl, unsafe, holder, format, opens, nextUuid, history>>

BugRederivable(b) == {}

\* migrations::rederive, which runs when the last writer was of an older layout.
Rederivable(b) ==
  IF format.last < format.layout
  THEN {m \in Registry(b) \cap recorded \cap OlderSafe : LayoutOf[m] > format.last}
  ELSE {}

Rederive ==
  /\ pc = "apply" /\ todo = {}
  /\ stale' = stale \ Rederivable(holder)
  /\ pc' = "mirror"
  /\ UNCHANGED <<storeFiles, holder, format, todo, opens, nextUuid, cut>>

\* The identity that store_meta has recorded outlives the marker's.
Identity == IF meta # Missing THEN meta.uuid ELSE format.uuid

\* settled_format.
Settled(b) ==
  LET known == Registry(b)
      own == [format EXCEPT !.last = Layout[b], !.uuid = Identity]
  IN IF Newer THEN own
     ELSE [own EXCEPT !.layout = Larger({@} \cup {LayoutOf[m] : m \in known}),
                      !.floor = Larger({@} \cup {FloorOf[m] : m \in known}),
                      !.migrating = 0, !.through = Larger(known)]

\* Step 9: one transaction.
Mirror ==
  /\ pc = "mirror"
  /\ format' = Settled(holder)
  /\ meta' = [Settled(holder) EXCEPT !.migrating = 0]
  /\ pc' = "settle"
  /\ UNCHANGED <<marker, present, ddl, recorded, unsafe, holder, todo, opens, nextUuid, history>>

\* Step 10; what follows serves.
Settle ==
  /\ pc = "settle"
  /\ marker' = format
  /\ pc' = "serving"
  /\ cut' = cut \ (Registry(holder) \ stale)
  /\ UNCHANGED <<meta, present, ddl, recorded, unsafe, holder, format, todo, opens, nextUuid, stale>>

\* A write leaves behind what the migrations this build does not know maintain.
Write ==
  /\ pc = "serving"
  /\ stale' = stale \cup ((OlderSafe \cap ddl) \ Registry(holder))
  /\ UNCHANGED <<storeFiles, memory, opens, nextUuid, cut>>

-----------------------------------------------------------------------------
\* The process ends, whatever it was doing; LOCK goes with it.
Exit ==
  /\ holder # NoBuild
  /\ Closed
  /\ UNCHANGED <<storeFiles, opens, nextUuid, history>>

\* The marker of a settled store is deleted, or a restore leaves it out.
LoseMarker ==
  /\ holder = NoBuild /\ marker # Missing /\ marker.migrating = 0
  /\ marker' = Missing
  /\ UNCHANGED <<meta, present, ddl, recorded, unsafe, memory, opens, nextUuid, history>>

\* The operator repairs the paths.
MakeSafe ==
  /\ holder = NoBuild /\ unsafe
  /\ unsafe' = FALSE
  /\ UNCHANGED <<marker, meta, present, ddl, recorded, memory, opens, nextUuid, history>>

StoreNext ==
  \/ \E b \in Builds : Preflight(b)
  \/ OpenDatabases \/ Precheck \/ RaiseExpected \/ CreateDatabases \/ RaisePending
  \/ ApplyDdl \/ RecordApplied \/ Rederive \/ Mirror \/ Settle \/ Write
  \/ Exit \/ LoseMarker \/ MakeSafe

StoreSpec == StoreInit /\ [][StoreNext]_storeVars

-----------------------------------------------------------------------------
\* store_format.rs: no build works on a store that holds what only a newer one
\* may write, although a migration was cut off half way or the marker is lost.
GateHolds ==
  pc \notin {"closed", "databases"} =>
    \A m \in ddl : FloorOf[m] <= Layout[holder]

\* migrations.rs: a store that a precheck refuses is left as it was, with no
\* marker that would lock out the builds from before markers.
RefusalChangesNothing ==
  unsafe => marker = Missing /\ meta = Missing /\ ddl = {}

\* store_format.rs: a build serves nothing that an older one left underived,
\* but for a migration whose own open was cut off before it settled.
Rederived ==
  pc = "serving" => stale \cap Registry(holder) \subseteq cut
=============================================================================

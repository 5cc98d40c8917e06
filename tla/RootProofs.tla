----------------------------- MODULE RootProofs -----------------------------
(***************************************************************************)
(* Theorems about StoreOpen, for any builds and any registry of migrations  *)
(* that grows: the gate holds, what is refused is left as it was, and no    *)
(* build serves what an older one left underived.  And about Backups, for   *)
(* any number of directories, retention, clock and cuts: a backup is whole, *)
(* and stays.                                                               *)
(***************************************************************************)
EXTENDS StoreOpen, Backups, FiniteSetTheorems, WellFoundedInduction, TLAPS

-----------------------------------------------------------------------------
(* The largest of a bounded set of numbers. *)

\* There is a least one of any.
LEMMA Least ==
  ASSUME NEW T \in SUBSET Nat, T # {}
  PROVE  \E m \in T : \A y \in T : m <= y
<1>1. IsWellFoundedOn(OpToRel(<, Nat), Nat)
  BY NatLessThanWellFounded
<1>2. PICK m \in T : \A y \in T : ~(<<y, m>> \in OpToRel(<, Nat))
  BY <1>1, WFMin
<1>3. \A y \in T : ~(y < m)
  BY <1>2 DEF OpToRel
<1> QED
  BY <1>3, SMT

LEMMA LargerIs ==
  ASSUME NEW n \in Nat, NEW S \in SUBSET (0 .. n), S # {}
  PROVE  Larger(S) \in S /\ \A y \in S : y <= Larger(S)
<1> DEFINE T == {x \in Nat : n - x \in S}
<1>1. T # {}
  <2>1. PICK x \in S : TRUE
    OBVIOUS
  <2>2. n - x \in T
    BY SMT
  <2> QED
    BY <2>2
<1>2. PICK m \in T : \A y \in T : m <= y
  BY <1>1, Least
<1>3. \A y \in S : y <= n - m
  <2> TAKE y \in S
  <2>1. n - y \in T
    BY SMT
  <2> QED
    BY <1>2, <2>1, SMT
<1> QED
  BY <1>3 DEF Larger

-----------------------------------------------------------------------------
(* The gate. *)

Formats ==
  [layout : Nat, floor : Nat, last : Nat, migrating : Nat, through : Nat, uuid : Nat]

Working == pc \notin {"closed", "databases"}

\* A format whose floor is above all that has run.
Above(f) == f # Missing /\ \A m \in ddl : FloorOf[m] <= f.floor

Typed ==
  /\ marker \in Formats /\ meta \in Formats /\ format \in Formats
  /\ marker # Missing => marker.layout >= 1
  /\ meta # Missing => meta.layout >= 1
  /\ nextUuid \in Nat
  /\ ddl \subseteq Migrations /\ todo \subseteq Migrations
  /\ pc # "closed" => holder \in Builds
  /\ pc = "closed" <=> holder = NoBuild

\* On disk: the marker, or its copy when there is none, is above what has run;
\* so is the copy when the marker may be lost.
DiskInv ==
  ddl # {} =>
    /\ present
    /\ marker # Missing => Above(marker)
    /\ marker = Missing \/ marker.migrating = 0 => Above(meta)

\* In memory: the format is one this build may write, above what has run, and
\* what is still to run is below it and marked as migrating.
OwnInv ==
  /\ Working =>
       /\ format.layout >= 1 /\ format.floor <= Layout[holder]
       /\ \A m \in ddl : FloorOf[m] <= format.floor
       /\ ddl # {} /\ format.migrating = 0 => Above(meta)
  /\ pc \in {"pending", "apply", "record"} => present
  /\ pc \in {"apply", "record"} =>
       /\ marker = format
       /\ \A m \in todo : FloorOf[m] <= format.floor
       /\ todo # {} => format.migrating # 0
  /\ pc = "record" => todo # {}

IInv == Typed /\ DiskInv /\ OwnInv

LEMMA LargerOf ==
  ASSUME NEW top \in Nat, NEW of \in [Migrations -> 1 .. top], NEW x \in Nat,
         NEW ms \in SUBSET Migrations
  PROVE  LET y == Larger({x} \cup {of[m] : m \in ms}) IN
         /\ y \in Nat /\ x <= y
         /\ \A m \in ms : of[m] <= y
         /\ ms # {} => y >= 1
         /\ \A l \in Nat : x <= l /\ (\A m \in ms : of[m] <= l) => y <= l
<1> DEFINE S == {x} \cup {of[m] : m \in ms}
           y == Larger(S)
<1>1. x + top \in Nat /\ S \in SUBSET (0 .. x + top) /\ S # {}
  BY SMT
<1>2. y \in S /\ \A z \in S : z <= y
  <2> HIDE DEF S
  <2> QED
    BY <1>1, LargerIs
<1> HIDE DEF y
<1>3. y \in Nat /\ x <= y /\ \A m \in ms : of[m] <= y
  BY <1>1, <1>2, SMT
<1>4. ms # {} => y >= 1
  BY <1>3, SMT
<1>5. \A l \in Nat : x <= l /\ (\A m \in ms : of[m] <= l) => y <= l
  BY <1>2, SMT
<1> QED
  BY <1>3, <1>4, <1>5 DEF y

LEMMA FormatWith ==
  ASSUME NEW f \in Formats, NEW a \in Nat
  PROVE  /\ [f EXCEPT !.layout = a] \in Formats
         /\ [f EXCEPT !.floor = a] \in Formats
         /\ [f EXCEPT !.last = a] \in Formats
         /\ [f EXCEPT !.migrating = a] \in Formats
         /\ [f EXCEPT !.through = a] \in Formats
         /\ [f EXCEPT !.uuid = a] \in Formats
<1>1. [f EXCEPT !.layout = a] \in Formats
  BY SMT DEF Formats
<1>2. [f EXCEPT !.floor = a] \in Formats
  BY SMT DEF Formats
<1>3. [f EXCEPT !.last = a] \in Formats
  BY SMT DEF Formats
<1>4. [f EXCEPT !.migrating = a] \in Formats
  BY SMT DEF Formats
<1>5. [f EXCEPT !.through = a] \in Formats
  BY SMT DEF Formats
<1>6. [f EXCEPT !.uuid = a] \in Formats
  BY SMT DEF Formats
<1> QED
  BY <1>1, <1>2, <1>3, <1>4, <1>5, <1>6

\* raised_for raises the floor as far as the migrations need and no further.
LEMMA RaisedIs ==
  ASSUME RegistryAssumption, NEW f \in Formats, NEW ms \in SUBSET Migrations
  PROVE  LET g == Raised(f, ms) IN
         /\ g \in Formats /\ g.layout = f.layout /\ f.floor <= g.floor
         /\ \A m \in ms : FloorOf[m] <= g.floor
         /\ ms # {} => g.migrating # 0
         /\ ms = {} => g = f
         /\ \A l \in Nat : f.floor <= l /\ (\A m \in ms : FloorOf[m] <= l) => g.floor <= l
<1>1. PICK top \in Nat :
        LayoutOf \in [Migrations -> 1 .. top] /\ FloorOf \in [Migrations -> 1 .. top]
  BY DEF RegistryAssumption, RegistryWithin
<1>2. f.floor \in Nat /\ f.migrating \in Nat
  BY DEF Formats
<1>3. CASE ms = {}
  BY <1>2, <1>3, SMT DEF Raised
<1>4. CASE ms # {}
  <2> DEFINE a == Larger({f.floor} \cup {FloorOf[m] : m \in ms})
             b == Larger({f.migrating} \cup {LayoutOf[m] : m \in ms})
  <2>1. /\ a \in Nat /\ f.floor <= a /\ \A m \in ms : FloorOf[m] <= a
        /\ \A l \in Nat : f.floor <= l /\ (\A m \in ms : FloorOf[m] <= l) => a <= l
    BY <1>1, <1>2, LargerOf
  <2>2. b \in Nat /\ b >= 1
    BY <1>1, <1>2, <1>4, LargerOf
  <2>3. Raised(f, ms) = [f EXCEPT !.floor = a, !.migrating = b]
    BY <1>4 DEF Raised
  <2> HIDE DEF a, b
  <2>4. Raised(f, ms) \in Formats /\ Raised(f, ms).layout = f.layout
        /\ Raised(f, ms).floor = a /\ Raised(f, ms).migrating = b
    <3>1. [f EXCEPT !.floor = a, !.migrating = b] = [[f EXCEPT !.floor = a] EXCEPT !.migrating = b]
      OBVIOUS
    <3>2. [f EXCEPT !.floor = a] \in Formats
      BY <2>1, FormatWith
    <3>3. [[f EXCEPT !.floor = a] EXCEPT !.migrating = b] \in Formats
      BY <2>2, <3>2, FormatWith
    <3>4. Raised(f, ms) \in Formats
      BY <2>3, <3>1, <3>3
    <3> QED
      BY <2>1, <2>2, <2>3, <3>4, SMT DEF Formats
  <2> QED
    BY <1>4, <2>1, <2>2, <2>4, SMT
<1> QED
  BY <1>3, <1>4

\* settled_format keeps to the build's layout, and only a build that knows the
\* store's layout clears what was migrating.
LEMMA SettledIs ==
  ASSUME RegistryAssumption, Typed, OwnInv, Working
  PROVE  LET g == Settled(holder) IN
         /\ g \in Formats /\ g.layout >= 1
         /\ format.floor <= g.floor /\ g.floor <= Layout[holder]
<1>1. PICK top \in Nat :
        /\ Migrations \subseteq 1 .. top /\ Layout \in [Builds -> 1 .. top]
        /\ LayoutOf \in [Migrations -> 1 .. top] /\ FloorOf \in [Migrations -> 1 .. top]
  BY DEF RegistryAssumption, RegistryWithin
<1>2. /\ holder \in Builds /\ Registry(holder) \in SUBSET Migrations /\ Registry(holder) # {}
      /\ \A m \in Registry(holder) : FloorOf[m] <= Layout[holder]
      /\ Layout[holder] \in Nat
  BY <1>1, SMT DEF RegistryAssumption, RegistryWithin, Typed, Working
<1>3. Identity \in Nat
  BY DEF Identity, Typed, Formats
<1> DEFINE own == [format EXCEPT !.last = Layout[holder], !.uuid = Identity]
           a == Larger({own.layout} \cup {LayoutOf[m] : m \in Registry(holder)})
           b == Larger({own.floor} \cup {FloorOf[m] : m \in Registry(holder)})
           c == Larger(Registry(holder))
<1>4. /\ own \in Formats /\ own.layout = format.layout /\ own.floor = format.floor
      /\ own.layout \in Nat /\ own.floor \in Nat
  <2>1. own = [[format EXCEPT !.last = Layout[holder]] EXCEPT !.uuid = Identity]
    OBVIOUS
  <2>2. own \in Formats
    BY <1>2, <1>3, <2>1, FormatWith DEF Typed
  <2> QED
    BY <2>2, SMT DEF Typed, Formats
<1>5. a \in Nat /\ own.layout <= a
  BY <1>1, <1>2, <1>4, LargerOf
<1>6. b \in Nat /\ own.floor <= b /\ (own.floor <= Layout[holder] => b <= Layout[holder])
  BY <1>1, <1>2, <1>4, LargerOf
<1>7. c \in Nat
  <2>1. Registry(holder) \in SUBSET (0 .. top)
    <3>1. 1 .. top \subseteq 0 .. top
      BY <1>1, SMT
    <3> QED
      BY <1>1, <1>2, <3>1
  <2>2. c \in Registry(holder)
    BY <1>2, <2>1, LargerIs
  <2> QED
    BY <2>1, <2>2, SMT
<1>8. format.layout >= 1 /\ format.floor <= Layout[holder]
  BY DEF OwnInv
<1>9. Settled(holder) = IF Newer THEN own
        ELSE [own EXCEPT !.layout = a, !.floor = b, !.migrating = 0, !.through = c]
  BY DEF Settled
<1> HIDE DEF own, a, b, c
<1>10. CASE Newer
  BY <1>4, <1>8, <1>9, <1>10
<1>11. CASE ~Newer
  <2> DEFINE g == [own EXCEPT !.layout = a, !.floor = b, !.migrating = 0, !.through = c]
  <2>1. g = [[[[own EXCEPT !.layout = a] EXCEPT !.floor = b] EXCEPT !.migrating = 0] EXCEPT !.through = c]
    OBVIOUS
  <2>2. g \in Formats
    BY <1>4, <1>5, <1>6, <1>7, <2>1, FormatWith
  <2>3. g.layout = a /\ g.floor = b
    BY <1>4, SMT DEF Formats
  <2> HIDE DEF g
  <2>4. g.layout >= 1 /\ format.floor <= g.floor /\ g.floor <= Layout[holder]
    BY <1>2, <1>4, <1>5, <1>6, <1>8, <2>3, SMT
  <2> QED
    BY <1>9, <1>11, <2>2, <2>4 DEF g
<1> QED
  BY <1>10, <1>11

LEMMA InitIInv == ASSUME RegistryAssumption PROVE StoreInit => IInv
<1> SUFFICES ASSUME StoreInit PROVE IInv
  OBVIOUS
<1>1. Missing \in Formats
  BY SMT DEF Missing, Formats
<1>2. Typed
  BY <1>1 DEF StoreInit, Typed
<1>3. DiskInv /\ OwnInv
  BY DEF StoreInit, DiskInv, OwnInv, Working
<1> QED
  BY <1>2, <1>3 DEF IInv

\* A process that ends takes nothing with it.
LEMMA ClosedKeeps ==
  ASSUME IInv, RegistryAssumption, Closed, UNCHANGED storeFiles, nextUuid' \in Nat
  PROVE  IInv'
<1>1. Missing \in Formats
  BY SMT DEF Missing, Formats
<1> QED
  BY <1>1 DEF Closed, storeFiles, IInv, Typed, DiskInv, OwnInv, Working, Above

LEMMA OpenKeeps ==
  ASSUME RegistryAssumption, IInv, OpenDatabases
  PROVE  IInv'
<1> DEFINE b == holder
           f == Found(b)
<1>0. UNCHANGED storeFiles /\ pc = "databases" /\ nextUuid' \in Nat
  BY SMT DEF OpenDatabases, IInv, Typed
<1>1. CASE Closed
  BY <1>0, <1>1, ClosedKeeps
<1>2. CASE ~Closed
  <2>1. /\ format' = f /\ pc' \in {"mirror", "precheck"} /\ UNCHANGED <<holder, todo>>
        /\ Fits(b, f)
    BY <1>2 DEF OpenDatabases
  <2>2. b \in Builds /\ Layout[b] \in Nat /\ Layout[b] >= 1 /\ nextUuid \in Nat
    BY <1>0, SMT DEF IInv, Typed, RegistryAssumption, RegistryWithin
  <2>3. Legacy(nextUuid) \in Formats /\ NewStore(b, nextUuid) \in Formats
    BY <2>2, SMT DEF Legacy, NewStore, Formats
  <2>4. \/ marker # Missing /\ f = marker
        \/ marker = Missing /\ meta # Missing /\ f = meta
        \/ marker = Missing /\ meta = Missing /\ f = Legacy(nextUuid)
        \/ ~present /\ f = NewStore(b, nextUuid)
    BY DEF Found
  <2>5. f \in Formats /\ f.layout >= 1
    BY <2>2, <2>3, <2>4, SMT DEF IInv, Typed, Legacy, NewStore
  <2>6. ddl # {} => /\ \A m \in ddl : FloorOf[m] <= f.floor
                    /\ f.migrating = 0 => Above(meta)
    BY <2>4 DEF IInv, DiskInv, Above
  <2> HIDE DEF f
  <2>7. Typed'
    BY <1>0, <2>1, <2>5 DEF IInv, Typed, storeFiles
  <2>8. DiskInv'
    BY <1>0 DEF IInv, DiskInv, storeFiles, Above
  <2>9. OwnInv'
    BY <1>0, <2>1, <2>5, <2>6 DEF OwnInv, storeFiles, Above, Fits, Working
  <2> QED
    BY <2>7, <2>8, <2>9 DEF IInv
<1> QED
  BY <1>1, <1>2

\* Raising the floors of the format and writing it as the marker.
LEMMA RaiseKeeps ==
  ASSUME RegistryAssumption, IInv, Working, NEW ms \in SUBSET Registry(holder),
         pc' \notin {"closed", "databases", "record"},
         pc' \in {"pending", "apply"} => present,
         pc' = "apply" => todo' = ms,
         todo' \in {todo, ms}, marker' = Raised(format, ms), format' = marker',
         UNCHANGED <<meta, present, ddl, holder, nextUuid>>
  PROVE  IInv'
<1> DEFINE g == Raised(format, ms)
<1>1. /\ holder \in Builds /\ Layout[holder] \in Nat /\ ms \in SUBSET Migrations
      /\ \A m \in ms : FloorOf[m] <= Layout[holder]
  BY SMT DEF IInv, Typed, Working, RegistryAssumption, RegistryWithin
<1>2. format \in Formats /\ format.floor <= Layout[holder] /\ format.layout >= 1
  BY DEF IInv, Typed, OwnInv
<1>3. /\ g \in Formats /\ g.layout = format.layout /\ format.floor <= g.floor
      /\ \A m \in ms : FloorOf[m] <= g.floor
      /\ ms # {} => g.migrating # 0
      /\ ms = {} => g = format
      /\ g.floor <= Layout[holder]
  BY <1>1, <1>2, RaisedIs
<1>4. \A m \in ddl : FloorOf[m] <= g.floor
  <2>1. \A m \in ddl : FloorOf[m] <= format.floor /\ FloorOf[m] \in Nat
    BY SMT DEF IInv, Typed, OwnInv, RegistryAssumption, RegistryWithin
  <2> QED
    BY <1>2, <1>3, <2>1, SMT DEF Formats
<1>5. ddl # {} /\ g.migrating = 0 => Above(meta)
  BY <1>3 DEF IInv, OwnInv
<1>6. g # Missing
  BY <1>2, <1>3, SMT DEF Missing
<1> HIDE DEF g
<1>7. marker' = g /\ format' = g
  BY DEF g
<1>8. Typed'
  BY <1>1, <1>2, <1>3, <1>7 DEF IInv, Typed, Working
<1>9. DiskInv'
  BY <1>4, <1>5, <1>6, <1>7 DEF IInv, DiskInv, Above
<1>10. OwnInv'
  BY <1>2, <1>3, <1>4, <1>5, <1>7 DEF OwnInv, Working, Above
<1> QED
  BY <1>8, <1>9, <1>10 DEF IInv

LEMMA ApplyKeeps ==
  ASSUME RegistryAssumption, IInv, ApplyDdl \/ RecordApplied
  PROVE  IInv'
<1>1. todo # {} /\ todo \subseteq Migrations
  BY DEF ApplyDdl, RecordApplied, IInv, Typed, OwnInv
<1>2. NextMigration \in todo
  <2>1. PICK top \in Nat : Migrations \subseteq 1 .. top
    BY DEF RegistryAssumption, RegistryWithin
  <2>2. PICK m \in todo : \A n \in todo : m <= n
    <3>1. todo \in SUBSET Nat
      BY <1>1, <2>1, SMT
    <3> QED
      BY <1>1, <3>1, Least
  <2> QED
    BY <2>2 DEF NextMigration
<1>3. CASE ApplyDdl
  <2>1. /\ ddl' = ddl \cup {NextMigration} /\ pc = "apply" /\ pc' = "record"
        /\ UNCHANGED <<marker, meta, present, holder, format, todo, nextUuid>>
    BY <1>3 DEF ApplyDdl
  <2>2. /\ marker = format /\ format.migrating # 0 /\ format.layout >= 1 /\ present
        /\ \A m \in ddl' : FloorOf[m] <= format.floor
    BY <1>1, <1>2, <2>1 DEF IInv, OwnInv, Working
  <2>3. format # Missing
    BY <2>2, SMT DEF Missing
  <2>4. Typed'
    BY <1>1, <1>2, <2>1 DEF IInv, Typed
  <2>5. DiskInv'
    BY <2>1, <2>2, <2>3 DEF DiskInv, Above
  <2>6. OwnInv'
    BY <1>1, <2>1, <2>2 DEF IInv, OwnInv, Working
  <2> QED
    BY <2>4, <2>5, <2>6 DEF IInv
<1>4. CASE RecordApplied
  <2>1. /\ todo' = todo \ {NextMigration} /\ pc = "record" /\ pc' = "apply"
        /\ UNCHANGED <<marker, meta, present, ddl, holder, format, nextUuid>>
    BY <1>4 DEF RecordApplied
  <2> QED
    BY <1>1, <2>1 DEF IInv, Typed, DiskInv, OwnInv, Working, Above
<1> QED
  BY <1>3, <1>4

LEMMA MirrorKeeps ==
  ASSUME RegistryAssumption, IInv, Mirror
  PROVE  IInv'
<1> DEFINE g == Settled(holder)
           h == [g EXCEPT !.migrating = 0]
<1>1. /\ pc = "mirror" /\ pc' = "settle" /\ format' = g /\ meta' = h
      /\ UNCHANGED <<marker, present, ddl, holder, todo, nextUuid>>
  BY DEF Mirror
<1>2. /\ g \in Formats /\ g.layout >= 1
      /\ format.floor <= g.floor /\ g.floor <= Layout[holder]
  BY <1>1, SettledIs DEF IInv, Working
<1> HIDE DEF g
<1>3. h \in Formats /\ h.layout = g.layout /\ h.floor = g.floor
  BY <1>2, FormatWith, SMT DEF Formats
<1> HIDE DEF h
<1>4. h # Missing
  BY <1>2, <1>3, SMT DEF Missing
<1>5. \A m \in ddl : FloorOf[m] <= g.floor
  <2>1. \A m \in ddl : FloorOf[m] <= format.floor /\ FloorOf[m] \in Nat
    BY <1>1, SMT DEF IInv, Typed, OwnInv, Working, RegistryAssumption, RegistryWithin
  <2>2. format.floor \in Nat /\ g.floor \in Nat
    BY <1>2 DEF IInv, Typed, Formats
  <2> QED
    BY <1>2, <2>1, <2>2, SMT
<1>6. Above(meta)'
  BY <1>1, <1>3, <1>4, <1>5 DEF Above
<1>7. Typed'
  BY <1>1, <1>2, <1>3 DEF IInv, Typed
<1>8. DiskInv'
  BY <1>1, <1>6 DEF IInv, DiskInv, Above
<1>9. OwnInv'
  BY <1>1, <1>2, <1>5, <1>6 DEF OwnInv, Working
<1> QED
  BY <1>7, <1>8, <1>9 DEF IInv

LEMMA SettleKeeps == ASSUME RegistryAssumption, IInv, Settle PROVE IInv'
<1>1. /\ pc = "settle" /\ pc' = "serving" /\ marker' = format
      /\ UNCHANGED <<meta, present, ddl, holder, format, todo, nextUuid>>
  BY DEF Settle
<1>2. format # Missing /\ format.layout >= 1
  BY <1>1, SMT DEF IInv, OwnInv, Working, Missing
<1>3. Typed'
  BY <1>1, <1>2 DEF IInv, Typed
<1>4. DiskInv'
  BY <1>1, <1>2 DEF IInv, OwnInv, DiskInv, Working, Above
<1>5. OwnInv'
  BY <1>1 DEF IInv, OwnInv, Working, Above
<1> QED
  BY <1>3, <1>4, <1>5 DEF IInv

LEMMA NextIInv ==
  ASSUME RegistryAssumption, IInv, [StoreNext]_storeVars
  PROVE  IInv'
<1> USE DEF IInv, Typed, DiskInv, OwnInv, Working, Above
<1>1. CASE UNCHANGED storeVars
  BY <1>1 DEF storeVars, storeFiles, memory
<1>2. ASSUME NEW b \in Builds, Preflight(b) PROVE IInv'
  <2>1. pc = "closed" /\ b # NoBuild
    BY <1>2 DEF Preflight, RegistryAssumption, RegistryWithin
  <2> QED
    BY <1>2, <2>1 DEF Preflight, storeFiles, memory
<1>3. CASE Precheck
  <2>1. CASE Closed
    BY <1>3, <2>1, ClosedKeeps DEF Precheck
  <2>2. CASE ~Closed
    BY <1>3, <2>2 DEF Precheck, storeFiles
  <2> QED
    BY <2>1, <2>2
<1>4. CASE RaiseExpected
  <2> DEFINE ms == {m \in Registry(holder) : m > format.through}
  <2>1. /\ ms \in SUBSET Registry(holder) /\ pc = "floors" /\ pc' = "create"
        /\ marker' = Raised(format, ms) /\ format' = marker'
        /\ UNCHANGED <<meta, present, ddl, holder, todo, nextUuid>>
    BY <1>4 DEF RaiseExpected
  <2> HIDE DEF ms
  <2> QED
    BY <2>1, RaiseKeeps
<1>5. CASE CreateDatabases
  BY <1>5 DEF CreateDatabases
<1>6. CASE RaisePending
  <2> DEFINE ms == Pending(holder)
  <2>1. /\ ms \in SUBSET Registry(holder) /\ pc = "pending" /\ pc' = "apply"
        /\ marker' = Raised(format, ms) /\ format' = marker' /\ todo' = ms
        /\ UNCHANGED <<meta, present, ddl, holder, nextUuid>>
    BY <1>6 DEF RaisePending, Pending
  <2> HIDE DEF ms
  <2> QED
    BY <2>1, RaiseKeeps
<1>7. CASE Rederive
  BY <1>7 DEF Rederive, storeFiles
<1>8. CASE Write
  BY <1>8 DEF Write, storeFiles, memory
<1>9. CASE Exit
  BY <1>9, ClosedKeeps DEF Exit
<1>10. CASE LoseMarker
  <2>1. pc = "closed" /\ Missing \in Formats
    BY <1>10, SMT DEF LoseMarker, Missing, Formats
  <2> QED
    BY <1>10, <2>1 DEF LoseMarker, memory
<1>11. CASE MakeSafe
  BY <1>11 DEF MakeSafe, memory
<1> QED
  BY <1>1, <1>2, <1>3, <1>4, <1>5, <1>6, <1>7, <1>8, <1>9, <1>10, <1>11,
     OpenKeeps, ApplyKeeps, MirrorKeeps, SettleKeeps DEF StoreNext

\* open_preflight, raised_for and the gates: whatever builds take turns, die in
\* a migration or lose the marker, none works on what it may not write.
THEOREM GateIsKept == RegistryAssumption => (StoreSpec => []GateHolds)
<1> SUFFICES ASSUME RegistryAssumption PROVE StoreSpec => []GateHolds
  OBVIOUS
<1>1. StoreInit => IInv
  BY InitIInv
<1>2. IInv /\ [StoreNext]_storeVars => IInv'
  BY NextIInv
<1>3. IInv => GateHolds
  <2> SUFFICES ASSUME IInv, Working, NEW m \in ddl PROVE FloorOf[m] <= Layout[holder]
    BY DEF GateHolds, Working
  <2>1. FloorOf[m] \in Nat /\ format.floor \in Nat /\ Layout[holder] \in Nat
    BY SMT DEF IInv, Typed, Working, Formats, RegistryAssumption, RegistryWithin
  <2> QED
    BY <2>1, SMT DEF IInv, OwnInv
<1> QED
  BY <1>1, <1>2, <1>3, PTL DEF StoreSpec

-----------------------------------------------------------------------------
(* Refusals. *)

\* A store with unsafe paths is one from before markers, and stays before the
\* first write of an open.
RefusedInv ==
  /\ unsafe => /\ marker = Missing /\ meta = Missing /\ ddl = {} /\ recorded = {} /\ present
               /\ pc \in {"closed", "databases", "precheck"}
  /\ pc # "closed" => holder \in Builds
  /\ holder = NoBuild => pc = "closed"

LEMMA NextRefused ==
  ASSUME RegistryAssumption, RefusedInv, [StoreNext]_storeVars
  PROVE  RefusedInv'
<1> USE DEF RefusedInv
<1>1. CASE UNCHANGED storeVars
  BY <1>1 DEF storeVars, storeFiles, memory
<1>2. ASSUME NEW b \in Builds, Preflight(b) PROVE RefusedInv'
  BY <1>2 DEF Preflight, storeFiles, memory, RegistryAssumption, RegistryWithin
<1>3. CASE OpenDatabases
  <2>1. CASE Closed
    BY <1>3, <2>1 DEF OpenDatabases, Closed, storeFiles
  <2>2. CASE ~Closed
    <3> DEFINE f == Found(holder)
    <3>1. /\ UNCHANGED <<holder, storeFiles>> /\ pc = "databases"
          /\ pc' = IF f.layout > Layout[holder] THEN "mirror" ELSE "precheck"
      BY <1>3, <2>2 DEF OpenDatabases
    <3>2. unsafe => f.layout = 1
      BY DEF Found, Legacy
    <3>3. Layout[holder] \in Nat /\ Layout[holder] >= 1
      BY <3>1, SMT DEF RegistryAssumption, RegistryWithin
    <3>4. unsafe => pc' = "precheck"
      BY <3>1, <3>2, <3>3, SMT
    <3> QED
      BY <3>1, <3>4 DEF storeFiles, RegistryAssumption, RegistryWithin
  <2> QED
    BY <2>1, <2>2
<1>4. CASE Precheck
  <2>1. unsafe => Refuses(holder)
    BY <1>4 DEF Precheck, Refuses, Pending, RegistryAssumption, RegistryWithin
  <2>2. CASE Refuses(holder)
    BY <1>4, <2>2 DEF Precheck, Closed, storeFiles
  <2>3. CASE ~Refuses(holder)
    BY <1>4, <2>1, <2>3 DEF Precheck, storeFiles, RegistryAssumption, RegistryWithin
  <2> QED
    BY <2>2, <2>3
<1>5. CASE RaiseExpected \/ CreateDatabases \/ RaisePending \/ ApplyDdl \/ RecordApplied
  BY <1>5 DEF RaiseExpected, CreateDatabases, RaisePending, ApplyDdl, RecordApplied
<1>6. CASE Rederive \/ Mirror \/ Settle \/ Write
  BY <1>6 DEF Rederive, Mirror, Settle, Write, storeFiles, memory
<1>7. CASE Exit \/ LoseMarker \/ MakeSafe
  BY <1>7 DEF Exit, LoseMarker, MakeSafe, Closed, storeFiles, memory
<1> QED
  BY <1>1, <1>2, <1>3, <1>4, <1>5, <1>6, <1>7 DEF StoreNext

\* migrations::precheck runs before the first marker is written: a store it
\* refuses has none, and no migration has run on it.
THEOREM RefusalsChangeNothing == RegistryAssumption => (StoreSpec => []RefusalChangesNothing)
<1> SUFFICES ASSUME RegistryAssumption PROVE StoreSpec => []RefusalChangesNothing
  OBVIOUS
<1>1. StoreInit => RefusedInv
  BY DEF StoreInit, RefusedInv
<1>2. RefusedInv /\ [StoreNext]_storeVars => RefusedInv'
  BY NextRefused
<1>3. RefusedInv => RefusalChangesNothing
  BY DEF RefusedInv, RefusalChangesNothing
<1> QED
  BY <1>1, <1>2, <1>3, PTL DEF StoreSpec

-----------------------------------------------------------------------------
(* What older builds left underived. *)

\* Builds that derive something, and older-safe migrations that have settled.
Derives(b) == Registry(b) \cap OlderSafe # {}
Done == (ddl \cap OlderSafe) \ cut

\* A format bars a build that derives from a layout above its own, is of the
\* layout of all that has settled, and has a last writer below what is stale.
Bars(f) == \A b \in Builds : Derives(b) /\ f.layout > Layout[b] => f.floor > Layout[b]
Reaches(f) == \A m \in Done : LayoutOf[m] <= f.layout
Behind(f) == \A m \in stale \ cut : f.last < LayoutOf[m]

Tells(f) == Bars(f) /\ Reaches(f) /\ Behind(f)

TellsInv ==
  /\ stale \subseteq ddl \cap OlderSafe /\ Done \subseteq recorded
  /\ Bars(marker)
  /\ marker # Missing => Tells(marker)
  /\ Tells(meta)
  /\ Working => Tells(format)

\* Where the build at work stands: one that derives is never older than the
\* store, so it runs or has run every migration it knows, and once past Rederive
\* nothing it derives is stale.
StandsInv ==
  /\ Working /\ Derives(holder) => format.layout <= Layout[holder]
  /\ pc \in {"apply", "record"} => Registry(holder) \subseteq recorded \cup todo
  /\ pc \in {"mirror", "settle", "serving"} /\ Derives(holder) =>
       /\ Registry(holder) \subseteq recorded
       /\ stale \cap Registry(holder) \subseteq cut
  /\ pc \in {"settle", "serving"} =>
       /\ meta.layout = format.layout /\ meta.last = Layout[holder]
       /\ format.last = Layout[holder]
       /\ Derives(holder) => \A m \in Registry(holder) : LayoutOf[m] <= format.layout
  /\ pc = "serving" => marker = format

DerivedInv == TellsInv /\ StandsInv

LEMMA RaisedLast ==
  ASSUME NEW f \in Formats, NEW ms
  PROVE  Raised(f, ms).last = f.last /\ Raised(f, ms).layout = f.layout
  BY SMT DEF Raised, Formats

\* What the registry says of the build at work.
LEMMA HolderIs ==
  ASSUME RegistryAssumption, RederiveAssumption, IInv, Working
  PROVE  /\ holder \in Builds /\ Layout[holder] \in Nat
         /\ Registry(holder) \in SUBSET Migrations
         /\ format.layout \in Nat /\ format.last \in Nat /\ format.floor \in Nat
         /\ \A m \in Migrations : LayoutOf[m] \in Nat /\ LayoutOf[m] >= 1
         /\ \A m \in Registry(holder) : LayoutOf[m] <= Layout[holder]
         /\ \A m \in (OlderSafe \cap Migrations) \ Registry(holder) : Layout[holder] < LayoutOf[m]
         /\ \A b \in Builds : Layout[b] \in Nat
<1>1. PICK top \in Nat : RegistryWithin(top)
  BY DEF RegistryAssumption
<1>2. holder \in Builds
  BY DEF IInv, Typed, Working
<1>3. /\ \A m \in Migrations : LayoutOf[m] \in Nat /\ LayoutOf[m] >= 1
      /\ \A b \in Builds : Layout[b] \in Nat
      /\ \A m \in Registry(holder) : LayoutOf[m] <= Layout[holder]
      /\ Registry(holder) \in SUBSET Migrations
  BY <1>1, <1>2, SMT DEF RegistryWithin
<1>4. format.layout \in Nat /\ format.last \in Nat /\ format.floor \in Nat
  BY DEF IInv, Typed, Formats
<1> QED
  BY <1>2, <1>3, <1>4 DEF RederiveAssumption

\* settled_format tells what the format told, with this build for the last
\* writer, and the layouts of all it has run.
LEMMA SettledTells ==
  ASSUME RegistryAssumption, RederiveAssumption, IInv, DerivedInv, pc = "mirror"
  PROVE  LET g == Settled(holder) IN
         /\ Tells(g) /\ g.last = Layout[holder] /\ format.layout <= g.layout
         /\ Derives(holder) =>
              /\ g.layout <= Layout[holder]
              /\ \A m \in Registry(holder) : LayoutOf[m] <= g.layout
<1>1. PICK top \in Nat :
        LayoutOf \in [Migrations -> 1 .. top] /\ FloorOf \in [Migrations -> 1 .. top]
  BY DEF RegistryAssumption, RegistryWithin
<1> DEFINE own == [format EXCEPT !.last = Layout[holder], !.uuid = Identity]
           ms == Registry(holder)
           a == Larger({own.layout} \cup {LayoutOf[m] : m \in ms})
           b == Larger({own.floor} \cup {FloorOf[m] : m \in ms})
           c == Larger(ms)
           g == Settled(holder)
<1>0. Working /\ Tells(format) /\ StandsInv /\ stale \subseteq ddl /\ stale \subseteq OlderSafe
  BY DEF Working, DerivedInv, TellsInv
<1>1a. ddl \subseteq Migrations /\ format \in Formats
  BY DEF IInv, Typed
<1>2. /\ own.layout = format.layout /\ own.floor = format.floor /\ own.last = Layout[holder]
      /\ own \in Formats
  <2>1. Identity \in Nat
    BY DEF Identity, IInv, Typed, Formats
  <2>2. own = [[format EXCEPT !.last = Layout[holder]] EXCEPT !.uuid = Identity]
    OBVIOUS
  <2>3. own \in Formats
    BY <1>0, <1>1a, <2>1, <2>2, HolderIs, FormatWith
  <2> QED
    BY <1>1a, <2>3, SMT DEF Formats
<1>2a. /\ ms \in SUBSET Migrations /\ own.layout \in Nat /\ own.floor \in Nat
  BY <1>0, <1>2, HolderIs
<1>3. /\ a \in Nat /\ format.layout <= a
      /\ \A m \in ms : LayoutOf[m] <= a
      /\ \A l \in Nat : format.layout <= l /\ (\A m \in ms : LayoutOf[m] <= l) => a <= l
  <2> HIDE DEF own
  <2> QED
    BY <1>1, <1>2, <1>2a, LargerOf
<1>4. b \in Nat /\ format.floor <= b /\ \A m \in ms : FloorOf[m] <= b
  <2> HIDE DEF own
  <2> QED
    BY <1>1, <1>2, <1>2a, LargerOf
<1>5. g = IF Newer THEN own
          ELSE [own EXCEPT !.layout = a, !.floor = b, !.migrating = 0, !.through = c]
  BY DEF Settled
<1> HIDE DEF own, a, b, c
<1>6. \/ Newer /\ g.layout = format.layout /\ g.floor = format.floor /\ g.last = Layout[holder]
      \/ ~Newer /\ g.layout = a /\ g.floor = b /\ g.last = Layout[holder]
  BY <1>2, <1>5, SMT DEF Formats
<1> HIDE DEF g
<1>7. g.last = Layout[holder] /\ g.layout \in Nat /\ format.layout <= g.layout
  BY <1>0, <1>3, <1>6, HolderIs, SMT
<1>8. Bars(g)
  <2> SUFFICES ASSUME NEW d \in Builds, Derives(d), g.layout > Layout[d] PROVE g.floor > Layout[d]
    BY DEF Bars
  <2>1. format.layout > Layout[d] => format.floor > Layout[d]
    BY <1>0 DEF Tells, Bars
  <2>2. CASE format.layout > Layout[d]
    BY <1>0, <1>4, <1>6, <2>1, <2>2, HolderIs, SMT
  <2>3. CASE ~(format.layout > Layout[d])
    <3>1. a > Layout[d] /\ g.floor = b
      BY <1>0, <1>6, <2>3, HolderIs, SMT
    <3>2. PICK m \in ms : LayoutOf[m] > Layout[d]
      BY <1>0, <1>3, <2>3, <3>1, HolderIs, SMT
    <3>3. FloorOf[m] > Layout[d]
      BY <1>0, <3>2, HolderIs DEF RederiveAssumption, Derives
    <3>4. FloorOf[m] \in Nat /\ FloorOf[m] <= b
      BY <1>0, <1>1, <1>4, HolderIs, SMT
    <3> QED
      BY <1>0, <1>4, <3>1, <3>3, <3>4, HolderIs, SMT
  <2> QED
    BY <2>2, <2>3
<1>9. Reaches(g)
  <2> SUFFICES ASSUME NEW m \in Done PROVE LayoutOf[m] <= g.layout
    BY DEF Reaches
  <2>1. LayoutOf[m] <= format.layout /\ m \in Migrations
    BY <1>0, <1>1a DEF Tells, Reaches, Done
  <2> QED
    BY <1>0, <1>7, <2>1, HolderIs, SMT
<1>10. Behind(g)
  <2> SUFFICES ASSUME NEW m \in stale \ cut PROVE Layout[holder] < LayoutOf[m]
    BY <1>7 DEF Behind
  <2>1. CASE m \in Registry(holder)
    <3>1. Derives(holder)
      BY <1>0, <2>1 DEF Derives
    <3> QED
      BY <1>0, <2>1, <3>1 DEF StandsInv
  <2>2. CASE m \notin Registry(holder)
    BY <1>0, <1>1a, <2>2, HolderIs
  <2> QED
    BY <2>1, <2>2
<1>11. ASSUME Derives(holder)
       PROVE  g.layout <= Layout[holder] /\ \A m \in Registry(holder) : LayoutOf[m] <= g.layout
  <2>1. ~Newer
    BY <1>0, <1>11, HolderIs, SMT DEF StandsInv, Newer
  <2> QED
    BY <1>0, <1>3, <1>6, <1>11, <2>1, HolderIs, SMT DEF StandsInv
<1> QED
  BY <1>7, <1>8, <1>9, <1>10, <1>11 DEF Tells, g

LEMMA InitDerived == ASSUME RegistryAssumption, StoreInit PROVE DerivedInv
<1>1. \A b \in Builds : Layout[b] \in Nat
  BY SMT DEF RegistryAssumption, RegistryWithin
<1>2. Bars(Missing)
  BY <1>1, SMT DEF Bars, Missing
<1> QED
  BY <1>2 DEF StoreInit, DerivedInv, TellsInv, StandsInv, Tells, Reaches, Behind, Done, Working

\* A process that ends, or one that is refused.
LEMMA ClosedTells ==
  ASSUME DerivedInv, Closed, UNCHANGED <<storeFiles, history>>
  PROVE  DerivedInv'
  BY DEF DerivedInv, TellsInv, StandsInv, Closed, storeFiles, history,
         Tells, Bars, Reaches, Behind, Done, Working

\* What is found on disk tells all; a build that derives is let in only where
\* the store is of its layout or below.
LEMMA OpenTells ==
  ASSUME RegistryAssumption, RederiveAssumption, IInv, DerivedInv, OpenDatabases
  PROVE  DerivedInv'
<1> DEFINE b == holder
           f == Found(b)
<1>0. UNCHANGED <<storeFiles, history>> /\ pc = "databases"
  BY DEF OpenDatabases
<1>1. CASE Closed
  BY <1>0, <1>1, ClosedTells
<1>2. CASE ~Closed
  <2>1. /\ format' = f /\ UNCHANGED <<holder, todo>> /\ Fits(b, f)
        /\ pc' = IF f.layout > Layout[b] THEN "mirror" ELSE "precheck"
    BY <1>2 DEF OpenDatabases
  <2>2. /\ b \in Builds /\ nextUuid \in Nat
        /\ \A d \in Builds : Layout[d] \in Nat /\ Layout[d] >= 1
    BY <1>0, SMT DEF IInv, Typed, RegistryAssumption, RegistryWithin
  <2>3. \/ marker # Missing /\ f = marker
        \/ marker = Missing /\ meta # Missing /\ f = meta
        \/ marker = Missing /\ meta = Missing /\ f = Legacy(nextUuid)
        \/ ~present /\ f = NewStore(b, nextUuid)
    BY DEF Found
  <2> HIDE DEF f
  <2>4. stale \subseteq ddl /\ Done \subseteq ddl
    BY DEF DerivedInv, TellsInv, Done
  <2>5. ddl = {} => Reaches(f) /\ Behind(f)
    BY <2>4 DEF Reaches, Behind
  <2>6. ddl # {} => present /\ (marker = Missing => meta # Missing)
    BY DEF IInv, DiskInv, Above
  <2>7. Bars(Legacy(nextUuid)) /\ Bars(NewStore(b, nextUuid))
    BY <2>2, SMT DEF Bars, Legacy, NewStore
  <2>8. Bars(f)
    <3>1. Bars(marker) /\ Bars(meta)
      BY DEF DerivedInv, TellsInv, Tells
    <3> QED
      BY <2>3, <2>7, <3>1
  <2>9. Reaches(f) /\ Behind(f)
    <3>1. Reaches(meta) /\ Behind(meta) /\ (marker # Missing => Reaches(marker) /\ Behind(marker))
      BY DEF DerivedInv, TellsInv, Tells
    <3> QED
      BY <2>3, <2>5, <2>6, <3>1
  <2>10. f.layout \in Nat /\ f.floor \in Nat
    BY <2>2, <2>3, SMT DEF IInv, Typed, Formats, Legacy, NewStore
  <2>11. Derives(b) => f.layout <= Layout[b]
    BY <2>1, <2>2, <2>8, <2>10, SMT DEF Bars, Fits
  <2>12. TellsInv'
    BY <1>0, <2>1, <2>8, <2>9 DEF DerivedInv, TellsInv, storeFiles, history,
       Tells, Bars, Reaches, Behind, Done
  <2>13. Derives(holder') => pc' = "precheck" /\ format'.layout <= Layout[holder']
    BY <2>1, <2>2, <2>10, <2>11, SMT DEF Derives
  <2>14. pc' \in {"mirror", "precheck"}
    BY <2>1
  <2>15. StandsInv'
    BY <2>13, <2>14 DEF StandsInv, Derives
  <2> QED
    BY <2>12, <2>15 DEF DerivedInv
<1> QED
  BY <1>1, <1>2

\* Raised floors bar what the floors barred.
LEMMA RaiseTells ==
  ASSUME RegistryAssumption, RederiveAssumption, IInv, DerivedInv, Working,
         NEW ms \in SUBSET Registry(holder),
         marker' = Raised(format, ms), format' = marker',
         UNCHANGED <<meta, ddl, recorded, holder, history>>,
         pc' \in {"create", "apply"},
         pc' = "apply" => Registry(holder) \subseteq recorded \cup todo'
  PROVE  DerivedInv'
<1> DEFINE g == Raised(format, ms)
<1>1. ms \in SUBSET Migrations /\ format \in Formats
  BY HolderIs DEF IInv, Typed
<1>2. g.layout = format.layout /\ g.last = format.last
  BY <1>1, RaisedLast
<1>3. g \in Formats /\ format.floor <= g.floor
  BY <1>1, RaisedIs
<1>4. \A b \in Builds : Layout[b] \in Nat
  BY HolderIs
<1> HIDE DEF g
<1>5. Bars(format) => Bars(g)
  BY <1>1, <1>2, <1>3, <1>4, SMT DEF Bars, Formats
<1>6. Tells(g)
  BY <1>2, <1>5 DEF DerivedInv, TellsInv, Tells, Reaches, Behind
<1>7. marker' = g /\ format' = g
  BY DEF g
<1>8. TellsInv'
  BY <1>6, <1>7 DEF DerivedInv, TellsInv, Tells, Bars, Reaches, Behind, Done, history
<1>9. StandsInv'
  BY <1>2, <1>7 DEF DerivedInv, StandsInv, Derives, Working
<1> QED
  BY <1>8, <1>9 DEF DerivedInv

\* A migration that runs is cut until its open settles.
LEMMA ApplyTells ==
  ASSUME RegistryAssumption, IInv, DerivedInv, ApplyDdl \/ RecordApplied
  PROVE  DerivedInv'
<1> USE DEF DerivedInv, TellsInv, StandsInv, Tells, Bars, Reaches, Behind, Done, Working, Derives
<1>1. CASE ApplyDdl
  BY <1>1 DEF ApplyDdl
<1>2. CASE RecordApplied
  BY <1>2 DEF RecordApplied, history
<1> QED
  BY <1>1, <1>2

\* Rederive finds what is stale: it has settled, so that the format is of its
\* layout or above, and the last writer was below.
LEMMA RederiveTells ==
  ASSUME RegistryAssumption, RederiveAssumption, IInv, DerivedInv, Rederive
  PROVE  DerivedInv'
<1>1. /\ pc = "apply" /\ todo = {} /\ pc' = "mirror" /\ Working
      /\ stale' = stale \ Rederivable(holder)
      /\ UNCHANGED <<storeFiles, holder, format, todo, cut>>
  BY DEF Rederive, Working
<1>2. Registry(holder) \subseteq recorded
  BY <1>1 DEF DerivedInv, StandsInv
<1>3. ASSUME NEW m \in stale' \cap Registry(holder), m \notin cut
      PROVE  FALSE
  <2>1. m \in stale \ cut /\ m \in Done /\ m \in OlderSafe /\ m \in recorded /\ m \in Migrations
    BY <1>1, <1>2, <1>3 DEF DerivedInv, TellsInv, Done, IInv, Typed
  <2>2. format.last < LayoutOf[m] /\ LayoutOf[m] <= format.layout
    BY <1>1, <2>1 DEF DerivedInv, TellsInv, Tells, Behind, Reaches
  <2>3. LayoutOf[m] \in Nat /\ format.last \in Nat /\ format.layout \in Nat
    BY <1>1, <2>1, HolderIs
  <2>4. format.last < format.layout /\ LayoutOf[m] > format.last
    BY <2>2, <2>3, SMT
  <2>5. m \in Rederivable(holder)
    BY <1>3, <2>1, <2>4 DEF Rederivable
  <2> QED
    BY <1>1, <1>3, <2>5
<1>4. TellsInv'
  BY <1>1 DEF DerivedInv, TellsInv, Tells, Bars, Reaches, Behind, Done, storeFiles, Working
<1>5. StandsInv'
  BY <1>1, <1>2, <1>3 DEF DerivedInv, StandsInv, Derives, storeFiles
<1> QED
  BY <1>4, <1>5 DEF DerivedInv

LEMMA MirrorTells ==
  ASSUME RegistryAssumption, RederiveAssumption, IInv, DerivedInv, Mirror
  PROVE  DerivedInv'
<1> DEFINE g == Settled(holder)
           h == [g EXCEPT !.migrating = 0]
<1>1. /\ pc = "mirror" /\ pc' = "settle" /\ Working /\ format' = g /\ meta' = h
      /\ UNCHANGED <<marker, ddl, recorded, holder, todo, history>>
  BY DEF Mirror, Working
<1>2. /\ Tells(g) /\ g.last = Layout[holder] /\ format.layout <= g.layout
      /\ Derives(holder) =>
           /\ g.layout <= Layout[holder]
           /\ \A m \in Registry(holder) : LayoutOf[m] <= g.layout
  BY <1>1, SettledTells
<1>3. g \in Formats
  BY <1>1, SettledIs DEF IInv
<1> HIDE DEF g
<1>4. h.layout = g.layout /\ h.last = g.last /\ h.floor = g.floor
  BY <1>3, SMT DEF Formats
<1> HIDE DEF h
<1>5. Tells(h)
  BY <1>2, <1>4 DEF Tells, Bars, Reaches, Behind
<1>6. TellsInv'
  BY <1>1, <1>2, <1>5 DEF DerivedInv, TellsInv, Tells, Bars, Reaches, Behind, Done, history
<1>7. StandsInv'
  BY <1>1, <1>2, <1>4 DEF DerivedInv, StandsInv, Derives, history
<1> QED
  BY <1>6, <1>7 DEF DerivedInv

\* With the marker a migration settles, and the format is of its layout.
LEMMA SettleTells ==
  ASSUME RegistryAssumption, RederiveAssumption, IInv, DerivedInv, Settle
  PROVE  DerivedInv'
<1>1. /\ pc = "settle" /\ pc' = "serving" /\ Working /\ marker' = format
      /\ cut' = cut \ (Registry(holder) \ stale)
      /\ UNCHANGED <<meta, ddl, recorded, holder, format, todo, stale>>
  BY DEF Settle, Working
<1>2. stale' \ cut' = stale \ cut
  BY <1>1
<1>3. ASSUME NEW m \in Done', m \notin Done
      PROVE  m \in recorded /\ LayoutOf[m] <= format.layout /\ LayoutOf[m] <= meta.layout
  <2>1. m \in Registry(holder) /\ m \in OlderSafe
    BY <1>1, <1>3 DEF Done
  <2> QED
    BY <1>1, <2>1 DEF DerivedInv, StandsInv, Derives
<1>4. Done' \subseteq recorded'
  BY <1>1, <1>3 DEF DerivedInv, TellsInv
<1>5. \A m \in Done' : LayoutOf[m] <= format.layout /\ LayoutOf[m] <= meta.layout
  BY <1>1, <1>3 DEF DerivedInv, TellsInv, Tells, Reaches
<1>6. Tells(format)' /\ Tells(meta)' /\ Tells(marker)'
  BY <1>1, <1>2, <1>5 DEF DerivedInv, TellsInv, Tells, Bars, Reaches, Behind
<1>7. TellsInv'
  BY <1>1, <1>4, <1>6 DEF DerivedInv, TellsInv, Tells
<1>8. StandsInv'
  BY <1>1 DEF DerivedInv, StandsInv, Derives
<1> QED
  BY <1>7, <1>8 DEF DerivedInv

\* A write by an older build: the last writer on record is that build.
LEMMA WriteTells ==
  ASSUME RegistryAssumption, RederiveAssumption, IInv, DerivedInv, Write
  PROVE  DerivedInv'
<1>1. /\ pc = "serving" /\ Working /\ UNCHANGED <<storeFiles, memory, cut>>
      /\ stale' = stale \cup ((OlderSafe \cap ddl) \ Registry(holder))
  BY DEF Write, Working
<1>2. /\ format.last = Layout[holder] /\ meta.last = Layout[holder] /\ marker = format
  BY <1>1 DEF DerivedInv, StandsInv
<1>3. \A m \in (OlderSafe \cap ddl) \ Registry(holder) : Layout[holder] < LayoutOf[m]
  BY <1>1, HolderIs DEF IInv, Typed
<1>4. TellsInv'
  BY <1>1, <1>2, <1>3 DEF DerivedInv, TellsInv, Tells, Bars, Reaches, Behind, Done,
     Working, storeFiles, memory
<1>5. StandsInv'
  BY <1>1 DEF DerivedInv, StandsInv, Derives, Working, storeFiles, memory
<1> QED
  BY <1>4, <1>5 DEF DerivedInv

LEMMA NextDerived ==
  ASSUME RegistryAssumption, RederiveAssumption, IInv, DerivedInv, [StoreNext]_storeVars
  PROVE  DerivedInv'
<1> USE DEF DerivedInv, TellsInv, StandsInv, Tells, Bars, Reaches, Behind, Done, Working, Derives
<1>1. CASE UNCHANGED storeVars
  BY <1>1 DEF storeVars, storeFiles, memory, history
<1>2. ASSUME NEW b \in Builds, Preflight(b) PROVE DerivedInv'
  <2>1. pc = "closed"
    BY <1>2 DEF Preflight, IInv, Typed
  <2> QED
    BY <1>2, <2>1 DEF Preflight, storeFiles, memory, history
<1>3. CASE Precheck
  <2>1. CASE Closed
    BY <1>3, <2>1, ClosedTells DEF Precheck
  <2>2. CASE ~Closed
    BY <1>3, <2>2 DEF Precheck, storeFiles, history
  <2> QED
    BY <2>1, <2>2
<1>4. CASE RaiseExpected
  <2> DEFINE ms == {m \in Registry(holder) : m > format.through}
  <2>1. /\ ms \in SUBSET Registry(holder) /\ pc = "floors" /\ pc' = "create"
        /\ marker' = Raised(format, ms) /\ format' = marker'
        /\ UNCHANGED <<meta, ddl, recorded, holder, history>>
    BY <1>4 DEF RaiseExpected
  <2> HIDE DEF ms
  <2> QED
    BY <2>1, RaiseTells
<1>5. CASE CreateDatabases
  BY <1>5 DEF CreateDatabases, history
<1>6. CASE RaisePending
  <2> DEFINE ms == Pending(holder)
  <2>1. /\ ms \in SUBSET Registry(holder) /\ pc = "pending" /\ pc' = "apply"
        /\ marker' = Raised(format, ms) /\ format' = marker' /\ todo' = ms
        /\ Registry(holder) \subseteq recorded \cup ms
        /\ UNCHANGED <<meta, ddl, recorded, holder, history>>
    BY <1>6 DEF RaisePending, Pending
  <2> HIDE DEF ms
  <2> QED
    BY <2>1, RaiseTells
<1>7. CASE Exit
  BY <1>7, ClosedTells DEF Exit
<1>8. CASE LoseMarker
  <2>1. pc = "closed"
    BY <1>8 DEF LoseMarker, IInv, Typed
  <2>2. \A b \in Builds : Layout[b] \in Nat
    BY SMT DEF RegistryAssumption, RegistryWithin
  <2>3. Bars(Missing)
    BY <2>2, SMT DEF Missing
  <2> QED
    BY <1>8, <2>1, <2>3 DEF LoseMarker, memory, history
<1>9. CASE MakeSafe
  BY <1>9 DEF MakeSafe, memory, history
<1> QED
  BY <1>1, <1>2, <1>3, <1>4, <1>5, <1>6, <1>7, <1>8, <1>9,
     OpenTells, ApplyTells, RederiveTells, MirrorTells, SettleTells, WriteTells DEF StoreNext

\* migrations::rederive: where every migration that lets older builds write can
\* be told by its layout, no build serves what one of them left underived, but
\* for a migration that was cut off, over any turns, deaths and lost markers.
THEOREM NothingIsUnderived ==
  RegistryAssumption /\ RederiveAssumption => (StoreSpec => []Rederived)
<1> SUFFICES ASSUME RegistryAssumption, RederiveAssumption PROVE StoreSpec => []Rederived
  OBVIOUS
<1>1. StoreInit => IInv /\ DerivedInv
  BY InitIInv, InitDerived
<1>2. IInv /\ DerivedInv /\ [StoreNext]_storeVars => IInv' /\ DerivedInv'
  BY NextIInv, NextDerived
<1>3. IInv /\ DerivedInv => Rederived
  <2> SUFFICES ASSUME DerivedInv, pc = "serving", NEW m \in stale \cap Registry(holder)
               PROVE  m \in cut
    BY DEF Rederived
  <2>1. Derives(holder)
    BY DEF Derives, DerivedInv, TellsInv
  <2> QED
    BY <2>1 DEF DerivedInv, StandsInv
<1> QED
  BY <1>1, <1>2, <1>3, PTL DEF StoreSpec

-----------------------------------------------------------------------------
(* Backups. *)

Kinds == {"control", "whole", "root", "old"}
Parts == Needs("whole") \cup Needs("root")
Building == {"intent", "index", "rest", "frames", "manifest", "format", "sync", "publish"}
Pruning == {"list", "retire", "retired", "remove"}

\* What is left to write from each step of a build on.
Left(at) ==
  CASE at = "intent" -> Parts
    [] at = "index" -> Parts \ {"intent"}
    [] at = "rest" -> Parts \ {"intent", "index"}
    [] at = "frames" -> {"frames", "manifest", "format"}
    [] at = "manifest" -> {"manifest"}
    [] at = "format" -> {"format"}
    [] OTHER -> {}

BuiltBy(a) == IF a = "daemon" THEN {"control"} ELSE {"whole", "root"}

Directories ==
  [kind : Kinds, label : Int, name : Names, disk : SUBSET Names, parts : SUBSET Parts,
   kept : SUBSET Parts, mtime : Nat]
Stages ==
  [at : {"idle", "tick", "base"} \cup Building \cup Pruning, dir : Ids \cup {0},
   from : Ids \cup {0}, victims : SUBSET Ids]

BackupsTyped ==
  /\ now \in Nat \ {0}
  /\ dirs \in [Ids -> Directories]
  /\ job \in [Jobs -> Stages]
  /\ told \in SUBSET Int /\ IsFiniteSet(told)

\* A directory that may have a backup's or the root's name on the disk, and is
\* not an older release's, is certain to hold what it needs.
DirSound(d) ==
  /\ dirs[d].name \in dirs[d].disk
  /\ dirs[d].kind = "old" => dirs[d].parts \cup dirs[d].kept \subseteq {"index"} /\ dirs[d].label # Root
  /\ "final" \in dirs[d].disk =>
       /\ \/ dirs[d].name = "final"
          \/ dirs[d].name = "deleting" /\ job["daemon"].at = "retired" /\ job["daemon"].dir = d
       /\ dirs[d].kind = "old" \/ Needs(dirs[d].kind) \subseteq Certain(d)

Owns(a) ==
  LET d == job[a].dir IN
  /\ d \in Ids /\ dirs[d].kind \in BuiltBy(a)
  /\ (job[a].from # 0) <=> (dirs[d].label = Root)
  /\ (a = "daemon") <=> (dirs[d].label > Operators)

JobSound(a) ==
  LET d == job[a].dir
      at == job[a].at
  IN
  /\ at \in Building \cup {"base"} => Owns(a)
  /\ at \in Building =>
       /\ dirs[d].name = "partial" /\ now < dirs[d].mtime + SweepAge
       /\ Needs(dirs[d].kind) \subseteq dirs[d].parts \cup Left(at)
       /\ at = "manifest" => dirs[d].kind # "root"
       /\ at = "format" => dirs[d].kind = "root"
       /\ at = "publish" => dirs[d].kept = dirs[d].parts
  /\ at = "base" => dirs[d].name = "final"

Stamped == {d \in Ids : dirs[d].label > Operators /\ dirs[d].name = "final"}

\* A prune finds the names of all it lists durable, and its victims in place.
PruneSound ==
  LET j == job["daemon"] IN
  /\ job["operator"].at \notin Pruning \cup {"tick"} /\ job["operator"].victims = {}
  /\ j.at \in Pruning => \A d \in Stamped : dirs[d].disk = {"final"}
  /\ j.victims \subseteq Stamped
  /\ j.from = 0
  /\ j.victims # {} => j.at \in {"retire", "retired", "remove"}
  /\ j.at = "retire" => j.victims # {}
  /\ j.at \in {"retired", "remove"} => j.dir \in Ids /\ dirs[j.dir].name = "deleting" /\ dirs[j.dir].label > Operators

Durables == {d \in Ids : dirs[d].disk = {"final"} /\ dirs[d].name = "final" /\ dirs[d].kind # "old"}
Stamps == {l \in told : l > Operators}

\* Durables or not, these are not counted: they are about to go, or about to be
\* told of.
Spare ==
  job["daemon"].victims \cup IF job["daemon"].at = "base" THEN {job["daemon"].dir} ELSE {}
Counted == (Durables \cap Stamped) \ Spare

ToldSound ==
  /\ \A l \in told : l > Operators \/ \E d \in Durables : dirs[d].label = l
  /\ Cardinality(Counted)
       >= IF Cardinality(Stamps) < Keep THEN Cardinality(Stamps) ELSE Keep

BackupsInv ==
  /\ BackupsTyped
  /\ \A d \in Ids : DirSound(d)
  /\ \A a \in Jobs : JobSound(a)
  /\ PruneSound
  /\ ToldSound

LEMMA NeedsAre ==
  /\ Needs("control") = {"index", "rest", "manifest"}
  /\ Needs("whole") = {"index", "rest", "frames", "manifest"}
  /\ Needs("root") = {"index", "rest", "intent", "frames", "format"}
  /\ Needs("old") = {"index", "rest"}
  /\ Parts = {"index", "rest", "frames", "manifest", "intent", "format"}
BY DEF Needs, Parts, Databases

LEMMA NothingTyped == Nothing \in Directories /\ NoJob \in Stages
BY DEF Nothing, NoJob, Directories, Stages, Kinds, Names, Root

LEMMA DirTyped ==
  ASSUME BackupsTyped, NEW d \in Ids
  PROVE  /\ dirs[d] \in Directories
         /\ dirs[d].kind \in Kinds /\ dirs[d].label \in Int /\ dirs[d].name \in Names
         /\ dirs[d].disk \subseteq Names /\ dirs[d].parts \subseteq Parts /\ dirs[d].kept \subseteq Parts
         /\ dirs[d].mtime \in Nat
BY DEF BackupsTyped, Directories

LEMMA JobTyped ==
  ASSUME BackupsTyped, NEW a \in Jobs
  PROVE  /\ job[a] \in Stages
         /\ job[a].at \in {"idle", "tick", "base"} \cup Building \cup Pruning
         /\ job[a].dir \in Ids \cup {0} /\ job[a].from \in Ids \cup {0} /\ job[a].victims \subseteq Ids
BY DEF BackupsTyped, Stages

LEMMA IdsFinite == ASSUME BackupsAssumption PROVE IsFiniteSet(Ids) /\ Cardinality(Ids) = MaxDirs /\ MaxDirs \in Nat
<1>1. MaxDirs \in Nat
  BY DEF BackupsAssumption
<1>2. IsFiniteSet(1 .. MaxDirs) /\ Cardinality(1 .. MaxDirs) = IF 1 > MaxDirs THEN 0 ELSE MaxDirs - 1 + 1
  BY <1>1, FS_Interval
<1> QED BY <1>1, <1>2 DEF Ids

-----------------------------------------------------------------------------
(* What a step leaves alone. *)

LEMMA DirKeeps ==
  ASSUME NEW d \in Ids, DirSound(d), dirs'[d] = dirs[d],
         job["daemon"].at = "retired" /\ job["daemon"].dir = d =>
           job'["daemon"].at = "retired" /\ job'["daemon"].dir = d
  PROVE  DirSound(d)'
BY DEF DirSound, Certain

LEMMA JobKeeps ==
  ASSUME NEW a \in Jobs, JobSound(a), job'[a] = job[a], now' = now,
         job[a].at \in Building \cup {"base"} => dirs'[job[a].dir] = dirs[job[a].dir]
  PROVE  JobSound(a)'
BY DEF JobSound, Owns

\* A job that is not building is sound.
LEMMA JobRests ==
  ASSUME NEW a \in Jobs, job'[a].at \notin Building \cup {"base"}
  PROVE  JobSound(a)'
BY DEF JobSound, Building

\* What is durable, and no victim, stays so.
LEMMA ToldKeeps ==
  ASSUME BackupsAssumption, BackupsInv, told' = told,
         \A d \in Durables \ Spare : d \in Durables' \ Spare' /\ dirs'[d].label = dirs[d].label
  PROVE  ToldSound'
<1> DEFINE A == Counted
           B == Counted'
<1>1. A \subseteq B
  BY DEF Durables, Stamped, Counted
<1>2. IsFiniteSet(B)
  <2>1. B \subseteq Ids
    BY DEF Durables, Counted
  <2> QED BY <2>1, IdsFinite, FS_Subset
<1>3. Cardinality(A) <= Cardinality(B) /\ Cardinality(A) \in Nat /\ Cardinality(B) \in Nat
  BY <1>1, <1>2, FS_Subset, FS_CardinalityType
<1>4. Stamps' = Stamps
  BY DEF Stamps
<1>5. IsFiniteSet(Stamps)
  BY FS_Subset DEF Stamps, BackupsInv, BackupsTyped
<1>6. Cardinality(Stamps) \in Nat /\ Keep \in Nat
  BY <1>5, FS_CardinalityType DEF BackupsAssumption
<1>7. Cardinality(A) >= IF Cardinality(Stamps) < Keep THEN Cardinality(Stamps) ELSE Keep
  BY DEF BackupsInv, ToldSound
<1>8. Cardinality(B) >= IF Cardinality(Stamps') < Keep THEN Cardinality(Stamps') ELSE Keep
  <2> HIDE DEF A, B
  <2> QED BY <1>3, <1>4, <1>6, <1>7
<1>9. ASSUME NEW l \in told' PROVE l > Operators \/ \E d \in Durables' : dirs'[d].label = l
  <2>1. CASE l > Operators
    BY <2>1
  <2>2. CASE ~(l > Operators)
    <3>1. PICK d \in Durables : dirs[d].label = l
      BY <1>9, <2>2 DEF BackupsInv, ToldSound
    <3>2. d \notin Spare
      <4>1. job["daemon"].at = "base" => dirs[job["daemon"].dir].label > Operators
        BY DEF BackupsInv, JobSound, Owns, Jobs
      <4> QED BY <2>2, <3>1, <4>1 DEF BackupsInv, PruneSound, Stamped, Spare
    <3> QED BY <3>1, <3>2
  <2> QED BY <2>1, <2>2
<1> QED BY <1>8, <1>9 DEF ToldSound

\* A step of what is not durable leaves what was told as it was.
LEMMA ToldStill ==
  ASSUME BackupsAssumption, BackupsInv, told' = told, NEW d, dirs \in [Ids -> Directories],
         \A e \in Ids \ {d} : dirs'[e] = dirs[e], d \notin Durables,
         Spare' \subseteq Spare \cup {d}
  PROVE  ToldSound'
<1>1. ASSUME NEW e \in Durables \ Spare
      PROVE  e \in Durables' \ Spare' /\ dirs'[e].label = dirs[e].label
  BY DEF Durables
<1> QED BY <1>1, ToldKeeps

LEMMA LeftIs ==
  /\ Left("intent") = Parts
  /\ Left("index") = Parts \ {"intent"}
  /\ Left("rest") = Parts \ {"intent", "index"}
  /\ Left("frames") = {"frames", "manifest", "format"}
  /\ Left("manifest") = {"manifest"} /\ Left("format") = {"format"}
  /\ Left("sync") = {} /\ Left("publish") = {}
BY DEF Left

LEMMA AfterIs ==
  /\ \A k : After(k, "intent") = "index" /\ After(k, "index") = "rest"
  /\ \A k : After(k, "manifest") = "sync" /\ After(k, "format") = "sync"
  /\ \A k : After(k, "rest") = IF k = "control" THEN "manifest" ELSE "frames"
  /\ \A k : After(k, "frames") = IF k = "root" THEN "format" ELSE "manifest"
BY DEF After

-----------------------------------------------------------------------------
(* Building. *)

LEMMA InitBackups == ASSUME BackupsAssumption, BackupsInit PROVE BackupsInv
<1> DEFINE first == [Nothing EXCEPT !.kind = "old", !.label = 1, !.name = "final", !.disk = {"final"},
                                    !.parts = {"index"}, !.kept = {"index"}, !.mtime = 1]
<1>1. first \in Directories /\ Nothing \in Directories /\ NoJob \in Stages
  <2>1. {"index"} \subseteq Parts /\ "old" \in Kinds /\ "final" \in Names /\ 1 \in Int /\ 1 \in Nat
    BY NeedsAre DEF Kinds, Names
  <2>2. Nothing \in Directories
    BY NothingTyped
  <2> QED BY <2>1, <2>2, NothingTyped DEF Directories
<1>2. \A d \in Ids : dirs[d] = IF d = 1 THEN first ELSE Nothing
  BY DEF BackupsInit
<1>3. \A a \in Jobs : job[a] = NoJob
  BY DEF BackupsInit
<1>4. BackupsTyped
  BY <1>1, FS_EmptySet DEF BackupsInit, BackupsTyped
<1>5. ASSUME NEW d \in Ids PROVE DirSound(d)
  <2>1. CASE d = 1
    <3>1. /\ dirs[d].name = "final" /\ dirs[d].disk = {"final"} /\ dirs[d].kind = "old" /\ dirs[d].label = 1
          /\ dirs[d].parts = {"index"} /\ dirs[d].kept = {"index"}
      BY <1>2, <2>1 DEF Nothing
    <3> QED BY <3>1 DEF DirSound, Root
  <2>2. CASE d # 1
    <3>1. dirs[d].name = "none" /\ dirs[d].disk = {"none"} /\ dirs[d].kind = "control"
      BY <1>2, <2>2 DEF Nothing
    <3> QED BY <3>1 DEF DirSound
  <2> QED BY <2>1, <2>2
<1>6. ASSUME NEW a \in Jobs PROVE JobSound(a)
  BY <1>3 DEF JobSound, NoJob, Building
<1>7. PruneSound
  <2>1. job["daemon"] = NoJob /\ job["operator"] = NoJob
    BY <1>3 DEF Jobs
  <2> QED BY <2>1 DEF PruneSound, NoJob, Pruning
<1>8. ToldSound
  <2>1. told = {} /\ Stamps = {}
    BY DEF BackupsInit, Stamps
  <2>2. IsFiniteSet(Counted)
    <3>1. Counted \subseteq Ids
      BY DEF Durables, Counted
    <3> QED BY <3>1, IdsFinite, FS_Subset
  <2>3. Cardinality(Counted) \in Nat /\ Keep \in Nat /\ Cardinality(Stamps) = 0
    BY <2>1, <2>2, FS_CardinalityType, FS_EmptySet DEF BackupsAssumption
  <2> QED BY <2>1, <2>3 DEF ToldSound
<1> QED BY <1>4, <1>5, <1>6, <1>7, <1>8 DEF BackupsInv

\* A step of a build on its directory, whose name is not a backup's before.
LEMMA BuildStep ==
  ASSUME BackupsAssumption, BackupsInv, BackupsTyped', NEW a \in Jobs, NEW d \in Ids,
         \A e \in Ids \ {d} : dirs'[e] = dirs[e],
         \A b \in Jobs \ {a} : job'[b] = job[b],
         now' = now, told' = told,
         job[a].at \notin Pruning, job'[a].at \notin Pruning \cup {"tick"}, job'[a].victims = {},
         a = "daemon" => job'[a].from = 0, job'[a].at = "base" => job'[a].dir = d,
         dirs[d].name \in {"none", "partial"},
         dirs'[d].name = "final" /\ dirs'[d].label > Operators => a = "daemon",
         \A b \in Jobs \ {a} : job[b].at \in Building => job[b].dir # d,
         DirSound(d)', JobSound(a)'
  PROVE  BackupsInv'
<1>1. a = "daemon" \/ a = "operator"
  BY DEF Jobs
<1>2. "daemon" \in Jobs /\ "operator" \in Jobs
  BY DEF Jobs
<1>3. ASSUME NEW e \in Ids PROVE DirSound(e)'
  <2>1. CASE e = d
    BY <2>1
  <2>2. CASE e # d
    <3>1. job["daemon"].at = "retired" => a # "daemon"
      BY DEF Pruning
    <3> QED BY <2>2, <3>1, <1>2, DirKeeps DEF BackupsInv
  <2> QED BY <2>1, <2>2
<1>4. ASSUME NEW b \in Jobs PROVE JobSound(b)'
  <2>1. CASE b = a
    BY <2>1
  <2>2. CASE b # a
    <3>1. job[b].at \in Building \cup {"base"} => job[b].dir \in Ids /\ job[b].dir # d
      BY <2>2 DEF BackupsInv, JobSound, Owns
    <3> QED BY <2>2, <3>1, JobKeeps DEF BackupsInv
  <2> QED BY <2>1, <2>2
<1>5. Spare' \subseteq Spare \cup {d}
  <2>1. CASE a = "daemon"
    BY <2>1 DEF Spare
  <2>2. CASE a = "operator"
    <3>1. job'["daemon"] = job["daemon"]
      BY <1>2, <2>2
    <3> QED BY <3>1 DEF Spare
  <2> QED BY <1>1, <2>1, <2>2
<1>6. PruneSound'
  <2>1. CASE a = "daemon"
    <3>1. job'["operator"] = job["operator"]
      BY <1>2, <2>1
    <3> QED BY <2>1, <3>1 DEF BackupsInv, PruneSound, Pruning
  <2>2. CASE a = "operator"
    <3>1. job'["daemon"] = job["daemon"]
      BY <1>2, <2>2
    <3>2. \A e \in Stamped' : e \in Stamped /\ dirs'[e] = dirs[e]
      <4> SUFFICES ASSUME NEW e \in Stamped' PROVE e \in Stamped /\ dirs'[e] = dirs[e]
        OBVIOUS
      <4>1. e # d
        BY <2>2 DEF Stamped
      <4> QED BY <4>1 DEF Stamped
    <3>3. Stamped \subseteq Stamped'
      BY DEF Stamped
    <3>4. job["daemon"].at \in {"retired", "remove"} => job["daemon"].dir # d
      BY DEF BackupsInv, PruneSound
    <3> QED BY <2>2, <3>1, <3>2, <3>3, <3>4 DEF BackupsInv, PruneSound
  <2> QED BY <1>1, <2>1, <2>2
<1>7. ToldSound'
  <2>1. d \notin Durables /\ dirs \in [Ids -> Directories]
    BY DEF Durables, BackupsInv, BackupsTyped
  <2> QED BY <1>5, <2>1, ToldStill
<1> QED BY <1>3, <1>4, <1>6, <1>7 DEF BackupsInv

\* fresh_dir finds a stamp that is free.
LEMMA FreshIs == ASSUME BackupsAssumption, BackupsTyped PROVE FreshStamp \in Int /\ FreshStamp > Operators
<1> DEFINE S == now .. now + MaxDirs
           X == {s \in S : ~Exists(s)}
<1>1. now \in Nat /\ now > 0 /\ MaxDirs \in Nat
  BY DEF BackupsTyped, BackupsAssumption
<1>2. X # {}
  <2> SUFFICES ASSUME \A s \in S : Exists(s) PROVE FALSE
    OBVIOUS
  <2> DEFINE f == [s \in S |-> CHOOSE d \in Ids : dirs[d].label = s]
  <2>1. \A s \in S : f[s] \in Ids /\ dirs[f[s]].label = s
    BY DEF Exists
  <2>2. f \in [S -> Ids]
    BY <2>1
  <2>3. IsFiniteSet(S) /\ Cardinality(S) = MaxDirs + 1
    BY <1>1, FS_Interval
  <2>4. IsFiniteSet(Ids) /\ Cardinality(Ids) < Cardinality(S)
    BY <1>1, <2>3, IdsFinite
  <2> HIDE DEF f, S
  <2>5. PICK s, r \in S : s # r /\ f[s] = f[r]
    BY <2>2, <2>3, <2>4, FS_PigeonHole
  <2> QED BY <2>1, <2>5
<1>3. X \subseteq Nat
  BY <1>1
<1>4. PICK s \in X : \A y \in X : s <= y
  BY <1>2, <1>3, Least
<1>5. s \in S /\ ~Exists(s) /\ \A r \in now .. s - 1 : Exists(r)
  <2>1. \A r \in now .. s - 1 : r \in S /\ ~(s <= r)
    BY <1>1, <1>4
  <2> QED BY <1>4, <2>1
<1>6. FreshStamp \in S
  BY <1>5 DEF FreshStamp
<1> QED BY <1>1, <1>6 DEF Operators

\* A build begins in a directory that is not there.
LEMMA CreateKeeps ==
  ASSUME BackupsAssumption, BackupsInv, BackupsTyped', NEW a \in Jobs, NEW d \in Unused,
         \A e \in Ids \ {d} : dirs'[e] = dirs[e], \A b \in Jobs \ {a} : job'[b] = job[b],
         now' = now, told' = told,
         job[a].at \notin Pruning, job'[a].victims = {}, job'[a].dir = d,
         dirs'[d].kind \in BuiltBy(a), dirs'[d].name = "partial", dirs'[d].disk = {"none", "partial"},
         dirs'[d].mtime = now, job'[a].at = IF dirs'[d].kind = "root" THEN "intent" ELSE "index",
         (job'[a].from # 0) <=> (dirs'[d].label = Root),
         a = "daemon" => job'[a].from = 0, (a = "daemon") <=> (dirs'[d].label > Operators)
  PROVE  BackupsInv'
<1>1. d \in Ids /\ dirs[d].name = "none"
  BY DEF Unused, Nothing
<1>2. dirs'[d].kind \in {"control", "whole", "root"}
  BY DEF BuiltBy
<1>3. DirSound(d)'
  BY <1>2 DEF DirSound
<1>4. now < now + SweepAge
  BY DEF BackupsInv, BackupsTyped, BackupsAssumption
<1>5. Needs(dirs'[d].kind) \subseteq Left(job'[a].at)
  <2>1. CASE dirs'[d].kind = "root"
    BY <2>1, NeedsAre, LeftIs
  <2>2. CASE dirs'[d].kind # "root"
    BY <1>2, <2>2, NeedsAre, LeftIs
  <2> QED BY <2>1, <2>2
<1>6. job'[a].at \in {"index", "intent"}
  OBVIOUS
<1>7. JobSound(a)'
  <2>1. Owns(a)'
    BY <1>1 DEF Owns
  <2> QED BY <1>4, <1>5, <1>6, <2>1 DEF JobSound, Building
<1>8. \A b \in Jobs \ {a} : job[b].at \in Building => job[b].dir # d
  BY <1>1 DEF BackupsInv, JobSound
<1> QED BY <1>1, <1>3, <1>6, <1>7, <1>8, BuildStep DEF Pruning

\* What a build begins with.
IsMade(x, kind, label) ==
  /\ x \in Directories /\ x.kind = kind /\ x.label = label /\ x.name = "partial"
  /\ x.disk = {"none", "partial"} /\ x.mtime = now

LEMMA DaemonBeginsKeeps == ASSUME BackupsAssumption, BackupsInv, DaemonBegins PROVE BackupsInv'
<1> DEFINE a == "daemon"
           x == [Nothing EXCEPT !.kind = "control", !.label = FreshStamp,
                   !.name = "partial", !.disk = {"none", "partial"}, !.mtime = now]
           j(d) == [job[a] EXCEPT !.at = "index", !.dir = d]
<1>1. PICK d \in Unused : dirs' = [dirs EXCEPT ![d] = x] /\ job' = [job EXCEPT ![a].at = "index", ![a].dir = d]
  BY DEF DaemonBegins, Create
<1>2. FreshStamp \in Int /\ FreshStamp > Operators /\ now \in Nat
  BY FreshIs DEF BackupsInv, BackupsTyped
<1>3. d \in Ids /\ a \in Jobs
  BY DEF Unused, Jobs
<1>4. IsMade(x, "control", FreshStamp)
  BY <1>2, NothingTyped DEF IsMade, Directories, Names, Nothing, Kinds
<1>5. /\ j(d) \in Stages /\ j(d).at = "index" /\ j(d).dir = d
      /\ j(d).from = job[a].from /\ j(d).victims = job[a].victims
  BY <1>3, JobTyped DEF BackupsInv, Stages, Building
<1>6. job' = [job EXCEPT ![a] = j(d)]
  BY <1>1, <1>3 DEF BackupsInv, BackupsTyped
<1>7. now' = now /\ told' = told /\ job[a].at = "tick"
  BY DEF DaemonBegins
<1>8. job[a].from = 0 /\ job[a].victims = {} /\ job[a].at \notin Pruning
  BY <1>7 DEF BackupsInv, PruneSound, Pruning
<1> HIDE DEF j, x
<1>9. job' \in [Jobs -> Stages] /\ job'[a] = j(d) /\ \A b \in Jobs \ {a} : job'[b] = job[b]
  BY <1>3, <1>5, <1>6 DEF BackupsInv, BackupsTyped
<1>10. dirs' \in [Ids -> Directories] /\ dirs'[d] = x /\ \A e \in Ids \ {d} : dirs'[e] = dirs[e]
  BY <1>1, <1>3, <1>4 DEF BackupsInv, BackupsTyped, IsMade
<1>11. BackupsTyped'
  BY <1>7, <1>9, <1>10 DEF BackupsInv, BackupsTyped
<1>12. /\ dirs'[d].kind = "control" /\ dirs'[d].name = "partial" /\ dirs'[d].disk = {"none", "partial"}
       /\ dirs'[d].mtime = now /\ dirs'[d].label # Root /\ dirs'[d].label > Operators /\ "control" \in BuiltBy(a)
  BY <1>2, <1>4, <1>10 DEF IsMade, Root, Operators, BuiltBy
<1>13. /\ job'[a].victims = {} /\ job'[a].dir = d /\ job'[a].at = "index" /\ job'[a].from = 0
  BY <1>5, <1>8, <1>9
<1> QED BY <1>3, <1>7, <1>8, <1>9, <1>10, <1>11, <1>12, <1>13, CreateKeeps

LEMMA OperatorBeginsKeeps ==
  ASSUME BackupsAssumption, BackupsInv, OperatorBegins \/ \E s \in Ids : RestoreBegins(s)
  PROVE  BackupsInv'
<1> DEFINE a == "operator"
<1>1. job[a] = NoJob /\ now' = now /\ told' = told /\ a \in Jobs
  BY DEF OperatorBegins, RestoreBegins, Jobs
<1>2. now \in Nat
  BY DEF BackupsInv, BackupsTyped
<1>3. PICK d \in Unused, kind \in {"whole", "root"}, label \in {Operators, Root}, x \in Directories, j \in Stages :
        /\ IsMade(x, kind, label)
        /\ dirs' = [dirs EXCEPT ![d] = x] /\ job' = [job EXCEPT ![a] = j]
        /\ j.at = (IF kind = "root" THEN "intent" ELSE "index") /\ j.dir = d /\ j.victims = {}
        /\ (j.from # 0) <=> (label = Root)
  <2>1. CASE OperatorBegins
    <3> DEFINE x == [Nothing EXCEPT !.kind = "whole", !.label = Operators,
                       !.name = "partial", !.disk = {"none", "partial"}, !.mtime = now]
               j(d) == [job[a] EXCEPT !.at = "index", !.dir = d]
    <3>1. PICK d \in Unused : dirs' = [dirs EXCEPT ![d] = x] /\ job' = [job EXCEPT ![a].at = "index", ![a].dir = d]
      BY <2>1 DEF OperatorBegins, Create
    <3>2. j(d) \in Stages /\ j(d).at = "index" /\ j(d).dir = d /\ j(d).victims = {} /\ j(d).from = 0
      <4>1. j(d) = [NoJob EXCEPT !.at = "index", !.dir = d] /\ d \in Ids
        BY <1>1 DEF Unused
      <4> QED BY <4>1 DEF NoJob, Stages, Building
    <3>3. job' = [job EXCEPT ![a] = j(d)]
      BY <1>1, <3>1 DEF BackupsInv, BackupsTyped
    <3>4. IsMade(x, "whole", Operators)
      <4>1. Operators \in Int
        BY DEF Operators
      <4> QED BY <1>2, <4>1, NothingTyped DEF IsMade, Directories, Names, Nothing, Kinds
    <3>5. Operators # Root /\ x \in Directories
      BY <3>4 DEF Operators, Root, IsMade
    <3> HIDE DEF j, x
    <3> QED BY <3>1, <3>2, <3>3, <3>4, <3>5
  <2>2. CASE \E s \in Ids : RestoreBegins(s)
    <3> DEFINE x == [Nothing EXCEPT !.kind = "root", !.name = "partial",
                       !.disk = {"none", "partial"}, !.mtime = now]
               j(e, s) == [NoJob EXCEPT !.at = "intent", !.dir = e, !.from = s]
    <3>1. PICK s \in Ids, e \in Unused :
            /\ dirs' = [dirs EXCEPT ![e] = x] /\ job' = [job EXCEPT !["operator"] = j(e, s)]
      BY <2>2 DEF RestoreBegins
    <3>2. j(e, s) \in Stages /\ j(e, s).at = "intent" /\ j(e, s).dir = e /\ j(e, s).victims = {} /\ j(e, s).from = s
      BY <3>1 DEF NoJob, Stages, Building, Unused
    <3>3. s # 0
      BY DEF Ids
    <3>4. IsMade(x, "root", Root)
      BY <1>2, NothingTyped DEF IsMade, Directories, Names, Nothing, Kinds
    <3>5. x \in Directories
      BY <3>4 DEF IsMade
    <3> HIDE DEF j, x
    <3> QED BY <3>1, <3>2, <3>3, <3>4, <3>5
  <2> QED BY <2>1, <2>2
<1>4. kind \in BuiltBy(a) /\ d \in Ids
  BY DEF BuiltBy, Unused
<1>5. job' \in [Jobs -> Stages] /\ job'[a] = j /\ \A b \in Jobs \ {a} : job'[b] = job[b]
  BY <1>1, <1>3 DEF BackupsInv, BackupsTyped
<1>6. dirs' \in [Ids -> Directories] /\ dirs'[d] = x /\ \A e \in Ids \ {d} : dirs'[e] = dirs[e]
  BY <1>3, <1>4 DEF BackupsInv, BackupsTyped
<1>7. BackupsTyped'
  BY <1>1, <1>5, <1>6 DEF BackupsInv, BackupsTyped
<1>8. job[a].at \notin Pruning
  BY <1>1 DEF NoJob, Pruning
<1>9. ~(label > Operators)
  BY DEF Operators, Root
<1>10. /\ dirs'[d].kind = kind /\ dirs'[d].label = label /\ dirs'[d].name = "partial"
       /\ dirs'[d].disk = {"none", "partial"} /\ dirs'[d].mtime = now
  BY <1>3, <1>6 DEF IsMade
<1>11. /\ job'[a].victims = {} /\ job'[a].dir = d /\ ((job'[a].from # 0) <=> (label = Root))
       /\ job'[a].at = IF kind = "root" THEN "intent" ELSE "index"
  BY <1>3, <1>5
<1> QED BY <1>1, <1>4, <1>5, <1>6, <1>7, <1>8, <1>9, <1>10, <1>11, CreateKeeps

\* What the directory of a build is, before it has its name.
LEMMA BuildIs ==
  ASSUME BackupsAssumption, BackupsInv, NEW a \in Jobs, job[a].at \in Building
  PROVE  LET d == job[a].dir IN
         /\ d \in Ids /\ Owns(a) /\ dirs[d].name = "partial" /\ "final" \notin dirs[d].disk
         /\ dirs[d].kind \in BuiltBy(a) /\ dirs[d].kind \in {"control", "whole", "root"}
         /\ now < dirs[d].mtime + SweepAge
         /\ Needs(dirs[d].kind) \subseteq dirs[d].parts \cup Left(job[a].at)
         /\ job[a].at = "manifest" => dirs[d].kind # "root"
         /\ job[a].at = "format" => dirs[d].kind = "root"
         /\ job[a].at = "publish" => dirs[d].kept = dirs[d].parts
         /\ job[a].at \notin Pruning /\ job[a].victims = {} /\ (a = "daemon" => job[a].from = 0)
         /\ \A b \in Jobs \ {a} : job[b].at \in Building => job[b].dir # d
<1> DEFINE d == job[a].dir
<1>1. JobSound(a) /\ Owns(a)
  BY DEF BackupsInv, JobSound
<1>2. d \in Ids /\ dirs[d].kind \in BuiltBy(a) /\ dirs[d].kind \in {"control", "whole", "root"}
  BY <1>1 DEF Owns, BuiltBy
<1>3. dirs[d].name = "partial"
  BY <1>1 DEF JobSound
<1>4. "final" \notin dirs[d].disk
  BY <1>2, <1>3 DEF BackupsInv, DirSound
<1>5. job[a].at \notin Pruning
  BY DEF Pruning, Building
<1>6. job[a].victims = {} /\ (a = "daemon" => job[a].from = 0)
  <2>1. CASE a = "daemon"
    BY <1>5, <2>1 DEF BackupsInv, PruneSound, Pruning
  <2>2. CASE a = "operator"
    BY <2>2 DEF BackupsInv, PruneSound
  <2> QED BY <2>1, <2>2 DEF Jobs
<1>7. ASSUME NEW b \in Jobs \ {a}, job[b].at \in Building PROVE job[b].dir # d
  <2>1. dirs[job[b].dir].kind \in BuiltBy(b)
    BY <1>7 DEF BackupsInv, JobSound, Owns
  <2>2. BuiltBy(a) \cap BuiltBy(b) = {}
    BY DEF BuiltBy, Jobs
  <2> QED BY <1>2, <2>1, <2>2
<1> QED BY <1>1, <1>2, <1>3, <1>4, <1>5, <1>6, <1>7 DEF JobSound

LEMMA WriteKeeps == ASSUME BackupsAssumption, BackupsInv, NEW a \in Jobs, WritePart(a) PROVE BackupsInv'
<1>0. PICK d \in Ids : d = job[a].dir
  BY BuildIs DEF WritePart, Writing, Building
<1> DEFINE at == job[a].at
           x == [dirs[d] EXCEPT !.parts = @ \cup {at}, !.mtime = now]
           j == [job[a] EXCEPT !.at = After(dirs[d].kind, at)]
<1>1. at \in Building \ {"sync", "publish"}
  BY DEF WritePart, Writing, Building
<1>2. BackupsTyped /\ at \in Building
  BY <1>1 DEF BackupsInv
<1>3. d \in Ids /\ now' = now /\ told' = told /\ now \in Nat
  BY <1>2, <1>0, BuildIs DEF WritePart, BackupsTyped
<1>4. at \in Parts
  BY <1>1, NeedsAre DEF Building
<1>5. /\ x \in Directories /\ x.parts = dirs[d].parts \cup {at} /\ x.mtime = now /\ x.name = dirs[d].name
      /\ x.kind = dirs[d].kind /\ x.label = dirs[d].label /\ x.disk = dirs[d].disk /\ x.kept = dirs[d].kept
  BY <1>2, <1>3, <1>4, DirTyped DEF Directories
<1>6. After(dirs[d].kind, at) \in Building \ {"intent", "publish"}
  BY <1>1, AfterIs DEF Building
<1>7. /\ j \in Stages /\ j.at = After(dirs[d].kind, at) /\ j.dir = d /\ j.from = job[a].from
      /\ j.victims = job[a].victims
  BY <1>2, <1>6, <1>0, JobTyped DEF Stages, Building
<1>8. dirs' = [dirs EXCEPT ![d] = x] /\ job' = [job EXCEPT ![a] = j]
  BY <1>0, <1>2, <1>3 DEF WritePart, Goes, BackupsTyped
<1> HIDE DEF x, j
<1>9. dirs' \in [Ids -> Directories] /\ dirs'[d] = x /\ \A e \in Ids \ {d} : dirs'[e] = dirs[e]
  BY <1>2, <1>3, <1>5, <1>8 DEF BackupsTyped
<1>10. job' \in [Jobs -> Stages] /\ job'[a] = j /\ \A b \in Jobs \ {a} : job'[b] = job[b]
  BY <1>2, <1>7, <1>8 DEF BackupsTyped
<1>11. BackupsTyped'
  BY <1>2, <1>3, <1>9, <1>10 DEF BackupsTyped
<1>12. DirSound(d)'
  BY <1>2, <1>3, <1>5, <1>9, <1>0, BuildIs DEF BackupsInv, DirSound
<1>13. now < now + SweepAge
  BY <1>3 DEF BackupsAssumption
<1>14. Needs(dirs[d].kind) \subseteq (dirs[d].parts \cup {at}) \cup Left(j.at)
  <2>1. Needs(dirs[d].kind) \subseteq dirs[d].parts \cup Left(at) /\ dirs[d].kind \in {"control", "whole", "root"}
    BY <1>2, <1>0, BuildIs
  <2>2. at = "manifest" => dirs[d].kind # "root"
    BY <1>2, <1>0, BuildIs
  <2>3. at = "format" => dirs[d].kind = "root"
    BY <1>2, <1>0, BuildIs
  <2>4. CASE at \in {"intent", "index"}
    BY <1>7, <2>1, <2>4, NeedsAre, LeftIs, AfterIs
  <2>5. CASE at = "rest"
    <3>1. CASE dirs[d].kind = "control"
      BY <1>7, <2>1, <2>5, <3>1, NeedsAre, LeftIs, AfterIs
    <3>2. CASE dirs[d].kind # "control"
      BY <1>7, <2>1, <2>5, <3>2, NeedsAre, LeftIs, AfterIs
    <3> QED BY <3>1, <3>2
  <2>6. CASE at = "frames"
    <3>1. CASE dirs[d].kind = "root"
      BY <1>7, <2>1, <2>6, <3>1, NeedsAre, LeftIs, AfterIs
    <3>2. CASE dirs[d].kind # "root"
      BY <1>7, <2>1, <2>6, <3>2, NeedsAre, LeftIs, AfterIs
    <3> QED BY <3>1, <3>2
  <2>7. CASE at \in {"manifest", "format"}
    BY <1>7, <2>1, <2>7, LeftIs, AfterIs
  <2> QED BY <1>1, <2>4, <2>5, <2>6, <2>7 DEF Building
<1>15. (j.at = "manifest" => dirs[d].kind # "root") /\ (j.at = "format" => dirs[d].kind = "root")
  BY <1>1, <1>7, AfterIs DEF Building
<1>16. JobSound(a)'
  <2>1. Owns(a)'
    BY <1>2, <1>5, <1>7, <1>9, <1>10, <1>0, BuildIs DEF Owns
  <2>2. dirs'[d].name = "partial"
    BY <1>2, <1>5, <1>9, <1>0, BuildIs
  <2>3. j.at # "publish" /\ j.at # "base" /\ j.at \in Building
    BY <1>6, <1>7 DEF Building
  <2> QED BY <1>3, <1>5, <1>7, <1>9, <1>10, <1>13, <1>14, <1>15, <2>1, <2>2, <2>3 DEF JobSound
<1>17. dirs[d].name = "partial" /\ dirs'[d].name = "partial"
  BY <1>2, <1>5, <1>9, <1>0, BuildIs
<1>18. j.at \notin Pruning \cup {"tick"}
  BY <1>6, <1>7 DEF Building, Pruning
<1>19. /\ job[a].at \notin Pruning /\ job[a].victims = {} /\ (a = "daemon" => job[a].from = 0)
       /\ \A b \in Jobs \ {a} : job[b].at \in Building => job[b].dir # d
  BY <1>2, <1>0, BuildIs
<1> QED BY <1>3, <1>7, <1>9, <1>10, <1>11, <1>12, <1>16, <1>17, <1>18, <1>19, BuildStep

LEMMA SyncBuildKeeps == ASSUME BackupsAssumption, BackupsInv, NEW a \in Jobs, SyncBuild(a) PROVE BackupsInv'
<1>0. PICK d \in Ids : d = job[a].dir
  BY BuildIs DEF SyncBuild, Writing, Building
<1> DEFINE x == [dirs[d] EXCEPT !.kept = dirs[d].parts]
           j == [job[a] EXCEPT !.at = "publish"]
<1>1. BackupsTyped /\ job[a].at = "sync" /\ job[a].at \in Building
  BY DEF SyncBuild, BackupsInv, Building
<1>2. d \in Ids /\ now' = now /\ told' = told
  BY <1>1, <1>0, BuildIs DEF SyncBuild
<1>3. /\ x \in Directories /\ x.kept = dirs[d].parts /\ x.mtime = dirs[d].mtime /\ x.name = dirs[d].name
      /\ x.kind = dirs[d].kind /\ x.label = dirs[d].label /\ x.disk = dirs[d].disk /\ x.parts = dirs[d].parts
  BY <1>1, <1>2, DirTyped DEF Directories
<1>4. /\ j \in Stages /\ j.at = "publish" /\ j.dir = d /\ j.from = job[a].from /\ j.victims = job[a].victims
  BY <1>1, <1>0, JobTyped DEF Stages, Building
<1>5. dirs' = [dirs EXCEPT ![d] = x] /\ job' = [job EXCEPT ![a] = j]
  BY <1>0, <1>1, <1>2 DEF SyncBuild, Goes, BackupsTyped
<1> HIDE DEF x, j
<1>6. dirs' \in [Ids -> Directories] /\ dirs'[d] = x /\ \A e \in Ids \ {d} : dirs'[e] = dirs[e]
  BY <1>1, <1>2, <1>3, <1>5 DEF BackupsTyped
<1>7. job' \in [Jobs -> Stages] /\ job'[a] = j /\ \A b \in Jobs \ {a} : job'[b] = job[b]
  BY <1>1, <1>4, <1>5 DEF BackupsTyped
<1>8. BackupsTyped'
  BY <1>1, <1>2, <1>6, <1>7 DEF BackupsTyped
<1>9. DirSound(d)'
  BY <1>1, <1>2, <1>3, <1>6, <1>0, BuildIs DEF BackupsInv, DirSound
<1>10. JobSound(a)'
  <2>1. Owns(a)'
    BY <1>1, <1>3, <1>4, <1>6, <1>7, <1>0, BuildIs DEF Owns
  <2>2. Needs(dirs[d].kind) \subseteq dirs[d].parts /\ dirs[d].name = "partial" /\ now < dirs[d].mtime + SweepAge
    BY <1>1, <1>0, BuildIs, LeftIs
  <2> QED BY <1>2, <1>3, <1>4, <1>6, <1>7, <2>1, <2>2 DEF JobSound
<1>11. dirs[d].name = "partial" /\ dirs'[d].name = "partial"
  BY <1>1, <1>3, <1>6, <1>0, BuildIs
<1>12. j.at \notin Pruning \cup {"tick"}
  BY <1>4 DEF Pruning
<1>13. /\ job[a].at \notin Pruning /\ job[a].victims = {} /\ (a = "daemon" => job[a].from = 0)
       /\ \A b \in Jobs \ {a} : job[b].at \in Building => job[b].dir # d
  BY <1>1, <1>0, BuildIs
<1> QED BY <1>2, <1>4, <1>6, <1>7, <1>8, <1>9, <1>10, <1>11, <1>12, <1>13, BuildStep

\* A directory is given a backup's name when its parts and their names are synced.
LEMMA PublishKeeps == ASSUME BackupsAssumption, BackupsInv, NEW a \in Jobs, Publish(a) PROVE BackupsInv'
<1>0. PICK d \in Ids : d = job[a].dir
  BY BuildIs DEF Publish, Writing, Building
<1> DEFINE x == [dirs[d] EXCEPT !.name = "final", !.disk = @ \cup {"final"}]
           j == [job[a] EXCEPT !.at = "base"]
<1>1. BackupsTyped /\ job[a].at = "publish" /\ job[a].at \in Building
  BY DEF Publish, BackupsInv, Building
<1>2. d \in Ids /\ now' = now /\ told' = told
  BY <1>1, <1>0, BuildIs DEF Publish
<1>3. /\ x \in Directories /\ x.kept = dirs[d].kept /\ x.mtime = dirs[d].mtime /\ x.name = "final"
      /\ x.kind = dirs[d].kind /\ x.label = dirs[d].label /\ x.disk = dirs[d].disk \cup {"final"}
      /\ x.parts = dirs[d].parts
  BY <1>1, <1>2, DirTyped DEF Directories, Names
<1>4. /\ j \in Stages /\ j.at = "base" /\ j.dir = d /\ j.from = job[a].from /\ j.victims = job[a].victims
  BY <1>1, <1>0, JobTyped DEF Stages
<1>5. dirs' = [dirs EXCEPT ![d] = x] /\ job' = [job EXCEPT ![a] = j]
  BY <1>0, <1>1, <1>2 DEF Publish, Renamed, Goes, BackupsTyped
<1> HIDE DEF x, j
<1>6. dirs' \in [Ids -> Directories] /\ dirs'[d] = x /\ \A e \in Ids \ {d} : dirs'[e] = dirs[e]
  BY <1>1, <1>2, <1>3, <1>5 DEF BackupsTyped
<1>7. job' \in [Jobs -> Stages] /\ job'[a] = j /\ \A b \in Jobs \ {a} : job'[b] = job[b]
  BY <1>1, <1>4, <1>5 DEF BackupsTyped
<1>8. BackupsTyped'
  BY <1>1, <1>2, <1>6, <1>7 DEF BackupsTyped
<1>9. DirSound(d)'
  <2>1. Needs(dirs[d].kind) \subseteq dirs[d].parts /\ dirs[d].kept = dirs[d].parts /\ dirs[d].kind # "old"
    BY <1>1, <1>0, BuildIs, LeftIs
  <2> QED BY <1>2, <1>3, <1>6, <2>1 DEF DirSound, Certain
<1>10. JobSound(a)'
  <2>1. Owns(a)'
    BY <1>1, <1>3, <1>4, <1>6, <1>7, <1>0, BuildIs DEF Owns
  <2> QED BY <1>2, <1>3, <1>4, <1>6, <1>7, <2>1 DEF JobSound, Building
<1>11. dirs'[d].label > Operators => a = "daemon"
  <2>1. CASE a = "operator"
    <3>1. dirs[d].label > Operators => FALSE
      BY <1>1, <2>1, <1>0, BuildIs DEF Owns
    <3> QED BY <1>3, <1>6, <3>1
  <2> QED BY <2>1 DEF Jobs
<1>12. j.at \notin Pruning \cup {"tick"}
  BY <1>4 DEF Pruning
<1>13. /\ job[a].at \notin Pruning /\ job[a].victims = {} /\ (a = "daemon" => job[a].from = 0)
       /\ \A b \in Jobs \ {a} : job[b].at \in Building => job[b].dir # d
       /\ dirs[d].name = "partial"
  BY <1>1, <1>0, BuildIs
<1> QED BY <1>2, <1>4, <1>6, <1>7, <1>8, <1>9, <1>10, <1>11, <1>12, <1>13, BuildStep

LEMMA RemovedTyped ==
  ASSUME BackupsTyped, NEW d \in Ids
  PROVE  /\ Removed(d) \in Directories /\ Litter(d) \in Directories
         /\ \A x \in {Removed(d), Litter(d)} :
              /\ x.kind = dirs[d].kind /\ x.label = dirs[d].label /\ x.parts = {} /\ x.kept = dirs[d].kept
              /\ x.name \in x.disk \/ (x.name = dirs[d].name /\ x.disk = dirs[d].disk)
              /\ x.name \in {"none", dirs[d].name} /\ x.disk \subseteq dirs[d].disk \cup {"none"}
<1>1. "none" \in Names /\ {} \subseteq Parts
  BY DEF Names
<1>2. /\ Removed(d) \in Directories /\ Removed(d).kind = dirs[d].kind /\ Removed(d).label = dirs[d].label
      /\ Removed(d).parts = {} /\ Removed(d).kept = dirs[d].kept /\ Removed(d).name = "none"
      /\ Removed(d).disk = dirs[d].disk \cup {"none"}
  BY <1>1, DirTyped DEF Removed, Directories
<1>3. /\ Litter(d) \in Directories /\ Litter(d).kind = dirs[d].kind /\ Litter(d).label = dirs[d].label
      /\ Litter(d).parts = {} /\ Litter(d).kept = dirs[d].kept /\ Litter(d).name = dirs[d].name
      /\ Litter(d).disk = dirs[d].disk
  BY <1>1, DirTyped DEF Litter, Directories
<1> QED BY <1>2, <1>3

\* What has no backup's name on the disk may be removed, in part or whole.
LEMMA RemovedSound ==
  ASSUME BackupsInv, NEW d \in Ids, "final" \notin dirs[d].disk, dirs'[d] \in {Removed(d), Litter(d)}
  PROVE  DirSound(d)' /\ dirs'[d].name \in {"none", dirs[d].name} /\ dirs'[d].label = dirs[d].label
<1>1. DirSound(d) /\ BackupsTyped
  BY DEF BackupsInv
<1>2. /\ dirs'[d].kind = dirs[d].kind /\ dirs'[d].label = dirs[d].label
      /\ dirs'[d].parts = {} /\ dirs'[d].kept = dirs[d].kept
      /\ dirs'[d].name \in dirs'[d].disk \/ (dirs'[d].name = dirs[d].name /\ dirs'[d].disk = dirs[d].disk)
      /\ dirs'[d].name \in {"none", dirs[d].name} /\ dirs'[d].disk \subseteq dirs[d].disk \cup {"none"}
  BY <1>1, RemovedTyped
<1>3. "final" \notin dirs'[d].disk
  BY <1>2
<1> QED BY <1>1, <1>2, <1>3 DEF DirSound

LEMMA BuildFailsKeeps == ASSUME BackupsAssumption, BackupsInv, NEW a \in Jobs, BuildFails(a) PROVE BackupsInv'
<1>1. BackupsTyped /\ job[a].at \in Building
  BY DEF BuildFails, BackupsInv, Writing, Building
<1>2. PICK d \in Ids : d = job[a].dir
  BY <1>1, BuildIs
<1>3. dirs[d].name = "partial" /\ "final" \notin dirs[d].disk
  BY <1>1, <1>2, BuildIs
<1>4. PICK x \in {Removed(d), Litter(d)} : dirs' = [dirs EXCEPT ![d] = x]
  BY <1>2, <1>3 DEF BuildFails, Removals
<1>5. x \in Directories
  BY <1>1, RemovedTyped
<1>6. dirs' \in [Ids -> Directories] /\ dirs'[d] = x /\ \A e \in Ids \ {d} : dirs'[e] = dirs[e]
  BY <1>1, <1>4, <1>5 DEF BackupsTyped
<1>7. job' \in [Jobs -> Stages] /\ job'[a] = NoJob /\ \A b \in Jobs \ {a} : job'[b] = job[b]
  BY <1>1, NothingTyped DEF BuildFails, Ends, BackupsTyped
<1>8. now' = now /\ told' = told
  BY DEF BuildFails
<1>9. BackupsTyped'
  BY <1>1, <1>6, <1>7, <1>8 DEF BackupsTyped
<1>10. DirSound(d)' /\ dirs'[d].name \in {"none", "partial"}
  BY <1>3, <1>4, <1>6, RemovedSound
<1>11. /\ job'[a].at = "idle" /\ job'[a].victims = {} /\ job'[a].from = 0
       /\ job'[a].at \notin Pruning \cup {"tick"}
  BY <1>7 DEF NoJob, Pruning
<1>12. JobSound(a)'
  BY <1>11, JobRests DEF Building
<1>13. /\ job[a].at \notin Pruning
       /\ \A b \in Jobs \ {a} : job[b].at \in Building => job[b].dir # d
  BY <1>1, <1>2, BuildIs
<1> QED BY <1>3, <1>6, <1>7, <1>8, <1>9, <1>10, <1>11, <1>12, <1>13, BuildStep

-----------------------------------------------------------------------------
(* The end of a build. *)

LEMMA SyncedIs ==
  ASSUME BackupsTyped, NEW roots \in BOOLEAN
  PROVE  /\ Synced(dirs, roots) \in [Ids -> Directories]
         /\ \A d \in Ids :
              LET x == Synced(dirs, roots)[d] IN
              /\ (dirs[d].label = Root) # roots => x = dirs[d]
              /\ (dirs[d].label = Root) = roots =>
                   IF dirs[d].name = "none" THEN x = Nothing
                   ELSE /\ x.disk = {dirs[d].name} /\ x.name = dirs[d].name /\ x.kind = dirs[d].kind
                        /\ x.label = dirs[d].label /\ x.parts = dirs[d].parts /\ x.kept = dirs[d].kept
                        /\ x.mtime = dirs[d].mtime
<1> SUFFICES ASSUME NEW d \in Ids
             PROVE  LET x == Synced(dirs, roots)[d] IN
                    /\ x \in Directories
                    /\ (dirs[d].label = Root) # roots => x = dirs[d]
                    /\ (dirs[d].label = Root) = roots =>
                         IF dirs[d].name = "none" THEN x = Nothing
                         ELSE /\ x.disk = {dirs[d].name} /\ x.name = dirs[d].name /\ x.kind = dirs[d].kind
                              /\ x.label = dirs[d].label /\ x.parts = dirs[d].parts /\ x.kept = dirs[d].kept
                              /\ x.mtime = dirs[d].mtime
  BY DEF Synced
<1> DEFINE y == [dirs[d] EXCEPT !.disk = {dirs[d].name}]
<1>1. Synced(dirs, roots)[d] = IF (dirs[d].label = Root) # roots THEN dirs[d]
                               ELSE IF dirs[d].name = "none" THEN Nothing ELSE y
  BY DEF Synced
<1>2. /\ y \in Directories /\ y.disk = {dirs[d].name} /\ y.name = dirs[d].name /\ y.kind = dirs[d].kind
      /\ y.label = dirs[d].label /\ y.parts = dirs[d].parts /\ y.kept = dirs[d].kept
      /\ y.mtime = dirs[d].mtime
  BY DirTyped DEF Directories
<1>3. dirs[d] \in Directories /\ Nothing \in Directories
  BY DirTyped, NothingTyped
<1> HIDE DEF y
<1> QED BY <1>1, <1>2, <1>3

\* A sync of a base changes what the disk may hold, and forgets what was removed.
Syncs(d) ==
  \/ dirs'[d] = dirs[d]
  \/ dirs[d].name = "none" /\ dirs'[d] = Nothing
  \/ /\ dirs[d].name # "none"
     /\ dirs'[d].disk = {dirs[d].name} /\ dirs'[d].name = dirs[d].name /\ dirs'[d].kind = dirs[d].kind
     /\ dirs'[d].label = dirs[d].label /\ dirs'[d].parts = dirs[d].parts /\ dirs'[d].kept = dirs[d].kept
     /\ dirs'[d].mtime = dirs[d].mtime

LEMMA SyncsSound ==
  ASSUME NEW d \in Ids, DirSound(d), Syncs(d),
         job["daemon"].at = "retired" /\ job["daemon"].dir = d =>
           \/ (job'["daemon"].at = "retired" /\ job'["daemon"].dir = d)
           \/ "final" \notin dirs'[d].disk
  PROVE  DirSound(d)'
<1>1. CASE dirs'[d] = dirs[d]
  BY <1>1 DEF DirSound, Certain
<1>2. CASE dirs'[d] = Nothing
  <2>1. dirs'[d].name = "none" /\ dirs'[d].disk = {"none"} /\ dirs'[d].kind = "control"
    BY <1>2 DEF Nothing
  <2> QED BY <2>1 DEF DirSound
<1>3. CASE /\ dirs'[d].disk = {dirs[d].name} /\ dirs'[d].name = dirs[d].name /\ dirs'[d].kind = dirs[d].kind
           /\ dirs'[d].label = dirs[d].label /\ dirs'[d].parts = dirs[d].parts /\ dirs'[d].kept = dirs[d].kept
  BY <1>3 DEF DirSound, Certain
<1> QED BY <1>1, <1>2, <1>3 DEF Syncs

LEMMA SyncsJob ==
  ASSUME NEW a \in Jobs, JobSound(a), job'[a] = job[a], now' = now, \A d \in Ids : Syncs(d)
  PROVE  JobSound(a)'
<1>1. CASE job[a].at \in Building \cup {"base"}
  <2>1. job[a].dir \in Ids /\ dirs[job[a].dir].name # "none"
    BY <1>1 DEF JobSound, Owns
  <2>2. LET d == job[a].dir IN
        /\ dirs'[d].name = dirs[d].name /\ dirs'[d].kind = dirs[d].kind
        /\ dirs'[d].label = dirs[d].label /\ dirs'[d].parts = dirs[d].parts /\ dirs'[d].kept = dirs[d].kept
        /\ dirs'[d].mtime = dirs[d].mtime
    BY <2>1 DEF Syncs
  <2> QED BY <2>1, <2>2 DEF JobSound, Owns
<1>2. CASE job[a].at \notin Building \cup {"base"}
  BY <1>2, JobRests
<1> QED BY <1>1, <1>2

LEMMA SyncsNames ==
  ASSUME \A d \in Ids : Syncs(d)
  PROVE  /\ Stamped' = Stamped
         /\ \A d \in Ids : dirs[d].name \in {"final", "deleting"} =>
              dirs'[d].name = dirs[d].name /\ dirs'[d].label = dirs[d].label
         /\ \A d \in Ids : dirs[d].disk = {"final"} /\ dirs[d].name = "final" => dirs'[d].disk = {"final"}
         /\ Durables \subseteq Durables' /\ \A d \in Durables : dirs'[d].label = dirs[d].label
<1>1. ASSUME NEW d \in Ids, dirs'[d] = Nothing
      PROVE  dirs'[d].name = "none"
  BY <1>1 DEF Nothing
<1>2. \A d \in Ids : d \in Stamped' <=> d \in Stamped
  BY <1>1 DEF Syncs, Stamped
<1>3. Stamped' = Stamped
  BY <1>2 DEF Stamped
<1> QED BY <1>3 DEF Syncs, Durables

LEMMA CountsAre ==
  ASSUME BackupsAssumption, BackupsTyped
  PROVE  /\ IsFiniteSet(Counted) /\ Cardinality(Counted) \in Nat
         /\ IsFiniteSet(Stamps) /\ Cardinality(Stamps) \in Nat /\ Keep \in Nat
<1>1. Counted \subseteq Ids /\ Stamps \subseteq told
  BY DEF Counted, Durables, Stamps
<1>2. IsFiniteSet(Counted) /\ IsFiniteSet(Stamps)
  BY <1>1, IdsFinite, FS_Subset DEF BackupsTyped
<1> QED BY <1>2, FS_CardinalityType DEF BackupsAssumption

\* A backup is told of when its name is durable.
LEMMA SyncBaseKeeps == ASSUME BackupsAssumption, BackupsInv, NEW a \in Jobs, SyncBase(a) PROVE BackupsInv'
<1>1. BackupsTyped /\ job[a].at = "base" /\ now' = now
  BY DEF SyncBase, BackupsInv
<1>2. PICK d \in Ids : d = job[a].dir
  BY <1>1 DEF BackupsInv, JobSound, Owns
<1>3. /\ dirs[d].name = "final" /\ dirs[d].kind \in {"control", "whole", "root"}
      /\ (job[a].from # 0) <=> (dirs[d].label = Root)
      /\ (a = "daemon") <=> (dirs[d].label > Operators)
      /\ "final" \in dirs[d].disk
  BY <1>1, <1>2 DEF BackupsInv, JobSound, Owns, BuiltBy, DirSound
<1>4. PICK roots \in BOOLEAN : roots <=> job[a].from # 0
  OBVIOUS
<1>5. dirs' = Synced(dirs, roots)
  <2>1. roots = (job[a].from # 0)
    BY <1>4
  <2> QED BY <2>1 DEF SyncBase
<1>6. dirs' \in [Ids -> Directories] /\ \A e \in Ids : Syncs(e)
  BY <1>1, <1>5, SyncedIs DEF Syncs
<1>7. \A e \in Ids : dirs[e].name = "final" /\ (dirs[e].label = Root <=> roots) =>
        dirs'[e].name = "final" /\ dirs'[e].disk = {"final"} /\ dirs'[e].kind = dirs[e].kind
        /\ dirs'[e].label = dirs[e].label
  <2> SUFFICES ASSUME NEW e \in Ids, dirs[e].name = "final", dirs[e].label = Root <=> roots
               PROVE  dirs'[e].name = "final" /\ dirs'[e].disk = {"final"} /\ dirs'[e].kind = dirs[e].kind
                      /\ dirs'[e].label = dirs[e].label
    OBVIOUS
  <2>1. (dirs[e].label = Root) = roots
    OBVIOUS
  <2> QED BY <1>1, <1>5, <2>1, SyncedIs
<1>8. dirs'[d].name = "final" /\ dirs'[d].disk = {"final"} /\ dirs'[d].kind = dirs[d].kind
      /\ dirs'[d].label = dirs[d].label
  BY <1>3, <1>4, <1>7
<1>9. /\ told' = told \cup {dirs[d].label} /\ dirs[d].label \in Int
  BY <1>1, <1>2, DirTyped DEF SyncBase
<1> DEFINE j == IF a = "daemon" THEN [NoJob EXCEPT !.at = "list"] ELSE NoJob
<1>10. j \in Stages /\ j.victims = {} /\ j.from = 0 /\ j.at = IF a = "daemon" THEN "list" ELSE "idle"
  BY NothingTyped DEF NoJob, Stages, Pruning
<1>11. job' = [job EXCEPT ![a] = j]
  BY DEF SyncBase
<1> HIDE DEF j
<1>12. job' \in [Jobs -> Stages] /\ job'[a] = j /\ \A b \in Jobs \ {a} : job'[b] = job[b]
  BY <1>1, <1>10, <1>11 DEF BackupsTyped
<1>13. BackupsTyped'
  BY <1>1, <1>6, <1>9, <1>12, FS_AddElement DEF BackupsTyped
<1>14. "daemon" \in Jobs /\ "operator" \in Jobs /\ a \in {"daemon", "operator"}
  BY DEF Jobs
<1>15. ASSUME NEW e \in Ids PROVE DirSound(e)'
  <2>1. job["daemon"].at = "retired" => job'["daemon"] = job["daemon"]
    BY <1>1, <1>12, <1>14
  <2> QED BY <1>6, <2>1, SyncsSound DEF BackupsInv
<1>16. ASSUME NEW b \in Jobs PROVE JobSound(b)'
  <2>1. CASE b = a
    <3>1. job'[b].at \notin Building \cup {"base"}
      BY <1>10, <1>12, <2>1 DEF Building
    <3> QED BY <3>1, JobRests
  <2>2. CASE b # a
    BY <1>1, <1>6, <1>12, <2>2, SyncsJob DEF BackupsInv
  <2> QED BY <2>1, <2>2
<1>17. PruneSound'
  <2>1. CASE a = "daemon"
    <3>1. ASSUME NEW e \in Stamped' PROVE dirs'[e].disk = {"final"}
      <4>1. e \in Stamped
        BY <1>6, <3>1, SyncsNames
      <4>2. job[a].from = 0 /\ dirs[e].label # Root
        BY <2>1, <4>1 DEF BackupsInv, PruneSound, Stamped, Operators, Root
      <4> QED BY <1>4, <1>7, <4>1, <4>2 DEF Stamped
    <3>2. job'["operator"] = job["operator"] /\ job'["daemon"] = j
      BY <1>12, <1>14, <2>1
    <3> QED BY <1>10, <2>1, <3>1, <3>2 DEF BackupsInv, PruneSound, Pruning
  <2>2. CASE a = "operator"
    <3>1. job'["daemon"] = job["daemon"] /\ job'["operator"] = j
      BY <1>12, <1>14, <2>2
    <3>2. /\ Stamped' = Stamped
          /\ \A e \in Stamped : dirs[e].disk = {"final"} => dirs'[e].disk = {"final"}
          /\ \A e \in Ids : dirs[e].name = "deleting" =>
                              dirs'[e].name = "deleting" /\ dirs'[e].label = dirs[e].label
      BY <1>6, SyncsNames DEF Stamped
    <3>3. j.at = "idle"
      BY <1>10, <2>2
    <3> QED BY <1>10, <3>1, <3>2, <3>3 DEF BackupsInv, PruneSound, Pruning
  <2> QED BY <1>14, <2>1, <2>2
<1>18. ToldSound'
  <2>1. Durables \subseteq Durables' /\ (\A e \in Durables : dirs'[e].label = dirs[e].label) /\ Stamped' = Stamped
    BY <1>6, SyncsNames
  <2>2. d \in Durables' /\ dirs'[d].label = dirs[d].label
    BY <1>3, <1>8 DEF Durables
  <2>3. \A l \in told' : l > Operators \/ \E e \in Durables' : dirs'[e].label = l
    <3> SUFFICES ASSUME NEW l \in told', ~(l > Operators) PROVE \E e \in Durables' : dirs'[e].label = l
      OBVIOUS
    <3>1. CASE l \in told
      <4>1. PICK e \in Durables : dirs[e].label = l
        BY <3>1 DEF BackupsInv, ToldSound
      <4> QED BY <2>1, <4>1
    <3>2. CASE l = dirs[d].label
      BY <2>2, <3>2
    <3> QED BY <1>9, <3>1, <3>2
  <2>4. /\ Cardinality(Counted) \in Nat /\ Cardinality(Stamps) \in Nat /\ Keep \in Nat
        /\ IsFiniteSet(Counted) /\ IsFiniteSet(Counted') /\ Cardinality(Counted') \in Nat /\ IsFiniteSet(Stamps)
    <3>1. Counted' \subseteq Ids
      BY DEF Counted, Durables
    <3>2. IsFiniteSet(Counted')
      BY <3>1, IdsFinite, FS_Subset
    <3> QED BY <1>1, <3>2, CountsAre, FS_CardinalityType
  <2>5. Cardinality(Counted) >= IF Cardinality(Stamps) < Keep THEN Cardinality(Stamps) ELSE Keep
    BY DEF BackupsInv, ToldSound
  <2>6. CASE a = "operator"
    <3>1. Stamps' = Stamps
      BY <1>3, <1>9, <2>6 DEF Stamps
    <3>2. job'["daemon"] = job["daemon"]
      BY <1>12, <1>14, <2>6
    <3>3. Counted \subseteq Counted'
      BY <2>1, <3>2 DEF Counted, Spare
    <3>4. Cardinality(Counted) <= Cardinality(Counted')
      BY <2>4, <3>3, FS_Subset
    <3> QED BY <2>3, <2>4, <2>5, <3>1, <3>4 DEF ToldSound
  <2>7. CASE a = "daemon"
    <3>1. Stamps' = Stamps \cup {dirs[d].label}
      BY <1>3, <1>9, <2>7 DEF Stamps
    <3>2. Cardinality(Stamps') <= Cardinality(Stamps) + 1 /\ Cardinality(Stamps') \in Nat
      <4>1. Cardinality(Stamps \cup {dirs[d].label})
              = IF dirs[d].label \in Stamps THEN Cardinality(Stamps) ELSE Cardinality(Stamps) + 1
        BY <2>4, FS_AddElement
      <4> QED BY <2>4, <3>1, <4>1
    <3>3. job'["daemon"].victims = {} /\ job'["daemon"].at = "list"
      BY <1>10, <1>12, <1>14, <2>7
    <3>4. job["daemon"].victims = {} /\ job["daemon"].dir = d /\ job["daemon"].at = "base"
      BY <1>1, <1>2, <2>7 DEF BackupsInv, PruneSound
    <3>5. d \in Stamped /\ d \notin Counted
      BY <1>3, <2>7, <3>4 DEF Stamped, Counted, Spare
    <3>6. Counted \cup {d} \subseteq Counted'
      BY <2>1, <2>2, <3>3, <3>5 DEF Counted, Spare
    <3>7. Cardinality(Counted \cup {d}) = Cardinality(Counted) + 1 /\ IsFiniteSet(Counted \cup {d})
      BY <2>4, <3>5, FS_AddElement
    <3>8. Cardinality(Counted \cup {d}) <= Cardinality(Counted')
      BY <2>4, <3>6, FS_Subset
    <3> QED BY <2>3, <2>4, <2>5, <3>2, <3>7, <3>8 DEF ToldSound
  <2> QED BY <1>14, <2>6, <2>7
<1> QED BY <1>13, <1>15, <1>16, <1>17, <1>18 DEF BackupsInv

-----------------------------------------------------------------------------
(* Steps that leave the directories, and prunes. *)

\* The daemon or the operator goes on, or ends, without a build.
LEMMA RestKeeps ==
  ASSUME BackupsAssumption, BackupsInv, UNCHANGED <<now, dirs, told>>, NEW a \in Jobs, NEW j \in Stages,
         job' = [job EXCEPT ![a] = j], job[a].at # "retired",
         j.at \in {"idle", "tick"} \cup Pruning, j.from = 0, j.at \notin {"retired", "remove"},
         a = "operator" => j.at = "idle" /\ j.victims = {},
         j.at \in Pruning => job[a].at \in Pruning,
         j.victims \subseteq Stamped, j.victims # {} <=> j.at = "retire",
         Cardinality(Counted') >= IF Cardinality(Stamps) < Keep THEN Cardinality(Stamps) ELSE Keep
  PROVE  BackupsInv'
<1>1. BackupsTyped /\ a \in {"daemon", "operator"} /\ "daemon" \in Jobs /\ "operator" \in Jobs
  BY DEF BackupsInv, Jobs
<1>2. job' \in [Jobs -> Stages] /\ job'[a] = j /\ \A b \in Jobs \ {a} : job'[b] = job[b]
  BY <1>1 DEF BackupsTyped
<1>3. BackupsTyped'
  BY <1>1, <1>2 DEF BackupsTyped
<1>4. ASSUME NEW e \in Ids PROVE DirSound(e)'
  <2>1. job["daemon"].at = "retired" => job'["daemon"] = job["daemon"]
    BY <1>1, <1>2
  <2> QED BY <2>1, DirKeeps DEF BackupsInv
<1>5. ASSUME NEW b \in Jobs PROVE JobSound(b)'
  <2>1. CASE b = a
    <3>1. job'[b].at \notin Building \cup {"base"}
      BY <1>2, <2>1 DEF Building, Pruning
    <3> QED BY <3>1, JobRests
  <2>2. CASE b # a
    BY <1>2, <2>2, JobKeeps DEF BackupsInv
  <2> QED BY <2>1, <2>2
<1>6. Stamped' = Stamped /\ Durables' = Durables /\ Stamps' = Stamps
  BY DEF Stamped, Durables, Stamps
<1>7. PruneSound'
  <2>1. CASE a = "daemon"
    <3>1. job'["daemon"] = j /\ job'["operator"] = job["operator"]
      BY <1>1, <1>2, <2>1
    <3>2. j.at \in Pruning => \A e \in Stamped' : dirs'[e].disk = {"final"}
      BY <1>6, <2>1 DEF BackupsInv, PruneSound
    <3> QED BY <1>6, <3>1, <3>2 DEF BackupsInv, PruneSound
  <2>2. CASE a = "operator"
    <3>1. job'["daemon"] = job["daemon"] /\ job'["operator"] = j
      BY <1>1, <1>2, <2>2
    <3> QED BY <1>6, <2>2, <3>1 DEF BackupsInv, PruneSound, Pruning
  <2> QED BY <1>1, <2>1, <2>2
<1>8. ToldSound'
  BY <1>6 DEF BackupsInv, ToldSound
<1> QED BY <1>3, <1>4, <1>5, <1>7, <1>8 DEF BackupsInv

\* What is counted only grows.
LEMMA CountedGrows ==
  ASSUME BackupsAssumption, BackupsInv, UNCHANGED <<dirs, told>>, Spare' \subseteq Spare
  PROVE  Cardinality(Counted') >= IF Cardinality(Stamps) < Keep THEN Cardinality(Stamps) ELSE Keep
<1>1. Counted \subseteq Counted' /\ Counted' \subseteq Ids
  BY DEF Counted, Durables, Stamped
<1>2. IsFiniteSet(Counted')
  BY <1>1, IdsFinite, FS_Subset
<1>3. Cardinality(Counted) <= Cardinality(Counted') /\ Cardinality(Counted') \in Nat
  BY <1>1, <1>2, FS_Subset, FS_CardinalityType
<1>4. Cardinality(Counted) \in Nat /\ Cardinality(Stamps) \in Nat /\ Keep \in Nat
  BY CountsAre DEF BackupsInv
<1>5. Cardinality(Counted) >= IF Cardinality(Stamps) < Keep THEN Cardinality(Stamps) ELSE Keep
  BY DEF BackupsInv, ToldSound
<1> HIDE DEF Counted
<1> QED BY <1>3, <1>4, <1>5

\* A job ends.
LEMMA EndKeeps ==
  ASSUME BackupsAssumption, BackupsInv, UNCHANGED <<now, dirs, told>>, NEW a \in Jobs,
         job' = [job EXCEPT ![a] = NoJob], job[a].at # "retired"
  PROVE  BackupsInv'
<1>1. NoJob \in Stages /\ NoJob.at = "idle" /\ NoJob.from = 0 /\ NoJob.victims = {}
  BY NothingTyped DEF NoJob
<1>2. BackupsTyped /\ "daemon" \in Jobs
  BY DEF BackupsInv, Jobs
<1>3. job'["daemon"] = job["daemon"] \/ job'["daemon"] = NoJob
  BY <1>2 DEF BackupsTyped
<1>4. Spare' \subseteq Spare
  BY <1>1, <1>3 DEF Spare
<1>5. Cardinality(Counted') >= IF Cardinality(Stamps) < Keep THEN Cardinality(Stamps) ELSE Keep
  BY <1>4, CountedGrows
<1>6. NoJob.at \notin Pruning
  BY <1>1 DEF Pruning
<1> QED BY <1>1, <1>5, <1>6, RestKeeps

LEMMA SyncBaseFailsKeeps == ASSUME BackupsAssumption, BackupsInv, NEW a \in Jobs, SyncBaseFails(a) PROVE BackupsInv'
BY EndKeeps DEF SyncBaseFails, Ends

\* Of what is listed, at least Keep are no victims when there are any: the
\* victim with the fewest younger ones has Keep of them, and none is a victim.
LEMMA ListSpares ==
  ASSUME BackupsAssumption, BackupsInv, job["daemon"].at = "list",
         NEW V, V = {d \in Listed : Cardinality(Younger(d)) >= Keep}, V # {}
  PROVE  /\ V \subseteq Stamped
         /\ Cardinality((Durables \cap Stamped) \ V) >= Keep
<1>1. Keep \in Nat /\ BackupsTyped /\ job["daemon"].at \in Pruning
  BY DEF BackupsAssumption, BackupsInv, Pruning
<1>2. Listed \subseteq Durables \cap Stamped
  <2> SUFFICES ASSUME NEW d \in Listed PROVE d \in Durables /\ d \in Stamped
    OBVIOUS
  <2>1. d \in Ids /\ dirs[d].label > Operators /\ dirs[d].name = "final"
    BY DEF Listed, Complete
  <2>2. dirs[d].kind # "old"
    <3>1. dirs[d].kind = "old" => dirs[d].parts \subseteq {"index"}
      BY <2>1 DEF BackupsInv, DirSound
    <3>2. "manifest" \in dirs[d].parts \/ Databases \subseteq dirs[d].parts
      BY DEF Listed, Complete
    <3> QED BY <3>1, <3>2 DEF Databases
  <2>3. d \in Stamped
    BY <2>1 DEF Stamped
  <2>4. dirs[d].disk = {"final"}
    BY <1>1, <2>3 DEF BackupsInv, PruneSound
  <2> QED BY <2>1, <2>2, <2>3, <2>4 DEF Durables
<1>3. Listed \subseteq Ids
  BY DEF Listed
<1>4. \A d : Younger(d) \subseteq Listed /\ IsFiniteSet(Younger(d)) /\ Cardinality(Younger(d)) \in Nat
  <2> TAKE d
  <2>1. Younger(d) \subseteq Listed
    BY DEF Younger
  <2>2. IsFiniteSet(Younger(d))
    BY <1>3, <2>1, IdsFinite, FS_Subset
  <2> QED BY <2>1, <2>2, FS_CardinalityType
<1> DEFINE T == {Cardinality(Younger(d)) : d \in V}
<1>5. PICK m \in T : \A y \in T : m <= y
  <2>1. T \subseteq Nat /\ T # {}
    BY <1>4
  <2> HIDE DEF T
  <2> QED BY <2>1, Least
<1>6. PICK v \in V : m = Cardinality(Younger(v))
  BY <1>5
<1>7. ASSUME NEW e \in Younger(v) PROVE e \notin V
  <2>1. e \in Listed /\ v \in Listed /\ dirs[e].label > dirs[v].label
    BY <1>7 DEF Younger
  <2>2. \A d \in Ids : dirs[d].label \in Int
    BY <1>1, DirTyped
  <2>3. Younger(e) \subseteq Younger(v) /\ e \notin Younger(e)
    BY <1>3, <2>1, <2>2 DEF Younger
  <2>4. Cardinality(Younger(e)) <= Cardinality(Younger(v)) /\ Cardinality(Younger(e)) # Cardinality(Younger(v))
    BY <1>4, <1>7, <2>3, FS_Subset
  <2>5. Cardinality(Younger(e)) < m
    BY <1>4, <1>6, <2>4
  <2>6. ASSUME e \in V PROVE FALSE
    <3>1. Cardinality(Younger(e)) \in T
      BY <2>6
    <3>2. m <= Cardinality(Younger(e))
      BY <1>5, <3>1
    <3> QED BY <1>4, <1>6, <2>5, <3>2
  <2> QED BY <2>6
<1> DEFINE W == (Durables \cap Stamped) \ V
<1>8. Younger(v) \subseteq W /\ W \subseteq Ids
  BY <1>2, <1>4, <1>7 DEF Durables
<1>9. IsFiniteSet(W) /\ Cardinality(W) \in Nat
  BY <1>8, IdsFinite, FS_Subset, FS_CardinalityType
<1>10. Cardinality(Younger(v)) <= Cardinality(W)
  BY <1>8, <1>9, FS_Subset
<1>11. Cardinality(Younger(v)) >= Keep
  OBVIOUS
<1> HIDE DEF W
<1>12. Cardinality(W) >= Keep
  BY <1>1, <1>4, <1>9, <1>10, <1>11
<1> QED BY <1>2, <1>12 DEF W

LEMMA ListKeeps == ASSUME BackupsAssumption, BackupsInv, List PROVE BackupsInv'
<1> DEFINE V == {d \in Listed : Cardinality(Younger(d)) >= Keep}
           j == [NoJob EXCEPT !.at = "retire", !.victims = V]
<1>1. BackupsTyped /\ "daemon" \in Jobs /\ job["daemon"].at = "list" /\ UNCHANGED <<now, dirs, told>>
  BY DEF BackupsInv, Jobs, List
<1>2. CASE V = {}
  <2>1. job' = [job EXCEPT !["daemon"] = NoJob]
    BY <1>2 DEF List
  <2> QED BY <1>1, <2>1, EndKeeps
<1>3. CASE V # {}
  <2>1. V \subseteq Stamped /\ Cardinality((Durables \cap Stamped) \ V) >= Keep
    <3> HIDE DEF V
    <3>1. V = {d \in Listed : Cardinality(Younger(d)) >= Keep}
      BY DEF V
    <3> QED BY <1>1, <1>3, <3>1, ListSpares
  <2>2. V \subseteq Ids
    BY DEF Listed
  <2>3. j \in Stages /\ j.at = "retire" /\ j.victims = V /\ j.from = 0
    <3> HIDE DEF V
    <3> QED BY <2>2, NothingTyped DEF NoJob, Stages, Pruning
  <2>4. job' = [job EXCEPT !["daemon"] = j]
    BY <1>3 DEF List
  <2> HIDE DEF j
  <2>5. job'["daemon"] = j
    BY <1>1, <2>4 DEF BackupsTyped
  <2>6. Spare' = V
    BY <2>3, <2>5 DEF Spare
  <2>7. Counted' = (Durables \cap Stamped) \ V
    BY <1>1, <2>6 DEF Counted, Durables, Stamped
  <2>8. Cardinality(Stamps) \in Nat /\ Keep \in Nat
    BY <1>1, CountsAre
  <2>9. Cardinality(Counted') \in Nat
    <3>1. Counted' \subseteq Ids
      BY DEF Counted, Durables
    <3> QED BY <3>1, IdsFinite, FS_Subset, FS_CardinalityType
  <2>10. Cardinality(Counted') >= IF Cardinality(Stamps) < Keep THEN Cardinality(Stamps) ELSE Keep
    <3> HIDE DEF V
    <3> QED BY <2>1, <2>7, <2>8, <2>9
  <2>11. j.at \in Pruning /\ job["daemon"].at \in Pruning
    BY <1>1, <2>3 DEF Pruning
  <2> HIDE DEF V
  <2> QED BY <1>1, <1>3, <2>1, <2>3, <2>4, <2>10, <2>11, RestKeeps
<1> QED BY <1>2, <1>3

\* The victim is one of them: each has a stamp, and one has the least.
LEMMA VictimIs ==
  ASSUME BackupsInv, job["daemon"].at = "retire"
  PROVE  LET V == job["daemon"].victims
             d == CHOOSE v \in V : \A w \in V : dirs[v].label <= dirs[w].label
         IN d \in V /\ d \in Stamped
<1> DEFINE V == job["daemon"].victims
           T == {dirs[v].label : v \in V}
<1>1. V # {} /\ V \subseteq Stamped /\ BackupsTyped
  BY DEF BackupsInv, PruneSound
<1>2. \A v \in V : dirs[v].label \in Nat
  BY <1>1, DirTyped DEF Stamped, Operators
<1>3. T \subseteq Nat /\ T # {}
  BY <1>1, <1>2
<1>4. PICK m \in T : \A y \in T : m <= y
  <2> HIDE DEF T
  <2> QED BY <1>3, Least
<1>5. PICK v \in V : m = dirs[v].label
  BY <1>4
<1>6. \A w \in V : dirs[v].label <= dirs[w].label
  BY <1>4, <1>5
<1> HIDE DEF V
<1> QED BY <1>1, <1>6 DEF V

LEMMA RetireRenameKeeps == ASSUME BackupsAssumption, BackupsInv, RetireRename PROVE BackupsInv'
<1>1. BackupsTyped /\ "daemon" \in Jobs /\ "operator" \in Jobs /\ job["daemon"].at = "retire"
      /\ now' = now /\ told' = told
  BY DEF BackupsInv, Jobs, RetireRename
<1>2. PICK d \in Stamped :
        /\ d \in job["daemon"].victims
        /\ \/ /\ dirs' = Renamed(d, "deleting")
              /\ job' = [job EXCEPT !["daemon"].at = "retired", !["daemon"].dir = d,
                                    !["daemon"].victims = @ \ {d}]
           \/ UNCHANGED dirs /\ Ends("daemon")
  BY <1>1, VictimIs DEF RetireRename
<1>3. CASE UNCHANGED dirs /\ Ends("daemon")
  BY <1>1, <1>3, EndKeeps DEF Ends
<1>4. CASE /\ dirs' = Renamed(d, "deleting")
           /\ job' = [job EXCEPT !["daemon"].at = "retired", !["daemon"].dir = d,
                                 !["daemon"].victims = @ \ {d}]
  <2> DEFINE x == [dirs[d] EXCEPT !.name = "deleting", !.disk = @ \cup {"deleting"}]
             j == [job["daemon"] EXCEPT !.at = "retired", !.dir = d, !.victims = @ \ {d}]
  <2>1. d \in Ids /\ dirs[d].label > Operators /\ dirs[d].name = "final"
    BY DEF Stamped
  <2>2. /\ x \in Directories /\ x.kept = dirs[d].kept /\ x.mtime = dirs[d].mtime /\ x.name = "deleting"
        /\ x.kind = dirs[d].kind /\ x.label = dirs[d].label /\ x.disk = dirs[d].disk \cup {"deleting"}
        /\ x.parts = dirs[d].parts
    BY <1>1, <2>1, DirTyped DEF Directories, Names
  <2>3. /\ j \in Stages /\ j.at = "retired" /\ j.dir = d /\ j.from = job["daemon"].from
        /\ j.victims = job["daemon"].victims \ {d}
    BY <1>1, <2>1, JobTyped DEF Stages, Pruning
  <2>4. dirs' = [dirs EXCEPT ![d] = x] /\ job' = [job EXCEPT !["daemon"] = j]
    BY <1>1, <1>4, <2>1 DEF Renamed, BackupsTyped
  <2> HIDE DEF x, j
  <2>5. dirs' \in [Ids -> Directories] /\ dirs'[d] = x /\ \A e \in Ids \ {d} : dirs'[e] = dirs[e]
    BY <1>1, <2>1, <2>2, <2>4 DEF BackupsTyped
  <2>6. job' \in [Jobs -> Stages] /\ job'["daemon"] = j /\ job'["operator"] = job["operator"]
    BY <1>1, <2>3, <2>4 DEF BackupsTyped
  <2>7. BackupsTyped'
    BY <1>1, <2>5, <2>6 DEF BackupsTyped
  <2>8. ASSUME NEW e \in Ids PROVE DirSound(e)'
    <3>1. CASE e = d
      <4>1. DirSound(d)
        BY <2>1 DEF BackupsInv
      <4> QED BY <2>1, <2>2, <2>3, <2>5, <2>6, <3>1, <4>1 DEF DirSound, Certain
    <3>2. CASE e # d
      <4>1. job["daemon"].at # "retired" /\ dirs'[e] = dirs[e]
        BY <1>1, <2>5, <3>2
      <4> QED BY <4>1, DirKeeps DEF BackupsInv
    <3> QED BY <3>1, <3>2
  <2>9. ASSUME NEW b \in Jobs PROVE JobSound(b)'
    <3>1. CASE b = "daemon"
      <4>1. job'[b].at \notin Building \cup {"base"}
        BY <2>3, <2>6, <3>1 DEF Building
      <4> QED BY <4>1, JobRests
    <3>2. CASE b = "operator"
      <4>1. job[b].at \in Building \cup {"base"} => job[b].dir \in Ids /\ job[b].dir # d
        BY <2>1, <3>2 DEF BackupsInv, JobSound, Owns
      <4>2. JobSound(b) /\ job'[b] = job[b]
        BY <2>6, <3>2 DEF BackupsInv
      <4> QED BY <1>1, <2>5, <4>1, <4>2, JobKeeps
    <3> QED BY <3>1, <3>2 DEF Jobs
  <2>10. PruneSound'
    <3>1. \A e \in Ids : e \in Stamped' <=> e \in Stamped /\ e # d
      BY <2>1, <2>2, <2>5 DEF Stamped
    <3>2. \A e \in Stamped' : dirs'[e].disk = {"final"}
      <4> SUFFICES ASSUME NEW e \in Stamped' PROVE dirs'[e].disk = {"final"}
        OBVIOUS
      <4>1. e \in Stamped /\ e # d /\ dirs'[e] = dirs[e]
        BY <2>5, <3>1 DEF Stamped
      <4>2. job["daemon"].at \in Pruning
        BY <1>1 DEF Pruning
      <4> QED BY <4>1, <4>2 DEF BackupsInv, PruneSound
    <3>3. j.victims \subseteq Stamped'
      <4>1. job["daemon"].victims \subseteq Stamped /\ Stamped \subseteq Ids
        BY DEF BackupsInv, PruneSound, Stamped
      <4> QED BY <2>3, <3>1, <4>1
    <3>4. dirs'[d].name = "deleting" /\ dirs'[d].label > Operators
      BY <2>1, <2>2, <2>5
    <3>5. job["daemon"].from = 0 /\ job["operator"].at \notin Pruning \cup {"tick"} /\ job["operator"].victims = {}
      BY DEF BackupsInv, PruneSound
    <3> QED BY <2>1, <2>3, <2>6, <3>2, <3>3, <3>4, <3>5 DEF PruneSound
  <2>11. ToldSound'
    <3>1. ASSUME NEW e \in Durables \ Spare
          PROVE  e \in Durables' \ Spare' /\ dirs'[e].label = dirs[e].label
      <4>1. e \in Ids /\ e # d
        BY <1>2, <3>1 DEF Durables, Spare
      <4>2. dirs'[e] = dirs[e]
        BY <2>5, <4>1
      <4>3. e \notin Spare'
        BY <2>3, <2>6, <3>1 DEF Spare
      <4> QED BY <3>1, <4>2, <4>3 DEF Durables
    <3> QED BY <1>1, <3>1, ToldKeeps
  <2> QED BY <2>7, <2>8, <2>9, <2>10, <2>11 DEF BackupsInv
<1> QED BY <1>2, <1>3, <1>4

\* Where a prune is not cut off here, the victim's old name is gone for good.
LEMMA RetireSyncKeeps ==
  ASSUME BackupsAssumption, BackupsInv, ~Unsynced, RetireSync PROVE BackupsInv'
<1>1. /\ BackupsTyped /\ "daemon" \in Jobs /\ "operator" \in Jobs /\ job["daemon"].at = "retired"
      /\ now' = now /\ told' = told /\ dirs' = Synced(dirs, FALSE) /\ Goes("daemon", "remove")
  BY DEF BackupsInv, Jobs, RetireSync
<1>2. PICK d \in Ids : d = job["daemon"].dir /\ dirs[d].name = "deleting" /\ dirs[d].label > Operators
  BY <1>1 DEF BackupsInv, PruneSound
<1> DEFINE j == [job["daemon"] EXCEPT !.at = "remove"]
<1>3. /\ j \in Stages /\ j.at = "remove" /\ j.dir = d /\ j.from = job["daemon"].from
      /\ j.victims = job["daemon"].victims
  BY <1>1, <1>2, JobTyped DEF Stages, Pruning
<1>4. job' = [job EXCEPT !["daemon"] = j]
  BY <1>1 DEF Goes, BackupsTyped
<1> HIDE DEF j
<1>5. job' \in [Jobs -> Stages] /\ job'["daemon"] = j /\ job'["operator"] = job["operator"]
  BY <1>1, <1>3, <1>4 DEF BackupsTyped
<1>6. dirs' \in [Ids -> Directories] /\ \A e \in Ids : Syncs(e)
  BY <1>1, SyncedIs DEF Syncs
<1>7. BackupsTyped'
  BY <1>1, <1>5, <1>6 DEF BackupsTyped
<1>8. dirs'[d].disk = {"deleting"} /\ dirs'[d].name = "deleting" /\ dirs'[d].label > Operators
  <2>1. (dirs[d].label = Root) = FALSE
    BY <1>2 DEF Root, Operators
  <2> QED BY <1>1, <1>2, <2>1, SyncedIs
<1>9. ASSUME NEW e \in Ids PROVE DirSound(e)'
  <2>1. job["daemon"].dir = e => "final" \notin dirs'[e].disk
    BY <1>2, <1>8
  <2> QED BY <1>6, <2>1, SyncsSound DEF BackupsInv
<1>10. ASSUME NEW b \in Jobs PROVE JobSound(b)'
  <2>1. CASE b = "daemon"
    <3>1. job'[b].at \notin Building \cup {"base"}
      BY <1>3, <1>5, <2>1 DEF Building
    <3> QED BY <3>1, JobRests
  <2>2. CASE b = "operator"
    BY <1>1, <1>5, <1>6, <2>2, SyncsJob DEF BackupsInv
  <2> QED BY <2>1, <2>2 DEF Jobs
<1>11. PruneSound'
  <2>1. Stamped' = Stamped /\ \A e \in Stamped' : dirs'[e].disk = {"final"}
    <3>1. Stamped' = Stamped
      BY <1>6, SyncsNames
    <3>2. job["daemon"].at \in Pruning
      BY <1>1 DEF Pruning
    <3>3. \A e \in Stamped : dirs[e].disk = {"final"} /\ dirs[e].name = "final" /\ e \in Ids
      BY <3>2 DEF BackupsInv, PruneSound, Stamped
    <3> QED BY <1>6, <3>1, <3>3, SyncsNames
  <2> QED BY <1>2, <1>3, <1>5, <1>8, <2>1 DEF BackupsInv, PruneSound
<1>12. ToldSound'
  <2>1. Spare' = Spare
    BY <1>1, <1>3, <1>5 DEF Spare
  <2>2. Durables \subseteq Durables' /\ \A e \in Durables : dirs'[e].label = dirs[e].label
    BY <1>6, SyncsNames
  <2>3. \A e \in Durables \ Spare : e \in Durables' \ Spare' /\ dirs'[e].label = dirs[e].label
    BY <2>1, <2>2
  <2> QED BY <1>1, <2>3, ToldKeeps
<1> QED BY <1>7, <1>9, <1>10, <1>11, <1>12 DEF BackupsInv

\* Directories without a backup's name go, while no build is in one of them.
LEMMA GoneKeeps ==
  ASSUME BackupsAssumption, BackupsInv, now' = now, told' = told, NEW G \in SUBSET Ids, NEW j \in Stages,
         dirs' \in [Ids -> Directories], \A e \in Ids \ G : dirs'[e] = dirs[e],
         \A e \in G : /\ dirs[e].name # "final" /\ "final" \notin dirs[e].disk
                      /\ dirs'[e] \in {Removed(e), Litter(e)},
         job' = [job EXCEPT !["daemon"] = j], job["daemon"].at # "retired",
         \A b \in Jobs : job[b].at \in Building => job[b].dir \notin G,
         j.at \in {"idle", "tick", "retire"}, j.from = 0, j.victims = {} \/ j.victims = job["daemon"].victims,
         j.at = "retire" => job["daemon"].at \in Pruning,
         j.victims # {} <=> j.at = "retire"
  PROVE  BackupsInv'
<1>1. BackupsTyped /\ "daemon" \in Jobs /\ "operator" \in Jobs
  BY DEF BackupsInv, Jobs
<1>2. job' \in [Jobs -> Stages] /\ job'["daemon"] = j /\ job'["operator"] = job["operator"]
  BY <1>1 DEF BackupsTyped
<1>3. BackupsTyped'
  BY <1>1, <1>2 DEF BackupsTyped
<1>4. ASSUME NEW e \in Ids PROVE DirSound(e)'
  <2>1. CASE e \in G
    BY <2>1, RemovedSound
  <2>2. CASE e \notin G
    BY <2>2, DirKeeps DEF BackupsInv
  <2> QED BY <2>1, <2>2
<1>5. ASSUME NEW b \in Jobs PROVE JobSound(b)'
  <2>1. CASE b = "daemon"
    <3>1. job'[b].at \notin Building \cup {"base"}
      BY <1>2, <2>1 DEF Building
    <3> QED BY <3>1, JobRests
  <2>2. CASE b = "operator"
    <3>1. JobSound(b) /\ job'[b] = job[b]
      BY <1>2, <2>2 DEF BackupsInv
    <3>2. job[b].at \in Building \cup {"base"} => job[b].dir \in Ids \ G
      BY <3>1 DEF JobSound, Owns
    <3> QED BY <3>1, <3>2, JobKeeps
  <2> QED BY <2>1, <2>2 DEF Jobs
<1>6. \A e \in Ids : e \in Stamped' <=> e \in Stamped
  <2> SUFFICES ASSUME NEW e \in Ids PROVE e \in Stamped' <=> e \in Stamped
    OBVIOUS
  <2>1. CASE e \in G
    <3>1. dirs'[e].name \in {"none", dirs[e].name}
      BY <2>1, RemovedSound
    <3> QED BY <2>1, <3>1 DEF Stamped
  <2>2. CASE e \notin G
    BY <2>2 DEF Stamped
  <2> QED BY <2>1, <2>2
<1>7. Stamped' = Stamped /\ \A e \in Stamped : dirs'[e] = dirs[e]
  BY <1>6 DEF Stamped
<1>8. PruneSound'
  <2>1. j.at \in Pruning => \A e \in Stamped' : dirs'[e].disk = {"final"}
    BY <1>7 DEF BackupsInv, PruneSound, Pruning
  <2>2. j.victims \subseteq Stamped'
    BY <1>7 DEF BackupsInv, PruneSound
  <2>3. job["operator"].at \notin Pruning \cup {"tick"} /\ job["operator"].victims = {}
    BY DEF BackupsInv, PruneSound
  <2> QED BY <1>2, <2>1, <2>2, <2>3 DEF PruneSound
<1>9. ToldSound'
  <2>1. Spare' \subseteq Spare
    BY <1>2 DEF Spare
  <2>2. ASSUME NEW e \in Durables \ Spare PROVE e \in Durables' \ Spare' /\ dirs'[e].label = dirs[e].label
    <3>1. e \in Ids \ G
      BY DEF Durables
    <3> QED BY <2>1, <3>1 DEF Durables
  <2> QED BY <2>2, ToldKeeps
<1> QED BY <1>3, <1>4, <1>5, <1>8, <1>9 DEF BackupsInv

LEMMA RetireRemoveKeeps == ASSUME BackupsAssumption, BackupsInv, RetireRemove PROVE BackupsInv'
<1>1. /\ BackupsTyped /\ "daemon" \in Jobs /\ job["daemon"].at = "remove" /\ now' = now /\ told' = told
      /\ job["daemon"].at \in Pruning
  BY DEF BackupsInv, Jobs, RetireRemove, Pruning
<1>2. PICK d \in Ids : d = job["daemon"].dir /\ dirs[d].name = "deleting" /\ dirs[d].label > Operators
  BY <1>1 DEF BackupsInv, PruneSound
<1>3. "final" \notin dirs[d].disk
  BY <1>1, <1>2 DEF BackupsInv, DirSound
<1>4. PICK x \in {Removed(d), Litter(d)} :
        /\ dirs' = [dirs EXCEPT ![d] = x]
        /\ IF dirs'[d].name = "none" /\ job["daemon"].victims # {} THEN Goes("daemon", "retire")
           ELSE Ends("daemon")
  BY <1>2 DEF RetireRemove, Removals
<1>5. x \in Directories
  BY <1>1, RemovedTyped
<1>6. dirs' \in [Ids -> Directories] /\ dirs'[d] = x /\ \A e \in Ids \ {d} : dirs'[e] = dirs[e]
  BY <1>1, <1>4, <1>5 DEF BackupsTyped
<1>7. \A b \in Jobs : job[b].at \in Building => job[b].dir # d
  BY <1>2 DEF BackupsInv, JobSound
<1>8. job["daemon"].from = 0
  BY DEF BackupsInv, PruneSound
<1>9. PICK j \in Stages :
        /\ job' = [job EXCEPT !["daemon"] = j] /\ j.at \in {"idle", "tick", "retire"} /\ j.from = 0
        /\ j.victims = {} \/ j.victims = job["daemon"].victims
        /\ j.victims # {} <=> j.at = "retire"
  <2>1. CASE Ends("daemon")
    <3>1. NoJob \in Stages /\ NoJob.at = "idle" /\ NoJob.from = 0 /\ NoJob.victims = {}
      BY NothingTyped DEF NoJob
    <3> QED BY <2>1, <3>1 DEF Ends
  <2>2. CASE job["daemon"].victims # {} /\ Goes("daemon", "retire")
    <3> DEFINE j == [job["daemon"] EXCEPT !.at = "retire"]
    <3>1. /\ j \in Stages /\ j.at = "retire" /\ j.from = 0 /\ j.victims = job["daemon"].victims
      BY <1>1, <1>8, JobTyped DEF Stages, Pruning
    <3>2. job' = [job EXCEPT !["daemon"] = j]
      BY <1>1, <2>2 DEF Goes, BackupsTyped
    <3> HIDE DEF j
    <3> QED BY <2>2, <3>1, <3>2
  <2> QED BY <1>4, <2>1, <2>2
<1> DEFINE G == {d}
<1>10. G \in SUBSET Ids /\ \A e \in G : /\ dirs[e].name # "final" /\ "final" \notin dirs[e].disk
                                        /\ dirs'[e] \in {Removed(e), Litter(e)}
  BY <1>2, <1>3, <1>4, <1>6
<1>11. (\A e \in Ids \ G : dirs'[e] = dirs[e]) /\ \A b \in Jobs : job[b].at \in Building => job[b].dir \notin G
  BY <1>6, <1>7
<1> HIDE DEF G
<1> QED BY <1>1, <1>6, <1>9, <1>10, <1>11, GoneKeeps

LEMMA SweepKeeps == ASSUME BackupsAssumption, BackupsInv, Sweep PROVE BackupsInv'
<1>1. BackupsTyped /\ "daemon" \in Jobs /\ job["daemon"] = NoJob /\ now' = now /\ told' = told
  BY DEF BackupsInv, Jobs, Sweep
<1>2. PICK gone \in SUBSET Stale :
        dirs' = [d \in Ids |-> IF d \in gone THEN Removed(d)
                               ELSE IF d \in Stale THEN Litter(d) ELSE dirs[d]]
  BY DEF Sweep
<1>3. Stale \subseteq Ids
  BY DEF Stale
<1>4. dirs' \in [Ids -> Directories]
  <2>1. \A d \in Ids : Removed(d) \in Directories /\ Litter(d) \in Directories /\ dirs[d] \in Directories
    BY <1>1, RemovedTyped, DirTyped
  <2> QED BY <1>2, <2>1
<1>5. \A e \in Ids \ Stale : dirs'[e] = dirs[e]
  BY <1>2
<1>6. \A e \in Stale : dirs'[e] \in {Removed(e), Litter(e)}
  BY <1>2, <1>3
<1>7. NoJob.at = "idle" /\ NoJob.from = 0 /\ NoJob.victims = {} /\ NoJob.dir = 0
  BY DEF NoJob
<1>8. \A e \in Stale : dirs[e].name # "final" /\ "final" \notin dirs[e].disk
  <2> SUFFICES ASSUME NEW e \in Stale PROVE dirs[e].name # "final" /\ "final" \notin dirs[e].disk
    OBVIOUS
  <2>1. e \in Ids /\ dirs[e].name \in {"partial", "deleting"}
    BY DEF Stale
  <2> QED BY <1>1, <1>7, <2>1 DEF BackupsInv, DirSound
<1>9. \A b \in Jobs : job[b].at \in Building => job[b].dir \notin Stale
  <2> SUFFICES ASSUME NEW b \in Jobs, job[b].at \in Building, job[b].dir \in Stale PROVE FALSE
    OBVIOUS
  <2>1. PICK d \in Ids : d = job[b].dir
    BY <1>3
  <2>2. now < dirs[d].mtime + SweepAge
    BY <2>1, BuildIs
  <2>3. now >= dirs[d].mtime + SweepAge /\ dirs[d].mtime \in Nat /\ now \in Nat /\ SweepAge \in Nat
    BY <1>1, <2>1, DirTyped DEF Stale, BackupsTyped, BackupsAssumption
  <2> QED BY <2>2, <2>3
<1> DEFINE j == [NoJob EXCEPT !.at = "tick"]
<1>10. j \in Stages /\ j.at = "tick" /\ j.from = 0 /\ j.victims = {}
  BY <1>7, NothingTyped DEF NoJob, Stages
<1>11. job' = [job EXCEPT !["daemon"] = j]
  BY <1>1 DEF Sweep, Goes, BackupsTyped
<1> HIDE DEF j
<1> QED BY <1>1, <1>3, <1>4, <1>5, <1>6, <1>7, <1>8, <1>9, <1>10, <1>11, GoneKeeps

-----------------------------------------------------------------------------
(* The clock and the faults. *)

LEMMA ClockKeeps == ASSUME BackupsAssumption, BackupsInv, Tick \/ SetBack PROVE BackupsInv'
<1>1. UNCHANGED <<dirs, job, told>> /\ now' \in Nat \ {0} /\ BackupsTyped /\ now \in Nat
      /\ MaxTime \in Nat /\ SweepAge \in Nat
  BY DEF BackupsInv, BackupsTyped, Tick, SetBack, BackupsAssumption
<1>2. BackupsTyped'
  BY <1>1 DEF BackupsTyped
<1>3. ASSUME NEW a \in Jobs PROVE JobSound(a)'
  <2>1. CASE job[a].at \in Building
    <3>1. PICK d \in Ids : d = job[a].dir
      BY <2>1, BuildIs
    <3>2. now < dirs[d].mtime + SweepAge /\ dirs[d].mtime \in Nat
      BY <1>1, <2>1, <3>1, BuildIs, DirTyped
    <3>3. now' < dirs[d].mtime + SweepAge
      <4>1. CASE Tick
        <5>1. d # 0
          BY DEF Ids
        <5>2. now + 1 < dirs[d].mtime + SweepAge /\ now' = now + 1
          BY <3>1, <4>1, <5>1 DEF Tick
        <5> QED BY <5>2
      <4>2. CASE SetBack
        <5>1. now' = 1 /\ now \in Nat \ {0}
          BY <1>1, <4>2 DEF SetBack, BackupsTyped
        <5> QED BY <1>1, <3>2, <5>1
      <4> QED BY <4>1, <4>2
    <3> QED BY <1>1, <3>1, <3>3 DEF BackupsInv, JobSound, Owns
  <2>2. CASE job[a].at \notin Building
    BY <1>1, <2>2 DEF BackupsInv, JobSound, Owns
  <2> QED BY <2>1, <2>2
<1>4. \A d \in Ids : DirSound(d)'
  BY <1>1, DirKeeps DEF BackupsInv
<1>5. PruneSound'
  BY <1>1 DEF BackupsInv, PruneSound, Stamped
<1>6. ToldSound'
  BY <1>1 DEF BackupsInv, ToldSound, Counted, Durables, Stamped, Spare, Stamps
<1> QED BY <1>2, <1>3, <1>4, <1>5, <1>6 DEF BackupsInv

\* What a power cut leaves of a directory.
LEMMA ImageIs ==
  ASSUME BackupsTyped, NEW d \in Ids, NEW name \in Names, NEW P \in SUBSET Parts
  PROVE  LET x == Image(d, name, P) IN
         /\ x \in Directories
         /\ name = "none" => x = Nothing
         /\ name # "none" => /\ x.kind = dirs[d].kind /\ x.label = dirs[d].label /\ x.name = name
                             /\ x.disk = {name} /\ x.parts = P /\ x.kept = P
<1> DEFINE y == [dirs[d] EXCEPT !.name = name, !.disk = {name}, !.parts = P, !.kept = P]
<1>1. /\ y \in Directories /\ y.kind = dirs[d].kind /\ y.label = dirs[d].label /\ y.name = name
      /\ y.disk = {name} /\ y.parts = P /\ y.kept = P
  BY DirTyped DEF Directories
<1>2. Image(d, name, P) = IF name = "none" THEN Nothing ELSE y
  BY DEF Image
<1> HIDE DEF y
<1> QED BY <1>1, <1>2, NothingTyped

\* Every image is the directory under a name that is not a backup's, and empty,
\* or under a backup's with what is certain of it.
LEMMA ImagesAre ==
  ASSUME BackupsInv, NEW d \in Ids, NEW x \in Images(d)
  PROVE  /\ x \in Directories
         /\ \/ x = Nothing
            \/ /\ x.kind = dirs[d].kind /\ x.label = dirs[d].label /\ x.disk = {x.name}
               /\ x.name \in dirs[d].disk /\ x.kept = x.parts
               /\ x.name # "final" => x.parts = {}
               /\ x.name = "final" => /\ Certain(d) \subseteq x.parts
                                      /\ x.parts \subseteq dirs[d].parts \cup dirs[d].kept
         /\ x = Nothing => dirs[d].disk # {"final"}
<1>1. BackupsTyped /\ dirs[d].disk \subseteq Names /\ dirs[d].parts \subseteq Parts /\ dirs[d].kept \subseteq Parts
  BY DirTyped DEF BackupsInv
<1>2. CASE x \in {Image(d, name, {}) : name \in dirs[d].disk \ {"final"}}
  <2>1. PICK name \in dirs[d].disk \ {"final"} : x = Image(d, name, {})
    BY <1>2
  <2>2. name \in Names /\ {} \in SUBSET Parts
    BY <1>1
  <2>3. /\ x \in Directories
        /\ name = "none" => x = Nothing
        /\ name # "none" => /\ x.kind = dirs[d].kind /\ x.label = dirs[d].label /\ x.name = name
                            /\ x.disk = {name} /\ x.parts = {} /\ x.kept = {}
    BY <1>1, <2>1, <2>2, ImageIs
  <2>4. CASE name = "none"
    BY <2>3, <2>4
  <2>5. CASE name # "none"
    BY <2>1, <2>3, <2>5
  <2> QED BY <2>4, <2>5
<1>3. CASE x \in {Image(d, "final", Certain(d) \cup P) :
                    P \in IF "final" \in dirs[d].disk
                          THEN SUBSET ((dirs[d].parts \cup dirs[d].kept) \ Certain(d)) ELSE {}}
  <2>1. "final" \in dirs[d].disk
    BY <1>3
  <2>2. PICK P \in SUBSET ((dirs[d].parts \cup dirs[d].kept) \ Certain(d)) :
          x = Image(d, "final", Certain(d) \cup P)
    BY <1>3, <2>1
  <2>3. Certain(d) \cup P \in SUBSET Parts /\ Certain(d) \cup P \subseteq dirs[d].parts \cup dirs[d].kept
    BY <1>1 DEF Certain
  <2>4. "final" \in Names
    BY DEF Names
  <2>5. /\ x \in Directories /\ x.kind = dirs[d].kind /\ x.label = dirs[d].label /\ x.name = "final"
        /\ x.disk = {"final"} /\ x.parts = Certain(d) \cup P /\ x.kept = Certain(d) \cup P
    BY <1>1, <2>2, <2>3, <2>4, ImageIs
  <2>6. x # Nothing
    BY <2>5 DEF Nothing
  <2> QED BY <2>1, <2>3, <2>5, <2>6
<1> QED BY <1>2, <1>3 DEF Images

\* Of a name that may be either, a power cut decides.
LEMMA OpenIs ==
  ASSUME BackupsInv, NEW d \in Ids, dirs[d].name # "final", "final" \in dirs[d].disk
  PROVE  Images(d) # {dirs[d]}
<1>1. BackupsTyped /\ "final" \in Names /\ dirs[d].parts \subseteq Parts
  BY DirTyped DEF BackupsInv, Names
<1> DEFINE x == Image(d, "final", Certain(d) \cup {})
<1>2. x \in Images(d)
  BY DEF Images
<1>3. Certain(d) \cup {} \in SUBSET Parts
  BY <1>1 DEF Certain
<1>4. x.name = "final"
  BY <1>1, <1>3, ImageIs
<1> QED BY <1>2, <1>4

LEMMA PowerCutKeeps == ASSUME BackupsAssumption, BackupsInv, PowerCut PROVE BackupsInv'
<1>1. BackupsTyped /\ now' = now /\ told' = told /\ job' = [a \in Jobs |-> NoJob]
  BY DEF BackupsInv, PowerCut
<1> DEFINE open == {d \in Ids : Images(d) # {dirs[d]}}
<1>2. PICK image : /\ \A d \in open : image[d] \in Images(d)
                   /\ dirs' = [d \in Ids |-> IF d \in open THEN image[d] ELSE dirs[d]]
  BY DEF PowerCut
<1>3. ASSUME NEW d \in Ids
      PROVE  /\ dirs'[d] \in Directories
             /\ \/ dirs'[d] = dirs[d] /\ ("final" \in dirs[d].disk => dirs[d].name = "final")
                \/ dirs'[d] \in Images(d)
  <2>1. CASE d \in open
    <3>1. dirs'[d] = image[d] /\ image[d] \in Images(d)
      BY <1>2, <2>1
    <3> QED BY <3>1, ImagesAre
  <2>2. CASE d \notin open
    <3>1. dirs'[d] = dirs[d]
      BY <1>2, <2>2
    <3>2. "final" \in dirs[d].disk => dirs[d].name = "final"
      BY <2>2, OpenIs
    <3> QED BY <1>1, <3>1, <3>2, DirTyped
  <2> QED BY <2>1, <2>2
<1>4. dirs' \in [Ids -> Directories]
  <2>1. \A d \in Ids : (IF d \in open THEN image[d] ELSE dirs[d]) \in Directories
    BY <1>2, <1>3
  <2> HIDE DEF open
  <2> QED BY <1>2, <2>1
<1>5. job' \in [Jobs -> Stages] /\ \A a \in Jobs : job'[a] = NoJob
  BY <1>1, NothingTyped
<1>6. NoJob.at = "idle" /\ NoJob.from = 0 /\ NoJob.victims = {} /\ "daemon" \in Jobs /\ "operator" \in Jobs
  BY DEF NoJob, Jobs
<1>7. BackupsTyped'
  BY <1>1, <1>4, <1>5 DEF BackupsTyped
<1>8. ASSUME NEW d \in Ids PROVE DirSound(d)'
  <2>1. CASE dirs'[d] = dirs[d] /\ ("final" \in dirs[d].disk => dirs[d].name = "final")
    BY <2>1 DEF BackupsInv, DirSound, Certain
  <2>2. CASE dirs'[d] \in Images(d)
    <3> DEFINE x == dirs'[d]
    <3>1. CASE x = Nothing
      <4>1. x.name = "none" /\ x.disk = {"none"} /\ x.kind = "control"
        BY <3>1 DEF Nothing
      <4> QED BY <4>1 DEF DirSound
    <3>2. CASE /\ x.kind = dirs[d].kind /\ x.label = dirs[d].label /\ x.disk = {x.name}
               /\ x.name \in dirs[d].disk /\ x.kept = x.parts
               /\ x.name # "final" => x.parts = {}
               /\ x.name = "final" => /\ Certain(d) \subseteq x.parts
                                      /\ x.parts \subseteq dirs[d].parts \cup dirs[d].kept
      BY <3>2 DEF BackupsInv, DirSound, Certain
    <3> QED BY <2>2, <3>1, <3>2, ImagesAre
  <2> QED BY <1>3, <2>1, <2>2
<1>9. ASSUME NEW a \in Jobs PROVE JobSound(a)'
  BY <1>5, <1>6, JobRests DEF Building
<1>10. PruneSound'
  BY <1>5, <1>6 DEF PruneSound, Pruning
<1>11. ToldSound'
  <2>1. ASSUME NEW d \in Durables PROVE d \in Durables' /\ dirs'[d].label = dirs[d].label
    <3>1. d \in Ids /\ dirs[d].disk = {"final"} /\ dirs[d].name = "final" /\ dirs[d].kind # "old"
      BY DEF Durables
    <3>2. CASE dirs'[d] = dirs[d]
      BY <3>1, <3>2 DEF Durables
    <3>3. CASE dirs'[d] \in Images(d)
      <4>1. dirs'[d] # Nothing
        BY <3>1, <3>3, ImagesAre
      <4>2. /\ dirs'[d].kind = dirs[d].kind /\ dirs'[d].label = dirs[d].label
            /\ dirs'[d].disk = {dirs'[d].name} /\ dirs'[d].name \in dirs[d].disk
        BY <3>1, <3>3, <4>1, ImagesAre
      <4> QED BY <3>1, <4>2 DEF Durables
    <3> QED BY <1>3, <3>1, <3>2, <3>3
  <2>2. Spare' = {}
    BY <1>5, <1>6 DEF Spare
  <2>3. \A d \in Durables \ Spare : d \in Durables' \ Spare' /\ dirs'[d].label = dirs[d].label
    BY <2>1, <2>2
  <2> QED BY <1>1, <2>3, ToldKeeps
<1> QED BY <1>7, <1>8, <1>9, <1>10, <1>11 DEF BackupsInv

-----------------------------------------------------------------------------
LEMMA NextBackups ==
  ASSUME BackupsAssumption, BackupsInv, ~Unsynced, [BackupsNext]_backupVars PROVE BackupsInv'
<1>1. ASSUME NEW a \in Jobs,
             WritePart(a) \/ SyncBuild(a) \/ Publish(a) \/ BuildFails(a) \/ SyncBase(a) \/ SyncBaseFails(a)
      PROVE  BackupsInv'
  BY <1>1, WriteKeeps, SyncBuildKeeps, PublishKeeps, BuildFailsKeeps, SyncBaseKeeps, SyncBaseFailsKeeps
<1>2. CASE UNCHANGED backupVars
  <2>1. UNCHANGED <<now, dirs, job, told>>
    BY <1>2 DEF backupVars
  <2>2. BackupsTyped' /\ PruneSound' /\ ToldSound'
    BY <2>1 DEF BackupsInv, BackupsTyped, PruneSound, ToldSound, Counted, Durables, Stamped, Spare, Stamps
  <2>3. \A d \in Ids : DirSound(d)'
    BY <2>1, DirKeeps DEF BackupsInv
  <2>4. \A a \in Jobs : JobSound(a)'
    BY <2>1, JobKeeps DEF BackupsInv
  <2> QED BY <2>2, <2>3, <2>4 DEF BackupsInv
<1> QED BY <1>1, <1>2, DaemonBeginsKeeps, OperatorBeginsKeeps, ListKeeps, RetireRenameKeeps, RetireSyncKeeps,
  RetireRemoveKeeps, SweepKeeps, ClockKeeps, PowerCutKeeps DEF BackupsNext

LEMMA DurableWhole == ASSUME BackupsInv, NEW d \in Durables PROVE Whole(d)
<1>1. d \in Ids /\ dirs[d].name = "final" /\ dirs[d].disk = {"final"} /\ dirs[d].kind # "old"
  BY DEF Durables
<1> QED BY <1>1 DEF BackupsInv, DirSound, Certain, Whole

LEMMA BackupsAre == ASSUME BackupsAssumption, BackupsInv PROVE BackupsSound
<1>1. OnlyWholeAppear
  <2> SUFFICES ASSUME NEW d \in Ids, Complete(d) \/ (dirs[d].label = Root /\ dirs[d].name = "final")
               PROVE  Whole(d)
    BY DEF OnlyWholeAppear
  <2>1. dirs[d].name = "final" /\ DirSound(d)
    BY DEF Complete, BackupsInv
  <2>2. CASE dirs[d].kind # "old"
    BY <2>1, <2>2 DEF DirSound, Certain, Whole
  <2>3. CASE dirs[d].kind = "old"
    <3>1. dirs[d].label # Root /\ dirs[d].parts \subseteq {"index"}
      BY <2>1, <2>3 DEF DirSound
    <3>2. "manifest" \in dirs[d].parts \/ Databases \subseteq dirs[d].parts
      BY <3>1 DEF Complete
    <3> QED BY <3>1, <3>2 DEF Databases
  <2> QED BY <2>2, <2>3
<1>2. ToldStays
  <2> DEFINE H == {d \in Ids : dirs[d].label > Operators /\ Whole(d)}
  <2>1. Counted \subseteq H
    <3> SUFFICES ASSUME NEW d \in Counted PROVE d \in Ids /\ dirs[d].label > Operators /\ Whole(d)
      OBVIOUS
    <3> QED BY DurableWhole DEF Counted, Stamped
  <2>2. IsFiniteSet(H)
    BY IdsFinite, FS_Subset
  <2>3. Cardinality(Counted) <= Cardinality(H) /\ Cardinality(H) \in Nat
    BY <2>1, <2>2, FS_Subset, FS_CardinalityType
  <2>4. Cardinality(Counted) \in Nat /\ Cardinality(Stamps) \in Nat /\ Keep \in Nat
    BY CountsAre DEF BackupsInv
  <2>5. Cardinality(Counted) >= IF Cardinality(Stamps) < Keep THEN Cardinality(Stamps) ELSE Keep
    BY DEF BackupsInv, ToldSound
  <2> HIDE DEF H
  <2>6. Cardinality(H) >= IF Cardinality(Stamps) < Keep THEN Cardinality(Stamps) ELSE Keep
    BY <2>3, <2>4, <2>5
  <2>7. \A l \in told \ Stamps : \E d \in Ids : dirs[d].label = l /\ Whole(d)
    <3> SUFFICES ASSUME NEW l \in told \ Stamps PROVE \E d \in Ids : dirs[d].label = l /\ Whole(d)
      OBVIOUS
    <3>1. PICK d \in Durables : dirs[d].label = l
      BY DEF BackupsInv, ToldSound, Stamps
    <3> QED BY <3>1, DurableWhole DEF Durables
  <2> QED BY <2>6, <2>7 DEF ToldStays, Stamps, H
<1> QED BY <1>1, <1>2 DEF BackupsSound

\* backup.rs and backup_daemon.rs, where no prune stops between its rename and
\* its sync: over any failures, process ends and power cuts, what passes for a
\* backup or has the root's name is whole, what an operator was told of stays,
\* and so do Keep of the daemon's.
THEOREM BackupsAreSound == BackupsAssumption /\ ~Unsynced => (BackupsSpec => []BackupsSound)
<1> SUFFICES ASSUME BackupsAssumption, ~Unsynced PROVE BackupsSpec => []BackupsSound
  OBVIOUS
<1>1. BackupsInit => BackupsInv
  BY InitBackups
<1>2. BackupsInv /\ [BackupsNext]_backupVars => BackupsInv'
  BY NextBackups
<1>3. BackupsInv => BackupsSound
  BY BackupsAre
<1> QED BY <1>1, <1>2, <1>3, PTL DEF BackupsSpec
=============================================================================

---------------------------- MODULE IngestProofs ----------------------------
(***************************************************************************)
(* Theorems about Ingest.                                                  *)
(*                                                                         *)
(* Safe is what holds whatever fails, is dropped or restarts: types, the   *)
(* frames each caller has written, its transaction under the lock, the     *)
(* ledger, the catalog and the pruning of reads.  Fresh, what the cached   *)
(* copy of the catalog may still miss, needs that no future is dropped     *)
(* while its registration lands.                                           *)
(***************************************************************************)
EXTENDS Ingest, FiniteSetTheorems, NaturalsInduction, WellFoundedInduction, TLAPS

Span(row) == Chunks[row.batch][row.chunk]
RowWidth(row) == Width(Span(row))

\* What a read holds, and that its rows are rows.
ReadRecords ==
  [pc : ReadPc, tag : Tags \cup {Untagged}, window : [lo : Int, hi : Int],
   generation : Nat, loaded : SUBSET [id : SeriesIds \ {0}, tag : Tags],
   series : SeriesIds, widest : Nat,
   found : SUBSET rows, stored : SUBSET rows, owed : SUBSET rows]

ReadTyped == read \in [Readers -> ReadRecords]

RowsTyped ==
  /\ IsFiniteSet(rows)
  /\ \A row \in rows : row.chunk \in DOMAIN Chunks[row.batch]

Typed == TypeOK /\ ReadTyped /\ RowsTyped

\* A caller has written a frame for each chunk once it asks for the lock.
GensInv ==
  \A c \in Callers :
    /\ pc[c] \in {"idle", "check", "lookup", "room"} => gens[c] = <<>>
    /\ pc[c] = "write" => Len(gens[c]) < Len(Chunks[batch[c]])
    /\ pc[c] \in {"ready", "refused"} \cup Locked => Len(gens[c]) = Len(Chunks[batch[c]])

Unlanded(c) == pc[c] \notin {"landed", "ambiguous"}

\* Frames are named once: a caller's are its own, and no row's until it lands.
FramesInv ==
  /\ FramesKept
  /\ \A row \in rows : row.gen < genNext
  /\ \A c \in Callers : \A i \in DOMAIN gens[c] :
       /\ gens[c][i] \in frames /\ gens[c][i] < genNext
       /\ Unlanded(c) => \A row \in rows : row.gen # gens[c][i]
       /\ \A d \in Callers : d # c => \A j \in DOMAIN gens[d] : gens[d][j] # gens[c][i]

\* What a transaction was planned from is still so when it lands: only the
\* holder of the lock changes the tables.
TxnInv ==
  \A c \in Callers :
    /\ pc[c] \in {"planned", "committing", "landed", "ambiguous"} =>
         /\ Len(txn[c].ids) = Len(gens[c])
         /\ txn[c].registers => Tag[batch[c]] # Untagged
         /\ ~txn[c].registers =>
              IF Tag[batch[c]] = Untagged THEN txn[c].series = 0
              ELSE [id |-> txn[c].series, tag |-> Tag[batch[c]]] \in catalog
    /\ pc[c] \in {"planned", "committing"} /\ txn[c].registers =>
         /\ txn[c].series = seq.nextSeries
         /\ HasRoom
         /\ \A s \in catalog : s.tag # Tag[batch[c]]
    /\ pc[c] = "landed" => ledger[Key[batch[c]]] = Receipt(c)

CatalogInv ==
  /\ SeriesSound
  /\ seq.nextSeries = Cardinality(catalog) + 1

LedgerInv ==
  /\ OncePerKey
  /\ \A k \in Keys : ledger[k] # NoEntry => Key[ledger[k].batch] = k
  /\ RepliesHold
  /\ \A reply \in replies :
       /\ reply.batch \in Batches
       /\ reply.kind \in {"receipt", "replay"} => ledger[Key[reply.batch]] # NoEntry

\* The bounds of the seeks: kept ones cover their series' rows, a measured one
\* those that have not been announced since, and an announced transaction's
\* rows are covered before they land.
BoundsInv ==
  /\ \A row \in rows : bounds[row.series].loaded => RowWidth(row) <= bounds[row.series].widest
  /\ \A c \in Callers : pc[c] = "committing" => \A i \in DOMAIN gens[c] :
       Width(Chunks[batch[c]][i]) <= bounds[txn[c].series].widest

PruneInv ==
  \A r \in Readers :
    /\ read[r].pc = "measured" => \A row \in rows : row.series = read[r].series =>
         RowWidth(row) <= read[r].widest \/ RowWidth(row) <= bounds[read[r].series].widest
    /\ read[r].pc \in {"query", "recheck"} => bounds[read[r].series].loaded
    /\ read[r].pc = "recheck" =>
         /\ \A row \in read[r].stored : row.series = read[r].series /\ Overlaps(row, read[r].window)
         /\ read[r].found =
              {row \in read[r].stored : read[r].window.lo - read[r].widest <= Span(row).lo}
    /\ read[r].pc \notin {"query", "recheck"} => read[r].found = read[r].stored

Safe == Typed /\ GensInv /\ FramesInv /\ TxnInv /\ CatalogInv /\ LedgerInv /\ BoundsInv /\ PruneInv

\* The caller's registration may have landed, and has not forgotten the copy.
Registering(c) == pc[c] \in {"landed", "ambiguous"} /\ txn[c].registers

\* The tag set is in the catalog, and no copy that is kept may miss it.
Known(s) == s \in catalog /\ \A c \in Callers : Registering(c) => Tag[batch[c]] # s.tag

CopyOK(series) == series \subseteq catalog /\ \A s \in catalog : Known(s) => s \in series

CacheInv ==
  /\ cache.loaded => CopyOK(cache.series)
  /\ \A r \in Readers :
       /\ read[r].pc \in {"load", "keep"} => read[r].generation <= cache.generation
       /\ read[r].pc = "keep" =>
            /\ read[r].loaded \subseteq catalog
            /\ Keep(r) => CopyOK(read[r].loaded)

\* A receipt is returned only after its registration has forgotten the copy.
AckInv ==
  \A c \in Callers, reply \in replies :
    Registering(c) /\ reply.kind = "receipt" => Tag[reply.batch] # Tag[batch[c]]

\* What a read owes, it will find: the series it resolves its tags to is the
\* series of the rows it owes.
OwedInv ==
  \A r \in Readers : 
    /\ read[r].pc \in {"resolve", "load", "keep"} => read[r].tag # Untagged
    /\ \A row \in read[r].owed :
         LET s == [id |-> row.series, tag |-> read[r].tag]
         IN /\ Tag[row.batch] = read[r].tag
            /\ Overlaps(row, read[r].window)
            /\ read[r].pc \in {"resolve", "load", "keep"} => Known(s)
            /\ read[r].pc = "keep" => s \in read[r].loaded
            /\ read[r].pc \in {"bound", "measure", "measured", "query", "recheck"} =>
                 row.series = read[r].series
            /\ read[r].pc = "recheck" => row \in read[r].stored
    /\ read[r].pc = "done" => read[r].owed \subseteq read[r].found

Fresh == CacheInv /\ AckInv /\ OwedInv

-----------------------------------------------------------------------------
(* Finite sets of numbers, and what they bound *)

\* A set of naturals has a least element.
LEMMA LeastNat ==
  ASSUME NEW T \in SUBSET Nat, T # {}
  PROVE  \E n \in T : \A m \in T : n <= m
<1>1. PICK n \in T : \A m \in T : ~(<<m, n>> \in OpToRel(<, Nat))
  BY NatLessThanWellFounded, WFMin
<1>2. ASSUME NEW a \in Nat, NEW b \in Nat, a < b
      PROVE  <<a, b>> \in OpToRel(<, Nat)
  <2>1. <<a, b>> \in Nat \X Nat /\ <<a, b>>[1] = a /\ <<a, b>>[2] = b
    OBVIOUS
  <2>2. <<a, b>> \in {ss \in Nat \X Nat : ss[1] < ss[2]}
    BY <1>2, <2>1
  <2> QED BY <2>2, Zenon DEF OpToRel
<1>3. \A m \in T : ~(m < n)
  BY <1>1, <1>2
<1> QED BY <1>3, SMT

\* The widest of finitely many widths is one of them: with the fewest above it,
\* it has none.
LEMMA WidestIs ==
  ASSUME NEW S \in SUBSET Nat, IsFiniteSet(S), S # {}
  PROVE  Widest(S) \in S /\ \A m \in S : m <= Widest(S)
<1> DEFINE above(n) == {m \in S : n < m}
           T == {Cardinality(above(n)) : n \in S}
<1>1. \A n \in S : IsFiniteSet(above(n)) /\ Cardinality(above(n)) \in Nat
  BY FS_Subset, FS_CardinalityType
<1>2. T \in SUBSET Nat /\ T # {}
  BY <1>1
<1>3. PICK least \in T : \A k \in T : least <= k
  <2> HIDE DEF T
  <2> QED BY <1>2, LeastNat
<1>4. PICK n \in S : \A m \in S : Cardinality(above(n)) <= Cardinality(above(m))
  BY <1>3
<1>5. ASSUME NEW m \in S, n < m PROVE FALSE
  <2>1. \A k \in above(m) : k \in above(n)
    BY <1>5, SMT
  <2>0. m \in above(n) /\ m \notin above(m)
    BY <1>5, SMT
  <2>2. above(m) \in SUBSET above(n) /\ above(m) # above(n)
    BY <2>0, <2>1
  <2> HIDE DEF above
  <2>3. Cardinality(above(m)) <= Cardinality(above(n))
        /\ (Cardinality(above(n)) = Cardinality(above(m)) => above(n) = above(m))
    BY <1>1, <2>2, FS_Subset
  <2> QED BY <1>1, <1>4, <2>2, <2>3, SMT
<1>6. \A m \in S : m <= n
  BY <1>5, SMT
<1> QED BY <1>6 DEF Widest

\* A function's image of a finite set is finite.
LEMMA FiniteImage ==
  ASSUME NEW S, IsFiniteSet(S), NEW f, f = [x \in S |-> f[x]]
  PROVE  IsFiniteSet({f[x] : x \in S})
<1>1. f \in Surjection(S, {f[x] : x \in S})
  BY DEF Surjection
<1> QED BY <1>1, FS_Surjection

LEMMA ElementIs ==
  ASSUME NEW T, NEW s \in Seq(T), NEW i \in DOMAIN s
  PROVE  s[i] \in T /\ i \in 1 .. Len(s)
OBVIOUS

LEMMA DomainIs ==
  ASSUME NEW T, NEW s \in Seq(T)
  PROVE  Len(s) \in Nat /\ DOMAIN s = 1 .. Len(s)
OBVIOUS

LEMMA WidthIsNat ==
  ASSUME NEW b \in Batches, NEW i \in DOMAIN Chunks[b]
  PROVE  Width(Chunks[b][i]) \in Nat /\ Chunks[b][i] \in [lo : Int, hi : Int]
<1>1. Chunks[b] \in Seq([lo : Int, hi : Int]) /\ Chunks[b][i].lo <= Chunks[b][i].hi
  BY ConstantsAssumption
<1>2. Chunks[b][i] \in [lo : Int, hi : Int]
  BY <1>1, ElementIs
<1> QED BY <1>1, <1>2 DEF Width

\* What Widened and MeasureBound compute over the chunks of a batch, or over
\* rows: a natural number that none of the widths exceeds.
LEMMA WidestOver ==
  ASSUME NEW S, IsFiniteSet(S), NEW f, f = [x \in S |-> f[x]], \A x \in S : f[x] \in Nat,
         NEW n \in Nat
  PROVE  LET w == Widest({f[x] : x \in S} \cup {n})
         IN w \in Nat /\ n <= w /\ \A x \in S : f[x] <= w
<1> DEFINE T == {f[x] : x \in S} \cup {n}
<1>1. IsFiniteSet(T)
  <2>1. IsFiniteSet({f[x] : x \in S})
    BY FiniteImage
  <2> QED BY <2>1, FS_AddElement
<1>2. T \in SUBSET Nat /\ T # {} /\ n \in T /\ \A x \in S : f[x] \in T
  OBVIOUS
<1> HIDE DEF T
<1>3. Widest(T) \in T /\ \A m \in T : m <= Widest(T)
  BY <1>1, <1>2, WidestIs
<1>4. Widest(T) \in Nat /\ n <= Widest(T) /\ \A x \in S : f[x] <= Widest(T)
  BY <1>2, <1>3
<1> QED BY <1>4 DEF T

-----------------------------------------------------------------------------
(* What a transaction is planned from, and the rows it adds *)

LEMMA TagsCounted ==
  /\ Cardinality(Tags) \in Nat
  /\ \A n : n \in SeriesIds <=> n \in Nat /\ n <= Cardinality(Tags)
BY ConstantsAssumption, FS_CardinalityType DEF SeriesIds

\* A catalog that gives each tag set one series has no more series than there
\* are tag sets, and fewer while a tag set is not registered.
LEMMA CatalogFits ==
  ASSUME catalog \in SUBSET [id : SeriesIds \ {0}, tag : Tags],
         \A s, q \in catalog : s.tag = q.tag => s = q
  PROVE  /\ IsFiniteSet(catalog) /\ Cardinality(catalog) \in Nat
         /\ \A t \in Tags : (\A s \in catalog : s.tag # t) => Cardinality(catalog) < Cardinality(Tags)
<1> DEFINE f == [s \in catalog |-> s.tag]
<1>1. f \in Injection(catalog, Tags)
  BY DEF Injection, IsInjective
<1>2. IsFiniteSet(Tags)
  BY ConstantsAssumption
<1>3. ASSUME NEW t \in Tags, \A s \in catalog : s.tag # t
      PROVE  f \notin Surjection(catalog, Tags)
  BY <1>3 DEF Surjection
<1> HIDE DEF f
<1>4. IsFiniteSet(catalog) /\ Cardinality(catalog) <= Cardinality(Tags)
      /\ (Cardinality(catalog) = Cardinality(Tags) <=> f \in Surjection(catalog, Tags))
  BY <1>1, <1>2, FS_Injection
<1>5. Cardinality(catalog) \in Nat
  BY <1>4, FS_CardinalityType
<1> QED BY <1>3, <1>4, <1>5, TagsCounted

\* Plan: a series of the catalog for a tag set that has one, the next number
\* for one that has none, within the cap.
LEMMA PlannedSeries ==
  ASSUME TypeOK, CatalogInv, NEW b \in Batches, MayRegister(b)
  PROVE  /\ IdFor(b) \in SeriesIds
         /\ Registered(b) => IF Tag[b] = Untagged THEN IdFor(b) = 0
                             ELSE [id |-> IdFor(b), tag |-> Tag[b]] \in catalog
         /\ ~Registered(b) => /\ Tag[b] # Untagged /\ HasRoom
                              /\ IdFor(b) = seq.nextSeries
                              /\ \A s \in catalog : s.tag # Tag[b]
<1>1. catalog \in SUBSET [id : SeriesIds \ {0}, tag : Tags] /\ seq.nextSeries \in Nat
  BY DEF TypeOK
<1>2. \A s, q \in catalog : s.tag = q.tag => s = q
  BY DEF CatalogInv, SeriesSound
<1>3. Tag[b] \in Tags \cup {Untagged}
  BY ConstantsAssumption
<1>4. CASE Tag[b] = Untagged
  BY <1>4, TagsCounted DEF IdFor, Registered
<1>5. CASE Tag[b] # Untagged /\ Registered(b)
  <2>1. PICK s \in catalog : s.tag = Tag[b]
    BY <1>5 DEF Registered, SeriesOf
  <2>2. IdFor(b) = CHOOSE id \in SeriesOf(Tag[b]) : TRUE
    BY <1>5 DEF IdFor
  <2>3. s.id \in SeriesOf(Tag[b])
    BY <2>1 DEF SeriesOf
  <2>4. IdFor(b) \in SeriesOf(Tag[b])
    BY <2>2, <2>3
  <2>5. PICK q \in catalog : q.tag = Tag[b] /\ q.id = IdFor(b)
    BY <2>4 DEF SeriesOf
  <2>6. q = [id |-> IdFor(b), tag |-> Tag[b]]
    BY <1>1, <2>5
  <2> QED BY <1>1, <1>5, <2>5, <2>6
<1>6. CASE Tag[b] # Untagged /\ ~Registered(b)
  <2>1. \A s \in catalog : s.tag # Tag[b]
    BY <1>6 DEF Registered, SeriesOf
  <2>2. IdFor(b) = seq.nextSeries /\ HasRoom
    BY <1>6 DEF IdFor, MayRegister
  <2>3. Cardinality(catalog) < Cardinality(Tags) /\ Cardinality(catalog) \in Nat
    BY <1>1, <1>2, <1>3, <1>6, <2>1, CatalogFits
  <2>4. seq.nextSeries \in SeriesIds
    BY <1>1, <2>3, TagsCounted DEF CatalogInv
  <2> QED BY <1>6, <2>1, <2>2, <2>4
<1> QED BY <1>4, <1>5, <1>6

RowType == [id : Nat, gen : Nat, series : SeriesIds, batch : Batches, chunk : Nat]

\* A transaction's rows are one for each chunk of its batch.
LEMMA NewRowsAre ==
  ASSUME TypeOK, GensInv, TxnInv, NEW c \in Callers, pc[c] = "committing"
  PROVE  /\ NewRows(c) \subseteq RowType
         /\ IsFiniteSet(NewRows(c))
         /\ Cardinality(NewRows(c)) = Len(Chunks[batch[c]])
         /\ DOMAIN gens[c] = DOMAIN Chunks[batch[c]]
         /\ \A i \in DOMAIN gens[c] : Width(Chunks[batch[c]][i]) \in Nat
         /\ \A row \in NewRows(c) :
              /\ row.series = txn[c].series /\ row.batch = batch[c]
              /\ row.chunk \in DOMAIN gens[c] /\ row.gen = gens[c][row.chunk]
<1> DEFINE n == Len(gens[c])
           row(i) == [id |-> txn[c].ids[i], gen |-> gens[c][i], series |-> txn[c].series,
                      batch |-> batch[c], chunk |-> i]
           f == [i \in 1 .. n |-> row(i)]
<1>1. /\ gens[c] \in Seq(Nat) /\ txn[c].ids \in Seq(Nat) /\ txn[c].series \in SeriesIds
      /\ batch[c] \in Batches /\ n = Len(Chunks[batch[c]]) /\ n = Len(txn[c].ids)
  BY DEF TypeOK, GensInv, TxnInv, Locked
<1>2. Chunks[batch[c]] \in Seq([lo : Int, hi : Int])
  BY <1>1, ConstantsAssumption
<1>3. n \in Nat /\ DOMAIN gens[c] = 1 .. n /\ DOMAIN Chunks[batch[c]] = 1 .. n
  BY <1>1, <1>2, DomainIs
<1>4. NewRows(c) = {row(i) : i \in 1 .. n}
  BY <1>3 DEF NewRows
<1>5. \A i \in 1 .. n : txn[c].ids[i] \in Nat /\ gens[c][i] \in Nat
  BY <1>1, <1>3
<1>6. f \in Bijection(1 .. n, NewRows(c))
  <2>1. \A i, j \in 1 .. n : row(i) = row(j) => i = j
    OBVIOUS
  <2> QED BY <1>4, <2>1, Zenon DEF Bijection, Injection, Surjection, IsInjective
<1>7. IsFiniteSet(NewRows(c)) /\ Cardinality(NewRows(c)) = n
  <2>1. ExistsBijection(1 .. n, NewRows(c))
    BY <1>6 DEF ExistsBijection
  <2>2. IsFiniteSet(1 .. n)
    BY <1>3, FS_Interval
  <2> QED BY <1>3, <2>1, <2>2, FS_Bijection, FS_CountingElements
<1>8. \A i \in DOMAIN gens[c] : Width(Chunks[batch[c]][i]) \in Nat
  BY <1>1, <1>3, WidthIsNat
<1>9. NewRows(c) \subseteq RowType
  BY <1>1, <1>3, <1>4, <1>5 DEF RowType
<1> QED BY <1>1, <1>3, <1>4, <1>7, <1>8, <1>9

-----------------------------------------------------------------------------
(* Types *)

\* What every step of a caller keeps of the callers' own variables, and what
\* the lock says of where they are.
CallersTyped ==
  /\ pc \in [Callers -> Before \cup Locked]
  /\ batch \in [Callers -> Batches]
  /\ gens \in [Callers -> Seq(Nat)]
  /\ txn \in [Callers -> [ids : Seq(Nat), series : SeriesIds, epoch : Nat, registers : BOOLEAN]]
  /\ holder \in Callers \cup {NoOne}
  /\ \A c \in Callers : pc[c] \in Locked <=> holder = c

IndexTyped ==
  /\ rows \in SUBSET RowType
  /\ ledger \in [Keys -> Receipts \cup {NoEntry}]
  /\ catalog \in SUBSET [id : SeriesIds \ {0}, tag : Tags]
  /\ seq \in [nextId : Nat, epoch : Nat, nextSeries : Nat \ {0}]
  /\ epochs \subseteq Nat

ProcessTyped ==
  /\ frames \subseteq Nat /\ genNext \in Nat
  /\ poisoned \in BOOLEAN
  /\ alloc \in [nextId : Nat, epoch : Nat]

CachesTyped ==
  /\ cache \in [generation : Nat, loaded : BOOLEAN, series : SUBSET [id : SeriesIds, tag : Tags]]
  /\ bounds \in [SeriesIds -> [loaded : BOOLEAN, widest : Nat]]

LEMMA TypeParts ==
  ASSUME ReadTyped PROVE TypeOK <=> CallersTyped /\ IndexTyped /\ ProcessTyped /\ CachesTyped
BY DEF TypeOK, CallersTyped, IndexTyped, ProcessTyped, CachesTyped, RowType, ReadTyped, ReadRecords

LEMMA BlankIsTyped ==
  BlankTxn \in [ids : Seq(Nat), series : SeriesIds, epoch : Nat, registers : BOOLEAN]
BY TagsCounted DEF BlankTxn

LEMMA ReturnTyped ==
  ASSUME CallersTyped, NEW c \in Callers, Return(c),
         holder' = IF pc[c] \in Locked THEN NoOne ELSE holder
  PROVE  CallersTyped'
<1>1. pc' = [pc EXCEPT ![c] = "idle"] /\ gens' = [gens EXCEPT ![c] = <<>>]
      /\ txn' = [txn EXCEPT ![c] = BlankTxn] /\ batch' = batch
  BY DEF Return, GoTo
<1>2. NoOne \notin Callers
  BY ConstantsAssumption
<1>3. txn' \in [Callers -> [ids : Seq(Nat), series : SeriesIds, epoch : Nat, registers : BOOLEAN]]
  <2> HIDE DEF BlankTxn
  <2> QED BY <1>1, BlankIsTyped DEF CallersTyped
<1>4. gens' \in [Callers -> Seq(Nat)] /\ batch' \in [Callers -> Batches]
  BY <1>1 DEF CallersTyped
<1>5. pc' \in [Callers -> Before \cup Locked] /\ "idle" \notin Locked
  BY <1>1 DEF CallersTyped, Before, Locked
<1>6. holder' \in Callers \cup {NoOne} /\ \A d \in Callers : pc'[d] \in Locked <=> holder' = d
  <2>1. pc'[c] = "idle" /\ \A d \in Callers \ {c} : pc'[d] = pc[d]
    BY <1>1 DEF CallersTyped
  <2>2. CASE pc[c] \in Locked
    <3>1. holder = c /\ holder' = NoOne
      BY <2>2 DEF CallersTyped
    <3>2. \A d \in Callers : pc'[d] \notin Locked
      BY <1>5, <2>1, <3>1 DEF CallersTyped
    <3> QED BY <1>2, <3>1, <3>2
  <2>3. CASE pc[c] \notin Locked
    BY <1>2, <1>5, <2>1, <2>3, ConstantsAssumption DEF CallersTyped
  <2> QED BY <2>2, <2>3
<1> QED BY <1>3, <1>4, <1>5, <1>6 DEF CallersTyped

\* A step of the caller to a place on the same side of the lock.
LEMMA GoToTyped ==
  ASSUME CallersTyped, NEW c \in Callers, NEW label \in Before \cup Locked, GoTo(c, label),
         label \in Locked => holder' = c,
         label \notin Locked => holder' = IF pc[c] \in Locked THEN NoOne ELSE holder,
         pc[c] \notin Locked /\ label \in Locked => holder = NoOne
  PROVE  /\ pc' \in [Callers -> Before \cup Locked]
         /\ holder' \in Callers \cup {NoOne}
         /\ \A d \in Callers : pc'[d] \in Locked <=> holder' = d
<1>1. pc' = [pc EXCEPT ![c] = label] /\ c # NoOne
  BY ConstantsAssumption DEF GoTo
<1>2. holder' \in Callers \cup {NoOne}
  BY DEF CallersTyped
<1>3. \A d \in Callers : pc'[d] \in Locked <=> holder' = d
  <2>1. pc'[c] = label /\ \A d \in Callers \ {c} : pc'[d] = pc[d]
    BY <1>1 DEF CallersTyped
  <2>2. CASE label \in Locked
    BY <1>1, <2>1, <2>2, ConstantsAssumption DEF CallersTyped
  <2>3. CASE label \notin Locked
    BY <1>1, <2>1, <2>3, ConstantsAssumption DEF CallersTyped
  <2> QED BY <2>2, <2>3
<1> QED BY <1>1, <1>2, <1>3 DEF CallersTyped

LEMMA CallersStep ==
  ASSUME TypeOK, ReadTyped, GensInv, TxnInv, CatalogInv, NEW c \in Callers, IngestStep(c)
  PROVE  CallersTyped'
<1> USE DEF process, index, caller, history
<1>0. CallersTyped /\ genNext \in Nat /\ alloc \in [nextId : Nat, epoch : Nat]
  BY TypeParts DEF TypeOK
<1>a. ASSUME NEW label \in Before \cup Locked, GoTo(c, label), holder' = holder,
             pc[c] \in Locked <=> label \in Locked
      PROVE  /\ pc' \in [Callers -> Before \cup Locked]
             /\ holder' \in Callers \cup {NoOne}
             /\ \A d \in Callers : pc'[d] \in Locked <=> holder' = d
  BY <1>0, <1>a, GoToTyped DEF CallersTyped
<1>b. ASSUME NEW label \in Before \cup Locked, GoTo(c, label), holder' = holder,
             pc[c] \in Locked <=> label \in Locked, UNCHANGED <<batch, gens, txn>>
      PROVE  CallersTyped'
  BY <1>0, <1>a, <1>b DEF CallersTyped
<1>c. ASSUME Return(c), holder' = holder, pc[c] \notin Locked PROVE CallersTyped'
  BY <1>0, <1>c, ReturnTyped
<1>d. ASSUME Return(c), holder' = NoOne, pc[c] \in Locked PROVE CallersTyped'
  BY <1>0, <1>d, ReturnTyped
<1>1. ASSUME NEW b \in Batches, Begin(c, b) PROVE CallersTyped'
  BY <1>0, <1>1, <1>a DEF Begin, CallersTyped, Before, Locked
<1>2. CASE CheckLedger(c)
  BY <1>2, <1>b, <1>c DEF CheckLedger, Before, Locked
<1>3. CASE LookUpSeries(c)
  BY <1>3, <1>b DEF LookUpSeries, Before, Locked
<1>4. CASE CheckRoom(c)
  BY <1>4, <1>b, <1>c DEF CheckRoom, Before, Locked
<1>5. CASE WriteFrame(c)
  <2>1. CASE Return(c)
    BY <1>5, <1>c, <2>1 DEF WriteFrame, Locked
  <2>2. CASE gens' = [gens EXCEPT ![c] = Append(@, genNext)] /\ UNCHANGED <<batch, txn>>
             /\ GoTo(c, IF Len(gens'[c]) = Len(Chunks[batch[c]]) THEN "ready" ELSE "write")
    <3>1. gens' \in [Callers -> Seq(Nat)]
      BY <1>0, <2>2 DEF CallersTyped
    <3> QED BY <1>0, <1>5, <1>a, <2>2, <3>1 DEF WriteFrame, CallersTyped, Before, Locked
  <2> QED BY <1>5, <2>1, <2>2 DEF WriteFrame
<1>6. CASE TakeLock(c)
  BY <1>0, <1>6, GoToTyped DEF TakeLock, CallersTyped, Before, Locked
<1>7. CASE Plan(c)
  <2>1. CASE Return(c) /\ Unlock
    BY <1>7, <1>d, <2>1 DEF Plan, Locked, Unlock
  <2>2. CASE GoTo(c, "refused") /\ Unlock /\ UNCHANGED <<batch, gens, txn>>
    BY <1>0, <1>7, <2>2, GoToTyped DEF Plan, CallersTyped, Before, Locked, Unlock
  <2>3. CASE GoTo(c, "planned") /\ UNCHANGED <<batch, gens, holder>> /\ MayRegister(batch[c])
             /\ txn' = [txn EXCEPT ![c] =
                  [ids |-> [i \in 1 .. Len(gens[c]) |-> alloc.nextId + i - 1],
                   series |-> IdFor(batch[c]), epoch |-> alloc.epoch + 1,
                   registers |-> ~Registered(batch[c])]]
    <3>1. batch[c] \in Batches /\ Len(gens[c]) \in Nat
      BY <1>0 DEF CallersTyped
    <3>2. IdFor(batch[c]) \in SeriesIds
      BY <2>3, <3>1, PlannedSeries
    <3>3. [i \in 1 .. Len(gens[c]) |-> alloc.nextId + i - 1] \in Seq(Nat)
      BY <1>0, <3>1
    <3>4. txn' \in [Callers -> [ids : Seq(Nat), series : SeriesIds, epoch : Nat, registers : BOOLEAN]]
      BY <1>0, <2>3, <3>2, <3>3 DEF CallersTyped, Registered
    <3> QED BY <1>0, <1>7, <1>a, <2>3, <3>4 DEF Plan, CallersTyped, Before, Locked
  <2> QED BY <1>7, <2>1, <2>2, <2>3 DEF Plan
<1>8. CASE Submit(c)
  BY <1>8, <1>b DEF Submit, Before, Locked
<1>9. CASE Commit(c)
  BY <1>9, <1>b DEF Commit, Before, Locked
<1>10. CASE Finish(c)
  BY <1>10, <1>d DEF Finish, Failed, Locked, Unlock
<1>11. CASE RemoveFrames(c)
  BY <1>11, <1>c DEF RemoveFrames, Locked
<1>12. CASE Drop(c)
  BY <1>0, <1>12, ReturnTyped DEF Drop, CallersTyped
<1> QED
  BY <1>1, <1>2, <1>3, <1>4, <1>5, <1>6, <1>7, <1>8, <1>9, <1>10, <1>11, <1>12 DEF IngestStep

\* Only a transaction that lands changes the index.
LEMMA IngestMoves ==
  ASSUME NEW c \in Callers, IngestStep(c)
  PROVE  /\ UNCHANGED index \/ (Commit(c) /\ Land(c))
         /\ UNCHANGED read
<1> USE DEF process, index, caches, caller, history
<1>1. CASE \E b \in Batches : Begin(c, b)
  BY <1>1 DEF Begin
<1>2. CASE CheckLedger(c) \/ LookUpSeries(c) \/ CheckRoom(c) \/ WriteFrame(c) \/ TakeLock(c)
  BY <1>2 DEF CheckLedger, LookUpSeries, CheckRoom, WriteFrame, TakeLock
<1>3. CASE Plan(c) \/ Submit(c) \/ Finish(c) \/ RemoveFrames(c) \/ Drop(c)
  BY <1>3 DEF Plan, Submit, Finish, RemoveFrames, Drop
<1>4. CASE Commit(c)
  BY <1>4 DEF Commit
<1> QED BY <1>1, <1>2, <1>3, <1>4 DEF IngestStep

LEMMA ReadMoves ==
  ASSUME NEW r \in Readers, ReadStep(r)
  PROVE  UNCHANGED <<index, frames, process, caller, replies, calls, restarts>>
<1> USE DEF process, index, caches, caller, history
<1>1. CASE \E tag \in Tags \cup {Untagged}, window \in Windows : ReadBegin(r, tag, window)
  BY <1>1 DEF ReadBegin
<1>2. CASE Resolve(r) \/ LoadCatalog(r) \/ KeepCatalog(r)
  BY <1>2 DEF Resolve, LoadCatalog, KeepCatalog
<1>3. CASE GetBound(r) \/ MeasureBound(r) \/ KeepBound(r)
  BY <1>3 DEF GetBound, MeasureBound, KeepBound
<1>4. CASE Query(r) \/ Recheck(r) \/ ReadEnd(r)
  BY <1>4 DEF Query, Recheck, ReadEnd
<1> QED BY <1>1, <1>2, <1>3, <1>4 DEF ReadStep

\* A caller that commits has the lock, and its transaction is as planned.
LEMMA LandTyped ==
  ASSUME TypeOK, ReadTyped, RowsTyped, GensInv, TxnInv, CatalogInv, NEW c \in Callers,
         pc[c] = "committing", Land(c)
  PROVE  IndexTyped' /\ RowsTyped' /\ rows \subseteq rows'
<1>1. CallersTyped /\ IndexTyped /\ alloc \in [nextId : Nat, epoch : Nat]
  BY TypeParts DEF ProcessTyped
<1>2. txn[c] \in [ids : Seq(Nat), series : SeriesIds, epoch : Nat, registers : BOOLEAN]
      /\ batch[c] \in Batches /\ Key[batch[c]] \in Keys
  BY <1>1, ConstantsAssumption DEF CallersTyped
<1>3. rows' = rows \cup NewRows(c)
  BY DEF Land
<1>4. rows' \subseteq RowType /\ IsFiniteSet(rows')
  BY <1>1, <1>3, NewRowsAre, FS_Union DEF IndexTyped, RowsTyped
<1>5. \A row \in rows' : row.chunk \in DOMAIN Chunks[row.batch]
  BY <1>3, NewRowsAre DEF RowsTyped
<1>6. Receipt(c) \in Receipts
  BY <1>2 DEF Receipt, Receipts
<1>7. ledger' \in [Keys -> Receipts \cup {NoEntry}]
  <2>1. ledger' = [ledger EXCEPT ![Key[batch[c]]] = Receipt(c)]
    BY DEF Land
  <2> HIDE DEF Receipt
  <2> QED BY <1>1, <1>2, <1>6, <2>1 DEF IndexTyped
<1>8. txn[c].registers => [id |-> txn[c].series, tag |-> Tag[batch[c]]] \in [id : SeriesIds \ {0}, tag : Tags]
  <2> SUFFICES ASSUME txn[c].registers PROVE txn[c].series # 0 /\ Tag[batch[c]] \in Tags
    BY <1>2
  <2>1. txn[c].series = seq.nextSeries /\ Tag[batch[c]] # Untagged
    BY DEF TxnInv
  <2> QED BY <1>1, <1>2, <2>1, ConstantsAssumption DEF IndexTyped
<1>9. catalog' \in SUBSET [id : SeriesIds \ {0}, tag : Tags]
  BY <1>1, <1>8 DEF Land, IndexTyped
<1>10. seq' \in [nextId : Nat, epoch : Nat, nextSeries : Nat \ {0}]
  <2>1. seq.nextSeries \in Nat \ {0} /\ txn[c].series + 1 \in Nat \ {0}
    BY <1>1, <1>2, TagsCounted DEF IndexTyped
  <2> QED BY <1>1, <1>2, <2>1 DEF Land
<1>11. epochs' \subseteq Nat
  BY <1>1, <1>2 DEF Land, IndexTyped
<1> QED BY <1>3, <1>4, <1>5, <1>7, <1>9, <1>10, <1>11 DEF IndexTyped, RowsTyped

\* What Submit widens a bound to.
LEMMA WidenedIs ==
  ASSUME TypeOK, ReadTyped, GensInv, NEW c \in Callers, pc[c] \in Locked
  PROVE  /\ Widened(c) \in [SeriesIds -> [loaded : BOOLEAN, widest : Nat]]
         /\ \A i \in DOMAIN gens[c] :
              Width(Chunks[batch[c]][i]) <= Widened(c)[txn[c].series].widest
         /\ \A s \in SeriesIds : /\ Widened(c)[s].loaded = bounds[s].loaded
                                 /\ bounds[s].widest <= Widened(c)[s].widest
<1> DEFINE f == [i \in DOMAIN gens[c] |-> Width(Chunks[batch[c]][i])]
           s == txn[c].series
           w == Widest({f[i] : i \in DOMAIN gens[c]} \cup {bounds[s].widest})
<1>1. /\ gens[c] \in Seq(Nat) /\ batch[c] \in Batches /\ s \in SeriesIds
      /\ bounds \in [SeriesIds -> [loaded : BOOLEAN, widest : Nat]]
      /\ Len(gens[c]) = Len(Chunks[batch[c]])
  BY DEF TypeOK, GensInv
<1>2. Chunks[batch[c]] \in Seq([lo : Int, hi : Int])
  BY <1>1, ConstantsAssumption
<1>3. DOMAIN gens[c] = DOMAIN Chunks[batch[c]] /\ IsFiniteSet(DOMAIN gens[c])
  <2>1. Len(gens[c]) \in Nat /\ DOMAIN gens[c] = 1 .. Len(gens[c])
    BY <1>1, DomainIs
  <2>2. DOMAIN Chunks[batch[c]] = 1 .. Len(Chunks[batch[c]])
    BY <1>2, DomainIs
  <2> QED BY <1>1, <2>1, <2>2, FS_Interval
<1>4. \A i \in DOMAIN gens[c] : f[i] \in Nat
  BY <1>1, <1>3, WidthIsNat
<1>5. bounds[s].widest \in Nat
  BY <1>1
<1>6. Widened(c) = [bounds EXCEPT ![s].widest = w]
  BY DEF Widened
<1>7. w \in Nat /\ bounds[s].widest <= w /\ \A i \in DOMAIN gens[c] : f[i] <= w
  <2> HIDE DEF f
  <2>1. f = [i \in DOMAIN gens[c] |-> f[i]]
    BY DEF f
  <2>2. \A S, n : IsFiniteSet(S) /\ f = [i \in S |-> f[i]] /\ (\A i \in S : f[i] \in Nat) /\ n \in Nat =>
          LET v == Widest({f[i] : i \in S} \cup {n})
          IN v \in Nat /\ n <= v /\ \A i \in S : f[i] <= v
    BY WidestOver
  <2> QED BY <1>3, <1>4, <1>5, <2>1, <2>2
<1> HIDE DEF w
<1>8. Widened(c) \in [SeriesIds -> [loaded : BOOLEAN, widest : Nat]]
  BY <1>1, <1>6, <1>7
<1>9. Widened(c)[s].widest = w /\ \A t \in SeriesIds : Widened(c)[t].loaded = bounds[t].loaded
      /\ (t # s => Widened(c)[t] = bounds[t])
  BY <1>1, <1>6
<1>10. \A t \in SeriesIds : bounds[t].widest <= bounds[t].widest
  BY <1>1
<1> QED BY <1>7, <1>8, <1>9, <1>10

LEMMA RowWidths ==
  ASSUME TypeOK, RowsTyped, NEW row \in rows
  PROVE  RowWidth(row) \in Nat /\ Span(row) \in [lo : Int, hi : Int] /\ row \in RowType
<1>1. row \in RowType
  BY DEF TypeOK, RowType
<1>2. row.batch \in Batches /\ row.chunk \in DOMAIN Chunks[row.batch]
  BY <1>1 DEF RowType, RowsTyped
<1> QED BY <1>1, <1>2, WidthIsNat DEF RowWidth, Span

\* measure_span answers a width that none of the series' rows exceeds.
LEMMA MeasuredIs ==
  ASSUME TypeOK, RowsTyped, NEW s
  PROVE  LET w == Widest({Width(Chunks[row.batch][row.chunk]) : row \in RowsOf(s)} \cup {0})
         IN w \in Nat /\ \A row \in RowsOf(s) : RowWidth(row) <= w
<1> DEFINE S == RowsOf(s)
           f == [row \in S |-> RowWidth(row)]
<1>1. S \in SUBSET rows /\ IsFiniteSet(S)
  BY FS_Subset DEF RowsOf, RowsTyped
<1>2. \A row \in S : f[row] \in Nat
  BY <1>1, RowWidths
<1>3. {Width(Chunks[row.batch][row.chunk]) : row \in S} = {f[row] : row \in S}
  BY DEF RowWidth, Span
<1>4. \A row \in S : f[row] = RowWidth(row)
  OBVIOUS
<1>5. f = [row \in S |-> f[row]]
  OBVIOUS
<1> HIDE DEF f, S
<1>6. LET w == Widest({f[row] : row \in S} \cup {0})
      IN w \in Nat /\ 0 <= w /\ \A row \in S : f[row] <= w
  BY <1>1, <1>2, <1>5, WidestOver
<1> QED BY <1>3, <1>4, <1>6 DEF S

LEMMA WidestOfTwo ==
  ASSUME NEW a \in Nat, NEW b \in Nat
  PROVE  /\ Widest({a, b}) \in Nat /\ a <= Widest({a, b}) /\ b <= Widest({a, b})
         /\ Widest({a, b}) \in {a, b}
<1>1. \E n \in {a, b} : \A m \in {a, b} : m <= n
  BY SMT
<1>2. Widest({a, b}) \in {a, b} /\ \A m \in {a, b} : m <= Widest({a, b})
  BY <1>1 DEF Widest
<1> QED BY <1>2

LEMMA BlankReadTyped == BlankRead \in ReadRecords
BY TagsCounted DEF BlankRead, ReadRecords, ReadPc

\* A read's state stays one when rows are added.
LEMMA ReadsStay ==
  ASSUME ReadTyped, rows \subseteq rows', read' = read PROVE ReadTyped'
<1>1. \A q \in ReadRecords : q \in ReadRecords'
  BY DEF ReadRecords
<1> QED BY <1>1 DEF ReadTyped

LEMMA FoundTyped ==
  ASSUME ReadTyped, NEW r \in Readers, read[r].pc # "idle",
         NEW series \in SUBSET [id : SeriesIds, tag : Tags]
  PROVE  Found(r, series) \in ReadRecords
<1> DEFINE ids == {s.id : s \in {q \in series : q.tag = read[r].tag}}
<1>1. read[r] \in ReadRecords
  BY DEF ReadTyped
<1>2. CASE ids = {}
  <2>1. Found(r, series) = [read[r] EXCEPT !.pc = "done", !.loaded = {}]
    BY <1>2 DEF Found
  <2> QED BY <1>1, <2>1 DEF ReadRecords, ReadPc
<1>3. CASE ids # {}
  <2>1. (CHOOSE id \in ids : TRUE) \in ids /\ ids \subseteq SeriesIds
    BY <1>3
  <2> DEFINE x == CHOOSE id \in ids : TRUE
  <2>2. Found(r, series) = [read[r] EXCEPT !.pc = "bound", !.series = x, !.loaded = {}]
    BY <1>3 DEF Found
  <2>3. x \in SeriesIds
    BY <2>1
  <2> HIDE DEF x
  <2> QED BY <1>1, <2>2, <2>3 DEF ReadRecords, ReadPc
<1> QED BY <1>2, <1>3

\* Each step of a read keeps what it holds well typed, and the caches.
LEMMA ReadStepTyped ==
  ASSUME TypeOK, ReadTyped, RowsTyped, NEW r \in Readers, ReadStep(r)
  PROVE  ReadTyped' /\ CachesTyped'
<1> USE DEF process, index, caches, caller, history
<1>1. CachesTyped /\ read[r] \in ReadRecords /\ IndexTyped
  BY TypeParts DEF ReadTyped
<1>2. ReadRecords' = ReadRecords
  BY ReadMoves DEF ReadRecords
<1>3. ASSUME NEW q \in ReadRecords, Set(r, q) PROVE ReadTyped'
  BY <1>2, <1>3 DEF ReadTyped, Set
<1>4. ASSUME UNCHANGED caches PROVE CachesTyped'
  BY <1>1, <1>4 DEF CachesTyped
<1>5. ASSUME NEW tag \in Tags \cup {Untagged}, NEW window \in Windows, ReadBegin(r, tag, window)
      PROVE  ReadTyped' /\ CachesTyped'
  <2> DEFINE q == [BlankRead EXCEPT !.pc = IF tag = Untagged THEN "bound" ELSE "resolve",
                     !.tag = tag, !.window = window, !.owed = Acknowledged(tag, window)]
  <2>1. Set(r, q) /\ UNCHANGED caches
    BY <1>5 DEF ReadBegin
  <2>2. Acknowledged(tag, window) \in SUBSET rows /\ window \in [lo : Int, hi : Int]
    BY ConstantsAssumption DEF Acknowledged
  <2>3. q \in ReadRecords
    <3> HIDE DEF BlankRead
    <3> QED BY <2>2, BlankReadTyped DEF ReadRecords, ReadPc
  <2> HIDE DEF q
  <2> QED BY <1>3, <1>4, <2>1, <2>3
<1>6. CASE Resolve(r)
  <2>1. CASE cache.loaded
    <3>1. cache.series \in SUBSET [id : SeriesIds, tag : Tags]
      BY <1>1 DEF CachesTyped
    <3>2. Found(r, cache.series) \in ReadRecords
      BY <1>6, <3>1, FoundTyped DEF Resolve
    <3> QED BY <1>3, <1>4, <1>6, <2>1, <3>2 DEF Resolve
  <2>2. CASE ~cache.loaded
    <3> DEFINE q == [read[r] EXCEPT !.pc = "load", !.generation = cache.generation]
    <3>1. q \in ReadRecords
      BY <1>1 DEF ReadRecords, ReadPc, CachesTyped
    <3> QED BY <1>3, <1>4, <1>6, <2>2, <3>1 DEF Resolve
  <2> QED BY <2>1, <2>2
<1>7. CASE LoadCatalog(r)
  <2> DEFINE q == [read[r] EXCEPT !.pc = "keep", !.loaded = catalog]
  <2>1. q \in ReadRecords
    BY <1>1 DEF ReadRecords, ReadPc, IndexTyped
  <2> QED BY <1>3, <1>4, <1>7, <2>1 DEF LoadCatalog
<1>8. CASE KeepCatalog(r)
  <2>1. read[r].loaded \in SUBSET [id : SeriesIds, tag : Tags]
    BY <1>1 DEF ReadRecords
  <2>2. Found(r, read[r].loaded) \in ReadRecords
    BY <1>8, <2>1, FoundTyped DEF KeepCatalog
  <2>3. CachesTyped'
    BY <1>1, <1>8, <2>1 DEF KeepCatalog, CachesTyped
  <2> QED BY <1>3, <1>8, <2>2, <2>3 DEF KeepCatalog
<1>9. CASE GetBound(r)
  <2>1. bounds[read[r].series].widest \in Nat
    BY <1>1 DEF ReadRecords, CachesTyped
  <2>2. [read[r] EXCEPT !.pc = "query", !.widest = bounds[read[r].series].widest] \in ReadRecords
        /\ [read[r] EXCEPT !.pc = "measure"] \in ReadRecords
    BY <1>1, <2>1 DEF ReadRecords, ReadPc
  <2> QED BY <1>3, <1>4, <1>9, <2>2 DEF GetBound
<1>10. CASE MeasureBound(r)
  <2> DEFINE w == Widest({Width(Chunks[row.batch][row.chunk]) : row \in RowsOf(read[r].series)} \cup {0})
             q == [read[r] EXCEPT !.pc = "measured", !.widest = w]
  <2>1. w \in Nat
    BY MeasuredIs
  <2>2. Set(r, q) /\ UNCHANGED caches
    BY <1>10 DEF MeasureBound
  <2> HIDE DEF w
  <2>3. q \in ReadRecords
    BY <1>1, <2>1 DEF ReadRecords, ReadPc
  <2> QED BY <1>3, <1>4, <2>2, <2>3
<1>11. CASE KeepBound(r)
  <2> DEFINE w == Widest({read[r].widest, bounds[read[r].series].widest})
             q == [read[r] EXCEPT !.pc = "query", !.widest = w]
  <2>1. w \in Nat
    <3>1. read[r].widest \in Nat /\ bounds[read[r].series].widest \in Nat
      BY <1>1 DEF ReadRecords, CachesTyped
    <3> QED BY <3>1, WidestOfTwo
  <2>2. Set(r, q) /\ bounds' = [bounds EXCEPT ![read[r].series] = [loaded |-> TRUE, widest |-> w]]
        /\ cache' = cache
    BY <1>11 DEF KeepBound
  <2> HIDE DEF w
  <2>3. q \in ReadRecords
    BY <1>1, <2>1 DEF ReadRecords, ReadPc
  <2>4. CachesTyped'
    BY <1>1, <2>1, <2>2 DEF CachesTyped
  <2> QED BY <1>3, <2>2, <2>3, <2>4
<1>12. CASE Query(r)
  <2> DEFINE overlapping == {row \in RowsOf(read[r].series) : Overlaps(row, read[r].window)}
             found == {row \in overlapping : read[r].window.lo - read[r].widest <= Chunks[row.batch][row.chunk].lo}
             q == [read[r] EXCEPT !.pc = "recheck", !.stored = overlapping, !.found = found]
  <2>1. overlapping \in SUBSET rows /\ found \in SUBSET rows
    BY DEF RowsOf
  <2>2. Set(r, q) /\ UNCHANGED caches
    BY <1>12 DEF Query
  <2> HIDE DEF overlapping, found
  <2>3. q \in ReadRecords
    BY <1>1, <2>1 DEF ReadRecords, ReadPc
  <2> QED BY <1>3, <1>4, <2>2, <2>3
<1>13. CASE Recheck(r)
  <2>1. bounds[read[r].series].widest \in Nat
    BY <1>1 DEF ReadRecords, CachesTyped
  <2>2. [read[r] EXCEPT !.pc = "query", !.widest = bounds[read[r].series].widest] \in ReadRecords
        /\ [read[r] EXCEPT !.pc = "done"] \in ReadRecords
    BY <1>1, <2>1 DEF ReadRecords, ReadPc
  <2> QED BY <1>3, <1>4, <1>13, <2>2 DEF Recheck
<1>14. CASE ReadEnd(r)
  BY <1>3, <1>4, <1>14, BlankReadTyped DEF ReadEnd
<1> QED
  BY <1>5, <1>6, <1>7, <1>8, <1>9, <1>10, <1>11, <1>12, <1>13, <1>14 DEF ReadStep

\* The restarted store: no caller and no read, allocators from the index.
LEMMA RestartTyped ==
  ASSUME Typed, Restart
  PROVE  Typed' /\ rows' = rows
<1> USE DEF process, index, caches, caller, history
<1>1. rows' = rows /\ UNCHANGED <<index, frames, genNext, batch>>
  BY DEF Restart
<1>2. TypeOK /\ RowsTyped /\ CallersTyped /\ IndexTyped /\ ProcessTyped
  BY TypeParts DEF Typed
<1>3. CallersTyped'
  <2>1. "idle" \in Before /\ "idle" \notin Locked /\ NoOne \notin Callers
    BY ConstantsAssumption DEF Before, Locked
  <2>2. txn' \in [Callers -> [ids : Seq(Nat), series : SeriesIds, epoch : Nat, registers : BOOLEAN]]
    <3>1. txn' = [c \in Callers |-> BlankTxn]
      BY DEF Restart
    <3> HIDE DEF BlankTxn
    <3> QED BY <3>1, BlankIsTyped
  <2> QED BY <1>2, <2>1, <2>2 DEF CallersTyped, Restart
<1>4. CachesTyped'
  <2>1. EmptyCache \in [generation : Nat, loaded : BOOLEAN, series : SUBSET [id : SeriesIds, tag : Tags]]
        /\ NoBound \in [loaded : BOOLEAN, widest : Nat]
    BY DEF EmptyCache, NoBound
  <2> HIDE DEF EmptyCache, NoBound
  <2> QED BY <2>1 DEF CachesTyped, Restart
<1>5. IndexTyped' /\ RowsTyped'
  BY <1>1, <1>2 DEF IndexTyped, RowsTyped
<1>6. ProcessTyped'
  <2> DEFINE f == [row \in rows |-> row.id + 1]
             n == Widest({seq.nextId} \cup {row.id + 1 : row \in rows})
  <2>1. n \in Nat
    <3>1. \A row \in rows : f[row] \in Nat /\ f[row] = row.id + 1
      BY <1>2 DEF IndexTyped, RowType
    <3>2. IsFiniteSet(rows) /\ seq.nextId \in Nat /\ f = [row \in rows |-> f[row]]
      BY <1>2 DEF RowsTyped, IndexTyped
    <3>3. {row.id + 1 : row \in rows} = {f[row] : row \in rows}
      BY <3>1
    <3> HIDE DEF f
    <3>4. Widest({f[row] : row \in rows} \cup {seq.nextId}) \in Nat
      <4>1. \A S, k : IsFiniteSet(S) /\ f = [row \in S |-> f[row]] /\ (\A row \in S : f[row] \in Nat)
                      /\ k \in Nat =>
              LET w == Widest({f[row] : row \in S} \cup {k})
              IN w \in Nat /\ k <= w /\ \A row \in S : f[row] <= w
        BY WidestOver
      <4> QED BY <3>1, <3>2, <4>1
    <3>5. {seq.nextId} \cup {row.id + 1 : row \in rows} = {f[row] : row \in rows} \cup {seq.nextId}
      BY <3>3
    <3> QED BY <3>4, <3>5
  <2>2. alloc' = [nextId |-> n, epoch |-> seq.epoch] /\ poisoned' = FALSE /\ UNCHANGED <<frames, genNext>>
    BY DEF Restart
  <2> HIDE DEF n
  <2> QED BY <1>2, <2>1, <2>2 DEF ProcessTyped, IndexTyped
<1>7. ReadTyped'
  <2>1. read' = [r \in Readers |-> BlankRead] /\ ReadRecords' = ReadRecords
    BY <1>1 DEF Restart, ReadRecords
  <2> QED BY <2>1, BlankReadTyped DEF ReadTyped
<1>8. TypeOK'
  BY <1>3, <1>4, <1>5, <1>6, <1>7, TypeParts, PTL
<1> QED BY <1>1, <1>5, <1>7, <1>8 DEF Typed

LEMMA IngestStepTyped ==
  ASSUME Safe, NEW c \in Callers, IngestStep(c)
  PROVE  Typed' /\ rows \subseteq rows'
<1> USE DEF process, index, caches, caller, history
<1>1. /\ TypeOK /\ ReadTyped /\ RowsTyped /\ GensInv /\ TxnInv /\ CatalogInv
      /\ IndexTyped /\ ProcessTyped /\ CachesTyped /\ CallersTyped
  BY TypeParts DEF Safe, Typed
<1>2. CallersTyped'
  BY <1>1, CallersStep
<1>3. IndexTyped' /\ RowsTyped' /\ rows \subseteq rows'
  <2>1. CASE UNCHANGED index
    BY <1>1, <2>1 DEF IndexTyped, RowsTyped
  <2>2. CASE Commit(c) /\ Land(c)
    BY <1>1, <2>2, LandTyped DEF Commit
  <2> QED BY <2>1, <2>2, IngestMoves
<1>4. ReadTyped'
  BY <1>1, <1>3, ReadsStay, IngestMoves
<1>5. ProcessTyped' /\ CachesTyped'
  <2>1. ASSUME UNCHANGED <<frames, process, caches>> PROVE ProcessTyped' /\ CachesTyped'
    BY <1>1, <2>1 DEF ProcessTyped, CachesTyped
  <2>2. CASE \E b \in Batches : Begin(c, b)
    BY <2>1, <2>2 DEF Begin
  <2>3. CASE CheckLedger(c) \/ LookUpSeries(c) \/ CheckRoom(c) \/ Commit(c)
    BY <2>1, <2>3 DEF CheckLedger, LookUpSeries, CheckRoom, Commit
  <2>4. CASE WriteFrame(c) \/ RemoveFrames(c)
    <3>1. gens[c] \in Seq(Nat)
      BY <1>1 DEF CallersTyped
    <3>2. \A i \in DOMAIN gens[c] : gens[c][i] \in Nat
      BY <3>1
    <3> QED BY <1>1, <2>4, <3>2 DEF WriteFrame, RemoveFrames, ProcessTyped, CachesTyped
  <2>5. CASE TakeLock(c) \/ Plan(c) \/ Drop(c)
    <3>1. UNCHANGED <<frames, genNext, poisoned, caches>>
      BY <2>5 DEF TakeLock, Plan, Drop
    <3>2. alloc' \in [nextId : Nat, epoch : Nat]
      <4>1. Len(gens[c]) \in Nat /\ alloc \in [nextId : Nat, epoch : Nat]
        BY <1>1 DEF CallersTyped, ProcessTyped
      <4>2. alloc' = alloc \/ alloc' = [alloc EXCEPT !.nextId = @ + Len(gens[c])]
        BY <2>5 DEF TakeLock, Plan, Drop
      <4> QED BY <4>1, <4>2
    <3> QED BY <1>1, <3>1, <3>2 DEF ProcessTyped, CachesTyped
  <2>6. CASE Submit(c)
    <3>1. Widened(c) \in [SeriesIds -> [loaded : BOOLEAN, widest : Nat]]
      BY <1>1, <2>6, WidenedIs DEF Submit, Locked
    <3>2. UNCHANGED <<frames, process, cache>> /\ (bounds' = bounds \/ bounds' = Widened(c))
      BY <2>6 DEF Submit
    <3> QED BY <1>1, <3>1, <3>2 DEF ProcessTyped, CachesTyped
  <2>7. CASE Finish(c)
    <3>1. txn[c].epoch \in Nat /\ cache.generation + 1 \in Nat
      BY <1>1 DEF CallersTyped, CachesTyped
    <3>2. alloc' \in [nextId : Nat, epoch : Nat]
      BY <1>1, <2>7, <3>1 DEF Finish, ProcessTyped
    <3>3. cache' \in [generation : Nat, loaded : BOOLEAN, series : SUBSET [id : SeriesIds, tag : Tags]]
      BY <1>1, <2>7, <3>1 DEF Finish, CachesTyped
    <3>4. poisoned' \in BOOLEAN /\ UNCHANGED <<frames, genNext, bounds>>
      BY <2>7 DEF Finish
    <3> QED BY <1>1, <3>2, <3>3, <3>4 DEF ProcessTyped, CachesTyped
  <2> QED BY <2>2, <2>3, <2>4, <2>5, <2>6, <2>7 DEF IngestStep
<1>6. TypeOK'
  BY <1>2, <1>3, <1>4, <1>5, TypeParts, PTL
<1> QED BY <1>3, <1>4, <1>6 DEF Typed

LEMMA TypedStep ==
  ASSUME Safe, Next
  PROVE  Typed' /\ (rows \subseteq rows')
<1>1. ASSUME NEW r \in Readers, ReadStep(r) PROVE Typed' /\ rows' = rows
  <2>1. UNCHANGED <<rows, ledger, catalog, seq, epochs, frames, genNext, poisoned, alloc, holder,
                    pc, batch, gens, txn>>
    BY <1>1, ReadMoves DEF index, process, caller
  <2>2. /\ TypeOK /\ ReadTyped /\ RowsTyped
        /\ IndexTyped /\ ProcessTyped /\ CallersTyped
    BY TypeParts DEF Safe, Typed
  <2>3. IndexTyped' /\ ProcessTyped' /\ CallersTyped' /\ RowsTyped'
    BY <2>1, <2>2 DEF IndexTyped, ProcessTyped, CallersTyped, RowsTyped
  <2>4. ReadTyped' /\ CachesTyped'
    BY <1>1, <2>2, ReadStepTyped
  <2>5. TypeOK'
    BY <2>3, <2>4, TypeParts, PTL
  <2> QED BY <2>1, <2>3, <2>4, <2>5 DEF Typed
<1>2. CASE Restart
  BY <1>2, RestartTyped DEF Safe
<1> QED BY <1>1, <1>2, IngestStepTyped DEF Next

-----------------------------------------------------------------------------
(* Callers, their frames and their transactions *)

LEMMA OthersStay ==
  ASSUME TypeOK, NEW c \in Callers, IngestStep(c), NEW d \in Callers, d # c
  PROVE  pc'[d] = pc[d] /\ batch'[d] = batch[d] /\ gens'[d] = gens[d] /\ txn'[d] = txn[d]
<1> USE DEF Return, GoTo, caller, TypeOK
<1>1. CASE \E b \in Batches : Begin(c, b)
  BY <1>1 DEF Begin
<1>2. CASE CheckLedger(c) \/ LookUpSeries(c) \/ CheckRoom(c)
  BY <1>2 DEF CheckLedger, LookUpSeries, CheckRoom
<1>3. CASE WriteFrame(c) \/ TakeLock(c)
  BY <1>3 DEF WriteFrame, TakeLock
<1>4. CASE Plan(c)
  BY <1>4 DEF Plan
<1>5. CASE Submit(c) \/ Commit(c)
  BY <1>5 DEF Submit, Commit
<1>6. CASE Finish(c) \/ RemoveFrames(c) \/ Drop(c)
  BY <1>6 DEF Finish, Failed, RemoveFrames, Drop
<1> QED BY <1>1, <1>2, <1>3, <1>4, <1>5, <1>6 DEF IngestStep

\* What a step makes of its own caller.
LEMMA ReturnIs ==
  ASSUME TypeOK, NEW c \in Callers, Return(c)
  PROVE  pc'[c] = "idle" /\ gens'[c] = <<>> /\ txn'[c] = BlankTxn /\ batch'[c] = batch[c]
BY DEF Return, GoTo, TypeOK

LEMMA GoesTo ==
  ASSUME TypeOK, NEW c \in Callers, NEW label, GoTo(c, label) PROVE pc'[c] = label
BY DEF GoTo, TypeOK

GensOf(c) ==
  /\ pc[c] \in {"idle", "check", "lookup", "room"} => gens[c] = <<>>
  /\ pc[c] = "write" => Len(gens[c]) < Len(Chunks[batch[c]])
  /\ pc[c] \in {"ready", "refused"} \cup Locked => Len(gens[c]) = Len(Chunks[batch[c]])

LEMMA GensInvStep ==
  ASSUME Safe, NEW c \in Callers, IngestStep(c)
  PROVE  GensInv'
<1>0. TypeOK /\ GensOf(c) /\ pc[c] \in Before \cup Locked /\ batch[c] \in Batches /\ gens[c] \in Seq(Nat)
      /\ genNext \in Nat
  BY DEF Safe, Typed, TypeOK, GensInv, GensOf
<1>1. SUFFICES GensOf(c)'
  <2>1. \A d \in Callers : d # c => GensOf(d)'
    BY <1>0, OthersStay DEF Safe, GensInv, GensOf, Locked
  <2> QED BY <2>1 DEF GensInv, GensOf
<1>2. ASSUME NEW b \in Batches, Begin(c, b) PROVE GensOf(c)'
  BY <1>0, <1>2 DEF Begin, GoTo, TypeOK, GensOf, Locked
<1>3. ASSUME Return(c) PROVE GensOf(c)'
  BY <1>0, <1>3, ReturnIs DEF GensOf, Locked
<1>4. ASSUME NEW label \in Locked \cup {"refused"}, GoTo(c, label), UNCHANGED <<batch, gens>>,
             pc[c] \in Locked \cup {"ready"}
      PROVE  GensOf(c)'
  BY <1>0, <1>4, GoesTo DEF GensOf, Locked
<1>5. ASSUME NEW label \in {"lookup", "room"}, GoTo(c, label), UNCHANGED <<batch, gens>>,
             pc[c] \in {"check", "lookup"}
      PROVE  GensOf(c)'
  BY <1>0, <1>5, GoesTo DEF GensOf, Locked
<1>6. ASSUME GoTo(c, "write"), UNCHANGED <<batch, gens>>, pc[c] \in {"check", "lookup", "room"}
      PROVE  GensOf(c)'
  <2>1. gens[c] = <<>> /\ Len(gens[c]) = 0
    BY <1>0, <1>6 DEF GensOf
  <2>2. Chunks[batch[c]] \in Seq([lo : Int, hi : Int]) /\ Chunks[batch[c]] # <<>>
    BY <1>0, ConstantsAssumption
  <2>3. Len(Chunks[batch[c]]) > 0
    <3>1. \A T, s : s \in Seq(T) /\ s # <<>> => Len(s) > 0
      OBVIOUS
    <3> QED BY <2>2, <3>1
  <2> QED BY <1>0, <1>6, <2>1, <2>3, GoesTo DEF GensOf, Locked
<1>7. CASE CheckLedger(c)
  BY <1>3, <1>5, <1>6, <1>7 DEF CheckLedger
<1>8. CASE LookUpSeries(c) \/ CheckRoom(c)
  BY <1>3, <1>5, <1>6, <1>8 DEF LookUpSeries, CheckRoom, caller
<1>9. CASE WriteFrame(c)
  <2>1. CASE Return(c)
    BY <1>3, <2>1
  <2>2. CASE gens' = [gens EXCEPT ![c] = Append(@, genNext)] /\ UNCHANGED <<batch, txn>>
             /\ GoTo(c, IF Len(gens'[c]) = Len(Chunks[batch[c]]) THEN "ready" ELSE "write")
    <3>1. gens'[c] = Append(gens[c], genNext) /\ batch'[c] = batch[c]
      BY <1>0, <2>2 DEF TypeOK
    <3>2. Len(gens'[c]) = Len(gens[c]) + 1 /\ Len(gens[c]) \in Nat
      BY <1>0, <3>1
    <3>3. Len(gens[c]) < Len(Chunks[batch[c]])
      BY <1>0, <1>9 DEF GensOf, WriteFrame
    <3>4. Len(Chunks[batch[c]]) \in Nat
      <4>1. Chunks[batch[c]] \in Seq([lo : Int, hi : Int])
        BY <1>0, ConstantsAssumption
      <4> QED BY <4>1, DomainIs
    <3>5. pc'[c] = IF Len(gens'[c]) = Len(Chunks[batch[c]]) THEN "ready" ELSE "write"
      BY <1>0, <2>2, GoesTo
    <3>6. CASE Len(gens'[c]) = Len(Chunks[batch[c]])
      BY <3>1, <3>5, <3>6 DEF GensOf
    <3>7. CASE Len(gens'[c]) # Len(Chunks[batch[c]])
      BY <3>1, <3>2, <3>3, <3>4, <3>5, <3>7 DEF GensOf, Locked
    <3> QED BY <3>6, <3>7
  <2> QED BY <1>9, <2>1, <2>2 DEF WriteFrame
<1>10. CASE TakeLock(c) \/ Plan(c) \/ Submit(c) \/ Commit(c)
  BY <1>3, <1>4, <1>10 DEF TakeLock, Plan, Submit, Commit, Locked
<1>11. CASE Finish(c) \/ RemoveFrames(c) \/ Drop(c)
  BY <1>3, <1>11 DEF Finish, Failed, RemoveFrames, Drop
<1> QED BY <1>2, <1>7, <1>8, <1>9, <1>10, <1>11 DEF IngestStep

\* The frames of the callers but one: as before.
LEMMA FramesStay ==
  ASSUME Safe, NEW c \in Callers, IngestStep(c), UNCHANGED <<rows, frames, genNext>>,
         gens'[c] = <<>> \/ (gens'[c] = gens[c] /\ (Unlanded(c) \/ ~Unlanded(c)'))
  PROVE  FramesInv'
<1>1. TypeOK /\ FramesInv
  BY DEF Safe, Typed
<1>2. FramesKept' /\ \A row \in rows' : row.gen < genNext'
  BY <1>1 DEF FramesInv, FramesKept
<1>3. \A d \in Callers : gens'[d] = <<>> \/ (gens'[d] = gens[d] /\ (Unlanded(d)' => Unlanded(d)))
  BY <1>1, OthersStay DEF Unlanded
<1>4. DOMAIN <<>> = {}
  OBVIOUS
<1> QED BY <1>1, <1>2, <1>3, <1>4 DEF FramesInv

LEMMA FramesWritten ==
  ASSUME Safe, NEW c \in Callers, WriteFrame(c)
  PROVE  FramesInv'
<1>1. TypeOK /\ FramesInv /\ IngestStep(c) /\ genNext \in Nat /\ gens[c] \in Seq(Nat)
      /\ \A row \in rows : row.gen \in Nat
  BY DEF Safe, Typed, TypeOK, IngestStep
<1>2. rows' = rows /\ genNext' = genNext + 1 /\ frames \subseteq frames' /\ pc[c] = "write"
  BY DEF WriteFrame, index
<1>3. \A d \in Callers : gens[d] \in Seq(Nat)
  BY <1>1 DEF TypeOK
<1>4. \A d \in Callers : \A i \in DOMAIN gens[d] : gens[d][i] \in Nat
  BY <1>3
<1>5. \A d \in Callers : d # c => gens'[d] = gens[d] /\ pc'[d] = pc[d]
  BY <1>1, OthersStay
<1>6. FramesKept' /\ \A row \in rows' : row.gen < genNext'
  BY <1>1, <1>2 DEF FramesInv, FramesKept
<1>7. CASE gens'[c] = <<>>
  <2>1. DOMAIN gens'[c] = {}
    BY <1>7
  <2> QED BY <1>1, <1>2, <1>4, <1>5, <1>6, <2>1 DEF FramesInv, Unlanded
<1>8. CASE gens'[c] = Append(gens[c], genNext) /\ frames' = frames \cup {genNext}
  <2>1. \A i \in DOMAIN gens'[c] : gens'[c][i] = genNext \/ (i \in DOMAIN gens[c] /\ gens'[c][i] = gens[c][i])
    BY <1>1, <1>8
  <2>2. Unlanded(c)
    BY <1>2 DEF Unlanded
  <2>3. \A i \in DOMAIN gens'[c] :
          /\ gens'[c][i] \in frames' /\ gens'[c][i] < genNext'
          /\ \A row \in rows' : row.gen # gens'[c][i]
          /\ \A d \in Callers : d # c => \A j \in DOMAIN gens'[d] : gens'[d][j] # gens'[c][i]
    <3> SUFFICES ASSUME NEW i \in DOMAIN gens'[c]
                 PROVE  /\ gens'[c][i] \in frames' /\ gens'[c][i] < genNext'
                        /\ \A row \in rows' : row.gen # gens'[c][i]
                        /\ \A d \in Callers : d # c => \A j \in DOMAIN gens'[d] : gens'[d][j] # gens'[c][i]
      OBVIOUS
    <3>1. CASE gens'[c][i] = genNext
      <4>1. gens'[c][i] \in frames' /\ gens'[c][i] < genNext'
        BY <1>1, <1>2, <1>8, <3>1
      <4>2. \A row \in rows' : row.gen # gens'[c][i]
        BY <1>1, <1>2, <3>1 DEF FramesInv
      <4>3. \A d \in Callers : d # c => \A j \in DOMAIN gens[d] : gens[d][j] # genNext
        BY <1>1, <1>4 DEF FramesInv
      <4> QED BY <1>5, <3>1, <4>1, <4>2, <4>3
    <3>2. CASE i \in DOMAIN gens[c] /\ gens'[c][i] = gens[c][i]
      <4>1. gens[c][i] \in frames /\ gens[c][i] < genNext /\ gens[c][i] \in Nat
        BY <1>1, <1>4, <3>2 DEF FramesInv
      <4>2. \A row \in rows' : row.gen # gens'[c][i]
        BY <1>1, <1>2, <2>2, <3>2 DEF FramesInv
      <4>3. \A d \in Callers : d # c => \A j \in DOMAIN gens[d] : gens[d][j] # gens[c][i]
        BY <1>1, <3>2 DEF FramesInv
      <4>4. gens'[c][i] \in frames' /\ gens'[c][i] < genNext'
        BY <1>1, <1>2, <3>2, <4>1
      <4> QED BY <1>5, <3>2, <4>2, <4>3, <4>4
    <3> QED BY <2>1, <3>1, <3>2
  <2>4. \A d \in Callers : d # c => \A i \in DOMAIN gens'[d] :
          /\ gens'[d][i] \in frames' /\ gens'[d][i] < genNext'
          /\ Unlanded(d)' => \A row \in rows' : row.gen # gens'[d][i]
          /\ \A e \in Callers : e # d /\ e # c => \A j \in DOMAIN gens'[e] : gens'[e][j] # gens'[d][i]
    BY <1>1, <1>2, <1>4, <1>5 DEF FramesInv, Unlanded
  <2> QED BY <1>6, <2>3, <2>4 DEF FramesInv
<1> QED
  <2>1. CASE Return(c)
    BY <1>1, <1>7, <2>1, ReturnIs
  <2>2. CASE gens' = [gens EXCEPT ![c] = Append(@, genNext)] /\ frames' = frames \cup {genNext}
    BY <1>1, <1>8, <2>2 DEF TypeOK
  <2> QED BY <2>1, <2>2 DEF WriteFrame

LEMMA FramesRemoved ==
  ASSUME Safe, NEW c \in Callers, RemoveFrames(c)
  PROVE  FramesInv'
<1> DEFINE own == {gens[c][i] : i \in DOMAIN gens[c]}
<1>1. TypeOK /\ FramesInv /\ IngestStep(c)
  BY DEF Safe, Typed, IngestStep
<1>2. rows' = rows /\ genNext' = genNext /\ frames \ own \subseteq frames' /\ Unlanded(c) /\ gens'[c] = <<>>
  BY <1>1, ReturnIs DEF RemoveFrames, index, process, Unlanded
<1>3. \A d \in Callers : d # c => gens'[d] = gens[d] /\ pc'[d] = pc[d]
  BY <1>1, OthersStay
<1>4. \A row \in rows : row.gen \notin own
  BY <1>1, <1>2 DEF FramesInv
<1>5. \A d \in Callers : d # c => \A j \in DOMAIN gens[d] : gens[d][j] \notin own
  BY <1>1 DEF FramesInv
<1>6. DOMAIN gens'[c] = {}
  BY <1>2
<1> HIDE DEF own
<1>7. FramesKept' /\ \A row \in rows' : row.gen < genNext'
  BY <1>1, <1>2, <1>4 DEF FramesInv, FramesKept
<1> QED BY <1>1, <1>2, <1>3, <1>5, <1>6, <1>7 DEF FramesInv, Unlanded

LEMMA FramesLanded ==
  ASSUME Safe, NEW c \in Callers, Commit(c), Land(c)
  PROVE  FramesInv'
<1>1. TypeOK /\ GensInv /\ TxnInv /\ FramesInv /\ IngestStep(c) /\ pc[c] = "committing"
  BY DEF Safe, Typed, IngestStep, Commit
<1>2. rows' = rows \cup NewRows(c) /\ UNCHANGED <<frames, genNext, gens>>
  BY DEF Land, Commit, process
<1>3. \A row \in NewRows(c) : \E i \in DOMAIN gens[c] : row.gen = gens[c][i]
  BY <1>1, NewRowsAre
<1>4. \A row \in NewRows(c) : row.gen \in frames /\ row.gen < genNext
  BY <1>1, <1>3 DEF FramesInv
<1>5. \A d \in Callers : d # c => pc'[d] = pc[d]
  BY <1>1, OthersStay
<1>6. \A d \in Callers : d # c => \A i \in DOMAIN gens[d] : \A row \in NewRows(c) : row.gen # gens[d][i]
  BY <1>1, <1>3 DEF FramesInv
<1>7. ~Unlanded(c)'
  <2>1. epochs' # epochs
    BY DEF Land, Accepted
  <2>2. GoTo(c, "landed") \/ GoTo(c, "ambiguous")
    BY <2>1 DEF Commit, index
  <2>3. pc'[c] = "landed" \/ pc'[c] = "ambiguous"
    BY <1>1, <2>2, GoesTo
  <2> QED BY <2>3 DEF Unlanded
<1>8. FramesKept' /\ \A row \in rows' : row.gen < genNext'
  BY <1>1, <1>2, <1>4 DEF FramesInv, FramesKept
<1>9. \A d \in Callers : d # c => (Unlanded(d)' => Unlanded(d))
  BY <1>5 DEF Unlanded
<1> QED BY <1>1, <1>2, <1>6, <1>7, <1>8, <1>9 DEF FramesInv

LEMMA FramesInvStep ==
  ASSUME Safe, NEW c \in Callers, IngestStep(c)
  PROVE  FramesInv'
<1>0. TypeOK /\ GensInv
  BY DEF Safe, Typed
<1>1. CASE Commit(c) /\ Land(c)
  BY <1>1, FramesLanded
<1>2. CASE WriteFrame(c)
  BY <1>2, FramesWritten
<1>3. CASE RemoveFrames(c)
  BY <1>3, FramesRemoved
<1>4. CASE UNCHANGED index /\ ~WriteFrame(c) /\ ~RemoveFrames(c)
  <2>1. rows' = rows
    BY <1>4 DEF index
  <2>2. ASSUME Return(c) PROVE gens'[c] = <<>>
    BY <1>0, <2>2, ReturnIs
  <2>3. ASSUME NEW b \in Batches, Begin(c, b) PROVE gens' = gens /\ UNCHANGED <<frames, genNext>> /\ Unlanded(c)
    BY <2>3 DEF Begin, process, Unlanded
  <2>4. CASE CheckLedger(c) \/ LookUpSeries(c) \/ CheckRoom(c) \/ TakeLock(c) \/ Plan(c) \/ Submit(c)
    <3>1. UNCHANGED <<frames, genNext>> /\ Unlanded(c) /\ (gens' = gens \/ Return(c))
      BY <2>4 DEF CheckLedger, LookUpSeries, CheckRoom, TakeLock, Plan, Submit, caller, process, Unlanded
    <3> QED BY <2>1, <2>2, <3>1, FramesStay
  <2>5. CASE Commit(c)
    BY <2>1, <2>5, FramesStay DEF Commit, process, Unlanded
  <2>6. CASE Finish(c) \/ Drop(c)
    BY <2>1, <2>2, <2>6, FramesStay DEF Finish, Failed, Drop
  <2> QED BY <1>4, <2>1, <2>3, <2>4, <2>5, <2>6, FramesStay DEF IngestStep
<1> QED BY <1>1, <1>2, <1>3, <1>4, IngestMoves

TxnOf(c) ==
  /\ pc[c] \in {"planned", "committing", "landed", "ambiguous"} =>
       /\ Len(txn[c].ids) = Len(gens[c])
       /\ txn[c].registers => Tag[batch[c]] # Untagged
       /\ ~txn[c].registers =>
            IF Tag[batch[c]] = Untagged THEN txn[c].series = 0
            ELSE [id |-> txn[c].series, tag |-> Tag[batch[c]]] \in catalog
  /\ pc[c] \in {"planned", "committing"} /\ txn[c].registers =>
       /\ txn[c].series = seq.nextSeries
       /\ HasRoom
       /\ \A s \in catalog : s.tag # Tag[batch[c]]
  /\ pc[c] = "landed" => ledger[Key[batch[c]]] = Receipt(c)

LEMMA OneHolder ==
  ASSUME TypeOK, NEW c \in Callers, pc[c] \in Locked, NEW d \in Callers, d # c
  PROVE  pc[d] \notin Locked
BY DEF TypeOK

LEMMA LandsAt ==
  ASSUME TypeOK, NEW c \in Callers, Commit(c), Land(c)
  PROVE  pc[c] = "committing" /\ pc'[c] \in {"landed", "ambiguous"} /\ txn' = txn /\ gens' = gens
         /\ batch' = batch /\ holder' = holder /\ ~Recorded(batch[c]) /\ batch[c] \in Batches
         /\ Key[batch[c]] \in Keys
<1>1. epochs' # epochs
  BY DEF Land, Accepted
<1>2. GoTo(c, "landed") \/ GoTo(c, "ambiguous")
  BY <1>1 DEF Commit, index
<1>3. pc'[c] = "landed" \/ pc'[c] = "ambiguous"
  BY <1>2, GoesTo
<1>4. batch[c] \in Batches /\ Key[batch[c]] \in Keys
  BY ConstantsAssumption DEF TypeOK
<1> QED BY <1>3, <1>4 DEF Commit, Land, Accepted, process

LEMMA TxnInvStep ==
  ASSUME Safe, NEW c \in Callers, IngestStep(c)
  PROVE  TxnInv'
<1>0. /\ TypeOK /\ TxnOf(c) /\ CatalogInv /\ batch[c] \in Batches /\ Key[batch[c]] \in Keys
      /\ ledger \in [Keys -> Receipts \cup {NoEntry}]
  BY ConstantsAssumption DEF Safe, Typed, TypeOK, TxnInv, TxnOf
<1>1. \A d \in Callers : d # c => TxnOf(d)'
  <2> SUFFICES ASSUME NEW d \in Callers, d # c PROVE TxnOf(d)'
    OBVIOUS
  <2>1. pc'[d] = pc[d] /\ batch'[d] = batch[d] /\ gens'[d] = gens[d] /\ txn'[d] = txn[d]
    BY <1>0, OthersStay
  <2>2. CASE UNCHANGED index
    <3>1. TxnOf(d)
      BY DEF Safe, TxnInv, TxnOf
    <3> QED BY <2>1, <2>2, <3>1 DEF TxnOf, index, HasRoom, Receipt
  <2>3. CASE Commit(c) /\ Land(c)
    <3>1. pc[d] \notin Locked
      BY <1>0, <2>3, OneHolder DEF Commit, Locked
    <3> QED BY <2>1, <3>1 DEF TxnOf, Locked
  <2> QED BY <2>2, <2>3, IngestMoves
<1>2. ASSUME TxnOf(c)' PROVE TxnInv'
  BY <1>1, <1>2 DEF TxnInv, TxnOf
<1>3. ASSUME pc'[c] \notin {"planned", "committing", "landed", "ambiguous"} PROVE TxnInv'
  BY <1>2, <1>3 DEF TxnOf
<1>4. ASSUME Return(c) PROVE TxnInv'
  BY <1>0, <1>3, <1>4, ReturnIs
<1>5. CASE (\E b \in Batches : Begin(c, b)) \/ CheckLedger(c) \/ LookUpSeries(c) \/ CheckRoom(c) \/ TakeLock(c)
  BY <1>0, <1>3, <1>4, <1>5, GoesTo DEF Begin, CheckLedger, LookUpSeries, CheckRoom, TakeLock
<1>6. CASE WriteFrame(c)
  BY <1>0, <1>3, <1>4, <1>6, GoesTo DEF WriteFrame
<1>7. CASE Plan(c)
  <2>1. CASE Return(c) \/ GoTo(c, "refused")
    BY <1>0, <1>3, <1>4, <2>1, GoesTo
  <2>2. CASE /\ GoTo(c, "planned") /\ UNCHANGED <<batch, gens, holder>> /\ MayRegister(batch[c])
             /\ txn' = [txn EXCEPT ![c] =
                  [ids |-> [i \in 1 .. Len(gens[c]) |-> alloc.nextId + i - 1],
                   series |-> IdFor(batch[c]), epoch |-> alloc.epoch + 1,
                   registers |-> ~Registered(batch[c])]]
    <3>1. pc'[c] = "planned" /\ UNCHANGED index
      BY <1>0, <1>7, <2>2, GoesTo DEF Plan
    <3>2. txn'[c] = [ids |-> [i \in 1 .. Len(gens[c]) |-> alloc.nextId + i - 1],
                     series |-> IdFor(batch[c]), epoch |-> alloc.epoch + 1,
                     registers |-> ~Registered(batch[c])]
      BY <1>0, <2>2 DEF TypeOK
    <3>3. Len(txn'[c].ids) = Len(gens[c])
      <4>1. Len(gens[c]) \in Nat
        BY <1>0 DEF TypeOK
      <4>2. \A n \in Nat : \A x : Len([i \in 1 .. n |-> x + i - 1]) = n
        OBVIOUS
      <4> QED BY <3>2, <4>1, <4>2
    <3>4. txn'[c].series = IdFor(batch[c]) /\ txn'[c].registers = ~Registered(batch[c])
      BY <3>2
    <3>5. Registered(batch[c]) \in BOOLEAN
      BY DEF Registered
    <3>6. /\ ~Registered(batch[c]) =>
                /\ Tag[batch[c]] # Untagged /\ HasRoom /\ IdFor(batch[c]) = seq.nextSeries
                /\ \A s \in catalog : s.tag # Tag[batch[c]]
          /\ Registered(batch[c]) =>
               IF Tag[batch[c]] = Untagged THEN IdFor(batch[c]) = 0
               ELSE [id |-> IdFor(batch[c]), tag |-> Tag[batch[c]]] \in catalog
      BY <1>0, <2>2, PlannedSeries
    <3>7. catalog' = catalog /\ seq' = seq /\ (HasRoom => HasRoom') /\ batch'[c] = batch[c] /\ gens'[c] = gens[c]
      BY <2>2, <3>1 DEF index, HasRoom
    <3>8. TxnOf(c)'
      BY <3>1, <3>3, <3>4, <3>5, <3>6, <3>7 DEF TxnOf
    <3> QED BY <1>2, <3>8
  <2> QED BY <1>7, <2>1, <2>2 DEF Plan
<1>8. CASE Submit(c)
  <2>1. pc[c] = "planned" /\ UNCHANGED <<index, batch, gens, txn>> /\ pc'[c] \in {"rejected", "committing"}
    BY <1>0, <1>8, GoesTo DEF Submit
  <2> QED BY <1>0, <1>2, <2>1 DEF TxnOf, index, HasRoom
<1>9. CASE Commit(c)
  <2>1. pc[c] = "committing" /\ UNCHANGED <<batch, gens, txn>>
    BY <1>9 DEF Commit
  <2>2. CASE UNCHANGED index /\ GoTo(c, "rejected")
    BY <1>0, <1>3, <2>2, GoesTo
  <2>3. CASE UNCHANGED index /\ GoTo(c, "ambiguous")
    BY <1>0, <1>2, <2>1, <2>3, GoesTo DEF TxnOf, index
  <2>4. CASE Land(c)
    <3>1. pc'[c] \in {"landed", "ambiguous"}
      BY <1>0, <1>9, <2>4, LandsAt
    <3>2. catalog \subseteq catalog' /\ ledger' = [ledger EXCEPT ![Key[batch[c]]] = Receipt(c)]
      BY <2>4 DEF Land
    <3>3. ledger'[Key[batch[c]]] = Receipt(c) /\ Receipt(c)' = Receipt(c)
      BY <1>0, <2>1, <3>2 DEF Receipt
    <3> QED BY <1>0, <1>2, <2>1, <3>1, <3>2, <3>3 DEF TxnOf
  <2> QED BY <1>9, <2>2, <2>3, <2>4 DEF Commit
<1>10. CASE Finish(c) \/ RemoveFrames(c) \/ Drop(c)
  BY <1>4, <1>10 DEF Finish, Failed, RemoveFrames, Drop
<1> QED BY <1>5, <1>6, <1>7, <1>8, <1>9, <1>10 DEF IngestStep

-----------------------------------------------------------------------------
(* Catalog and ledger *)

\* The cap and the uniqueness that Plan checked still hold when it lands.
LEMMA CatalogLanded ==
  ASSUME Safe, NEW c \in Callers, Commit(c), Land(c)
  PROVE  CatalogInv'
<1>1. /\ TypeOK /\ GensInv /\ TxnInv /\ CatalogInv /\ pc[c] = "committing"
      /\ catalog \in SUBSET [id : SeriesIds \ {0}, tag : Tags] /\ seq.nextSeries \in Nat
      /\ txn[c].series \in SeriesIds /\ txn[c].registers \in BOOLEAN
  BY DEF Safe, Typed, TypeOK, Commit
<1>2. rows' = rows \cup NewRows(c) /\ catalog \subseteq catalog'
  BY DEF Land
<1>3. \A row \in NewRows(c) : row.series = txn[c].series /\ row.batch = batch[c]
  BY <1>1, NewRowsAre
<1>4. \A s, q \in catalog : s.id = q.id \/ s.tag = q.tag => s = q
  BY <1>1 DEF CatalogInv, SeriesSound
<1>5. IsFiniteSet(catalog) /\ Cardinality(catalog) \in Nat
  BY <1>1, <1>4, CatalogFits
<1>6. \A row \in rows : IF Tag[row.batch] = Untagged THEN row.series = 0
                        ELSE [id |-> row.series, tag |-> Tag[row.batch]] \in catalog
  BY <1>1 DEF CatalogInv, SeriesSound
<1>7. CASE txn[c].registers
  <2> DEFINE new == [id |-> txn[c].series, tag |-> Tag[batch[c]]]
  <2>1. catalog' = catalog \cup {new} /\ seq'.nextSeries = seq.nextSeries + 1
        /\ txn[c].series = seq.nextSeries /\ HasRoom /\ Tag[batch[c]] # Untagged
        /\ \A s \in catalog : s.tag # Tag[batch[c]]
    <3>1. txn[c].series = seq.nextSeries /\ HasRoom /\ Tag[batch[c]] # Untagged
          /\ \A s \in catalog : s.tag # Tag[batch[c]]
      BY <1>1, <1>7 DEF TxnInv
    <3>2. catalog' = catalog \cup {new} /\ seq'.nextSeries = txn[c].series + 1
      BY <1>7 DEF Land
    <3> QED BY <3>1, <3>2
  <2>2. \A s \in catalog : s.id < seq.nextSeries /\ s.id \in Nat
    BY <1>1, TagsCounted DEF CatalogInv, SeriesSound
  <2>3. new.id = seq.nextSeries /\ new.tag = Tag[batch[c]]
    BY <2>1
  <2> HIDE DEF new
  <2>4. new \notin catalog
    BY <2>1, <2>3
  <2>5. Cardinality(catalog') = Cardinality(catalog) + 1
    BY <1>5, <2>1, <2>4, FS_AddElement
  <2>6. Cardinality(catalog') <= MaxSeries /\ seq'.nextSeries = Cardinality(catalog') + 1
    BY <1>1, <1>5, <2>1, <2>5, ConstantsAssumption DEF HasRoom, CatalogInv
  <2>7. \A s, q \in catalog' : s.id = q.id \/ s.tag = q.tag => s = q
    BY <1>1, <1>4, <2>1, <2>2, <2>3
  <2>8. \A s \in catalog' : s.id < seq'.nextSeries
    BY <1>1, <2>1, <2>2, <2>3
  <2>9. \A row \in rows' : IF Tag[row.batch] = Untagged THEN row.series = 0
                           ELSE [id |-> row.series, tag |-> Tag[row.batch]] \in catalog'
    BY <1>2, <1>3, <1>6, <2>1 DEF new
  <2> QED BY <2>6, <2>7, <2>8, <2>9 DEF CatalogInv, SeriesSound
<1>8. CASE ~txn[c].registers
  <2>1. catalog' = catalog /\ seq'.nextSeries = seq.nextSeries
    BY <1>8 DEF Land
  <2>2. IF Tag[batch[c]] = Untagged THEN txn[c].series = 0
        ELSE [id |-> txn[c].series, tag |-> Tag[batch[c]]] \in catalog
    BY <1>1, <1>8 DEF TxnInv
  <2>3. \A row \in rows' : IF Tag[row.batch] = Untagged THEN row.series = 0
                           ELSE [id |-> row.series, tag |-> Tag[row.batch]] \in catalog'
    BY <1>2, <1>3, <1>6, <2>1, <2>2
  <2> QED BY <1>1, <2>1, <2>3 DEF CatalogInv, SeriesSound
<1> QED BY <1>7, <1>8

\* The parts of LedgerInv: the index's, and the answers'.
LedgerRows ==
  /\ OncePerKey
  /\ \A k \in Keys : ledger[k] # NoEntry => Key[ledger[k].batch] = k

ReplyTrue(reply) ==
  /\ reply.batch \in Batches
  /\ reply.kind \in {"receipt", "replay"} =>
       /\ ledger[Key[reply.batch]] # NoEntry
       /\ reply.receipt.batch = reply.batch /\ ledger[Key[reply.batch]] = reply.receipt
  /\ reply.kind = "conflict" =>
       /\ ledger[Key[reply.batch]] # NoEntry
       /\ ledger[Key[reply.batch]].batch # reply.batch

\* The rows of a key are those of the recorded receipt.
Landed(entry, held) ==
  /\ Cardinality(held) = Len(Chunks[entry.batch])
  /\ \A i \in DOMAIN Chunks[entry.batch] : \E row \in held :
       /\ row.batch = entry.batch /\ row.chunk = i
       /\ row.id = entry.ids[i] /\ row.series = entry.series

LEMMA LedgerParts == LedgerInv <=> LedgerRows /\ \A reply \in replies : ReplyTrue(reply)
BY DEF LedgerInv, LedgerRows, ReplyTrue, RepliesHold

\* A batch lands under a key that has no row yet.
LEMMA LedgerLanded ==
  ASSUME Safe, NEW c \in Callers, Commit(c), Land(c)
  PROVE  LedgerInv'
<1> DEFINE b == batch[c]
<1>1. /\ TypeOK /\ GensInv /\ TxnInv /\ LedgerRows /\ pc[c] = "committing"
      /\ ledger \in [Keys -> Receipts \cup {NoEntry}] /\ rows \in SUBSET RowType
      /\ \A reply \in replies : ReplyTrue(reply)
  BY LedgerParts DEF Safe, Typed, TypeOK, Commit, RowType
<1>2. b \in Batches /\ Key[b] \in Keys /\ ledger[Key[b]] = NoEntry
  BY <1>1, LandsAt DEF Recorded
<1>3. rows' = rows \cup NewRows(c) /\ ledger' = [ledger EXCEPT ![Key[b]] = Receipt(c)]
  BY DEF Land
<1>4. ledger'[Key[b]] = Receipt(c) /\ Receipt(c) # NoEntry /\ Receipt(c).batch = b
      /\ Receipt(c).ids = txn[c].ids /\ Receipt(c).series = txn[c].series
      /\ \A k \in Keys : k # Key[b] => ledger'[k] = ledger[k]
  <2>1. Receipt(c) = [batch |-> b, ids |-> txn[c].ids, series |-> txn[c].series, epoch |-> txn[c].epoch]
    BY DEF Receipt
  <2>2. txn[c].ids \in Seq(Nat) /\ txn[c].series \in Nat /\ txn[c].epoch \in Nat
    BY <1>1, TagsCounted DEF TypeOK
  <2>3. Receipt(c) \in [batch : Batches, ids : Seq(Nat), series : Nat, epoch : Nat]
    BY <1>2, <2>1, <2>2
  <2>4. Receipt(c) # NoEntry
    BY <2>3, ConstantsAssumption
  <2>5. Receipt(c).batch = b /\ Receipt(c).ids = txn[c].ids /\ Receipt(c).series = txn[c].series
    BY <2>1
  <2> HIDE DEF Receipt
  <2>6. ledger'[Key[b]] = Receipt(c) /\ \A k \in Keys : k # Key[b] => ledger'[k] = ledger[k]
    BY <1>1, <1>2, <1>3
  <2> QED BY <2>4, <2>5, <2>6
<1>5. {row \in rows : Key[row.batch] = Key[b]} = {}
  BY <1>1, <1>2 DEF LedgerRows, OncePerKey
<1>6. \A row \in NewRows(c) : row.batch = b
  BY <1>1, NewRowsAre
<1>7. {row \in rows' : Key[row.batch] = Key[b]} = NewRows(c)
  BY <1>3, <1>5, <1>6
<1>8. Cardinality(NewRows(c)) = Len(Chunks[b]) /\ DOMAIN gens[c] = DOMAIN Chunks[b]
  BY <1>1, NewRowsAre
<1>9. \A i \in DOMAIN Chunks[b] : \E row \in NewRows(c) :
        row.batch = b /\ row.chunk = i /\ row.id = txn[c].ids[i] /\ row.series = txn[c].series
  <2> SUFFICES ASSUME NEW i \in DOMAIN gens[c]
               PROVE  \E row \in NewRows(c) :
                        row.batch = b /\ row.chunk = i /\ row.id = txn[c].ids[i] /\ row.series = txn[c].series
    BY <1>8
  <2> DEFINE row == [id |-> txn[c].ids[i], gen |-> gens[c][i], series |-> txn[c].series,
                     batch |-> b, chunk |-> i]
  <2>1. row \in NewRows(c)
    BY DEF NewRows
  <2> QED BY <2>1
<1> HIDE DEF Receipt
<1>10. ASSUME NEW k \in Keys, k # Key[b]
       PROVE  {row \in rows' : Key[row.batch] = k} = {row \in rows : Key[row.batch] = k}
  BY <1>3, <1>6, <1>10
<1>11. Landed(Receipt(c), NewRows(c))
  BY <1>4, <1>8, <1>9 DEF Landed
<1>12. OncePerKey'
  <2> HIDE DEF b
  <2>1. ASSUME NEW k \in Keys
        PROVE  IF ledger'[k] = NoEntry THEN {row \in rows' : Key[row.batch] = k} = {}
               ELSE Landed(ledger'[k], {row \in rows' : Key[row.batch] = k})
    <3>1. CASE k = Key[b]
      BY <1>4, <1>7, <1>11, <3>1
    <3>2. CASE k # Key[b]
      <4>1. IF ledger[k] = NoEntry THEN {row \in rows : Key[row.batch] = k} = {}
            ELSE Landed(ledger[k], {row \in rows : Key[row.batch] = k})
        BY <1>1 DEF LedgerRows, OncePerKey, Landed
      <4> QED BY <1>4, <1>10, <3>2, <4>1
    <3> QED BY <3>1, <3>2
  <2> QED BY <2>1 DEF OncePerKey, Landed
<1>13. LedgerRows'
  BY <1>1, <1>4, <1>12 DEF LedgerRows
<1>14. \A reply \in replies' : ReplyTrue(reply)'
  <2> SUFFICES ASSUME NEW reply \in replies PROVE ReplyTrue(reply)'
    BY DEF Commit, history
  <2>1. ReplyTrue(reply)
    BY <1>1
  <2>2. Key[reply.batch] \in Keys
    BY <2>1, ConstantsAssumption DEF ReplyTrue
  <2>3. ledger[Key[reply.batch]] # NoEntry => ledger'[Key[reply.batch]] = ledger[Key[reply.batch]]
    BY <1>2, <1>4, <2>2
  <2> QED BY <2>1, <2>3 DEF ReplyTrue
<1> QED BY <1>13, <1>14 DEF LedgerInv, LedgerRows, ReplyTrue, RepliesHold

\* Answers are given from the ledger: a step that does not land adds at most
\* one, and it is true.
LEMMA LedgerInvStep ==
  ASSUME Safe, NEW c \in Callers, IngestStep(c)
  PROVE  LedgerInv'
<1> USE DEF history
<1>0. /\ TypeOK /\ batch[c] \in Batches /\ LedgerRows /\ \A reply \in replies : ReplyTrue(reply)
  BY LedgerParts DEF Safe, Typed, TypeOK
<1>1. CASE Commit(c) /\ Land(c)
  BY <1>1, LedgerLanded
<1>2. CASE UNCHANGED index
  <2>1. ledger' = ledger /\ rows' = rows /\ LedgerRows'
    BY <1>0, <1>2 DEF index, LedgerRows, OncePerKey
  <2>2. ASSUME NEW new, ReplyTrue(new), replies' = replies \cup {new} PROVE LedgerInv'
    <3>1. \A reply \in replies' : ReplyTrue(reply)'
      BY <1>0, <2>1, <2>2 DEF ReplyTrue
    <3> QED BY <2>1, <3>1 DEF LedgerInv, LedgerRows, ReplyTrue, RepliesHold
  <2>3. ASSUME replies' = replies PROVE LedgerInv'
    <3>1. \A reply \in replies' : ReplyTrue(reply)'
      BY <1>0, <2>1, <2>3 DEF ReplyTrue
    <3> QED BY <2>1, <3>1 DEF LedgerInv, LedgerRows, ReplyTrue, RepliesHold
  <2>4. ASSUME NEW kind \in {"limit", "error"}, Reply(batch[c], kind, NoEntry) PROVE LedgerInv'
    BY <1>0, <2>2, <2>4 DEF Reply, ReplyTrue
  <2>5. ASSUME Recorded(batch[c]), Answer(batch[c]) PROVE LedgerInv'
    <3>1. CASE ledger[Key[batch[c]]].batch = batch[c]
      BY <1>0, <2>2, <2>5, <3>1 DEF Answer, Reply, ReplyTrue, Recorded
    <3>2. CASE ledger[Key[batch[c]]].batch # batch[c]
      BY <1>0, <2>2, <2>5, <3>2 DEF Answer, Reply, ReplyTrue, Recorded
    <3> QED BY <3>1, <3>2
  <2>6. ASSUME pc[c] = "landed", Reply(batch[c], "receipt", Receipt(c)) PROVE LedgerInv'
    <3>1. ledger[Key[batch[c]]] = Receipt(c) /\ Receipt(c).batch = batch[c]
      BY <2>6 DEF Safe, TxnInv, Receipt
    <3>2. Receipt(c) # NoEntry
      <4>1. Receipt(c) \in [batch : Batches, ids : Seq(Nat), series : Nat, epoch : Nat]
        BY <1>0, TagsCounted DEF Receipt, TypeOK
      <4> QED BY <4>1, ConstantsAssumption
    <3> HIDE DEF Receipt
    <3> QED BY <1>0, <2>2, <2>6, <3>1, <3>2 DEF Reply, ReplyTrue
  <2>7. CASE (\E b \in Batches : Begin(c, b)) \/ LookUpSeries(c) \/ TakeLock(c) \/ Submit(c) \/ Commit(c)
             \/ RemoveFrames(c) \/ Drop(c)
    BY <2>3, <2>7 DEF Begin, LookUpSeries, TakeLock, Submit, Commit, RemoveFrames, Drop
  <2>8. CASE CheckLedger(c) \/ CheckRoom(c)
    BY <2>3, <2>4, <2>5, <2>8 DEF CheckLedger, CheckRoom
  <2>9. CASE WriteFrame(c) \/ Plan(c)
    BY <2>3, <2>4, <2>5, <2>9 DEF WriteFrame, Plan
  <2>10. CASE Finish(c)
    BY <2>4, <2>6, <2>10 DEF Finish
  <2> QED BY <2>7, <2>8, <2>9, <2>10 DEF IngestStep
<1> QED BY <1>1, <1>2, IngestMoves

LEMMA CatalogInvStep ==
  ASSUME Safe, NEW c \in Callers, IngestStep(c)
  PROVE  CatalogInv'
<1>1. CASE Commit(c) /\ Land(c)
  BY <1>1, CatalogLanded
<1>2. CASE UNCHANGED index
  BY <1>2 DEF Safe, CatalogInv, SeriesSound, index
<1> QED BY <1>1, <1>2, IngestMoves

-----------------------------------------------------------------------------
(* The bounds of the seeks, and the reads that prune by them *)

\* Submit widens before the rows land, so that no kept bound is ever too narrow.
LEMMA BoundsInvStep ==
  ASSUME Safe, NEW c \in Callers, IngestStep(c)
  PROVE  BoundsInv'
<1>0. /\ TypeOK /\ ReadTyped /\ RowsTyped /\ GensInv /\ TxnInv /\ BoundsInv
      /\ \A row \in rows : RowWidth(row) \in Nat /\ row.series \in SeriesIds
      /\ bounds \in [SeriesIds -> [loaded : BOOLEAN, widest : Nat]]
  BY RowWidths DEF Safe, Typed, TypeOK, RowType
<1>1. ASSUME UNCHANGED <<rows, bounds>>, pc'[c] # "committing" PROVE BoundsInv'
  <2>1. \A d \in Callers : pc'[d] = "committing" => d # c
    BY <1>1
  <2>2. \A d \in Callers : pc'[d] = "committing" => \A i \in DOMAIN gens'[d] :
          Width(Chunks[batch'[d]][i]) <= bounds'[txn'[d].series].widest
    BY <1>0, <1>1, <2>1, OthersStay DEF BoundsInv
  <2> QED BY <1>0, <1>1, <2>2 DEF BoundsInv, RowWidth, Span
<1>2. ASSUME Return(c), UNCHANGED <<rows, bounds>> PROVE BoundsInv'
  BY <1>0, <1>1, <1>2, ReturnIs
<1>3. CASE (\E b \in Batches : Begin(c, b)) \/ CheckLedger(c) \/ LookUpSeries(c) \/ CheckRoom(c) \/ TakeLock(c)
  BY <1>0, <1>1, <1>2, <1>3, GoesTo DEF Begin, CheckLedger, LookUpSeries, CheckRoom, TakeLock, index, caches
<1>4. CASE WriteFrame(c) \/ Plan(c)
  BY <1>0, <1>1, <1>2, <1>4, GoesTo DEF WriteFrame, Plan, index, caches
<1>5. CASE Finish(c) \/ RemoveFrames(c) \/ Drop(c)
  BY <1>2, <1>5 DEF Finish, Failed, RemoveFrames, Drop, index, caches
<1>6. CASE Submit(c)
  <2>1. UNCHANGED <<rows, batch, gens, txn>> /\ pc[c] = "planned"
    BY <1>6 DEF Submit, index
  <2>2. CASE GoTo(c, "rejected") /\ UNCHANGED bounds
    BY <1>0, <1>1, <2>1, <2>2, GoesTo
  <2>3. CASE bounds' = Widened(c)
    <3>1. /\ \A i \in DOMAIN gens[c] : Width(Chunks[batch[c]][i]) <= bounds'[txn[c].series].widest
          /\ \A s \in SeriesIds : /\ bounds'[s].loaded = bounds[s].loaded
                                  /\ bounds[s].widest <= bounds'[s].widest
                                  /\ bounds[s].widest \in Nat /\ bounds'[s].widest \in Nat
      BY <1>0, <2>1, <2>3, WidenedIs DEF Locked
    <3>2. \A row \in rows : bounds'[row.series].loaded => RowWidth(row) <= bounds'[row.series].widest
      BY <1>0, <3>1 DEF BoundsInv
    <3>3. \A d \in Callers : d # c => pc'[d] # "committing"
      BY <1>0, <2>1, OthersStay, OneHolder DEF Locked
    <3> QED BY <2>1, <3>1, <3>2, <3>3 DEF BoundsInv, RowWidth, Span
  <2> QED BY <1>6, <2>2, <2>3 DEF Submit
<1>7. CASE Commit(c)
  <2>1. pc[c] = "committing" /\ UNCHANGED <<bounds, batch, gens, txn>>
    BY <1>7 DEF Commit, caches
  <2>2. pc'[c] # "committing"
    BY <1>0, <1>7, GoesTo DEF Commit
  <2>3. CASE UNCHANGED index
    BY <1>1, <2>1, <2>2, <2>3 DEF index
  <2>4. CASE Land(c)
    <3>1. rows' = rows \cup NewRows(c)
      BY <2>4 DEF Land
    <3>2. \A row \in NewRows(c) : RowWidth(row) <= bounds[row.series].widest
      <4>1. \A row \in NewRows(c) : row.series = txn[c].series /\ row.batch = batch[c] /\ row.chunk \in DOMAIN gens[c]
        BY <1>0, <2>1, NewRowsAre
      <4>2. \A i \in DOMAIN gens[c] : Width(Chunks[batch[c]][i]) <= bounds[txn[c].series].widest
        BY <1>0, <2>1 DEF BoundsInv
      <4> QED BY <4>1, <4>2 DEF RowWidth, Span
    <3>3. \A d \in Callers : pc'[d] # "committing"
      BY <1>0, <2>1, <2>2, OthersStay, OneHolder DEF Locked
    <3> QED BY <1>0, <2>1, <3>1, <3>2, <3>3 DEF BoundsInv, RowWidth, Span
  <2> QED BY <1>7, <2>3, <2>4 DEF Commit
<1> QED BY <1>3, <1>4, <1>5, <1>6, <1>7 DEF IngestStep

PruneOf(r) ==
  /\ read[r].pc = "measured" => \A row \in rows : row.series = read[r].series =>
       RowWidth(row) <= read[r].widest \/ RowWidth(row) <= bounds[read[r].series].widest
  /\ read[r].pc \in {"query", "recheck"} => bounds[read[r].series].loaded
  /\ read[r].pc = "recheck" =>
       /\ \A row \in read[r].stored : row.series = read[r].series /\ Overlaps(row, read[r].window)
       /\ read[r].found =
            {row \in read[r].stored : read[r].window.lo - read[r].widest <= Span(row).lo}
  /\ read[r].pc \notin {"query", "recheck"} => read[r].found = read[r].stored

\* Bounds are kept and widened, never dropped or narrowed.
BoundsGrow ==
  \A s \in SeriesIds : /\ bounds[s].loaded => bounds'[s].loaded
                       /\ bounds[s].widest <= bounds'[s].widest

\* A read that rests stays sound while bounds grow, and rows that land are
\* within them.
LEMMA PruneStays ==
  ASSUME Typed, PruneInv, NEW r \in Readers, read'[r] = read[r], BoundsGrow, CachesTyped', IndexTyped',
         RowsTyped', TypeOK',
         \A row \in rows' : row \in rows \/ RowWidth(row) <= bounds[row.series].widest
  PROVE  PruneOf(r)'
<1>1. PruneOf(r) /\ read[r] \in ReadRecords /\ read[r].series \in SeriesIds
  BY DEF PruneInv, PruneOf, Typed, ReadTyped, ReadRecords
<1>2. /\ bounds[read[r].series].widest \in Nat /\ bounds'[read[r].series].widest \in Nat
      /\ bounds[read[r].series].widest <= bounds'[read[r].series].widest
      /\ bounds[read[r].series].loaded => bounds'[read[r].series].loaded
  BY <1>1 DEF BoundsGrow, CachesTyped, Typed, TypeOK
<1>3. \A row \in rows' : RowWidth(row) \in Nat
  <2>1. \A row \in rows' : row.batch \in Batches /\ row.chunk \in DOMAIN Chunks[row.batch]
    BY DEF IndexTyped, RowsTyped, RowType
  <2> QED BY <2>1, WidthIsNat DEF RowWidth, Span
<1>4. read[r].pc = "measured" => \A row \in rows' : row.series = read[r].series =>
        RowWidth(row) <= read[r].widest \/ RowWidth(row) <= bounds'[read[r].series].widest
  <2> SUFFICES ASSUME read[r].pc = "measured", NEW row \in rows', row.series = read[r].series
               PROVE  RowWidth(row) <= read[r].widest \/ RowWidth(row) <= bounds'[read[r].series].widest
    OBVIOUS
  <2>1. RowWidth(row) <= read[r].widest \/ RowWidth(row) <= bounds[read[r].series].widest
    BY <1>1 DEF PruneOf
  <2>2. RowWidth(row) \in Nat
    BY <1>3
  <2> QED BY <1>2, <2>1, <2>2
<1> QED BY <1>1, <1>2, <1>4 DEF PruneOf, RowWidth, Span, Overlaps

\* The rows that land were announced.
LEMMA LandedWithinBounds ==
  ASSUME Safe, NEW c \in Callers, Commit(c), Land(c)
  PROVE  \A row \in rows' : row \in rows \/ RowWidth(row) <= bounds[row.series].widest
<1>1. TypeOK /\ GensInv /\ TxnInv /\ BoundsInv /\ pc[c] = "committing" /\ rows' = rows \cup NewRows(c)
  BY DEF Safe, Typed, Commit, Land
<1>2. \A row \in NewRows(c) : row.series = txn[c].series /\ row.batch = batch[c] /\ row.chunk \in DOMAIN gens[c]
  BY <1>1, NewRowsAre
<1>3. \A i \in DOMAIN gens[c] : Width(Chunks[batch[c]][i]) <= bounds[txn[c].series].widest
  BY <1>1 DEF BoundsInv
<1> QED BY <1>1, <1>2, <1>3 DEF RowWidth, Span

LEMMA PruneInvIngest ==
  ASSUME Safe, NEW c \in Callers, IngestStep(c)
  PROVE  PruneInv'
<1>1. /\ Typed /\ TypeOK /\ ReadTyped /\ RowsTyped /\ GensInv /\ PruneInv
      /\ bounds \in [SeriesIds -> [loaded : BOOLEAN, widest : Nat]]
  BY DEF Safe, Typed, TypeOK
<1>2. Typed' /\ TypeOK' /\ RowsTyped' /\ CachesTyped' /\ IndexTyped'
  <2>1. Typed'
    BY IngestStepTyped
  <2> QED BY <2>1 DEF Typed, TypeOK, CachesTyped, IndexTyped, RowType
<1>3. read' = read
  BY IngestMoves
<1>4. BoundsGrow
  <2>1. CASE bounds' = bounds
    BY <1>1, <2>1 DEF BoundsGrow
  <2>2. CASE Submit(c) /\ bounds' = Widened(c)
    BY <1>1, <2>2, WidenedIs DEF BoundsGrow, Submit, Locked
  <2>3. bounds' = bounds \/ (Submit(c) /\ bounds' = Widened(c))
    BY DEF IngestStep, Begin, CheckLedger, LookUpSeries, CheckRoom, WriteFrame, TakeLock, Plan, Submit,
           Commit, Finish, RemoveFrames, Drop, caches
  <2> QED BY <2>1, <2>2, <2>3
<1>5. \A row \in rows' : row \in rows \/ RowWidth(row) <= bounds[row.series].widest
  BY LandedWithinBounds, IngestMoves DEF index
<1>6. \A r \in Readers : PruneOf(r)'
  BY <1>1, <1>2, <1>3, <1>4, <1>5, PruneStays
<1> QED BY <1>6 DEF PruneInv, PruneOf

\* KeepBound folds the measured width into the bound: what landed since the
\* measurement is within the bound, and the rest within the measurement.
LEMMA BoundsInvRead ==
  ASSUME Safe, NEW r \in Readers, ReadStep(r)
  PROVE  BoundsInv' /\ BoundsGrow
<1>0. /\ TypeOK /\ BoundsInv /\ GensInv /\ TxnInv /\ PruneOf(r) /\ read[r] \in ReadRecords
      /\ bounds \in [SeriesIds -> [loaded : BOOLEAN, widest : Nat]]
      /\ \A row \in rows : RowWidth(row) \in Nat /\ row.series \in SeriesIds
  BY RowWidths DEF Safe, Typed, TypeOK, RowType, PruneInv, PruneOf, ReadTyped
<1>1. UNCHANGED <<rows, pc, batch, gens, txn>>
  BY ReadMoves DEF index, caller
<1>2. CASE bounds' = bounds
  BY <1>0, <1>1, <1>2 DEF BoundsInv, BoundsGrow, RowWidth, Span
<1>3. CASE KeepBound(r)
  <2> DEFINE s == read[r].series
             w == Widest({read[r].widest, bounds[s].widest})
  <2>1. s \in SeriesIds /\ read[r].widest \in Nat /\ bounds[s].widest \in Nat
    BY <1>0 DEF ReadRecords
  <2>2. w \in Nat /\ read[r].widest <= w /\ bounds[s].widest <= w
    BY <2>1, WidestOfTwo
  <2>3. bounds' = [bounds EXCEPT ![s] = [loaded |-> TRUE, widest |-> w]] /\ read[r].pc = "measured"
    BY <1>3 DEF KeepBound
  <2> HIDE DEF w, s
  <2>4. bounds'[s].widest = w /\ bounds'[s].loaded /\ \A t \in SeriesIds : t # s => bounds'[t] = bounds[t]
    BY <1>0, <2>1, <2>3
  <2>5. \A t \in SeriesIds : bounds[t].widest \in Nat /\ bounds[t].widest <= bounds'[t].widest
                             /\ bounds'[t].widest \in Nat
    BY <1>0, <2>2, <2>4
  <2>6. \A t \in SeriesIds : bounds[t].loaded => bounds'[t].loaded
    BY <2>4
  <2>7. ASSUME NEW row \in rows, bounds'[row.series].loaded PROVE RowWidth(row) <= bounds'[row.series].widest
    <3>1. RowWidth(row) \in Nat /\ row.series \in SeriesIds
      BY <1>0
    <3>2. CASE row.series = s
      <4>1. RowWidth(row) <= read[r].widest \/ RowWidth(row) <= bounds[s].widest
        BY <1>0, <2>3, <3>2 DEF PruneOf, s
      <4> QED BY <2>1, <2>2, <2>4, <3>1, <3>2, <4>1
    <3>3. CASE row.series # s
      BY <1>0, <2>4, <2>7, <3>1, <3>3 DEF BoundsInv
    <3> QED BY <3>2, <3>3
  <2>8. ASSUME NEW c \in Callers, pc[c] = "committing", NEW i \in DOMAIN gens[c]
        PROVE  Width(Chunks[batch[c]][i]) <= bounds'[txn[c].series].widest
    <3>1. Width(Chunks[batch[c]][i]) \in Nat
      BY <1>0, <2>8, NewRowsAre
    <3>2. Width(Chunks[batch[c]][i]) <= bounds[txn[c].series].widest /\ txn[c].series \in SeriesIds
      BY <1>0, <2>8 DEF BoundsInv, TypeOK
    <3> QED BY <2>5, <3>1, <3>2
  <2> QED BY <1>1, <2>5, <2>6, <2>7, <2>8 DEF BoundsInv, BoundsGrow, RowWidth, Span
<1>4. bounds' = bounds \/ KeepBound(r)
  BY DEF ReadStep, ReadBegin, Resolve, LoadCatalog, KeepCatalog, GetBound, MeasureBound, Query, Recheck,
         ReadEnd, caches
<1> QED BY <1>2, <1>3, <1>4

\* Overlapping rows that the seek passes over are wider than its bound.
LEMMA SeekMisses ==
  ASSUME TypeOK, RowsTyped, NEW row \in rows, NEW window \in [lo : Int, hi : Int], Overlaps(row, window),
         NEW widest \in Nat, RowWidth(row) <= widest
  PROVE  window.lo - widest <= Span(row).lo
<1>1. Span(row) \in [lo : Int, hi : Int] /\ RowWidth(row) \in Nat
  BY RowWidths
<1>2. RowWidth(row) = Span(row).hi - Span(row).lo
  BY DEF RowWidth, Width
<1>3. window.lo <= Span(row).hi
  BY DEF Overlaps, Span
<1>4. window.lo \in Int /\ Span(row).lo \in Int /\ Span(row).hi \in Int
  BY <1>1
<1> HIDE DEF Span, RowWidth
<1> QED BY <1>1, <1>2, <1>3, <1>4

\* A second look that finds the bound where it was lets the rows found stand.
LEMMA SettledIsExact ==
  ASSUME Safe, NEW r \in Readers, read[r].pc = "recheck", Settled(r)
  PROVE  read[r].found = read[r].stored
<1>1. /\ TypeOK /\ RowsTyped /\ BoundsInv /\ PruneOf(r) /\ read[r] \in ReadRecords
  BY DEF Safe, Typed, PruneInv, PruneOf, ReadTyped
<1>2. /\ read[r].stored \subseteq rows /\ read[r].window \in [lo : Int, hi : Int]
      /\ read[r].widest \in Nat /\ bounds[read[r].series].widest = read[r].widest
  BY <1>1 DEF ReadRecords, Settled
<1>3. ASSUME NEW row \in read[r].stored PROVE read[r].window.lo - read[r].widest <= Span(row).lo
  <2>1. row \in rows /\ row.series = read[r].series /\ Overlaps(row, read[r].window)
    BY <1>1, <1>2 DEF PruneOf
  <2>2. RowWidth(row) <= read[r].widest
    BY <1>1, <1>2, <2>1 DEF BoundsInv, PruneOf
  <2> QED BY <1>1, <1>2, <2>1, <2>2, SeekMisses
<1>4. read[r].found = {row \in read[r].stored : read[r].window.lo - read[r].widest <= Span(row).lo}
  BY <1>1 DEF PruneOf
<1> QED BY <1>3, <1>4

LEMMA SetIs ==
  ASSUME ReadTyped, NEW r \in Readers, NEW x, Set(r, x)
  PROVE  read'[r] = x /\ \A q \in Readers : q # r => read'[q] = read[q]
BY DEF Set, ReadTyped

LEMMA OtherReadsStay ==
  ASSUME ReadTyped, NEW r \in Readers, ReadStep(r), NEW q \in Readers, q # r
  PROVE  read'[q] = read[q]
<1>1. \E x : Set(r, x)
  BY DEF ReadStep, ReadBegin, Resolve, LoadCatalog, KeepCatalog, GetBound, MeasureBound, KeepBound,
         Query, Recheck, ReadEnd
<1> QED BY <1>1, SetIs

\* What resolve_series leaves of a read.
LEMMA FoundIs ==
  ASSUME ReadTyped, NEW r \in Readers, NEW series
  PROVE  /\ Found(r, series).pc \in {"done", "bound"}
         /\ Found(r, series).tag = read[r].tag /\ Found(r, series).window = read[r].window
         /\ Found(r, series).found = read[r].found /\ Found(r, series).stored = read[r].stored
         /\ Found(r, series).owed = read[r].owed
         /\ Found(r, series).pc = "done" => \A s \in series : s.tag # read[r].tag
         /\ Found(r, series).pc = "bound" =>
              \E s \in series : s.tag = read[r].tag /\ s.id = Found(r, series).series
<1> DEFINE ids == {s.id : s \in {q \in series : q.tag = read[r].tag}}
<1>1. read[r] \in ReadRecords
  BY DEF ReadTyped
<1>2. CASE ids = {}
  <2>1. Found(r, series) = [read[r] EXCEPT !.pc = "done", !.loaded = {}]
    BY <1>2 DEF Found
  <2> QED BY <1>1, <1>2, <2>1 DEF ReadRecords
<1>3. CASE ids # {}
  <2> DEFINE x == CHOOSE id \in ids : TRUE
  <2>1. x \in ids
    BY <1>3
  <2>2. Found(r, series) = [read[r] EXCEPT !.pc = "bound", !.series = x, !.loaded = {}]
    BY <1>3 DEF Found
  <2>3. \E s \in series : s.tag = read[r].tag /\ s.id = x
    BY <2>1
  <2> HIDE DEF x
  <2> QED BY <1>1, <2>2, <2>3 DEF ReadRecords
<1> QED BY <1>2, <1>3

LEMMA PruneInvRead ==
  ASSUME Safe, NEW r \in Readers, ReadStep(r)
  PROVE  PruneInv'
<1> USE DEF index, caches
<1>0. /\ Typed /\ TypeOK /\ ReadTyped /\ RowsTyped /\ PruneInv /\ BoundsInv /\ PruneOf(r)
      /\ read[r] \in ReadRecords
      /\ bounds \in [SeriesIds -> [loaded : BOOLEAN, widest : Nat]]
  BY DEF Safe, Typed, TypeOK, ReadTyped, PruneInv, PruneOf
<1>1. /\ BoundsGrow /\ rows' = rows
      /\ Typed' /\ TypeOK' /\ RowsTyped' /\ CachesTyped' /\ IndexTyped'
  <2>1. Typed'
    BY TypedStep DEF Next
  <2>2. BoundsGrow /\ rows' = rows
    BY BoundsInvRead, ReadMoves
  <2> QED BY <2>1, <2>2 DEF Typed, TypeOK, CachesTyped, IndexTyped, RowType
<1>2. SUFFICES PruneOf(r)'
  <2>1. \A q \in Readers : q # r => PruneOf(q)'
    BY <1>0, <1>1, OtherReadsStay, PruneStays
  <2> QED BY <2>1 DEF PruneInv, PruneOf
<1>3. ASSUME read'[r].pc \notin {"measured", "query", "recheck"}, read'[r].found = read'[r].stored
      PROVE  PruneOf(r)'
  BY <1>3 DEF PruneOf
<1>4. CASE \E tag \in Tags \cup {Untagged}, window \in Windows : ReadBegin(r, tag, window)
  <2>1. PICK tag \in Tags \cup {Untagged}, window \in Windows : ReadBegin(r, tag, window)
    BY <1>4
  <2>2. read'[r] = [BlankRead EXCEPT !.pc = IF tag = Untagged THEN "bound" ELSE "resolve",
                      !.tag = tag, !.window = window, !.owed = Acknowledged(tag, window)]
    BY <1>0, <2>1, SetIs DEF ReadBegin
  <2> QED BY <1>3, <2>2 DEF BlankRead
<1>5. CASE Resolve(r)
  <2>1. CASE cache.loaded
    <3>1. read'[r] = Found(r, cache.series) /\ read[r].pc = "resolve"
      BY <1>0, <1>5, <2>1, SetIs DEF Resolve
    <3> QED BY <1>0, <1>3, <3>1, FoundIs DEF PruneOf
  <2>2. CASE ~cache.loaded
    <3>1. read'[r] = [read[r] EXCEPT !.pc = "load", !.generation = cache.generation] /\ read[r].pc = "resolve"
      BY <1>0, <1>5, <2>2, SetIs DEF Resolve
    <3> QED BY <1>0, <1>3, <3>1 DEF PruneOf, ReadRecords
  <2> QED BY <2>1, <2>2
<1>6. CASE LoadCatalog(r)
  <2>1. read'[r] = [read[r] EXCEPT !.pc = "keep", !.loaded = catalog] /\ read[r].pc = "load"
    BY <1>0, <1>6, SetIs DEF LoadCatalog
  <2> QED BY <1>0, <1>3, <2>1 DEF PruneOf, ReadRecords
<1>7. CASE KeepCatalog(r)
  <2>1. read'[r] = Found(r, read[r].loaded) /\ read[r].pc = "keep"
    BY <1>0, <1>7, SetIs DEF KeepCatalog
  <2> QED BY <1>0, <1>3, <2>1, FoundIs DEF PruneOf
<1>8. CASE GetBound(r)
  <2>1. bounds' = bounds /\ read[r].pc = "bound"
    BY <1>8 DEF GetBound
  <2>2. CASE bounds[read[r].series].loaded
    <3>1. read'[r] = [read[r] EXCEPT !.pc = "query", !.widest = bounds[read[r].series].widest]
      BY <1>0, <1>8, <2>2, SetIs DEF GetBound
    <3>2. read'[r].pc = "query" /\ read'[r].series = read[r].series
      BY <1>0, <3>1 DEF ReadRecords
    <3> QED BY <2>1, <2>2, <3>2 DEF PruneOf
  <2>3. CASE ~bounds[read[r].series].loaded
    <3>1. read'[r] = [read[r] EXCEPT !.pc = "measure"]
      BY <1>0, <1>8, <2>3, SetIs DEF GetBound
    <3> QED BY <1>0, <1>3, <2>1, <3>1 DEF PruneOf, ReadRecords
  <2> QED BY <2>2, <2>3
<1>9. CASE MeasureBound(r)
  <2> DEFINE w == Widest({Width(Chunks[row.batch][row.chunk]) : row \in RowsOf(read[r].series)} \cup {0})
  <2>1. w \in Nat /\ \A row \in RowsOf(read[r].series) : RowWidth(row) <= w
    BY <1>0, MeasuredIs
  <2>2. read'[r] = [read[r] EXCEPT !.pc = "measured", !.widest = w] /\ read[r].pc = "measure"
    BY <1>0, <1>9, SetIs DEF MeasureBound
  <2> HIDE DEF w
  <2>3. /\ read'[r].pc = "measured" /\ read'[r].series = read[r].series /\ read'[r].widest = w
        /\ read'[r].found = read[r].found /\ read'[r].stored = read[r].stored
    BY <1>0, <2>2 DEF ReadRecords
  <2>4. \A row \in rows' : row.series = read'[r].series => RowWidth(row) <= read'[r].widest
    BY <1>1, <2>1, <2>3 DEF RowsOf
  <2> QED BY <1>0, <2>2, <2>3, <2>4 DEF PruneOf, RowWidth, Span
<1>10. CASE KeepBound(r)
  <2> DEFINE w == Widest({read[r].widest, bounds[read[r].series].widest})
  <2>1. read'[r] = [read[r] EXCEPT !.pc = "query", !.widest = w]
        /\ bounds' = [bounds EXCEPT ![read[r].series] = [loaded |-> TRUE, widest |-> w]]
    BY <1>0, <1>10, SetIs DEF KeepBound
  <2> HIDE DEF w
  <2>2. read'[r].pc = "query" /\ read'[r].series = read[r].series /\ read[r].series \in SeriesIds
    BY <1>0, <2>1 DEF ReadRecords
  <2>3. bounds'[read[r].series].loaded
    BY <1>0, <2>1, <2>2
  <2> QED BY <2>2, <2>3 DEF PruneOf
<1>11. CASE Query(r)
  <2> DEFINE overlapping == {row \in RowsOf(read[r].series) : Overlaps(row, read[r].window)}
             found == {row \in overlapping : read[r].window.lo - read[r].widest <= Chunks[row.batch][row.chunk].lo}
  <2>1. read'[r] = [read[r] EXCEPT !.pc = "recheck", !.stored = overlapping, !.found = found]
        /\ read[r].pc = "query" /\ bounds' = bounds
    BY <1>0, <1>11, SetIs DEF Query
  <2> HIDE DEF overlapping, found
  <2>2. /\ read'[r].pc = "recheck" /\ read'[r].series = read[r].series /\ read'[r].window = read[r].window
        /\ read'[r].widest = read[r].widest /\ read'[r].stored = overlapping /\ read'[r].found = found
    BY <1>0, <2>1 DEF ReadRecords
  <2>3. \A row \in overlapping : row.series = read[r].series /\ Overlaps(row, read[r].window)
    BY DEF overlapping, RowsOf
  <2>4. found = {row \in overlapping : read[r].window.lo - read[r].widest <= Span(row).lo}
    BY DEF found, Span
  <2> QED BY <1>0, <2>1, <2>2, <2>3, <2>4 DEF PruneOf, Overlaps, Span
<1>12. CASE Recheck(r)
  <2>1. read[r].pc = "recheck" /\ bounds' = bounds
    BY <1>12 DEF Recheck
  <2>2. CASE Settled(r)
    <3>1. read'[r] = [read[r] EXCEPT !.pc = "done"]
      BY <1>0, <1>12, <2>2, SetIs DEF Recheck
    <3>2. read'[r].pc = "done" /\ read'[r].found = read[r].found /\ read'[r].stored = read[r].stored
      BY <1>0, <3>1 DEF ReadRecords
    <3> QED BY <1>3, <2>1, <2>2, <3>2, SettledIsExact
  <2>3. CASE ~Settled(r)
    <3>1. read'[r] = [read[r] EXCEPT !.pc = "query", !.widest = bounds[read[r].series].widest]
      BY <1>0, <1>12, <2>3, SetIs DEF Recheck
    <3>2. read'[r].pc = "query" /\ read'[r].series = read[r].series
      BY <1>0, <3>1 DEF ReadRecords
    <3> QED BY <1>0, <2>1, <3>2 DEF PruneOf
  <2> QED BY <2>2, <2>3
<1>13. CASE ReadEnd(r)
  <2>1. read'[r] = BlankRead
    BY <1>0, <1>13, SetIs DEF ReadEnd
  <2> QED BY <1>3, <2>1 DEF BlankRead
<1> QED
  BY <1>4, <1>5, <1>6, <1>7, <1>8, <1>9, <1>10, <1>11, <1>12, <1>13 DEF ReadStep

-----------------------------------------------------------------------------
(* What holds whatever fails, is dropped or restarts *)

\* A restart forgets callers, reads and bounds, and leaves the index.
LEMMA RestartSafe ==
  ASSUME Safe, Restart
  PROVE  Safe'
<1>1. /\ Typed' /\ rows' = rows /\ UNCHANGED <<index, frames, genNext, replies>>
      /\ bounds' = [s \in SeriesIds |-> NoBound]
      /\ \A c \in Callers : pc'[c] = "idle" /\ gens'[c] = <<>>
      /\ \A r \in Readers : read'[r] = BlankRead
  BY RestartTyped DEF Safe, Restart
<1>2. GensInv'
  BY <1>1 DEF GensInv, Locked
<1>3. FramesInv'
  <2>1. FramesKept' /\ \A row \in rows' : row.gen < genNext'
    BY <1>1 DEF Safe, FramesInv, FramesKept
  <2>2. \A c \in Callers : DOMAIN gens'[c] = {}
    BY <1>1
  <2> QED BY <2>1, <2>2 DEF FramesInv
<1>4. TxnInv'
  BY <1>1 DEF TxnInv
<1>5. CatalogInv'
  BY <1>1 DEF Safe, CatalogInv, SeriesSound, index
<1>6. LedgerInv'
  BY <1>1 DEF Safe, LedgerInv, OncePerKey, RepliesHold, index
<1>7. BoundsInv'
  <2>1. \A s \in SeriesIds : ~bounds'[s].loaded
    BY <1>1 DEF NoBound
  <2>2. \A row \in rows' : row.series \in SeriesIds
    BY <1>1 DEF Typed, TypeOK
  <2> QED BY <1>1, <2>1, <2>2 DEF BoundsInv
<1>8. PruneInv'
  <2>1. BlankRead.pc = "idle" /\ BlankRead.found = BlankRead.stored
    BY DEF BlankRead
  <2>2. \A r \in Readers : read'[r].pc = "idle" /\ read'[r].found = read'[r].stored
    BY <1>1, <2>1
  <2> QED BY <2>2 DEF PruneInv
<1> QED BY <1>1, <1>2, <1>3, <1>4, <1>5, <1>6, <1>7, <1>8 DEF Safe

LEMMA SafeStep ==
  ASSUME Safe, [Next]_vars
  PROVE  Safe'
<1>1. ASSUME NEW c \in Callers, IngestStep(c) PROVE Safe'
  BY <1>1, IngestStepTyped, GensInvStep, FramesInvStep, TxnInvStep, CatalogInvStep, LedgerInvStep,
     BoundsInvStep, PruneInvIngest DEF Safe
<1>2. ASSUME NEW r \in Readers, ReadStep(r) PROVE Safe'
  <2>1. UNCHANGED <<index, frames, process, caller, replies>>
    BY <1>2, ReadMoves
  <2>2. Typed'
    BY <1>2, TypedStep DEF Next
  <2>3. GensInv' /\ TxnInv' /\ CatalogInv'
    BY <2>1 DEF Safe, GensInv, TxnInv, CatalogInv, SeriesSound, HasRoom, Receipt, index, caller
  <2>4. FramesInv' /\ LedgerInv'
    <3>1. FramesInv'
      BY <2>1 DEF Safe, FramesInv, FramesKept, Unlanded, index, process, caller
    <3>2. LedgerInv'
      BY <2>1 DEF Safe, LedgerInv, OncePerKey, RepliesHold, index
    <3> QED BY <3>1, <3>2
  <2>5. BoundsInv' /\ PruneInv'
    BY <1>2, BoundsInvRead, PruneInvRead
  <2> QED BY <2>2, <2>3, <2>4, <2>5 DEF Safe
<1>3. CASE UNCHANGED vars
  <2>1. UNCHANGED <<index, frames, process, caches, caller, read, replies>>
    BY <1>3 DEF vars, history
  <2>2. Typed'
    BY <2>1 DEF Safe, Typed, TypeOK, ReadTyped, ReadRecords, RowsTyped, index, process, caches, caller
  <2>3. GensInv' /\ TxnInv' /\ CatalogInv'
    BY <2>1 DEF Safe, GensInv, TxnInv, CatalogInv, SeriesSound, HasRoom, Receipt, index, caller
  <2>4. FramesInv' /\ LedgerInv'
    <3>1. FramesInv'
      BY <2>1 DEF Safe, FramesInv, FramesKept, Unlanded, index, process, caller
    <3>2. LedgerInv'
      BY <2>1 DEF Safe, LedgerInv, OncePerKey, RepliesHold, index
    <3> QED BY <3>1, <3>2
  <2>5. BoundsInv' /\ PruneInv'
    BY <2>1 DEF Safe, BoundsInv, PruneInv, RowWidth, Span, Overlaps, index, caches, caller
  <2> QED BY <2>2, <2>3, <2>4, <2>5 DEF Safe
<1> QED BY <1>1, <1>2, <1>3, RestartSafe DEF Next

LEMMA SafeInit == Init => Safe
<1> SUFFICES ASSUME Init PROVE Safe
  OBVIOUS
<1> USE DEF Init
<1>1. IsFiniteSet(rows) /\ Cardinality(catalog) = 0 /\ (\A k \in Keys : {row \in rows : Key[row.batch] = k} = {})
  BY FS_EmptySet
<1>2. ReadTyped /\ RowsTyped
  BY <1>1, BlankReadTyped DEF ReadTyped, RowsTyped
<1>3. CallersTyped
  <2>1. (CHOOSE b \in Batches : TRUE) \in Batches
    BY ConstantsAssumption
  <2>2. "idle" \in Before /\ "idle" \notin Locked /\ NoOne \notin Callers /\ <<>> \in Seq(Nat)
    BY ConstantsAssumption DEF Before, Locked
  <2> HIDE DEF BlankTxn
  <2> QED BY <2>1, <2>2, BlankIsTyped DEF CallersTyped
<1>4. IndexTyped /\ ProcessTyped
  <2>1. /\ rows = {} /\ ledger = [k \in Keys |-> NoEntry] /\ catalog = {} /\ epochs = {} /\ frames = {}
        /\ seq = [nextId |-> 0, epoch |-> 0, nextSeries |-> 1]
        /\ genNext = 1 /\ poisoned = FALSE /\ alloc = [nextId |-> 0, epoch |-> 0]
    OBVIOUS
  <2>2. ledger \in [Keys -> Receipts \cup {NoEntry}]
    BY <2>1
  <2> HIDE DEF Init
  <2>3. rows \in SUBSET RowType /\ catalog \in SUBSET [id : SeriesIds \ {0}, tag : Tags] /\ epochs \subseteq Nat
    BY <2>1, Zenon
  <2>4. seq \in [nextId : Nat, epoch : Nat, nextSeries : Nat \ {0}]
    BY <2>1
  <2>5. ProcessTyped
    BY <2>1 DEF ProcessTyped
  <2> QED BY <2>2, <2>3, <2>4, <2>5 DEF IndexTyped
<1>5. CachesTyped
  BY DEF CachesTyped, EmptyCache, NoBound
<1>6. TypeOK
  BY <1>2, <1>3, <1>4, <1>5, TypeParts
<1>7. GensInv /\ TxnInv
  BY DEF GensInv, TxnInv, Locked
<1>8. FramesInv /\ BoundsInv
  BY DEF FramesInv, FramesKept, BoundsInv
<1>9. CatalogInv
  BY <1>1, ConstantsAssumption DEF CatalogInv, SeriesSound
<1>10. LedgerInv
  BY <1>1 DEF LedgerInv, OncePerKey, RepliesHold
<1>11. PruneInv
  BY DEF PruneInv, BlankRead
<1> QED BY <1>2, <1>6, <1>7, <1>8, <1>9, <1>10, <1>11 DEF Safe, Typed

\* For any callers, readers, batches, tag sets and faults, the inductive
\* invariant of ingest and pruned reads, dropped futures and restarts included
\* (SegmentStore::ingest, commit_series_id, publish_ingest, prune_rows).
THEOREM IngestInvariant == Spec => []Safe
BY SafeInit, SafeStep, PTL DEF Spec

\* A key's rows are in the index once, whole and as its receipt says, or not at
\* all (publish_ingest, over every retry, ambiguous COMMIT and restart).
THEOREM KeysLandOnce == Spec => []OncePerKey
<1>1. Safe => OncePerKey
  BY DEF Safe, LedgerInv
<1> QED BY <1>1, IngestInvariant, PTL

\* Receipts and replays agree with the ledger for good, and a conflict is
\* answered only over another batch (the two ledger checks of ingest).
THEOREM AnswersHold == Spec => []RepliesHold
<1>1. Safe => RepliesHold
  BY DEF Safe, LedgerInv
<1> QED BY <1>1, IngestInvariant, PTL

\* No removal of a refused batch's frames takes one that a row names (ingest's
\* error path).
THEOREM RowsKeepFrames == Spec => []FramesKept
<1>1. Safe => FramesKept
  BY DEF Safe, FramesInv
<1> QED BY <1>1, IngestInvariant, PTL

\* Tables, caches and callers keep their types; the catalog stays within its
\* cap and gives each tag set one series, which its rows are in
\* (commit_series_id).
THEOREM CatalogIsSound == Spec => [](TypeOK /\ SeriesSound)
<1>1. Safe => TypeOK /\ SeriesSound
  BY DEF Safe, Typed, CatalogInv
<1> QED BY <1>1, IngestInvariant, PTL

\* A prune by a bound that was read earlier finds every overlapping row of its
\* last query's snapshot (the second look of prune_rows).
THEOREM PrunesAreExact == Spec => []PruneExact
<1>1. Safe => PruneExact
  BY DEF Safe, PruneInv, PruneExact
<1> QED BY <1>1, IngestInvariant, PTL

-----------------------------------------------------------------------------
(* The cached catalog, where no future is dropped *)

\* A receipt was returned for rows whose tag set is registered.
LEMMA AckedTag ==
  ASSUME Safe, NEW reply \in replies, reply.kind = "receipt", Tag[reply.batch] # Untagged
  PROVE  \E s \in catalog : s.tag = Tag[reply.batch]
<1> DEFINE b == reply.batch
           entry == ledger[Key[b]]
<1>1. LedgerRows /\ ReplyTrue(reply) /\ SeriesSound
  BY LedgerParts DEF Safe, CatalogInv
<1>2. b \in Batches /\ Key[b] \in Keys /\ entry # NoEntry /\ entry.batch = b
  BY <1>1, ConstantsAssumption DEF ReplyTrue
<1>3. 1 \in DOMAIN Chunks[b]
  <2>1. Chunks[b] \in Seq([lo : Int, hi : Int]) /\ Chunks[b] # <<>>
    BY <1>2, ConstantsAssumption
  <2>2. \A T, s : s \in Seq(T) /\ s # <<>> => 1 \in DOMAIN s
    OBVIOUS
  <2> QED BY <2>1, <2>2
<1>4. \E row \in rows : row.batch = b
  <2>1. Landed(entry, {row \in rows : Key[row.batch] = Key[b]})
    BY <1>1, <1>2 DEF LedgerRows, OncePerKey, Landed
  <2> HIDE DEF entry
  <2>2. \E row \in {q \in rows : Key[q.batch] = Key[b]} : row.batch = b
    BY <1>2, <1>3, <2>1 DEF Landed
  <2> QED BY <2>2
<1>5. PICK row \in rows : row.batch = b
  BY <1>4
<1>6. [id |-> row.series, tag |-> Tag[b]] \in catalog
  BY <1>1, <1>5 DEF SeriesSound
<1> QED BY <1>6

\* A caller that is registering is the one that holds the lock.
LEMMA OneRegisters ==
  ASSUME TypeOK, NEW c \in Callers, pc[c] \in Locked, NEW d \in Callers, d # c
  PROVE  ~Registering(d)
BY OneHolder DEF Registering, Locked

\* Where a caller's step leads with its registration: it may be in the catalog
\* from its COMMIT on, and until the copy is forgotten.
LEMMA RegisteringStep ==
  ASSUME Safe, "drop" \notin Faults, NEW c \in Callers, IngestStep(c)
  PROVE  \/ (Registering(c)' <=> Registering(c)) /\ (Registering(c) => batch'[c] = batch[c])
         \/ Commit(c) /\ ~Registering(c) /\ Registering(c)' /\ batch'[c] = batch[c]
         \/ Finish(c) /\ Registering(c) /\ ~Registering(c)'
<1>0. TypeOK
  BY DEF Safe, Typed
<1>1. ASSUME ~Registering(c), pc'[c] \notin {"landed", "ambiguous"} PROVE ~Registering(c)'
  BY <1>1 DEF Registering
<1>2. ASSUME Return(c), pc[c] \notin {"landed", "ambiguous"} PROVE ~Registering(c) /\ ~Registering(c)'
  BY <1>0, <1>2, ReturnIs DEF Registering
<1>3. ASSUME NEW label, label \notin {"landed", "ambiguous"}, GoTo(c, label), pc[c] \notin {"landed", "ambiguous"}
      PROVE  ~Registering(c) /\ ~Registering(c)'
  BY <1>0, <1>3, GoesTo DEF Registering
<1>4. CASE (\E b \in Batches : Begin(c, b)) \/ CheckLedger(c) \/ LookUpSeries(c) \/ CheckRoom(c)
  BY <1>2, <1>3, <1>4 DEF Begin, CheckLedger, LookUpSeries, CheckRoom
<1>5. CASE WriteFrame(c) \/ TakeLock(c) \/ Plan(c) \/ Submit(c)
  BY <1>2, <1>3, <1>5 DEF WriteFrame, TakeLock, Plan, Submit
<1>6. CASE RemoveFrames(c)
  BY <1>2, <1>6 DEF RemoveFrames
<1>7. CASE Commit(c)
  <2>1. ~Registering(c) /\ batch'[c] = batch[c]
    BY <1>7 DEF Commit, Registering
  <2>2. CASE Registering(c)'
    BY <1>7, <2>1, <2>2
  <2>3. CASE ~Registering(c)'
    BY <2>1, <2>3
  <2> QED BY <2>2, <2>3
<1>8. CASE Finish(c)
  <2>1. ~Registering(c)'
    BY <1>0, <1>8, ReturnIs DEF Finish, Failed, Registering
  <2>2. CASE Registering(c)
    BY <1>8, <2>1, <2>2
  <2>3. CASE ~Registering(c)
    BY <2>1, <2>3
  <2> QED BY <2>2, <2>3
<1>9. ~Drop(c)
  BY DEF Drop
<1> QED BY <1>4, <1>5, <1>6, <1>7, <1>8, <1>9 DEF IngestStep

\* What is known stays known; and it becomes known when its caller forgets the
\* copy, no sooner.
LEMMA KnownStays ==
  ASSUME Safe, "drop" \notin Faults, NEW c \in Callers, IngestStep(c)
  PROVE  /\ \A s : Known(s) => Known(s)'
         /\ ~(Finish(c) /\ Registering(c)) => \A s : Known(s)' => Known(s)
<1>0. TypeOK /\ TxnInv
  BY DEF Safe, Typed
<1>1. \A d \in Callers : d # c => (Registering(d)' <=> Registering(d)) /\ batch'[d] = batch[d]
  BY <1>0, OthersStay DEF Registering
<1>2. UNCHANGED index \/ (Commit(c) /\ Land(c))
  BY IngestMoves
<1>3. catalog \subseteq catalog'
  BY <1>2 DEF index, Land
<1>4. CASE (Registering(c)' <=> Registering(c)) /\ (Registering(c) => batch'[c] = batch[c])
  <2>1. \A d \in Callers : (Registering(d)' <=> Registering(d)) /\ (Registering(d) => batch'[d] = batch[d])
    BY <1>1, <1>4
  <2>2. catalog' = catalog
    <3>1. CASE UNCHANGED index
      BY <3>1 DEF index
    <3>2. CASE Commit(c) /\ Land(c)
      <4>1. pc[c] = "committing" /\ pc'[c] \in {"landed", "ambiguous"} /\ txn'[c] = txn[c]
        BY <1>0, <3>2, LandsAt
      <4>2. ~txn[c].registers
        BY <1>4, <4>1 DEF Registering
      <4> QED BY <3>2, <4>2 DEF Land
    <3> QED BY <1>2, <3>1, <3>2
  <2> QED BY <2>1, <2>2 DEF Known
<1>5. CASE Commit(c) /\ ~Registering(c) /\ Registering(c)' /\ batch'[c] = batch[c]
  <2>1. pc[c] = "committing" /\ txn'[c] = txn[c] /\ txn[c].registers
    BY <1>5 DEF Commit, Registering
  <2>2. \A s \in catalog : s.tag # Tag[batch[c]]
    BY <1>0, <2>1 DEF TxnInv
  <2>3. \A s \in catalog' : s \in catalog \/ s.tag = Tag[batch[c]]
    BY <1>2, <2>1 DEF index, Land
  <2>4. ~Finish(c)
    BY <2>1 DEF Finish
  <2>5. \A s : Known(s) => Known(s)'
    BY <1>1, <1>3, <1>5, <2>2 DEF Known
  <2>6. \A s : Known(s)' => Known(s)
    BY <1>1, <1>5, <2>3 DEF Known
  <2> QED BY <2>4, <2>5, <2>6
<1>6. CASE Finish(c) /\ Registering(c) /\ ~Registering(c)'
  BY <1>1, <1>3, <1>6 DEF Known
<1> QED BY <1>4, <1>5, <1>6, RegisteringStep

\* The copy is forgotten, and its generation raised, with every registration
\* that may have landed, and what is known meanwhile is in it.
LEMMA CacheInvIngest ==
  ASSUME Safe, Fresh, "drop" \notin Faults, NEW c \in Callers, IngestStep(c)
  PROVE  CacheInv'
<1>0. CacheInv /\ read' = read /\ ReadTyped
      /\ cache \in [generation : Nat, loaded : BOOLEAN, series : SUBSET [id : SeriesIds, tag : Tags]]
  BY IngestMoves DEF Safe, Fresh, Typed, TypeOK
<1>1. catalog \subseteq catalog'
  BY IngestMoves DEF index, Land
<1>2. CASE Finish(c) /\ txn[c].registers
  <2>1. cache' = [generation |-> cache.generation + 1, loaded |-> FALSE, series |-> {}]
    BY <1>2 DEF Finish
  <2>2. \A r \in Readers : read[r].generation \in Nat
    BY <1>0 DEF ReadTyped, ReadRecords
  <2>3. cache.generation \in Nat
    BY <1>0
  <2>4. \A r \in Readers : read[r].pc \in {"load", "keep"} =>
          read[r].generation <= cache.generation + 1 /\ cache.generation + 1 # read[r].generation
    BY <1>0, <2>2, <2>3 DEF CacheInv
  <2>5. cache'.generation = cache.generation + 1 /\ ~cache'.loaded
    BY <2>1
  <2> QED BY <1>0, <1>1, <2>4, <2>5 DEF CacheInv, Keep
<1>3. CASE ~(Finish(c) /\ txn[c].registers)
  <2>1. \A s : Known(s)' => Known(s)
    BY <1>3, KnownStays DEF Registering
  <2>2. ASSUME NEW series, CopyOK(series) PROVE series \subseteq catalog' /\ \A s \in catalog' : Known(s)' => s \in series
    BY <1>1, <2>1, <2>2 DEF CopyOK, Known
  <2>3. cache' = cache
    BY <1>3 DEF IngestStep, Begin, CheckLedger, LookUpSeries, CheckRoom, WriteFrame, TakeLock, Plan, Submit,
                Commit, Finish, RemoveFrames, Drop, caches
  <2> QED BY <1>0, <1>1, <2>2, <2>3 DEF CacheInv, Keep, CopyOK
<1> QED BY <1>2, <1>3

LEMMA AckInvIngest ==
  ASSUME Safe, Fresh, "drop" \notin Faults, NEW c \in Callers, IngestStep(c)
  PROVE  AckInv'
<1>0. TypeOK /\ TxnInv /\ AckInv
  BY DEF Safe, Fresh, Typed
<1>1. \A d \in Callers : d # c => (Registering(d)' <=> Registering(d)) /\ batch'[d] = batch[d]
  BY <1>0, OthersStay DEF Registering
<1>2. CASE Finish(c)
  <2>1. pc[c] \in Locked /\ ~Registering(c)'
    BY <1>0, <1>2, ReturnIs DEF Finish, Failed, Registering, Locked
  <2>2. \A d \in Callers : ~Registering(d)'
    BY <1>0, <1>1, <2>1, OneRegisters
  <2> QED BY <2>2 DEF AckInv
<1>3. CASE ~Finish(c)
  <2>1. \A reply \in replies' : reply.kind = "receipt" => reply \in replies
    <3>1. CASE (\E b \in Batches : Begin(c, b)) \/ LookUpSeries(c) \/ TakeLock(c) \/ Submit(c) \/ Commit(c)
               \/ RemoveFrames(c) \/ Drop(c)
      BY <3>1 DEF Begin, LookUpSeries, TakeLock, Submit, Commit, RemoveFrames, Drop, history
    <3>2. CASE CheckLedger(c) \/ CheckRoom(c) \/ WriteFrame(c) \/ Plan(c)
      <4>1. \/ replies' = replies
            \/ Answer(batch[c])
            \/ \E kind \in {"limit", "error"} : Reply(batch[c], kind, NoEntry)
        BY <3>2 DEF CheckLedger, CheckRoom, WriteFrame, Plan
      <4> QED BY <4>1 DEF Answer, Reply
    <3> QED BY <1>3, <3>1, <3>2 DEF IngestStep
  <2>2. CASE (Registering(c)' <=> Registering(c)) /\ (Registering(c) => batch'[c] = batch[c])
    <3>1. \A d \in Callers : Registering(d)' => Registering(d) /\ batch'[d] = batch[d]
      BY <1>1, <2>2
    <3> QED BY <1>0, <2>1, <3>1 DEF AckInv
  <2>3. CASE Commit(c) /\ ~Registering(c) /\ Registering(c)' /\ batch'[c] = batch[c]
    <3>1. pc[c] = "committing" /\ txn[c].registers
      BY <2>3 DEF Commit, Registering
    <3>2. Tag[batch[c]] # Untagged /\ \A s \in catalog : s.tag # Tag[batch[c]]
      BY <1>0, <3>1 DEF TxnInv
    <3>3. \A reply \in replies : reply.kind = "receipt" => Tag[reply.batch] # Tag[batch[c]]
      BY <3>2, AckedTag
    <3>4. \A d \in Callers : d # c => ~Registering(d)'
      BY <1>0, <1>1, <3>1, OneRegisters DEF Locked
    <3> QED BY <2>1, <2>3, <3>3, <3>4 DEF AckInv
  <2> QED BY <1>3, <2>2, <2>3, RegisteringStep
<1> QED BY <1>2, <1>3

LEMMA FreshIngest ==
  ASSUME Safe, Fresh, "drop" \notin Faults, NEW c \in Callers, IngestStep(c)
  PROVE  Fresh'
<1>1. OwedInv /\ read' = read /\ \A s : Known(s) => Known(s)'
  BY KnownStays, IngestMoves DEF Fresh
<1>2. OwedInv'
  BY <1>1 DEF OwedInv, Overlaps
<1> QED BY <1>2, CacheInvIngest, AckInvIngest DEF Fresh

\* OwedInv of one reader.
OwedOf(r) ==
  /\ read[r].pc \in {"resolve", "load", "keep"} => read[r].tag # Untagged
  /\ \A row \in read[r].owed :
       LET s == [id |-> row.series, tag |-> read[r].tag]
       IN /\ Tag[row.batch] = read[r].tag
          /\ Overlaps(row, read[r].window)
          /\ read[r].pc \in {"resolve", "load", "keep"} => Known(s)
          /\ read[r].pc = "keep" => s \in read[r].loaded
          /\ read[r].pc \in {"bound", "measure", "measured", "query", "recheck"} =>
               row.series = read[r].series
          /\ read[r].pc = "recheck" => row \in read[r].stored
  /\ read[r].pc = "done" => read[r].owed \subseteq read[r].found

\* A row whose receipt was returned is in a series that is known.
LEMMA AckedIsKnown ==
  ASSUME Safe, Fresh, NEW tag, NEW window, NEW row \in Acknowledged(tag, window)
  PROVE  /\ row \in rows /\ Tag[row.batch] = tag /\ Overlaps(row, window)
         /\ IF tag = Untagged THEN row.series = 0 ELSE Known([id |-> row.series, tag |-> tag])
<1>1. SeriesSound /\ AckInv
  BY DEF Safe, CatalogInv, Fresh
<1>2. PICK reply \in replies : reply.kind = "receipt" /\ reply.batch = row.batch
  BY DEF Acknowledged
<1>3. row \in rows /\ Tag[row.batch] = tag /\ Overlaps(row, window)
  BY DEF Acknowledged
<1>4. IF tag = Untagged THEN row.series = 0 ELSE [id |-> row.series, tag |-> tag] \in catalog
  BY <1>1, <1>3 DEF SeriesSound
<1>5. \A c \in Callers : Registering(c) => Tag[batch[c]] # tag
  BY <1>1, <1>2, <1>3 DEF AckInv
<1> QED BY <1>3, <1>4, <1>5 DEF Known

\* In a part of the catalog that has the series of the rows a read owes, the
\* read finds that series and no other.
LEMMA FindsTheOwed ==
  ASSUME Safe, NEW r \in Readers, NEW series \in SUBSET catalog, OwedOf(r),
         \A row \in read[r].owed : [id |-> row.series, tag |-> read[r].tag] \in series
  PROVE  LET f == Found(r, series)
         IN /\ f.pc = "done" => read[r].owed = {}
            /\ f.pc = "bound" => \A row \in read[r].owed : row.series = f.series
<1>1. ReadTyped /\ SeriesSound
  BY DEF Safe, Typed, CatalogInv
<1>2. ASSUME Found(r, series).pc = "done" PROVE read[r].owed = {}
  <2>1. \A s \in series : s.tag # read[r].tag
    BY <1>1, <1>2, FoundIs
  <2> QED BY <2>1
<1>3. ASSUME Found(r, series).pc = "bound", NEW row \in read[r].owed
      PROVE  row.series = Found(r, series).series
  <2>1. PICK s \in series : s.tag = read[r].tag /\ s.id = Found(r, series).series
    BY <1>1, <1>3, FoundIs
  <2>2. s = [id |-> row.series, tag |-> read[r].tag]
    BY <1>1, <2>1 DEF SeriesSound
  <2> QED BY <2>1, <2>2
<1> QED BY <1>2, <1>3

\* A reader that resolves its tags by a part of the catalog.
LEMMA OwedFound ==
  ASSUME Safe, NEW r \in Readers, NEW series \in SUBSET catalog, OwedOf(r),
         \A row \in read[r].owed : [id |-> row.series, tag |-> read[r].tag] \in series,
         read'[r] = Found(r, series)
  PROVE  OwedOf(r)'
<1> DEFINE f == Found(r, series)
<1>1. /\ f.pc \in {"done", "bound"} /\ f.tag = read[r].tag /\ f.window = read[r].window
      /\ f.owed = read[r].owed
  BY FoundIs DEF Safe, Typed
<1>2. f.pc = "done" => f.owed = {}
  BY <1>1, FindsTheOwed
<1>3. f.pc = "bound" => \A row \in f.owed : row.series = f.series
  BY <1>1, FindsTheOwed
<1> HIDE DEF f
<1>4. read'[r] = f
  BY DEF f
<1>5. \A row \in f.owed : Tag[row.batch] = f.tag /\ Overlaps(row, f.window)
  BY <1>1 DEF OwedOf
<1> QED BY <1>1, <1>2, <1>3, <1>4, <1>5 DEF OwedOf, Overlaps

LEMMA OwedInvRead ==
  ASSUME Safe, Fresh, NEW r \in Readers, ReadStep(r)
  PROVE  OwedInv'
<1>0. /\ ReadTyped /\ RowsTyped /\ CacheInv /\ OwedOf(r) /\ PruneOf(r) /\ read[r] \in ReadRecords
      /\ OwedInv
  BY DEF Safe, Fresh, Typed, ReadTyped, OwedInv, OwedOf, PruneInv, PruneOf
<1>1. catalog' = catalog /\ rows' = rows /\ UNCHANGED caller /\ (\A s : Known(s)' <=> Known(s))
  BY ReadMoves DEF index, caller, Known, Registering
<1>2. SUFFICES OwedOf(r)'
  <2>1. \A q \in Readers : q # r => OwedOf(q)'
    <3>1. \A q \in Readers : OwedOf(q)
      BY <1>0 DEF OwedInv, OwedOf
    <3> QED BY <1>0, <1>1, <3>1, OtherReadsStay DEF OwedOf, Overlaps
  <2> QED BY <2>1 DEF OwedInv, OwedOf
<1>3. CASE \E tag \in Tags \cup {Untagged}, window \in Windows : ReadBegin(r, tag, window)
  <2>1. PICK tag \in Tags \cup {Untagged}, window \in Windows : ReadBegin(r, tag, window)
    BY <1>3
  <2>2. read'[r] = [BlankRead EXCEPT !.pc = IF tag = Untagged THEN "bound" ELSE "resolve",
                      !.tag = tag, !.window = window, !.owed = Acknowledged(tag, window)]
    BY <1>0, <2>1, SetIs DEF ReadBegin
  <2>3. /\ read'[r].pc = (IF tag = Untagged THEN "bound" ELSE "resolve") /\ read'[r].series = 0
        /\ read'[r].tag = tag /\ read'[r].window = window /\ read'[r].owed = Acknowledged(tag, window)
    BY <2>2 DEF BlankRead
  <2> QED BY <1>1, <2>3, AckedIsKnown DEF OwedOf, Overlaps
<1>4. CASE Resolve(r)
  <2>1. CASE cache.loaded
    <3>1. read'[r] = Found(r, cache.series) /\ read[r].pc = "resolve"
      BY <1>0, <1>4, <2>1, SetIs DEF Resolve
    <3>2. CopyOK(cache.series)
      BY <1>0, <2>1 DEF CacheInv
    <3>3. \A row \in read[r].owed : [id |-> row.series, tag |-> read[r].tag] \in cache.series
      BY <1>0, <3>1, <3>2 DEF CopyOK, OwedOf, Known
    <3> QED BY <1>0, <3>1, <3>2, <3>3, OwedFound DEF CopyOK
  <2>2. CASE ~cache.loaded
    <3>1. read'[r] = [read[r] EXCEPT !.pc = "load", !.generation = cache.generation] /\ read[r].pc = "resolve"
      BY <1>0, <1>4, <2>2, SetIs DEF Resolve
    <3>2. /\ read'[r].pc = "load" /\ read'[r].tag = read[r].tag /\ read'[r].owed = read[r].owed
          /\ read'[r].window = read[r].window
      BY <1>0, <3>1 DEF ReadRecords
    <3> QED BY <1>0, <1>1, <3>1, <3>2 DEF OwedOf, Overlaps
  <2> QED BY <2>1, <2>2
<1>5. CASE LoadCatalog(r)
  <2>1. read'[r] = [read[r] EXCEPT !.pc = "keep", !.loaded = catalog] /\ read[r].pc = "load"
    BY <1>0, <1>5, SetIs DEF LoadCatalog
  <2>2. /\ read'[r].pc = "keep" /\ read'[r].tag = read[r].tag /\ read'[r].owed = read[r].owed
        /\ read'[r].window = read[r].window /\ read'[r].loaded = catalog
    BY <1>0, <2>1 DEF ReadRecords
  <2>3. \A row \in read[r].owed : Known([id |-> row.series, tag |-> read[r].tag])
    BY <1>0, <2>1 DEF OwedOf
  <2> QED BY <1>0, <1>1, <2>1, <2>2, <2>3 DEF OwedOf, Overlaps, Known
<1>6. CASE KeepCatalog(r)
  <2>1. read'[r] = Found(r, read[r].loaded) /\ read[r].pc = "keep"
    BY <1>0, <1>6, SetIs DEF KeepCatalog
  <2>2. read[r].loaded \in SUBSET catalog
    BY <1>0, <2>1 DEF CacheInv
  <2>3. \A row \in read[r].owed : [id |-> row.series, tag |-> read[r].tag] \in read[r].loaded
    BY <1>0, <2>1 DEF OwedOf
  <2> QED BY <1>0, <2>1, <2>2, <2>3, OwedFound
<1> DEFINE Kept == /\ read'[r].series = read[r].series /\ read'[r].tag = read[r].tag
                   /\ read'[r].owed = read[r].owed /\ read'[r].window = read[r].window
<1>7. ASSUME read[r].pc \in {"bound", "measure", "measured", "recheck"},
             read'[r].pc \in {"query", "measure", "measured"}, Kept
      PROVE  OwedOf(r)'
  BY <1>0, <1>7 DEF OwedOf, Overlaps
<1>8. CASE GetBound(r)
  <2> DEFINE w == bounds[read[r].series].widest
  <2>1. read[r].pc = "bound"
    BY <1>8 DEF GetBound
  <2>2. \/ read'[r] = [read[r] EXCEPT !.pc = "query", !.widest = w]
        \/ read'[r] = [read[r] EXCEPT !.pc = "measure"]
    BY <1>0, <1>8, SetIs DEF GetBound
  <2> HIDE DEF w
  <2>3. read'[r].pc \in {"query", "measure"} /\ Kept
    BY <1>0, <2>2 DEF ReadRecords
  <2> QED BY <1>7, <2>1, <2>3
<1>9. CASE MeasureBound(r)
  <2> DEFINE w == Widest({Width(Chunks[row.batch][row.chunk]) : row \in RowsOf(read[r].series)} \cup {0})
  <2>1. read'[r] = [read[r] EXCEPT !.pc = "measured", !.widest = w] /\ read[r].pc = "measure"
    BY <1>0, <1>9, SetIs DEF MeasureBound
  <2> HIDE DEF w
  <2>2. read'[r].pc = "measured" /\ Kept
    BY <1>0, <2>1 DEF ReadRecords
  <2> QED BY <1>7, <2>1, <2>2
<1>10. CASE KeepBound(r)
  <2> DEFINE w == Widest({read[r].widest, bounds[read[r].series].widest})
  <2>1. read'[r] = [read[r] EXCEPT !.pc = "query", !.widest = w] /\ read[r].pc = "measured"
    BY <1>0, <1>10, SetIs DEF KeepBound
  <2> HIDE DEF w
  <2>2. read'[r].pc = "query" /\ Kept
    BY <1>0, <2>1 DEF ReadRecords
  <2> QED BY <1>7, <2>1, <2>2
<1>11. CASE Query(r)
  <2> DEFINE overlapping == {row \in RowsOf(read[r].series) : Overlaps(row, read[r].window)}
             found == {row \in overlapping : read[r].window.lo - read[r].widest <= Chunks[row.batch][row.chunk].lo}
  <2>1. read'[r] = [read[r] EXCEPT !.pc = "recheck", !.stored = overlapping, !.found = found]
        /\ read[r].pc = "query"
    BY <1>0, <1>11, SetIs DEF Query
  <2> HIDE DEF overlapping, found
  <2>2. /\ read'[r].pc = "recheck" /\ read'[r].series = read[r].series /\ read'[r].tag = read[r].tag
        /\ read'[r].owed = read[r].owed /\ read'[r].window = read[r].window /\ read'[r].stored = overlapping
    BY <1>0, <2>1 DEF ReadRecords
  <2>3. read[r].owed \subseteq rows
    BY <1>0 DEF ReadRecords
  <2>4. \A row \in read[r].owed : row.series = read[r].series /\ Overlaps(row, read[r].window)
    BY <1>0, <2>1 DEF OwedOf
  <2>5. read[r].owed \subseteq overlapping
    BY <2>3, <2>4 DEF overlapping, RowsOf
  <2> QED BY <1>0, <2>1, <2>2, <2>4, <2>5 DEF OwedOf, Overlaps
<1>12. CASE Recheck(r)
  <2>1. read[r].pc = "recheck"
    BY <1>12 DEF Recheck
  <2>2. CASE Settled(r)
    <3>1. read'[r] = [read[r] EXCEPT !.pc = "done"]
      BY <1>0, <1>12, <2>2, SetIs DEF Recheck
    <3>2. /\ read'[r].pc = "done" /\ read'[r].tag = read[r].tag /\ read'[r].window = read[r].window
          /\ read'[r].owed = read[r].owed /\ read'[r].found = read[r].found
      BY <1>0, <3>1 DEF ReadRecords
    <3>3. read[r].owed \subseteq read[r].found
      BY <1>0, <2>1, <2>2, SettledIsExact DEF OwedOf
    <3> QED BY <1>0, <3>2, <3>3 DEF OwedOf, Overlaps
  <2>3. CASE ~Settled(r)
    <3> DEFINE w == bounds[read[r].series].widest
    <3>1. read'[r] = [read[r] EXCEPT !.pc = "query", !.widest = w]
      BY <1>0, <1>12, <2>3, SetIs DEF Recheck
    <3> HIDE DEF w
    <3>2. read'[r].pc = "query" /\ Kept
      BY <1>0, <3>1 DEF ReadRecords
    <3> QED BY <1>7, <2>1, <3>2
  <2> QED BY <2>2, <2>3
<1>13. CASE ReadEnd(r)
  <2>1. read'[r] = BlankRead
    BY <1>0, <1>13, SetIs DEF ReadEnd
  <2> QED BY <2>1 DEF BlankRead, OwedOf
<1> QED
  BY <1>3, <1>4, <1>5, <1>6, <1>8, <1>9, <1>10, <1>11, <1>12, <1>13 DEF ReadStep

\* A reader keeps only a copy that it loaded since the copy was last forgotten.
LEMMA CacheInvRead ==
  ASSUME Safe, Fresh, NEW r \in Readers, ReadStep(r)
  PROVE  CacheInv'
<1>0. /\ ReadTyped /\ CacheInv /\ read[r] \in ReadRecords
      /\ cache \in [generation : Nat, loaded : BOOLEAN, series : SUBSET [id : SeriesIds, tag : Tags]]
  BY DEF Safe, Fresh, Typed, TypeOK, ReadTyped
<1>1. catalog' = catalog /\ (\A s : Known(s)' <=> Known(s))
  BY ReadMoves DEF index, caller, Known, Registering
<1>2. \A q \in Readers : q # r => read'[q] = read[q]
  BY <1>0, OtherReadsStay
<1>3. ASSUME cache' = cache, read'[r].pc \notin {"load", "keep"} PROVE CacheInv'
  BY <1>0, <1>1, <1>2, <1>3 DEF CacheInv, CopyOK, Keep
<1>4. CASE \E tag \in Tags \cup {Untagged}, window \in Windows : ReadBegin(r, tag, window)
  <2>1. PICK tag \in Tags \cup {Untagged}, window \in Windows : ReadBegin(r, tag, window)
    BY <1>4
  <2>2. cache' = cache
        /\ read'[r] = [BlankRead EXCEPT !.pc = IF tag = Untagged THEN "bound" ELSE "resolve",
                         !.tag = tag, !.window = window, !.owed = Acknowledged(tag, window)]
    BY <1>0, <2>1, SetIs DEF ReadBegin, caches
  <2>3. read'[r].pc \notin {"load", "keep"}
    BY <2>2 DEF BlankRead
  <2> QED BY <1>3, <2>2, <2>3
<1>5. CASE Resolve(r)
  <2>1. cache' = cache
    BY <1>5 DEF Resolve, caches
  <2>2. CASE cache.loaded
    <3>1. read'[r] = Found(r, cache.series)
      BY <1>0, <1>5, <2>2, SetIs DEF Resolve
    <3> QED BY <1>0, <1>3, <2>1, <3>1, FoundIs
  <2>3. CASE ~cache.loaded
    <3>1. read'[r] = [read[r] EXCEPT !.pc = "load", !.generation = cache.generation]
      BY <1>0, <1>5, <2>3, SetIs DEF Resolve
    <3>2. read'[r].pc = "load" /\ read'[r].generation = cache.generation
      BY <1>0, <3>1 DEF ReadRecords
    <3> QED BY <1>0, <1>1, <1>2, <2>1, <3>2 DEF CacheInv, CopyOK, Keep
  <2> QED BY <2>2, <2>3
<1>6. CASE LoadCatalog(r)
  <2>1. read'[r] = [read[r] EXCEPT !.pc = "keep", !.loaded = catalog] /\ read[r].pc = "load" /\ cache' = cache
    BY <1>0, <1>6, SetIs DEF LoadCatalog, caches
  <2>2. read'[r].pc = "keep" /\ read'[r].loaded = catalog /\ read'[r].generation = read[r].generation
    BY <1>0, <2>1 DEF ReadRecords
  <2> QED BY <1>0, <1>1, <1>2, <2>1, <2>2 DEF CacheInv, CopyOK, Keep, Known
<1>7. CASE KeepCatalog(r)
  <2>1. read'[r] = Found(r, read[r].loaded) /\ read[r].pc = "keep"
    BY <1>0, <1>7, SetIs DEF KeepCatalog
  <2>2. read'[r].pc \notin {"load", "keep"}
    BY <1>0, <2>1, FoundIs
  <2>3. CASE Keep(r)
    <3>1. cache' = [cache EXCEPT !.loaded = TRUE, !.series = read[r].loaded]
      BY <1>7, <2>3 DEF KeepCatalog
    <3>2. cache'.series = read[r].loaded /\ cache'.generation = cache.generation
      BY <1>0, <3>1
    <3>3. CopyOK(read[r].loaded)
      BY <1>0, <2>1, <2>3 DEF CacheInv
    <3> QED BY <1>0, <1>1, <1>2, <2>2, <3>2, <3>3 DEF CacheInv, CopyOK, Keep
  <2>4. CASE ~Keep(r)
    BY <1>3, <1>7, <2>2, <2>4 DEF KeepCatalog
  <2> QED BY <2>3, <2>4
<1>8. CASE GetBound(r) \/ MeasureBound(r) \/ KeepBound(r) \/ Query(r) \/ Recheck(r)
  <2>1. cache' = cache
    BY <1>8 DEF GetBound, MeasureBound, KeepBound, Query, Recheck, caches
  <2>2. CASE GetBound(r)
    <3> DEFINE w == bounds[read[r].series].widest
    <3>1. read'[r] = [read[r] EXCEPT !.pc = "query", !.widest = w] \/ read'[r] = [read[r] EXCEPT !.pc = "measure"]
      BY <1>0, <2>2, SetIs DEF GetBound
    <3> HIDE DEF w
    <3>2. read'[r].pc \notin {"load", "keep"}
      BY <1>0, <3>1 DEF ReadRecords
    <3> QED BY <1>3, <2>1, <3>2
  <2>3. CASE MeasureBound(r)
    <3> DEFINE w == Widest({Width(Chunks[row.batch][row.chunk]) : row \in RowsOf(read[r].series)} \cup {0})
    <3>1. read'[r] = [read[r] EXCEPT !.pc = "measured", !.widest = w]
      BY <1>0, <2>3, SetIs DEF MeasureBound
    <3> HIDE DEF w
    <3> QED BY <1>0, <1>3, <2>1, <3>1 DEF ReadRecords
  <2>4. CASE KeepBound(r)
    <3> DEFINE w == Widest({read[r].widest, bounds[read[r].series].widest})
    <3>1. read'[r] = [read[r] EXCEPT !.pc = "query", !.widest = w]
      BY <1>0, <2>4, SetIs DEF KeepBound
    <3> HIDE DEF w
    <3> QED BY <1>0, <1>3, <2>1, <3>1 DEF ReadRecords
  <2>5. CASE Query(r)
    <3> DEFINE overlapping == {row \in RowsOf(read[r].series) : Overlaps(row, read[r].window)}
               found == {row \in overlapping : read[r].window.lo - read[r].widest <= Chunks[row.batch][row.chunk].lo}
    <3>1. read'[r] = [read[r] EXCEPT !.pc = "recheck", !.stored = overlapping, !.found = found]
      BY <1>0, <2>5, SetIs DEF Query
    <3> HIDE DEF overlapping, found
    <3> QED BY <1>0, <1>3, <2>1, <3>1 DEF ReadRecords
  <2>6. CASE Recheck(r)
    <3> DEFINE w == bounds[read[r].series].widest
    <3>1. read'[r] = [read[r] EXCEPT !.pc = "query", !.widest = w] \/ read'[r] = [read[r] EXCEPT !.pc = "done"]
      BY <1>0, <2>6, SetIs DEF Recheck
    <3> HIDE DEF w
    <3>2. read'[r].pc \notin {"load", "keep"}
      BY <1>0, <3>1 DEF ReadRecords
    <3> QED BY <1>3, <2>1, <3>2
  <2> QED BY <1>8, <2>2, <2>3, <2>4, <2>5, <2>6
<1>9. CASE ReadEnd(r)
  <2>1. cache' = cache /\ read'[r].pc \notin {"load", "keep"}
    BY <1>0, <1>9, SetIs DEF ReadEnd, caches, BlankRead
  <2> QED BY <1>3, <2>1
<1> QED BY <1>4, <1>5, <1>6, <1>7, <1>8, <1>9 DEF ReadStep

LEMMA FreshStep ==
  ASSUME Safe, Fresh, "drop" \notin Faults, [Next]_vars
  PROVE  Fresh'
<1>1. ASSUME NEW c \in Callers, IngestStep(c) PROVE Fresh'
  BY <1>1, FreshIngest
<1>2. ASSUME NEW r \in Readers, ReadStep(r) PROVE Fresh'
  <2>1. AckInv'
    BY <1>2, ReadMoves DEF Fresh, AckInv, Registering, caller
  <2> QED BY <1>2, <2>1, CacheInvRead, OwedInvRead DEF Fresh
<1>3. CASE Restart
  <2>1. /\ ~cache'.loaded /\ \A r \in Readers : read'[r] = BlankRead
        /\ \A c \in Callers : pc'[c] = "idle"
    BY <1>3 DEF Restart, EmptyCache
  <2>2. BlankRead.pc = "idle" /\ BlankRead.owed = {}
    BY DEF BlankRead
  <2>3. CacheInv' /\ AckInv'
    BY <2>1, <2>2 DEF CacheInv, AckInv, Registering
  <2>4. OwedInv'
    <3>1. \A r \in Readers : read'[r].pc = "idle" /\ read'[r].owed = {}
      BY <2>1, <2>2
    <3> QED BY <3>1 DEF OwedInv
  <2> QED BY <2>3, <2>4 DEF Fresh
<1>4. CASE UNCHANGED vars
  <2>1. UNCHANGED <<catalog, cache, read, replies, pc, txn, batch>>
    BY <1>4 DEF vars, index, caches, caller, history
  <2>2. \A s : Known(s)' <=> Known(s)
    BY <2>1 DEF Known, Registering
  <2>3. CacheInv' /\ AckInv'
    BY <2>1, <2>2 DEF Fresh, CacheInv, AckInv, Registering, CopyOK, Keep
  <2>4. OwedInv'
    BY <2>1, <2>2 DEF Fresh, OwedInv, Overlaps
  <2> QED BY <2>3, <2>4 DEF Fresh
<1> QED BY <1>1, <1>2, <1>3, <1>4 DEF Next

LEMMA FreshInit == Init => Fresh
<1> SUFFICES ASSUME Init PROVE Fresh
  OBVIOUS
<1>1. /\ ~cache.loaded /\ replies = {} /\ \A r \in Readers : read[r] = BlankRead
  BY DEF Init, EmptyCache
<1>2. BlankRead.pc = "idle" /\ BlankRead.owed = {}
  BY DEF BlankRead
<1>3. \A r \in Readers : read[r].pc = "idle" /\ read[r].owed = {}
  BY <1>1, <1>2
<1> QED BY <1>1, <1>3 DEF Fresh, CacheInv, AckInv, OwedInv

\* With no dropped future, what a kept copy of the catalog may miss is what a
\* landed registration is about to forget (forget_catalogs after every
\* transaction that registers, SeriesCatalogs' generation).
THEOREM StaysFresh ==
  ASSUME "drop" \notin Faults
  PROVE  Spec => [](Safe /\ Fresh)
<1>1. Init => Safe /\ Fresh
  BY SafeInit, FreshInit
<1>2. Safe /\ Fresh /\ [Next]_vars => (Safe /\ Fresh)'
  BY SafeStep, FreshStep
<1> QED BY <1>1, <1>2, PTL DEF Spec

\* With no dropped future, a copy of the catalog that is kept is the catalog
\* unless a registration that has landed has yet to forget it
\* (resolve_series's cache).
THEOREM CatalogStaysFresh ==
  ASSUME "drop" \notin Faults
  PROVE  Spec => []CatalogFresh
<1>1. Safe /\ Fresh => CatalogFresh
  BY DEF Fresh, CacheInv, CopyOK, Known, Registering, CatalogFresh
<1> QED BY <1>1, StaysFresh, PTL

\* With no dropped future, a read by tags finds every row in its window whose
\* receipt was returned before it began (resolve_series, then prune_rows).
THEOREM ReadsFindAcknowledged ==
  ASSUME "drop" \notin Faults
  PROVE  Spec => []ReadsSeeAcknowledged
<1>1. Safe /\ Fresh => ReadsSeeAcknowledged
  BY DEF Fresh, OwedInv, ReadsSeeAcknowledged
<1> QED BY <1>1, StaysFresh, PTL

=============================================================================

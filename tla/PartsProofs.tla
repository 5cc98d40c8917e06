---------------------------- MODULE PartsProofs -----------------------------
(***************************************************************************)
(* Theorems about machines that run alone: DirSyncer for any number of      *)
(* callers and calls, Breaker for any sweeps, aspects, threshold and        *)
(* cooldown, IngestChunks for any rows, sizes and targets, Checkpoints for  *)
(* integers of any width and columns of any length, and Merge for any       *)
(* frames of any rows.                                                      *)
(***************************************************************************)
EXTENDS DirSyncer, Breaker, IngestChunks, Checkpoints, Merge, FiniteSetTheorems, SequenceTheorems,
        WellFoundedInduction, TLAPS

-----------------------------------------------------------------------------
(* DirSyncer. *)

\* Before the first call nothing is claimed, needed or lost.
LEMMA InitIInv == Init => IInv
<1>1. Init => notified \in [Callers -> BOOLEAN]
  BY Zenon DEF Init
<1>2. Init => TypeOK
  <2> SUFFICES ASSUME Init PROVE TypeOK
    OBVIOUS
  <2>1. pc \in [Callers -> Pc] /\ generation \in [Callers -> Nat] /\ need \in [Callers -> Nat]
    BY DEF Init, Pc
  <2>2. requested \in Nat /\ completed \in Nat /\ covers \in Nat /\ notifying \in Nat
    BY DEF Init
  <2>3. made \in Nat /\ seen \in Nat /\ safe \in Nat /\ dropped \in SUBSET Nat /\ fsyncs \in Nat
    BY DEF Init
  <2>4. poisoned \in BOOLEAN /\ flight \in Flight
    BY DEF Init, Flight
  <2> QED BY <1>1, <2>1, <2>2, <2>3, <2>4 DEF TypeOK
<1>3. Init => FlightInv /\ CostInv /\ \A c \in Callers : CallInv(c)
  BY DEF Init, FlightInv, CostInv, CallInv, Calling
<1> QED BY <1>2, <1>3 DEF IInv

\* A caller's own steps: its change raises "made" alone, its generation is
\* past every flight in progress, and it claims the slot only when no fsync
\* covers it.
LEMMA CallerIInv ==
  ASSUME IInv, NEW c \in Callers,
         Change(c) \/ Call(c) \/ CallStep(c) \/ Cancel(c)
  PROVE  IInv'
<1>1. CASE Change(c)
  BY <1>1 DEF Change, Goes, state, IInv, TypeOK, FlightInv, CostInv, CallInv, Pc, Flight, Calling
<1>2. CASE Call(c)
  BY <1>2 DEF Call, Goes, directory, IInv, TypeOK, FlightInv, CostInv, CallInv, Pc, Flight, Calling
<1>3. CASE Enable(c)
  BY <1>3 DEF Enable, Goes, state, directory, IInv, TypeOK, FlightInv, CostInv, CallInv, Pc, Flight, Calling
<1>4. CASE Check(c)
  <2>1. CASE completed >= generation[c]
    <3>1. Returns(c, "ok") /\ UNCHANGED <<flight, covers, fsyncs>>
      BY <1>4, <2>1 DEF Check, IInv, TypeOK
    <3>2. notified' \in [Callers -> BOOLEAN]
      BY <3>1, Zenon DEF Returns, IInv, TypeOK
    <3>3. TypeOK'
      BY <1>4, <3>1, <3>2 DEF Check, Returns, Goes, directory, IInv, TypeOK, Pc
    <3>4. (FlightInv /\ CostInv)'
      BY <1>4, <3>1 DEF Check, directory, IInv, FlightInv, CostInv
    <3>5. \A d \in Callers : CallInv(d)'
      BY <1>4, <2>1, <3>1 DEF Check, Returns, Goes, directory, IInv, TypeOK, FlightInv, CallInv, Pc, Calling
    <3> QED BY <3>3, <3>4, <3>5 DEF IInv
  <2>2. CASE completed < generation[c] /\ poisoned
    <3>1. Returns(c, "err") /\ UNCHANGED <<flight, covers, fsyncs>>
      BY <1>4, <2>2 DEF Check, IInv, TypeOK
    <3>2. notified' \in [Callers -> BOOLEAN]
      BY <3>1, Zenon DEF Returns, IInv, TypeOK
    <3>3. TypeOK'
      BY <1>4, <3>1, <3>2 DEF Check, Returns, Goes, directory, IInv, TypeOK, Pc
    <3>4. (FlightInv /\ CostInv)'
      BY <1>4, <3>1 DEF Check, directory, IInv, FlightInv, CostInv
    <3>5. \A d \in Callers : CallInv(d)'
      BY <1>4, <2>2, <3>1 DEF Check, Returns, Goes, directory, IInv, TypeOK, FlightInv, CallInv, Pc, Calling
    <3> QED BY <3>3, <3>4, <3>5 DEF IInv
  <2>3. CASE completed < generation[c] /\ ~poisoned
    BY <1>4, <2>3 DEF Check, Goes, Begin, directory, IInv, TypeOK, FlightInv, CostInv, CallInv, Pc, Flight, Calling
  <2> QED BY <2>1, <2>2, <2>3 DEF IInv, TypeOK
<1>5. CASE Wake(c)
  BY <1>5 DEF Wake, Goes, state, directory, IInv, TypeOK, FlightInv, CostInv, CallInv, Pc, Flight, Calling
<1>6. CASE Cancel(c)
  BY <1>6 DEF Cancel, Returns, Goes, state, directory, IInv, TypeOK, FlightInv, CostInv, CallInv, Pc, Flight, Calling
<1> QED BY <1>1, <1>2, <1>3, <1>4, <1>5, <1>6 DEF CallStep

\* The flight's steps: what it finds when it begins is all that the calls it
\* covers changed, and after a failure "safe" stays.
LEMMA FlightIInv ==
  ASSUME IInv, FlightStep
  PROVE  IInv'
<1>1. CASE Run
  BY <1>1 DEF Run, callers, IInv, TypeOK, FlightInv, CostInv, CallInv, Pc, Flight, Calling
<1>2. CASE Synced
  BY <1>2 DEF Synced, callers, IInv, TypeOK, FlightInv, CostInv, CallInv, Pc, Flight, Calling
<1>3. CASE Failed
  BY <1>3 DEF Failed, callers, IInv, TypeOK, FlightInv, CostInv, CallInv, Pc, Flight, Calling
<1>4. CASE Dropped
  BY <1>4 DEF Dropped, callers, directory, IInv, TypeOK, FlightInv, CostInv, CallInv, Pc, Flight, Calling
<1>5. CASE Publish
  <2>1. CASE flight = "synced"
    BY <1>5, <2>1 DEF Publish, MaxOf, callers, directory, IInv, TypeOK, FlightInv, CostInv, CallInv, Pc, Flight, Calling
  <2>2. CASE flight = "failed"
    BY <1>5, <2>2 DEF Publish, callers, directory, IInv, TypeOK, FlightInv, CostInv, CallInv, Pc, Flight, Calling
  <2> QED BY <1>5, <2>1, <2>2 DEF Publish
<1>6. CASE NotifyWaiters
  BY <1>6 DEF NotifyWaiters, directory, IInv, TypeOK, FlightInv, CostInv, CallInv, Pc, Flight, Calling
<1> QED BY <1>1, <1>2, <1>3, <1>4, <1>5, <1>6 DEF FlightStep

\* Nothing in the invariant looks beyond the variables.
LEMMA NextIInv ==
  ASSUME IInv, [Next]_vars
  PROVE  IInv'
<1>1. CASE Next
  BY <1>1, CallerIInv, FlightIInv DEF Next
<1>2. CASE UNCHANGED vars
  BY <1>2 DEF vars, state, callers, directory, IInv, TypeOK, FlightInv, CostInv, CallInv
<1> QED BY <1>1, <1>2

\* The inductive invariant holds of every behaviour of the syncer: the
\* counters, the fsync in flight and the disk stay in step.
THEOREM Invariance == Spec => []IInv
  BY InitIInv, NextIInv, PTL DEF Spec

\* DirSyncer::sync: "every entry the caller created, renamed or removed before
\* calling is durable" when it returns Ok, whoever else calls, is cancelled or
\* fails.
THEOREM OkIsDurable == Spec => []OkMeansDurable
<1>1. IInv => OkMeansDurable
  BY DEF IInv, TypeOK, FlightInv, CallInv, OkMeansDurable
<1> QED BY <1>1, Invariance, PTL

\* The module doc's "N concurrent writers cost at most N directory fsyncs".
THEOREM FsyncsAreShared == Spec => []AtMostOneEach
<1>1. IInv => AtMostOneEach
  BY DEF IInv, TypeOK, FlightInv, CostInv, AtMostOneEach
<1> QED BY <1>1, Invariance, PTL

\* Poison is for good, and no fsync is begun under it (State::poisoned).
THEOREM FailureIsFinal == Spec => NoFsyncAfterFailure
<1>1. IInv /\ [Next]_vars => [poisoned => poisoned' /\ flight' = "none"]_vars
  <2> SUFFICES ASSUME IInv, Next, poisoned
               PROVE  poisoned' /\ flight' = "none"
    BY DEF vars
  <2>1. flight = "none"
    BY DEF IInv, FlightInv
  <2>2. CASE FlightStep
    BY <2>1, <2>2 DEF FlightStep, Run, Synced, Failed, Dropped, Publish, NotifyWaiters
  <2>3. CASE \E c \in Callers : Change(c) \/ Call(c) \/ CallStep(c) \/ Cancel(c)
    BY <2>1, <2>3 DEF Change, Call, CallStep, Enable, Check, Wake, Cancel, state
  <2> QED BY <2>2, <2>3 DEF Next
<1> QED BY <1>1, Invariance, PTL DEF Spec, NoFsyncAfterFailure

-----------------------------------------------------------------------------
(* Breaker. *)

Outcomes == [failed : BOOLEAN, time : Nat]

BreakerTyped ==
  /\ now \in Nat
  /\ breakerState \in [Aspects -> [failures : Nat, until : Nat]]
  /\ recorded \in [Aspects -> Seq(Outcomes)]

\* The failures counted of an aspect are the last ones recorded, and nothing
\* but the last of them sets the end of the cooldown.
Counted(e, log) ==
  LET n == e.failures
      last == Len(log)
  IN /\ n <= last
     /\ \A i \in last - n + 1 .. last : log[i].failed
     /\ n < last => ~log[last - n].failed
     /\ e.until = IF n >= Threshold THEN log[last].time + Cooldown ELSE 0

CountInv == Threshold # 0 => \A a \in Aspects : Counted(breakerState[a], recorded[a])

BreakerInv == BreakerTyped /\ CountInv

LEMMA InitBreaker == ASSUME BreakerAssumption PROVE BreakerInit => BreakerInv
<1> SUFFICES ASSUME BreakerInit PROVE BreakerInv
  OBVIOUS
<1>1. Closed \in [failures : Nat, until : Nat] /\ <<>> \in Seq(Outcomes)
  BY EmptySeq DEF Closed
<1>2. BreakerTyped
  BY <1>1 DEF BreakerInit, BreakerTyped
<1>3. ASSUME Threshold # 0, NEW a \in Aspects PROVE Counted(breakerState[a], recorded[a])
  <2>1. breakerState[a].failures = 0 /\ breakerState[a].until = 0 /\ Len(recorded[a]) = 0
    BY EmptySeq DEF BreakerInit, Closed
  <2>2. Threshold \in Nat
    BY DEF BreakerAssumption
  <2> QED
    BY <1>3, <2>1, <2>2, SMT DEF Counted
<1> QED
  BY <1>2, <1>3 DEF BreakerInv, CountInv

AfterPass(e, failed) == IF failed THEN CountFailure(e) ELSE Closed
Longer(log, failed) == Append(log, [failed |-> failed, time |-> now])

\* One outcome more: a success closes the breaker, a failure counts on.
LEMMA CountedOn ==
  ASSUME BreakerAssumption, Threshold # 0, now \in Nat,
         NEW e \in [failures : Nat, until : Nat], NEW log \in Seq(Outcomes), Counted(e, log),
         NEW failed \in BOOLEAN
  PROVE  /\ Counted(AfterPass(e, failed), Longer(log, failed))
         /\ AfterPass(e, failed) \in [failures : Nat, until : Nat]
         /\ Longer(log, failed) \in Seq(Outcomes)
<1> DEFINE out == [failed |-> failed, time |-> now]
           f == AfterPass(e, failed)
           more == Longer(log, failed)
<1>0. Threshold \in Nat /\ Cooldown \in Nat
  BY DEF BreakerAssumption
<1>1. out \in Outcomes /\ out.failed = failed /\ out.time = now
  BY SMT DEF Outcomes
<1>2. /\ more \in Seq(Outcomes)
      /\ Len(more) = Len(log) + 1 /\ Len(log) \in Nat
      /\ \A i \in 1 .. Len(log) : more[i] = log[i]
      /\ more[Len(log) + 1] = out
  BY <1>1, AppendProperties, LenProperties DEF Longer
<1>3. CASE failed
  <2>1. /\ f.failures = e.failures + 1
        /\ f.until = IF f.failures >= Threshold THEN now + Cooldown ELSE e.until
        /\ f \in [failures : Nat, until : Nat]
    BY <1>0, <1>3, SMT DEF AfterPass, CountFailure
  <2>2. f.failures < Threshold => e.until = 0
    BY <1>0, <2>1, SMT DEF Counted
  <2>3. f.failures <= Len(more) /\ Len(more) - f.failures = Len(log) - e.failures
    BY <1>2, <2>1, SMT DEF Counted
  <2>4. \A i \in Len(more) - f.failures + 1 .. Len(more) : more[i].failed
    <3> TAKE i \in Len(more) - f.failures + 1 .. Len(more)
    <3>1. CASE i = Len(more)
      BY <1>1, <1>2, <1>3, <3>1
    <3>2. CASE i # Len(more)
      <4>1. i \in Len(log) - e.failures + 1 .. Len(log) /\ i \in 1 .. Len(log)
        BY <1>2, <2>1, <2>3, <3>2, SMT DEF Counted
      <4> QED
        BY <1>2, <4>1 DEF Counted
    <3> QED
      BY <3>1, <3>2
  <2>5. f.failures < Len(more) => ~more[Len(more) - f.failures].failed
    <3> SUFFICES ASSUME f.failures < Len(more) PROVE ~more[Len(more) - f.failures].failed
      OBVIOUS
    <3>1. e.failures < Len(log) /\ Len(log) - e.failures \in 1 .. Len(log)
      BY <1>2, <2>1, SMT
    <3> QED
      BY <1>2, <2>3, <3>1 DEF Counted
  <2>6. f.until = IF f.failures >= Threshold THEN more[Len(more)].time + Cooldown ELSE 0
    BY <1>0, <1>1, <1>2, <2>1, <2>2, SMT
  <2> QED
    BY <1>2, <2>1, <2>3, <2>4, <2>5, <2>6 DEF Counted
<1>4. CASE ~failed
  <2>1. f.failures = 0 /\ f.until = 0 /\ f \in [failures : Nat, until : Nat]
    BY <1>4 DEF AfterPass, Closed
  <2>2. ~more[Len(more)].failed
    BY <1>1, <1>2, <1>4
  <2> QED
    BY <1>0, <1>2, <2>1, <2>2, SMT DEF Counted
<1> QED
  BY <1>3, <1>4

LEMMA BreakerPass ==
  ASSUME BreakerAssumption, BreakerInv, NEW a \in Aspects,
         NEW failed \in BOOLEAN, Record(a, failed), now' = now
  PROVE  BreakerInv'
<1> DEFINE more == Longer(recorded[a], failed)
           f == AfterPass(breakerState[a], failed)
<1>0. /\ breakerState[a] \in [failures : Nat, until : Nat] /\ recorded[a] \in Seq(Outcomes)
      /\ now \in Nat
  BY DEF BreakerInv, BreakerTyped
<1>1. recorded' = [recorded EXCEPT ![a] = more]
  BY DEF Record, Longer
<1>2. CASE Threshold = 0
  <2>1. [failed |-> failed, time |-> now] \in Outcomes
    BY <1>0, SMT DEF Outcomes
  <2>2. more \in Seq(Outcomes)
    BY <1>0, <2>1, AppendProperties DEF Longer
  <2>3. UNCHANGED breakerState
    BY <1>2 DEF Record
  <2> QED
    BY <1>1, <1>2, <2>2, <2>3 DEF BreakerInv, BreakerTyped, CountInv
<1>3. CASE Threshold # 0
  <2>1. breakerState' = [breakerState EXCEPT ![a] = f]
    BY <1>3 DEF Record, AfterPass
  <2>2. Counted(f, more) /\ f \in [failures : Nat, until : Nat] /\ more \in Seq(Outcomes)
    BY <1>0, <1>3, CountedOn DEF BreakerInv, CountInv
  <2> HIDE DEF f, more
  <2>3. BreakerTyped'
    <3>1. breakerState' \in [Aspects -> [failures : Nat, until : Nat]]
      BY <2>1, <2>2 DEF BreakerInv, BreakerTyped
    <3>2. recorded' \in [Aspects -> Seq(Outcomes)]
      BY <1>1, <2>2 DEF BreakerInv, BreakerTyped
    <3> QED
      BY <1>0, <3>1, <3>2 DEF BreakerTyped
  <2>4. ASSUME NEW b \in Aspects PROVE Counted(breakerState'[b], recorded'[b])
    <3>1. CASE b = a
      BY <1>1, <2>1, <2>2, <3>1 DEF BreakerInv, BreakerTyped
    <3>2. CASE b # a
      BY <1>1, <1>3, <2>1, <3>2 DEF BreakerInv, BreakerTyped, CountInv
    <3> QED
      BY <3>1, <3>2
  <2> QED
    BY <2>3, <2>4 DEF BreakerInv, CountInv, Counted
<1> QED
  BY <1>2, <1>3

LEMMA NextBreaker ==
  ASSUME BreakerAssumption, BreakerInv, [BreakerNext]_breakerVars
  PROVE  BreakerInv'
<1>1. CASE Tick
  BY <1>1, SMT DEF Tick, BreakerInv, BreakerTyped, CountInv, Counted
<1>2. ASSUME NEW s \in Sweeps, Pass(s) PROVE BreakerInv'
  <2>1. PICK failed \in BOOLEAN : Record(At(s), failed)
    BY <1>2 DEF Pass
  <2>2. CASE At(s) \in Aspects
    BY <1>2, <2>1, <2>2, BreakerPass DEF Pass
  <2>3. CASE At(s) \notin Aspects
    <3>1. UNCHANGED <<breakerState, recorded>>
      BY <2>1, <2>3, SMT DEF Record, BreakerInv, BreakerTyped
    <3> QED
      BY <1>2, <3>1 DEF Pass, BreakerInv, BreakerTyped, CountInv, Counted
  <2> QED
    BY <2>2, <2>3
<1>3. CASE UNCHANGED <<now, breakerState, recorded>>
  BY <1>3 DEF BreakerInv, BreakerTyped, CountInv, Counted
<1> QED
  BY <1>1, <1>2, <1>3 DEF BreakerNext, breakerVars, BeginSweep, Look, TakeLock, Busy, Drop, OtherTakes, OtherDone

\* breaker_record and breaker_permits: an aspect is passed over exactly while
\* the last passes that any sweep recorded of it, as many as the threshold, all
\* failed and the last is younger than the cooldown.
THEOREM TripsWhenEarned == BreakerAssumption => (BreakerSpec => []TrippedIffEarned)
<1> SUFFICES ASSUME BreakerAssumption PROVE BreakerSpec => []TrippedIffEarned
  OBVIOUS
<1>1. BreakerInit => BreakerInv
  BY InitBreaker
<1>2. BreakerInv /\ [BreakerNext]_breakerVars => BreakerInv'
  BY NextBreaker
<1>3. BreakerInv => TrippedIffEarned
  <2> SUFFICES ASSUME BreakerInv, NEW a \in Aspects
               PROVE  Tripped(a) <=>
                        /\ Threshold # 0 /\ Len(recorded[a]) >= Threshold
                        /\ \A i \in Len(recorded[a]) - Threshold + 1 .. Len(recorded[a]) : recorded[a][i].failed
                        /\ now < recorded[a][Len(recorded[a])].time + Cooldown
    BY DEF TrippedIffEarned
  <2>1. CASE Threshold = 0
    BY <2>1 DEF Tripped
  <2>2. CASE Threshold # 0
    <3> DEFINE n == breakerState[a].failures
               last == Len(recorded[a])
    <3>1. /\ n \in Nat /\ last \in Nat /\ now \in Nat /\ Threshold \in Nat \ {0} /\ Cooldown \in Nat
          /\ Counted(breakerState[a], recorded[a])
      BY <2>2, LenProperties DEF BreakerInv, BreakerTyped, CountInv, BreakerAssumption
    <3>2. (\A i \in last - Threshold + 1 .. last : recorded[a][i].failed) /\ last >= Threshold
            => n >= Threshold
      <4> SUFFICES ASSUME last >= Threshold, n < Threshold
                   PROVE  \E i \in last - Threshold + 1 .. last : ~recorded[a][i].failed
        BY <3>1, SMT
      <4>1. n < last /\ last - n \in last - Threshold + 1 .. last
        BY <3>1, SMT
      <4> QED
        BY <3>1, <4>1 DEF Counted
    <3>3. n >= Threshold =>
            last >= Threshold /\ \A i \in last - Threshold + 1 .. last : recorded[a][i].failed
      BY <3>1, SMT DEF Counted
    <3>4. CASE n >= Threshold
      <4>1. breakerState[a].until = recorded[a][last].time + Cooldown
        BY <3>1, <3>4 DEF Counted
      <4>2. recorded[a][last].time \in Nat
        <5>1. last \in 1 .. Len(recorded[a]) /\ recorded[a] \in Seq(Outcomes)
          BY <3>1, <3>3, <3>4, SMT DEF BreakerInv, BreakerTyped
        <5>2. recorded[a][last] \in Outcomes
          BY <5>1, ElementOfSeq
        <5> QED
          BY <5>2 DEF Outcomes
      <4>3. breakerState[a].until > now <=> now < recorded[a][last].time + Cooldown
        BY <3>1, <4>1, <4>2, SMT
      <4> QED
        BY <2>2, <3>3, <3>4, <4>3 DEF Tripped
    <3>5. CASE ~(n >= Threshold)
      <4>1. breakerState[a].until = 0
        BY <3>1, <3>5 DEF Counted
      <4>2. ~Tripped(a)
        BY <3>1, <4>1, SMT DEF Tripped
      <4> QED
        BY <3>2, <3>5, <4>2
    <3> QED
      BY <3>4, <3>5
  <2> QED
    BY <2>1, <2>2
<1> QED
  BY <1>1, <1>2, <1>3, PTL DEF BreakerSpec

-----------------------------------------------------------------------------
(* Natural numbers: what induction gives, said of sets. *)

\* A set of natural numbers has a least member.
LEMMA Least ==
  ASSUME NEW T \in SUBSET Nat, T # {}
  PROVE  \E m \in T : \A y \in T : m <= y
<1>1. IsWellFoundedOn(OpToRel(<, Nat), Nat)
  BY NatLessThanWellFounded
<1>2. PICK m \in T : \A y \in T : ~(<<y, m>> \in OpToRel(<, Nat))
  BY <1>1, WFMin
<1>3. \A y \in T : ~(y < m)
  BY <1>2 DEF OpToRel
<1> QED
  BY <1>3, SMT

\* A set of them that is closed under successor, from 0 on, is all.
LEMMA NatInd ==
  ASSUME NEW S, 0 \in S, \A n \in Nat : n \in S => n + 1 \in S
  PROVE  Nat \subseteq S
<1> SUFFICES ASSUME Nat \ S # {} PROVE FALSE
  OBVIOUS
<1>1. PICK x \in Nat \ S : \A y \in Nat \ S : x <= y
  BY Least
<1> QED BY <1>1

-----------------------------------------------------------------------------
(* IngestChunks. *)

\* A column of sums as far as row k.
IsSums(g, rows, k) ==
  g = [n \in 0 .. k |-> IF n = 0 THEN 0 ELSE g[n - 1] + rows[n].cost]

LEMMA SumsExist ==
  ASSUME NEW rows, NEW k \in Nat
  PROVE  \E g : IsSums(g, rows, k)
<1> DEFINE S == {i \in Nat : \E g : IsSums(g, rows, i)}
<1>1. 0 \in S
  <2> DEFINE g == [n \in 0 .. 0 |-> 0]
  <2>1. IsSums(g, rows, 0)
    BY DEF IsSums
  <2> QED BY <2>1
<1>2. ASSUME NEW i \in Nat, i \in S PROVE i + 1 \in S
  <2>1. PICK g : IsSums(g, rows, i)
    BY <1>2
  <2> DEFINE h == [n \in 0 .. i + 1 |-> IF n = i + 1 THEN g[i] + rows[n].cost ELSE g[n]]
             e == [n \in 0 .. i + 1 |-> IF n = 0 THEN 0 ELSE h[n - 1] + rows[n].cost]
  <2>2. ASSUME NEW n \in 0 .. i + 1 PROVE h[n] = e[n]
    <3>1. CASE n = i + 1
      <4>1. h[n - 1] = g[i]
        BY <3>1
      <4> QED BY <3>1, <4>1
    <3>2. CASE n # i + 1 /\ n # 0
      <4>1. n \in 0 .. i /\ n - 1 \in 0 .. i
        BY <3>2
      <4>2. g[n] = g[n - 1] + rows[n].cost
        BY <2>1, <3>2, <4>1 DEF IsSums
      <4>3. h[n] = g[n] /\ h[n - 1] = g[n - 1]
        BY <3>2, <4>1
      <4> QED BY <3>2, <4>2, <4>3
    <3>3. CASE n = 0
      <4>1. g[0] = 0
        BY <2>1 DEF IsSums
      <4> QED BY <3>3, <4>1
    <3> QED BY <3>1, <3>2, <3>3
  <2>3. h = e
    BY <2>2
  <2>4. IsSums(h, rows, i + 1)
    BY <2>3 DEF IsSums
  <2> HIDE DEF h
  <2> QED BY <2>4
<1> HIDE DEF S
<1>3. Nat \subseteq S
  BY <1>1, <1>2, NatInd
<1> QED BY <1>3 DEF S

LEMMA Sums ==
  ASSUME NEW rows, Len(rows) \in Nat
  PROVE  /\ SumsOf(rows)[0] = 0
         /\ \A n \in 1 .. Len(rows) : SumsOf(rows)[n] = SumsOf(rows)[n - 1] + rows[n].cost
<1>1. IsSums(SumsOf(rows), rows, Len(rows))
  BY SumsExist DEF IsSums, SumsOf
<1> DEFINE s == SumsOf(rows)
<1> HIDE DEF s
<1>2. s = [n \in 0 .. Len(rows) |-> IF n = 0 THEN 0 ELSE s[n - 1] + rows[n].cost]
  BY <1>1 DEF IsSums, s
<1> QED BY <1>2 DEF s

\* Sums of sizes are natural numbers.
LEMMA SumsTyped ==
  ASSUME NEW rows, Len(rows) \in Nat, \A i \in 1 .. Len(rows) : rows[i].cost \in Nat
  PROVE  \A n \in 0 .. Len(rows) : SumsOf(rows)[n] \in Nat
<1> DEFINE s == SumsOf(rows)
           S == {n \in Nat : n <= Len(rows) => s[n] \in Nat}
<1>1. s[0] = 0 /\ \A n \in 1 .. Len(rows) : s[n] = s[n - 1] + rows[n].cost
  BY Sums
<1> HIDE DEF s
<1>2. 0 \in S
  BY <1>1
<1>3. ASSUME NEW n \in Nat, n \in S PROVE n + 1 \in S
  <2>1. CASE n + 1 <= Len(rows)
    <3>1. s[n] \in Nat /\ n + 1 \in 1 .. Len(rows)
      BY <1>3, <2>1
    <3>2. s[n + 1] = s[n] + rows[n + 1].cost
      BY <1>1, <3>1
    <3> QED BY <3>1, <3>2
  <2>2. CASE ~(n + 1 <= Len(rows))
    BY <2>2
  <2> QED BY <2>1, <2>2
<1> HIDE DEF S
<1>4. Nat \subseteq S
  BY <1>2, <1>3, NatInd
<1> QED BY <1>4 DEF S, s

Total(n) == SumsOf(batch)[n]

BatchTyped ==
  /\ batch \in Seq(Rows) /\ target \in Nat
  /\ start \in 0 .. Len(batch) /\ end \in start .. Len(batch)
  /\ chunks \in Seq([first : 1 .. Len(batch), last : 1 .. Len(batch)])

\* The rows of the open chunk fit, but for those that have the last one's time.
OpenFits ==
  end > start =>
    \E h \in start + 1 .. end :
      /\ \A i \in h .. end : batch[i].time = batch[end].time
      /\ h = start + 1 \/ Cost(start + 1, h) <= target

Estimated == estimate = Total(end) - Total(start)

ChunksInv ==
  /\ BatchTyped
  /\ Estimated
  /\ OpenFits
  /\ ChunksSound

LEMMA TotalStep ==
  ASSUME ChunksAssumption, BatchTyped
  PROVE  /\ \A n \in 0 .. Len(batch) : Total(n) \in Nat
         /\ \A n \in 1 .. Len(batch) : Total(n) = Total(n - 1) + batch[n].cost /\ batch[n].cost \in Nat
<1>1. Len(batch) \in Nat /\ \A n \in 1 .. Len(batch) : batch[n] \in Rows
  BY DEF BatchTyped
<1>2. \A n \in 1 .. Len(batch) : batch[n].cost \in Nat
  BY <1>1 DEF Rows, ChunksAssumption
<1> QED BY <1>1, <1>2, Sums, SumsTyped DEF Total

LEMMA InitChunks == ASSUME ChunksAssumption, ChunksInit PROVE ChunksInv
<1>1. PICK n \in 0 .. MaxRows : batch \in [1 .. n -> Rows]
  BY DEF ChunksInit
<1>2. n \in Nat /\ batch \in Seq(Rows) /\ Len(batch) = n
  BY <1>1 DEF ChunksAssumption
<1>3. BatchTyped
  BY <1>2 DEF BatchTyped, ChunksInit, ChunksAssumption
<1>4. Total(0) \in Nat
  BY <1>2, <1>3, TotalStep
<1>5. ChunksSound
  BY DEF ChunksInit, ChunksSound, ChunksPartition, RunsWhole, OnlyLastRunOverflows, ChunksAreFull, ClosedChunks
<1> QED BY <1>3, <1>4, <1>5 DEF ChunksInv, OpenFits, ChunksInit, Estimated

\* A row is taken unless it would go over the target and starts another run.
LEMMA TakeKeeps == ASSUME ChunksAssumption, ChunksInv, Take PROVE ChunksInv'
<1>1. /\ UNCHANGED <<batch, target, start, chunks>> /\ end' = end + 1 /\ end < Len(batch)
      /\ end \in Nat /\ start \in Nat /\ start <= end /\ Len(batch) \in Nat
  BY DEF Take, ChunksInv, BatchTyped
<1>2. BatchTyped'
  BY <1>1 DEF ChunksInv, BatchTyped
<1>3. \A n : Total(n)' = Total(n)
  BY <1>1 DEF Total
<1>4. /\ Total(end + 1) = Total(end) + batch[end + 1].cost /\ batch[end + 1].cost \in Nat
      /\ Total(end) \in Nat /\ Total(start) \in Nat
  BY <1>1, TotalStep DEF ChunksInv
<1>5. Estimated'
  BY <1>1, <1>3, <1>4 DEF Take, ChunksInv, Estimated
<1>6. OpenFits'
  <2>1. \A f, l : Cost(f, l)' = Cost(f, l)
    BY <1>1 DEF Cost
  <2>2. CASE end = start
    <3>1. end + 1 \in start + 1 .. end' /\ \A i \in end + 1 .. end' : i = end'
      BY <1>1, <2>2
    <3> QED BY <1>1, <2>2, <3>1 DEF OpenFits
  <2>3. CASE end > start /\ ~Overfull
    <3>1. Cost(start + 1, end + 1) <= target
      <4>1. Cost(start + 1, end + 1) = Total(end + 1) - Total(start)
        BY <1>1 DEF Cost, Total
      <4> QED BY <1>4, <2>3, <4>1 DEF Overfull, ChunksInv, Estimated, BatchTyped
    <3>2. end + 1 \in start + 1 .. end' /\ \A i \in end + 1 .. end' : i = end'
      BY <1>1
    <3> QED BY <1>1, <2>1, <3>1, <3>2 DEF OpenFits
  <2>4. CASE end > start /\ batch[end + 1].time = batch[end].time
    <3>1. PICK h \in start + 1 .. end :
            /\ \A i \in h .. end : batch[i].time = batch[end].time
            /\ h = start + 1 \/ Cost(start + 1, h) <= target
      BY <2>4 DEF ChunksInv, OpenFits
    <3>2. \A i \in h .. end' : i \in h .. end \/ i = end + 1
      BY <1>1
    <3>3. h \in start' + 1 .. end' /\ \A i \in h .. end' : batch'[i].time = batch'[end'].time
      BY <1>1, <2>4, <3>1, <3>2
    <3>4. h = start' + 1 \/ Cost(start + 1, h)' <= target'
      BY <1>1, <2>1, <3>1
    <3> QED BY <1>1, <3>3, <3>4 DEF OpenFits
  <2> QED BY <1>1, <2>2, <2>3, <2>4 DEF Take, Cut
<1>7. ChunksSound'
  BY <1>1 DEF ChunksInv, ChunksSound, ChunksPartition, RunsWhole, OnlyLastRunOverflows, ChunksAreFull,
    ClosedChunks, Cost
<1> QED BY <1>2, <1>5, <1>6, <1>7 DEF ChunksInv

\* A chunk is closed at the end of the batch or before a row that does not fit
\* and starts another run.
LEMMA CloseKeeps == ASSUME ChunksAssumption, ChunksInv, Close PROVE ChunksInv'
<1> DEFINE c == [first |-> start + 1, last |-> end]
           n == Len(chunks)
           C == [first : 1 .. Len(batch), last : 1 .. Len(batch)]
<1>1. /\ UNCHANGED <<batch, target, end>> /\ start' = end /\ estimate' = 0
      /\ end \in Nat /\ start \in Nat /\ start < end /\ Len(batch) \in Nat /\ end <= Len(batch)
      /\ end < Len(batch) => Cut
      /\ chunks \in Seq(C)
  BY DEF Close, Cut, ChunksInv, BatchTyped
<1>2. /\ chunks' = Append(chunks, c) /\ c \in C
  BY <1>1 DEF Close
<1>3. /\ chunks' \in Seq(C) /\ Len(chunks') = n + 1 /\ n \in Nat /\ chunks'[n + 1] = c
      /\ \A k \in 1 .. n : chunks'[k] = chunks[k]
      /\ DOMAIN chunks = 1 .. n /\ DOMAIN chunks' = 1 .. n + 1
      /\ chunks = <<>> <=> n = 0
  <2>1. n \in Nat /\ DOMAIN chunks = 1 .. n /\ (chunks = <<>> <=> n = 0)
    BY <1>1, EmptySeq, LenProperties
  <2>2. /\ chunks' \in Seq(C) /\ Len(chunks') = n + 1 /\ chunks'[n + 1] = c
        /\ \A k \in 1 .. n : chunks'[k] = chunks[k]
    BY <1>1, <1>2, AppendProperties
  <2>3. DOMAIN chunks' = 1 .. n + 1
    BY <2>2, LenProperties
  <2> QED BY <2>1, <2>2, <2>3
<1>4. \A k \in 1 .. n : chunks[k] \in C /\ chunks[k].first \in 1 .. Len(batch) /\ chunks[k].last \in 1 .. Len(batch)
  <2> SUFFICES ASSUME NEW k \in 1 .. n PROVE chunks[k] \in C
    OBVIOUS
  <2> QED BY <1>1, <1>3, ElementOfSeq
<1>5. c.first = start + 1 /\ c.last = end
  OBVIOUS
<1>6. n = Len(chunks)
  OBVIOUS
<1> HIDE DEF n, c
<1>7. /\ chunks'[n + 1].first = start + 1 /\ chunks'[n + 1].last = end
       /\ start = IF n = 0 THEN 0 ELSE chunks[n].last
  BY <1>1, <1>3, <1>5, <1>6 DEF ChunksInv, ChunksSound, ChunksPartition
<1>8. BatchTyped'
  BY <1>1, <1>3 DEF ChunksInv, BatchTyped
<1>9. /\ \A i : Total(i)' = Total(i)
      /\ \A f, l : Cost(f, l)' = Cost(f, l)
  BY <1>1 DEF Total, Cost
<1>10. Total(end) \in Nat
  BY <1>1, TotalStep DEF ChunksInv
<1>11. Estimated'
  BY <1>1, <1>9, <1>10 DEF Estimated
<1>12. OpenFits'
  BY <1>1 DEF OpenFits
<1>13. ChunksPartition'
  <2>1. ASSUME NEW k \in 1 .. n + 1 PROVE chunks'[k].first <= chunks'[k].last
    <3>1. CASE k = n + 1
      <4>1. start < end /\ start \in Nat /\ end \in Nat
        BY <1>1
      <4>2. chunks'[k].first = start + 1 /\ chunks'[k].last = end
        BY <1>7, <3>1
      <4> QED BY <4>1, <4>2
    <3>2. CASE k # n + 1
      <4>1. k \in 1 .. n
        BY <1>3, <3>2
      <4> QED BY <1>3, <4>1 DEF ChunksInv, ChunksSound, ChunksPartition, ClosedChunks
    <3> QED BY <3>1, <3>2
  <2>2. ASSUME NEW k \in 1 .. n + 1
        PROVE  chunks'[k].first = IF k = 1 THEN 1 ELSE chunks'[k - 1].last + 1
    <3>1. CASE k = n + 1 /\ n = 0
      BY <1>1, <1>7, <3>1
    <3>2. CASE k = n + 1 /\ n # 0
      <4>1. chunks'[k].first = chunks[n].last + 1
        BY <1>1, <1>7, <3>2
      <4>2. chunks'[k - 1] = chunks[n] /\ k # 1
        BY <1>3, <3>2
      <4> QED BY <4>1, <4>2
    <3>3. CASE k # n + 1
      <4>1. k \in 1 .. n /\ (k # 1 => k - 1 \in 1 .. n)
        BY <1>3, <3>3
      <4>2. chunks[k].first = IF k = 1 THEN 1 ELSE chunks[k - 1].last + 1
        BY <1>3, <4>1 DEF ChunksInv, ChunksSound, ChunksPartition, ClosedChunks
      <4> QED BY <1>3, <4>1, <4>2
    <3> QED BY <3>1, <3>2, <3>3
  <2>3. chunks' # <<>> /\ start' = chunks'[Len(chunks')].last
    <3>1. Len(chunks') # 0
      BY <1>3
    <3>2. chunks' # <<>>
      BY <3>1, EmptySeq
    <3> QED BY <1>1, <1>3, <1>7, <3>2
  <2> QED BY <1>3, <2>1, <2>2, <2>3 DEF ChunksPartition, ClosedChunks
<1>14. RunsWhole'
  <2> SUFFICES ASSUME NEW k \in 1 .. n + 1, chunks'[k].last < Len(batch)
               PROVE  batch[chunks'[k].last].time # batch[chunks'[k].last + 1].time
    BY <1>1, <1>3 DEF RunsWhole, ClosedChunks
  <2>1. CASE k = n + 1
    BY <1>1, <1>7, <2>1 DEF Cut
  <2>2. CASE k # n + 1
    <3>1. k \in 1 .. n
      BY <1>3, <2>2
    <3> QED BY <1>3, <3>1 DEF ChunksInv, ChunksSound, RunsWhole, ClosedChunks
  <2> QED BY <2>1, <2>2
<1>15. OnlyLastRunOverflows'
  <2> SUFFICES ASSUME NEW k \in 1 .. n + 1
               PROVE  \E h \in chunks'[k].first .. chunks'[k].last :
                        /\ \A i \in h .. chunks'[k].last : batch[i].time = batch[chunks'[k].last].time
                        /\ h = chunks'[k].first \/ Cost(chunks'[k].first, h) <= target
    BY <1>1, <1>3, <1>9 DEF OnlyLastRunOverflows, ClosedChunks
  <2>1. CASE k = n + 1
    BY <1>1, <1>7, <2>1 DEF ChunksInv, OpenFits
  <2>2. CASE k # n + 1
    <3>1. k \in 1 .. n
      BY <1>3, <2>2
    <3>2. chunks'[k] = chunks[k] /\ k \in ClosedChunks
      BY <1>3, <3>1 DEF ClosedChunks
    <3> QED BY <3>2 DEF ChunksInv, ChunksSound, OnlyLastRunOverflows
  <2> QED BY <2>1, <2>2
<1>16. ChunksAreFull'
  <2> SUFFICES ASSUME NEW k \in 1 .. n + 1, chunks'[k].last < Len(batch)
               PROVE  Cost(chunks'[k].first, chunks'[k].last + 1) > target
    BY <1>1, <1>3, <1>9 DEF ChunksAreFull, ClosedChunks
  <2>1. CASE k = n + 1
    <3>1. end < Len(batch) /\ estimate + batch[end + 1].cost > target
      BY <1>1, <1>7, <2>1 DEF Cut, Overfull
    <3>2. Total(end + 1) = Total(end) + batch[end + 1].cost /\ batch[end + 1].cost \in Nat
      BY <1>1, <3>1, TotalStep DEF ChunksInv
    <3>3. Total(start) \in Nat
      <4>1. BatchTyped /\ start \in 0 .. Len(batch)
        BY <1>1 DEF ChunksInv, BatchTyped
      <4>2. \A i \in 0 .. Len(batch) : Total(i) \in Nat
        BY <4>1, TotalStep
      <4> QED BY <4>1, <4>2
    <3>4. Cost(start + 1, end + 1) = Total(end + 1) - Total(start)
      BY <1>1 DEF Cost, Total
    <3>5. Cost(start + 1, end + 1) > target
      BY <1>10, <3>1, <3>2, <3>3, <3>4 DEF ChunksInv, Estimated, BatchTyped
    <3> QED BY <1>7, <2>1, <3>5
  <2>2. CASE k # n + 1
    <3>1. k \in 1 .. n
      BY <1>3, <2>2
    <3> QED BY <1>3, <3>1 DEF ChunksInv, ChunksSound, ChunksAreFull, ClosedChunks
  <2> QED BY <2>1, <2>2
<1> QED BY <1>8, <1>11, <1>12, <1>13, <1>14, <1>15, <1>16 DEF ChunksInv, ChunksSound

\* chunk_ingest_rows, for any batch and target: the chunks divide the batch and
\* no run of equal timestamps, and each is as large as that and the target allow.
THEOREM ChunksAreSound == ChunksAssumption => (ChunksSpec => []ChunksSound)
<1> SUFFICES ASSUME ChunksAssumption PROVE ChunksSpec => []ChunksSound
  OBVIOUS
<1>1. ChunksInit => ChunksInv
  BY InitChunks
<1>2. ChunksInv /\ [ChunksNext]_chunkVars => ChunksInv'
  <2> SUFFICES ASSUME ChunksInv, [ChunksNext]_chunkVars PROVE ChunksInv'
    OBVIOUS
  <2>1. CASE Take
    BY <2>1, TakeKeeps
  <2>2. CASE Close
    BY <2>2, CloseKeeps
  <2>3. CASE UNCHANGED chunkVars
    BY <2>3 DEF chunkVars, ChunksInv, Estimated, BatchTyped, Total, OpenFits, Cost, ChunksSound, ChunksPartition,
      RunsWhole, OnlyLastRunOverflows, ChunksAreFull, ClosedChunks
  <2> QED BY <2>1, <2>2, <2>3 DEF ChunksNext
<1>3. ChunksInv => ChunksSound
  BY DEF ChunksInv
<1> QED BY <1>1, <1>2, <1>3, PTL DEF ChunksSpec

-----------------------------------------------------------------------------
(* Checkpoints. *)

\* Sums and differences that wrap are a group's.
LEMMA Modulo ==
  ASSUME NEW m \in Nat \ {0}, NEW y \in Int
  PROVE  /\ 0 <= y /\ y < m => y % m = y
         /\ m <= y /\ y < 2 * m => y % m = y - m
         /\ 0 - m <= y /\ y < 0 => y % m = y + m
BY SMTT(30)

LEMMA WrapDifference ==
  ASSUME SearchAssumption, NEW a \in Stamps, NEW b \in Stamps
  PROVE  Wrap(b - a) \in Stamps /\ Wrap(a + Wrap(b - a)) = b
<1>1. Half \in Nat \ {0} /\ 2 * Half \in Nat \ {0}
  BY DEF SearchAssumption
<1>2. a \in Int /\ b \in Int /\ 0 - Half <= a /\ a < Half /\ 0 - Half <= b /\ b < Half
  BY <1>1 DEF Stamps
<1>3. PICK d \in Int : d = b - a
  BY <1>2
<1>4. \/ d < 0 - Half /\ Wrap(d) = d + 2 * Half
      \/ 0 - Half <= d /\ d < Half /\ Wrap(d) = d
      \/ Half <= d /\ Wrap(d) = d - 2 * Half
  <2>1. PICK m \in Nat \ {0} : m = 2 * Half
    BY <1>1
  <2>2. PICK y \in Int : y = d + Half
    BY <1>1
  <2>3. Wrap(d) = (y % m) - Half
    BY <2>1, <2>2 DEF Wrap
  <2>4. 0 - m <= y /\ y < 2 * m
    BY <1>1, <1>2, <1>3, <2>1, <2>2
  <2>5. \/ y < 0 /\ y % m = y + m
        \/ 0 <= y /\ y < m /\ y % m = y
        \/ m <= y /\ y % m = y - m
    <3>1. CASE y < 0 BY <2>4, <3>1, Modulo
    <3>2. CASE 0 <= y /\ y < m BY <3>2, Modulo
    <3>3. CASE m <= y BY <2>4, <3>3, Modulo
    <3> QED BY <3>1, <3>2, <3>3
  <2> QED BY <1>1, <2>1, <2>2, <2>3, <2>5
<1>5. PICK e \in Int : e = Wrap(d)
  BY <1>1, <1>2, <1>3, <1>4
<1>6. e \in Stamps
  BY <1>1, <1>2, <1>3, <1>4, <1>5 DEF Stamps
<1>7. a + e = b \/ a + e = b + 2 * Half \/ a + e = b - 2 * Half
  BY <1>1, <1>2, <1>3, <1>4, <1>5
<1>8. Wrap(a + e) = b
  <2>1. PICK y \in Int : y = (a + e) + Half
    BY <1>1, <1>2, <1>5
  <2>2. y = b + Half \/ y = (b + Half) + 2 * Half \/ y = (b + Half) - 2 * Half
    BY <1>1, <1>2, <1>5, <1>7, <2>1
  <2>3. 0 <= b + Half /\ b + Half < 2 * Half
    BY <1>1, <1>2
  <2>4. y % (2 * Half) = b + Half
    <3>1. PICK m \in Nat \ {0} : m = 2 * Half
      BY <1>1
    <3>2. PICK z \in Int : z = b + Half
      BY <1>1, <1>2
    <3>3. (y = z \/ y = z + m \/ y = z - m) /\ 0 <= z /\ z < m
      BY <2>2, <2>3, <3>1, <3>2
    <3>4. y % m = z
      BY <3>3, Modulo
    <3> QED BY <3>1, <3>2, <3>4
  <2> QED BY <1>1, <1>2, <1>5, <2>1, <2>4 DEF Wrap
<1> QED BY <1>3, <1>5, <1>6, <1>8

\* What the search never writes.
ColumnInv ==
  /\ \E n \in 1 .. MaxColumn : times \in [1 .. n -> Stamps]
  /\ Sorted(times) /\ stride \in Strides /\ wanted \in Stamps
  /\ refused \subseteq 0 .. Len(times) - 1

LEMMA Column ==
  ASSUME SearchAssumption, ColumnInv
  PROVE  /\ Len(times) \in Nat \ {0} /\ times \in [1 .. Len(times) -> Stamps]
         /\ Deltas \in [1 .. Len(times) - 1 -> Stamps]
         /\ Len(Deltas) = Len(times) - 1
         /\ \A i \in 1 .. Len(times) - 2 : Dods[i] = Wrap(Deltas[i + 1] - Deltas[i])
         /\ Len(times) > 1 => Len(Dods) = Len(times) - 2
<1>1. PICK n \in 1 .. MaxColumn : times \in [1 .. n -> Stamps]
  BY DEF ColumnInv
<1>2. n \in Nat /\ Len(times) = n
  BY <1>1 DEF SearchAssumption
<1>3. \A i \in 1 .. n - 1 : Wrap(times[i + 1] - times[i]) \in Stamps
  <2> SUFFICES ASSUME NEW i \in 1 .. n - 1 PROVE Wrap(times[i + 1] - times[i]) \in Stamps
    OBVIOUS
  <2>1. times[i + 1] \in Stamps /\ times[i] \in Stamps
    BY <1>1, <1>2
  <2> QED BY <2>1, WrapDifference
<1>4. Deltas = [i \in 1 .. n - 1 |-> Wrap(times[i + 1] - times[i])]
  BY <1>2 DEF Deltas, Differences
<1>5. Deltas \in [1 .. n - 1 -> Stamps] /\ n - 1 \in Nat
  BY <1>2, <1>3, <1>4, <1>1
<1>6. Len(Deltas) = n - 1
  BY <1>5
<1>7. Dods = [i \in 1 .. n - 2 |-> Wrap(Deltas[i + 1] - Deltas[i])]
  BY <1>2, <1>6 DEF Dods, Differences
<1>8. n > 1 => Len(Dods) = n - 2
  BY <1>2, <1>7
<1> QED BY <1>1, <1>2, <1>5, <1>6, <1>7, <1>8

\* A sorted column is monotone.
LEMMA Monotone ==
  ASSUME SearchAssumption, ColumnInv
  PROVE  \A i, j \in 1 .. Len(times) : i <= j => times[i] <= times[j]
<1> DEFINE S == {k \in Nat : \A i \in 1 .. Len(times) : i + k <= Len(times) => times[i] <= times[i + k]}
<1>1. times \in [1 .. Len(times) -> Stamps] /\ Len(times) \in Nat
  BY Column
<1>2. \A i \in 1 .. Len(times) : times[i] \in Int
  BY <1>1 DEF Stamps, SearchAssumption
<1>3. 0 \in S
  BY <1>1, <1>2
<1>4. ASSUME NEW k \in Nat, k \in S PROVE k + 1 \in S
  <2> SUFFICES ASSUME NEW i \in 1 .. Len(times), i + (k + 1) <= Len(times)
               PROVE  times[i] <= times[i + (k + 1)]
    OBVIOUS
  <2>1. times[i] <= times[i + k]
    BY <1>1, <1>4
  <2>2. i + k \in 1 .. Len(times) - 1 /\ (i + k) + 1 = i + (k + 1)
    BY <1>1
  <2>3. times[i + k] <= times[i + (k + 1)]
    BY <2>2 DEF ColumnInv, Sorted
  <2>4. times[i] \in Int /\ times[i + k] \in Int /\ times[i + (k + 1)] \in Int
    BY <1>1, <1>2, <2>2
  <2> QED BY <2>1, <2>3, <2>4
<1> HIDE DEF S
<1>5. Nat \subseteq S
  BY <1>3, <1>4, NatInd
<1> SUFFICES ASSUME NEW i \in 1 .. Len(times), NEW j \in 1 .. Len(times), i <= j
             PROVE  times[i] <= times[j]
  OBVIOUS
<1>6. PICK k \in Nat : i + k = j
  <2>1. j - i \in Nat /\ i + (j - i) = j
    BY <1>1
  <2> QED BY <2>1
<1>7. \A x \in 1 .. Len(times) : x + k <= Len(times) => times[x] <= times[x + k]
  BY <1>5 DEF S
<1> QED BY <1>1, <1>6, <1>7

\* The state at a row is what the column has there.
RowState(row) == [row |-> row, ts |-> times[row + 1], delta |-> Deltas[row]]

LEMMA StepsOn ==
  ASSUME SearchAssumption, ColumnInv, Len(times) > 1
  PROVE  /\ Start = RowState(1)
         /\ \A row \in 1 .. Len(times) - 2 : After(RowState(row)) = RowState(row + 1)
<1>1. /\ Len(times) \in Nat \ {0} /\ times \in [1 .. Len(times) -> Stamps]
      /\ Deltas \in [1 .. Len(times) - 1 -> Stamps]
      /\ \A i \in 1 .. Len(times) - 2 : Dods[i] = Wrap(Deltas[i + 1] - Deltas[i])
  BY Column
<1>2. \A i \in 1 .. Len(times) - 1 : Deltas[i] = Wrap(times[i + 1] - times[i])
  BY <1>1 DEF Deltas, Differences
<1>3. ASSUME NEW i \in 1 .. Len(times) - 1 PROVE Wrap(times[i] + Deltas[i]) = times[i + 1]
  <2>1. times[i] \in Stamps /\ times[i + 1] \in Stamps
    <3>1. i \in 1 .. Len(times) /\ i + 1 \in 1 .. Len(times)
      BY <1>1
    <3> QED BY <1>1, <3>1
  <2> QED BY <1>2, <2>1, WrapDifference
<1>4. Start = RowState(1)
  <2>1. Wrap(times[1] + Deltas[1]) = times[1 + 1]
    BY <1>1, <1>3
  <2> QED BY <2>1 DEF Start, RowState, Anchor
<1>5. ASSUME NEW row \in 1 .. Len(times) - 2 PROVE After(RowState(row)) = RowState(row + 1)
  <2>1. Deltas[row] \in Stamps /\ Deltas[row + 1] \in Stamps
    BY <1>1
  <2>2. Wrap(Deltas[row] + Dods[row]) = Deltas[row + 1]
    BY <1>1, <2>1, WrapDifference
  <2>3. Wrap(times[row + 1] + Deltas[row + 1]) = times[(row + 1) + 1]
    BY <1>1, <1>3
  <2> QED BY <2>2, <2>3 DEF After, RowState
<1> QED BY <1>4, <1>5

\* The recursion reaches it from the first row.
LEMMA StateIs ==
  ASSUME SearchAssumption, ColumnInv
  PROVE  \A row \in 1 .. Len(times) - 1 : StateAt[row] = RowState(row)
<1>0. Len(times) \in Nat \ {0}
  BY Column
<1> DEFINE IsStates(f) ==
      f = [row \in 1 .. Len(times) - 1 |-> IF row = 1 THEN Start ELSE After(f[row - 1])]
           g == [row \in 1 .. Len(times) - 1 |-> RowState(row)]
<1>1. IsStates(g)
  <2>1. \A row \in 1 .. Len(times) - 1 :
          RowState(row) = IF row = 1 THEN Start ELSE After(g[row - 1])
    <3> SUFFICES ASSUME NEW row \in 1 .. Len(times) - 1
                 PROVE  RowState(row) = IF row = 1 THEN Start ELSE After(g[row - 1])
      OBVIOUS
    <3>1. Len(times) > 1
      BY <1>0
    <3>2. CASE row = 1
      BY <3>1, <3>2, StepsOn
    <3>3. CASE row # 1
      <4>1. row - 1 \in 1 .. Len(times) - 2 /\ (row - 1) + 1 = row /\ row - 1 \in 1 .. Len(times) - 1
        BY <1>0, <3>3
      <4>2. g[row - 1] = RowState(row - 1)
        BY <4>1
      <4>3. After(RowState(row - 1)) = RowState((row - 1) + 1)
        BY <3>1, <4>1, StepsOn
      <4> QED BY <3>3, <4>1, <4>2, <4>3
    <3> QED BY <3>2, <3>3
  <2> QED BY <2>1, Zenon
<1>2. IsStates(StateAt)
  <2>1. StateAt = CHOOSE f : IsStates(f)
    BY DEF StateAt
  <2> HIDE DEF IsStates, g
  <2> QED BY <1>1, <2>1
<1> DEFINE S == {n \in Nat : n + 1 \in 1 .. Len(times) - 1 => StateAt[n + 1] = RowState(n + 1)}
<1>3. 0 \in S
  <2>1. ASSUME 1 \in 1 .. Len(times) - 1 PROVE StateAt[1] = RowState(1)
    <3>1. StateAt[1] = Start
      BY <1>2, <2>1
    <3>2. Len(times) > 1
      BY <1>0, <2>1
    <3> QED BY <3>1, <3>2, StepsOn
  <2> QED BY <2>1
<1>4. ASSUME NEW n \in Nat, n \in S PROVE n + 1 \in S
  <2>1. ASSUME (n + 1) + 1 \in 1 .. Len(times) - 1 PROVE StateAt[(n + 1) + 1] = RowState((n + 1) + 1)
    <3>1. n + 1 \in 1 .. Len(times) - 2 /\ n + 1 \in 1 .. Len(times) - 1 /\ ((n + 1) + 1) - 1 = n + 1
          /\ (n + 1) + 1 # 1
      BY <1>0, <2>1
    <3>2. StateAt[(n + 1) + 1] = After(StateAt[n + 1])
      <4>1. StateAt[(n + 1) + 1] = IF (n + 1) + 1 = 1 THEN Start ELSE After(StateAt[((n + 1) + 1) - 1])
        BY <1>2, <2>1
      <4> QED BY <3>1, <4>1
    <3>3. StateAt[n + 1] = RowState(n + 1)
      BY <1>4, <3>1
    <3>4. Len(times) > 1
      BY <1>0, <2>1
    <3> QED BY <3>1, <3>2, <3>3, <3>4, StepsOn
  <2> QED BY <2>1
<1> HIDE DEF S
<1>5. Nat \subseteq S
  BY <1>3, <1>4, NatInd
<1> SUFFICES ASSUME NEW row \in 1 .. Len(times) - 1 PROVE StateAt[row] = RowState(row)
  OBVIOUS
<1>6. row - 1 \in Nat /\ (row - 1) + 1 = row
  BY <1>0
<1> QED BY <1>5, <1>6 DEF S

\* What a full decode returns is what was encoded.
LEMMA RoundTrip == SearchAssumption /\ ColumnInv => Decoded = times
<1> SUFFICES ASSUME SearchAssumption, ColumnInv PROVE Decoded = times
  OBVIOUS
<1>1. times \in [1 .. Len(times) -> Stamps] /\ Len(times) \in Nat \ {0}
  BY Column
<1>2. ASSUME NEW i \in 1 .. Len(times) PROVE times[i] = IF i = 1 THEN Anchor ELSE StateAt[i - 1].ts
  <2>1. CASE i = 1 BY <2>1 DEF Anchor
  <2>2. CASE i # 1
    <3>1. i - 1 \in 1 .. Len(times) - 1 /\ (i - 1) + 1 = i
      BY <1>1, <2>2
    <3>2. StateAt[i - 1] = RowState(i - 1)
      BY <3>1, StateIs
    <3> QED BY <2>2, <3>1, <3>2 DEF RowState
  <2> QED BY <2>1, <2>2
<1>3. DOMAIN times = 1 .. Len(times) /\ times = [i \in 1 .. Len(times) |-> times[i]]
  BY <1>1
<1>4. [i \in 1 .. Len(times) |-> times[i]] =
        [i \in 1 .. Len(times) |-> IF i = 1 THEN Anchor ELSE StateAt[i - 1].ts]
  BY <1>2, Zenon
<1> QED BY <1>3, <1>4 DEF Decoded

-----------------------------------------------------------------------------
(* The search: a walk is at a row of the column, and no row before it is an  *)
(* answer.                                                                  *)

Finds(rows, found) == found = IF rows = {} THEN Absent ELSE CHOOSE row \in rows : \A r \in rows : row <= r

SearchInv ==
  /\ ColumnInv
  /\ walk.row > 0 => /\ Len(times) > 1 /\ walk.row \in 1 .. Len(times) - 1
                     /\ walk = RowState(walk.row)
                     /\ \A r \in Answers : r >= walk.row
  /\ walk.row \in Nat
  /\ answer # Unknown => Finds(Answers, answer)

LEMMA FirstIsLeast ==
  ASSUME NEW rows \in SUBSET Int, NEW row \in rows, \A r \in rows : row <= r
  PROVE  Finds(rows, row)
<1>1. \A x \in rows : (\A r \in rows : x <= r) => x = row
  OBVIOUS
<1> QED BY <1>1 DEF Finds

LEMMA NextSearch ==
  ASSUME SearchAssumption, SearchInv, [SearchNext]_searchVars
  PROVE  SearchInv'
<1>0. ColumnInv /\ Len(times) \in Nat \ {0} /\ times \in [1 .. Len(times) -> Stamps] /\ walk.row \in Nat
  BY Column DEF SearchInv
<1>1. UNCHANGED <<times, stride, wanted, refused>>
  BY DEF SearchNext, SearchAnchor, ScanRow, searchVars
<1>2. ColumnInv' /\ Answers' = Answers /\ Len(times') = Len(times) /\ Answers \in SUBSET Int
  BY <1>0, <1>1 DEF ColumnInv, Sorted, Answers, Accepts
<1>3. \A r : RowState(r)' = RowState(r)
  BY <1>1 DEF RowState, Deltas, Differences
<1>4. \A i, j \in 1 .. Len(times) : i <= j => times[i] <= times[j]
  BY <1>0, Monotone
<1>5. \A i \in 1 .. Len(times) : times[i] \in Int
  BY <1>0 DEF Stamps, SearchAssumption
<1>6. wanted \in Int
  BY <1>0 DEF ColumnInv, Stamps, SearchAssumption
<1>7. \A r \in Answers : r \in 0 .. Len(times) - 1 /\ times[r + 1] = wanted /\ Accepts(r)
  BY DEF Answers
<1>s. CASE UNCHANGED searchVars
  BY <1>s, <1>2, <1>3 DEF searchVars, SearchInv
<1>a. CASE SearchAnchor
  <2>0. walk.row = 0 /\ answer = Unknown
    BY <1>a DEF SearchAnchor
  <2>1. CASE Anchor = wanted /\ Accepts(0)
    <3>1. answer' = 0 /\ UNCHANGED walk
      BY <1>a, <2>1 DEF SearchAnchor
    <3>2. 0 \in Answers
      BY <1>0, <2>1 DEF Answers, Anchor
    <3>3. \A r \in Answers : 0 <= r
      BY <1>7
    <3>4. Finds(Answers, 0)
      BY <1>2, <3>2, <3>3, FirstIsLeast
    <3> QED BY <1>2, <2>0, <3>1, <3>4 DEF SearchInv
  <2>2. CASE ~(Anchor = wanted /\ Accepts(0)) /\ Len(times) = 1
    <3>1. answer' = Absent /\ UNCHANGED walk
      BY <1>a, <2>2 DEF SearchAnchor
    <3>2. Answers = {}
      BY <1>7, <2>2 DEF Anchor
    <3> QED BY <1>2, <2>0, <3>1, <3>2 DEF SearchInv, Finds
  <2>3. CASE ~(Anchor = wanted /\ Accepts(0)) /\ Len(times) # 1
    <3>1. /\ walk' = IF Below = {} THEN Start ELSE CHOOSE p \in Below : \A q \in Below : q.row <= p.row
          /\ UNCHANGED answer
      BY <1>a, <2>3 DEF SearchAnchor
    <3>2. Len(times) > 1
      BY <1>0, <2>3
    <3>3. \A r \in Answers : r >= 1
      BY <1>7, <2>3 DEF Anchor
    <3>4. CASE Below = {}
      <4>1. walk' = RowState(1)
        BY <1>0, <3>1, <3>2, <3>4, StepsOn
      <4>2. walk'.row = 1
        BY <4>1 DEF RowState
      <4>3. walk' = RowState(walk'.row) /\ walk'.row \in 1 .. Len(times) - 1
        BY <1>0, <3>2, <4>1, <4>2
      <4>4. \A r \in Answers : r >= walk'.row
        BY <3>3, <4>2
      <4>5. RowState(walk.row)' = RowState(1) /\ RowState(1) = walk'
        BY <1>3, <4>1, <4>2
      <4>6. answer' = Unknown /\ walk'.row \in Nat
        BY <2>0, <3>1, <4>2
      <4> QED BY <1>2, <3>2, <4>3, <4>4, <4>5, <4>6 DEF SearchInv
    <3>5. CASE Below # {}
      <4>1. \A p \in Below : \E row \in 1 .. Len(times) - 1 : p = RowState(row) /\ times[row + 1] < wanted
        <5> SUFFICES ASSUME NEW p \in Below
                     PROVE  \E row \in 1 .. Len(times) - 1 : p = RowState(row) /\ times[row + 1] < wanted
          OBVIOUS
        <5>1. PICK row \in 1 .. Len(times) - 1 : p = StateAt[row]
          BY DEF Below, Points
        <5>2. p = RowState(row)
          BY <1>0, <5>1, StateIs
        <5>3. p.ts < wanted
          BY DEF Below
        <5> QED BY <5>2, <5>3 DEF RowState
      <4>2. \E p \in Below : \A q \in Below : q.row <= p.row
        <5> DEFINE T == {n \in Nat : \E p \in Below : p.row = Len(times) - n}
        <5>1. \A p \in Below : p.row \in 1 .. Len(times) - 1
          BY <4>1 DEF RowState
        <5>2. \A p \in Below : Len(times) - p.row \in T
          BY <1>0, <5>1
        <5>3. T # {}
          BY <3>5, <5>2
        <5>4. PICK m \in T : \A y \in T : m <= y
          BY <5>3, Least
        <5>5. PICK p \in Below : p.row = Len(times) - m
          BY <5>4
        <5>6. ASSUME NEW q \in Below PROVE q.row <= p.row
          <6>1. m <= Len(times) - q.row
            BY <5>2, <5>4
          <6> QED BY <1>0, <5>1, <5>5, <6>1
        <5> QED BY <5>5, <5>6
      <4>3. walk' \in Below
        BY <3>1, <3>5, <4>2
      <4>4. PICK row \in 1 .. Len(times) - 1 : walk' = RowState(row) /\ times[row + 1] < wanted
        BY <4>1, <4>3
      <4>5. ASSUME NEW r \in Answers PROVE r >= row
        <5>1. r \in Int /\ r + 1 \in 1 .. Len(times) /\ row + 1 \in 1 .. Len(times) /\ times[r + 1] = wanted
          BY <1>0, <1>7
        <5>2. r + 1 <= row + 1 => times[r + 1] <= times[row + 1]
          BY <1>4, <5>1
        <5> QED BY <1>5, <1>6, <4>4, <5>1, <5>2
      <4>6. walk'.row = row
        BY <4>4 DEF RowState
      <4>7. walk' = RowState(walk'.row) /\ walk'.row \in 1 .. Len(times) - 1
        BY <4>4, <4>6
      <4>8. \A r \in Answers : r >= walk'.row
        BY <4>5, <4>6
      <4> QED BY <1>2, <1>3, <2>0, <3>1, <3>2, <4>7, <4>8 DEF SearchInv
    <3> QED BY <3>4, <3>5
  <2> QED BY <2>1, <2>2, <2>3
<1>r. CASE ScanRow
  <2>0. walk.row > 0 /\ answer = Unknown
    BY <1>r DEF ScanRow
  <2>1. /\ Len(times) > 1 /\ walk = RowState(walk.row) /\ \A r \in Answers : r >= walk.row
    BY <2>0 DEF SearchInv
  <2>2. PICK k \in 1 .. Len(times) - 1 : k = walk.row
    BY <2>0 DEF SearchInv
  <2>3. walk.ts = times[k + 1] /\ k + 1 \in 1 .. Len(times) /\ k \in 0 .. Len(times) - 1
    BY <1>0, <2>1, <2>2 DEF RowState
  <2>4. CASE walk.ts = wanted /\ Accepts(walk.row)
    <3>1. answer' = k /\ UNCHANGED walk
      BY <1>r, <2>2, <2>4 DEF ScanRow
    <3>2. k \in Answers
      BY <2>2, <2>3, <2>4 DEF Answers
    <3>3. Finds(Answers, k)
      BY <1>2, <2>1, <2>2, <3>2, FirstIsLeast
    <3>4. walk'.row > 0 => walk' = RowState(walk.row)
      BY <2>1, <3>1
    <3> QED BY <1>0, <1>2, <1>3, <2>0, <2>1, <2>2, <3>1, <3>3 DEF SearchInv
  <2>5. CASE ~(walk.ts = wanted /\ Accepts(walk.row)) /\ (walk.ts > wanted \/ walk.row > Len(Dods))
    <3>1. answer' = Absent /\ UNCHANGED walk
      BY <1>r, <2>5 DEF ScanRow
    <3>2. SUFFICES Answers = {}
      BY <1>0, <1>2, <1>3, <2>0, <2>1, <2>2, <3>1 DEF SearchInv, Finds
    <3>3. SUFFICES ASSUME NEW r \in Answers PROVE FALSE
      OBVIOUS
    <3>4. r \in 0 .. Len(times) - 1 /\ times[r + 1] = wanted /\ Accepts(r) /\ r >= k
      BY <1>7, <2>1, <2>2
    <3>5. r # k
      BY <2>2, <2>3, <2>5, <3>4
    <3>6. CASE walk.row > Len(Dods)
      <4>1. Len(Dods) = Len(times) - 2
        BY <1>0, <2>1, Column
      <4> QED BY <1>0, <2>2, <3>4, <3>5, <3>6, <4>1
    <3>7. CASE walk.ts > wanted
      <4>1. r + 1 \in 1 .. Len(times) /\ k + 1 <= r + 1
        BY <1>0, <2>3, <3>4
      <4>2. times[k + 1] <= times[r + 1]
        BY <1>4, <2>3, <4>1
      <4> QED BY <1>5, <1>6, <2>3, <3>4, <3>7, <4>1, <4>2
    <3> QED BY <2>5, <3>6, <3>7
  <2>6. CASE ~(walk.ts = wanted /\ Accepts(walk.row)) /\ ~(walk.ts > wanted \/ walk.row > Len(Dods))
    <3>1. walk' = After(walk) /\ UNCHANGED answer
      BY <1>r, <2>6 DEF ScanRow
    <3>2. Len(Dods) = Len(times) - 2
      BY <1>0, <2>1, Column
    <3>3. k \in 1 .. Len(times) - 2
      BY <1>0, <2>2, <2>6, <3>2
    <3>4. walk' = RowState(k + 1)
      BY <1>0, <2>1, <2>2, <3>1, <3>3, StepsOn
    <3>5. walk'.row = k + 1 /\ k + 1 \in 1 .. Len(times) - 1
      BY <1>0, <3>3, <3>4 DEF RowState
    <3>6. ASSUME NEW r \in Answers PROVE r >= k + 1
      <4>1. r \in 0 .. Len(times) - 1 /\ times[r + 1] = wanted /\ Accepts(r) /\ r >= k
        BY <1>7, <2>1, <2>2
      <4>2. r # k
        BY <2>2, <2>3, <2>6, <4>1
      <4> QED BY <4>1, <4>2
    <3> QED BY <1>0, <1>2, <1>3, <2>0, <2>1, <3>1, <3>4, <3>5, <3>6 DEF SearchInv
  <2> QED BY <2>4, <2>5, <2>6
<1> QED BY <1>s, <1>a, <1>r DEF SearchNext

\* timestamp.rs: for integers of any width, columns of any length and any
\* strides, the round trip is exact and the search answers as a scan would.
THEOREM SearchIsExact == SearchAssumption => (SearchSpec => []SearchExact)
<1> SUFFICES ASSUME SearchAssumption PROVE SearchSpec => []SearchExact
  OBVIOUS
<1>1. SearchInit => SearchInv
  <2> SUFFICES ASSUME SearchInit PROVE SearchInv
    OBVIOUS
  <2>1. PICK n \in 1 .. MaxColumn : times \in {s \in [1 .. n -> Stamps] : Sorted(s)}
    BY DEF SearchInit
  <2>2. ColumnInv
    BY <2>1 DEF SearchInit, ColumnInv
  <2> QED BY <2>2 DEF SearchInit, SearchInv
<1>2. SearchInv /\ [SearchNext]_searchVars => SearchInv'
  BY NextSearch
<1>3. SearchInv => SearchExact
  BY RoundTrip DEF SearchInv, Finds, SearchExact
<1> QED BY <1>1, <1>2, <1>3, PTL DEF SearchSpec

-----------------------------------------------------------------------------
(* Merge: sets of numbers, and the rows of a sequence. *)

\* A finite set of integers has two ends.
LEMMA Ends ==
  ASSUME NEW S \in SUBSET Int, IsFiniteSet(S), S # {}
  PROVE  /\ Lowest(S) \in S /\ \A y \in S : Lowest(S) <= y
         /\ Highest(S) \in S /\ \A y \in S : y <= Highest(S)
<1>1. PICK q \in Seq(S) : \A s \in S : \E n \in 1 .. Len(q) : q[n] = s
  BY DEF IsFiniteSet
<1> DEFINE Bounded(n) == \E i, j \in 1 .. n : \A k \in 1 .. n : q[i] <= q[k] /\ q[k] <= q[j]
           G == {n \in Nat : n \in 1 .. Len(q) => Bounded(n)}
<1>2. Len(q) \in Nat /\ \A n \in 1 .. Len(q) : q[n] \in S /\ q[n] \in Int
  <2>1. Len(q) \in Nat /\ \A n \in 1 .. Len(q) : q[n] \in S
    BY <1>1, LenProperties, ElementOfSeq
  <2> QED
    BY <2>1
<1>3. 0 \in G
  BY SMT
<1>4. ASSUME NEW n \in Nat, n \in G PROVE n + 1 \in G
  <2> SUFFICES ASSUME n + 1 \in 1 .. Len(q) PROVE Bounded(n + 1)
    BY <1>4, SMT
  <2>1. CASE n = 0
    BY <1>2, <2>1, SMT
  <2>2. CASE n # 0
    <3>1. n \in 1 .. Len(q)
      BY <1>1, <2>2, SMT
    <3>2. PICK i, j \in 1 .. n : \A k \in 1 .. n : q[i] <= q[k] /\ q[k] <= q[j]
      BY <1>4, <3>1
    <3> DEFINE a == IF q[n + 1] < q[i] THEN n + 1 ELSE i
               b == IF q[n + 1] > q[j] THEN n + 1 ELSE j
    <3>3. /\ q[i] \in Int /\ q[j] \in Int /\ q[n + 1] \in Int
          /\ \A k \in 1 .. n : q[k] \in Int
      BY <1>1, <1>2, <3>1, <3>2, SMT
    <3>4. a \in 1 .. n + 1 /\ b \in 1 .. n + 1
      BY <3>2, SMT
    <3>5. ASSUME NEW k \in 1 .. n + 1 PROVE q[a] <= q[k] /\ q[k] <= q[b]
      <4>1. k \in 1 .. n \/ k = n + 1
        BY SMT
      <4> QED
        BY <3>2, <3>3, <4>1, SMT
    <3> QED
      BY <3>4, <3>5
  <2> QED
    BY <2>1, <2>2
<1>5. Len(q) \in G
  <2>1. Nat \subseteq G
    <3> HIDE DEF G
    <3> QED
      BY <1>3, <1>4, NatInd
  <2> QED
    BY <1>2, <2>1
<1>6. PICK i, j \in 1 .. Len(q) : \A k \in 1 .. Len(q) : q[i] <= q[k] /\ q[k] <= q[j]
  <2>1. Len(q) \in 1 .. Len(q)
    <3>1. PICK s \in S : TRUE
      OBVIOUS
    <3>2. PICK n \in 1 .. Len(q) : q[n] = s
      BY <1>1
    <3> QED
      BY <1>1, <3>2, SMT
  <2> QED
    BY <1>5, <2>1
<1>7. q[i] \in S /\ q[j] \in S /\ \A y \in S : q[i] <= y /\ y <= q[j]
  BY <1>1, <1>2, <1>6
<1>8. Lowest(S) \in S /\ \A y \in S : Lowest(S) <= y
  BY <1>7 DEF Lowest
<1>9. Highest(S) \in S /\ \A y \in S : Highest(S) >= y
  <2>1. \A y \in S : q[j] >= y
    BY <1>7, SMT
  <2> QED
    BY <1>7, <2>1 DEF Highest
<1> QED
  BY <1>8, <1>9, SMT

FrameRows == [t : Int, from : SegmentIds, at : Nat]
Elems(rows) == {rows[i] : i \in DOMAIN rows}

\* The order of a frame that is in order: by time, and runs as written.
Prior(a, b) == a.t < b.t \/ (a.t = b.t /\ a.at < b.at)
InOrder(rows) == \A k, l \in DOMAIN rows : k < l => Prior(rows[k], rows[l])
Ahead(M, N) == \A a \in M, b \in N : Prior(a, b)

LEMMA ElemsAre ==
  ASSUME NEW rows \in Seq(FrameRows)
  PROVE  /\ Elems(rows) \in SUBSET FrameRows
         /\ Times(rows) = {r.t : r \in Elems(rows)}
         /\ \A t : RowsAt(rows, t) = {r \in Elems(rows) : r.t = t}
         /\ rows = <<>> <=> Elems(rows) = {}
         /\ InOrder(rows) => RunsInOrder(rows)
<1>1. DOMAIN rows = 1 .. Len(rows) /\ \A i \in DOMAIN rows : rows[i] \in FrameRows
  OBVIOUS
<1>2. rows = <<>> <=> Elems(rows) = {}
  <2>1. rows = <<>> <=> Len(rows) = 0
    BY SMT
  <2>2. Len(rows) = 0 \/ 1 \in 1 .. Len(rows)
    BY SMT
  <2>3. Len(rows) = 0 => 1 .. Len(rows) = {}
    BY SMT
  <2> QED
    BY <1>1, <2>1, <2>2, <2>3 DEF Elems
<1>3. InOrder(rows) => RunsInOrder(rows)
  <2> SUFFICES ASSUME InOrder(rows), NEW k \in DOMAIN rows, NEW l \in DOMAIN rows,
                      k < l, rows[k].t = rows[l].t
               PROVE  rows[k].at < rows[l].at
    BY DEF RunsInOrder
  <2>1. rows[k].t \in Int
    BY <1>1 DEF FrameRows
  <2> QED
    BY <2>1, SMT DEF InOrder, Prior
<1> QED
  BY <1>1, <1>2, <1>3 DEF Elems, Times, RowsAt

LEMMA HeadIs ==
  ASSUME NEW rows \in Seq(FrameRows), rows # <<>>
  PROVE  /\ Head(rows) \in FrameRows /\ Tail(rows) \in Seq(FrameRows)
         /\ Elems(rows) = {Head(rows)} \cup Elems(Tail(rows))
         /\ InOrder(rows) => InOrder(Tail(rows)) /\ Ahead({Head(rows)}, Elems(Tail(rows)))
<1>1. /\ Tail(rows) \in Seq(FrameRows) /\ Head(rows) = rows[1] /\ Head(rows) \in FrameRows
      /\ Len(Tail(rows)) = Len(rows) - 1 /\ Len(rows) \in Nat \ {0}
      /\ \A i \in 1 .. Len(rows) - 1 : Tail(rows)[i] = rows[i + 1]
  BY SMT
<1>2. DOMAIN rows = 1 .. Len(rows) /\ DOMAIN Tail(rows) = 1 .. Len(rows) - 1
  BY <1>1
<1> HIDE DEF FrameRows
<1>3. Elems(rows) = {Head(rows)} \cup Elems(Tail(rows))
  <2>1. ASSUME NEW i \in 1 .. Len(rows) PROVE rows[i] \in {Head(rows)} \cup Elems(Tail(rows))
    <3>1. CASE i = 1
      BY <1>1, <3>1
    <3>2. CASE i # 1
      <4>1. i - 1 \in 1 .. Len(rows) - 1 /\ (i - 1) + 1 = i
        BY <1>1, <3>2, SMT
      <4> QED
        BY <1>1, <1>2, <4>1 DEF Elems
    <3> QED
      BY <3>1, <3>2
  <2>2. 1 \in 1 .. Len(rows) /\ \A i \in 1 .. Len(rows) - 1 : i + 1 \in 1 .. Len(rows)
    BY <1>1, SMT
  <2> QED
    BY <1>1, <1>2, <2>1, <2>2 DEF Elems
<1>4. ASSUME InOrder(rows) PROVE InOrder(Tail(rows)) /\ Ahead({Head(rows)}, Elems(Tail(rows)))
  <2>1. ASSUME NEW k \in 1 .. Len(rows) - 1, NEW l \in 1 .. Len(rows) - 1, k < l
        PROVE  Prior(rows[k + 1], rows[l + 1])
    BY <1>1, <1>2, <1>4, <2>1, SMT DEF InOrder
  <2>2. ASSUME NEW l \in 1 .. Len(rows) - 1 PROVE Prior(rows[1], rows[l + 1])
    BY <1>1, <1>2, <1>4, SMT DEF InOrder
  <2> QED
    BY <1>1, <1>2, <2>1, <2>2 DEF InOrder, Ahead, Elems
<1> QED
  BY <1>1, <1>3, <1>4

LEMMA ConcatIs ==
  ASSUME NEW r \in Seq(FrameRows), NEW s \in Seq(FrameRows)
  PROVE  /\ r \o s \in Seq(FrameRows)
         /\ Elems(r \o s) = Elems(r) \cup Elems(s)
         /\ InOrder(r) /\ InOrder(s) /\ Ahead(Elems(r), Elems(s)) => InOrder(r \o s)
<1>1. /\ r \o s \in Seq(FrameRows) /\ Len(r \o s) = Len(r) + Len(s)
      /\ Len(r) \in Nat /\ Len(s) \in Nat
      /\ \A i \in 1 .. Len(r) + Len(s) :
           (r \o s)[i] = IF i <= Len(r) THEN r[i] ELSE s[i - Len(r)]
  BY SMT
<1> DEFINE u == r \o s
<1>2. DOMAIN u = 1 .. Len(r) + Len(s) /\ DOMAIN r = 1 .. Len(r) /\ DOMAIN s = 1 .. Len(s)
  BY <1>1
<1>3. ASSUME NEW i \in DOMAIN u
      PROVE  \/ i \in DOMAIN r /\ u[i] = r[i]
             \/ i - Len(r) \in DOMAIN s /\ u[i] = s[i - Len(r)] /\ i > Len(r)
  BY <1>1, <1>2, SMT
<1>4. /\ \A i \in DOMAIN r : i \in DOMAIN u /\ u[i] = r[i]
      /\ \A i \in DOMAIN s : i + Len(r) \in DOMAIN u /\ u[i + Len(r)] = s[i]
  <2>1. ASSUME NEW i \in 1 .. Len(s) PROVE u[i + Len(r)] = s[i] /\ i + Len(r) \in DOMAIN u
    <3>1. i + Len(r) \in 1 .. Len(r) + Len(s) /\ ~(i + Len(r) <= Len(r)) /\ (i + Len(r)) - Len(r) = i
      BY <1>1, SMT
    <3> QED
      BY <1>1, <1>2, <3>1
  <2>2. ASSUME NEW i \in 1 .. Len(r) PROVE u[i] = r[i] /\ i \in DOMAIN u
    BY <1>1, <1>2, SMT
  <2> QED
    BY <1>2, <2>1, <2>2
<1> HIDE DEF u
<1>5. Elems(u) = Elems(r) \cup Elems(s)
  BY <1>3, <1>4 DEF Elems
<1>6. ASSUME InOrder(r), InOrder(s), Ahead(Elems(r), Elems(s)),
             NEW k \in DOMAIN u, NEW l \in DOMAIN u, k < l
      PROVE  Prior(u[k], u[l])
  <2>1. CASE k \in DOMAIN r /\ l \in DOMAIN r
    BY <1>4, <1>6, <2>1 DEF InOrder
  <2>2. CASE k \in DOMAIN r /\ l \notin DOMAIN r
    <3>1. u[k] \in Elems(r) /\ u[l] \in Elems(s)
      BY <1>3, <1>4, <2>2 DEF Elems
    <3> QED
      BY <1>6, <3>1 DEF Ahead
  <2>3. CASE k \notin DOMAIN r
    <3>1. /\ k - Len(r) \in DOMAIN s /\ u[k] = s[k - Len(r)] /\ k > Len(r)
      BY <1>3, <2>3
    <3>2. /\ l - Len(r) \in DOMAIN s /\ u[l] = s[l - Len(r)] /\ k - Len(r) < l - Len(r)
      BY <1>1, <1>2, <1>3, <1>6, <3>1, SMT
    <3> QED
      BY <1>6, <3>1, <3>2 DEF InOrder
  <2> QED
    BY <2>1, <2>2, <2>3
<1> QED
  BY <1>1, <1>5, <1>6 DEF InOrder, u

LEMMA AppendIs ==
  ASSUME NEW r \in Seq(FrameRows), NEW x \in FrameRows
  PROVE  /\ Append(r, x) \in Seq(FrameRows)
         /\ Elems(Append(r, x)) = Elems(r) \cup {x}
         /\ InOrder(r) /\ Ahead(Elems(r), {x}) => InOrder(Append(r, x))
<1>1. <<x>> \in Seq(FrameRows) /\ Append(r, x) = r \o <<x>>
  BY AppendIsConcat, SMT
<1>2. Elems(<<x>>) = {x} /\ InOrder(<<x>>)
  <2>1. DOMAIN <<x>> = {1} /\ <<x>>[1] = x
    BY SMT
  <2> HIDE DEF FrameRows
  <2> QED
    BY <2>1, SMT DEF Elems, InOrder
<1> QED
  BY <1>1, <1>2, ConcatIs

\* partition_point finds the cut of rows in order.
LEMMA SplitIs ==
  ASSUME NEW rows \in Seq(FrameRows), InOrder(rows), NEW c \in Int
  PROVE  /\ Upto(rows, c) \in Seq(FrameRows) /\ From(rows, c) \in Seq(FrameRows)
         /\ InOrder(Upto(rows, c)) /\ InOrder(From(rows, c))
         /\ Elems(Upto(rows, c)) = {r \in Elems(rows) : r.t < c}
         /\ Elems(From(rows, c)) = {r \in Elems(rows) : r.t >= c}
<1>1. /\ Len(rows) \in Nat /\ DOMAIN rows = 1 .. Len(rows)
      /\ \A i \in 1 .. Len(rows) : rows[i] \in FrameRows /\ rows[i].t \in Int
  <2>1. Len(rows) \in Nat /\ DOMAIN rows = 1 .. Len(rows) /\ \A i \in DOMAIN rows : rows[i] \in FrameRows
    OBVIOUS
  <2>2. \A r \in FrameRows : r.t \in Int
    BY DEF FrameRows
  <2> QED
    BY <2>1, <2>2
<1>2. \A k, l \in 1 .. Len(rows) : k < l => rows[k].t <= rows[l].t
  BY <1>1, SMT DEF InOrder, Prior
<1>3. \E n \in 0 .. Len(rows) : \A k \in DOMAIN rows : k <= n <=> rows[k].t < c
  <2> DEFINE T == {k \in 1 .. Len(rows) : rows[k].t >= c}
  <2>1. CASE T = {}
    <3>1. \A k \in 1 .. Len(rows) : k <= Len(rows) /\ rows[k].t < c
      BY <1>1, <2>1, SMT
    <3> QED
      BY <1>1, <3>1, SMT
  <2>2. CASE T # {}
    <3>1. T \in SUBSET Nat
      BY <1>1, SMT
    <3>2. PICK m \in T : \A y \in T : m <= y
      BY <2>2, <3>1, Least
    <3>3. ASSUME NEW k \in 1 .. Len(rows) PROVE k <= m - 1 <=> rows[k].t < c
      <4>1. CASE k < m
        <5>1. k \notin T
          BY <1>1, <3>2, <4>1, SMT
        <5> QED
          BY <1>1, <3>2, <4>1, <5>1, SMT
      <4>2. CASE k = m
        BY <1>1, <3>2, <4>2, SMT
      <4>3. CASE k > m
        BY <1>1, <1>2, <3>2, <4>3, SMT
      <4> QED
        BY <3>2, <4>1, <4>2, <4>3, SMT
    <3>4. m - 1 \in 0 .. Len(rows)
      BY <1>1, <3>2, SMT
    <3> QED
      BY <1>1, <3>3, <3>4
  <2> QED
    BY <2>1, <2>2
<1> DEFINE n == SplitIndex(rows, c)
<1>4. n \in 0 .. Len(rows) /\ \A k \in 1 .. Len(rows) : k <= n <=> rows[k].t < c
  BY <1>1, <1>3, Zenon DEF SplitIndex
<1>5. Upto(rows, c) = SubSeq(rows, 1, n) /\ From(rows, c) = SubSeq(rows, n + 1, Len(rows))
  BY DEF Upto, From
<1> HIDE DEF n
<1>6. /\ Upto(rows, c) \in Seq(FrameRows) /\ Len(Upto(rows, c)) = n
      /\ \A i \in 1 .. n : Upto(rows, c)[i] = rows[i]
  <2>1. 1 \in 1 .. Len(rows) + 1 /\ n \in 1 - 1 .. Len(rows)
    BY <1>1, <1>4, SMT
  <2> QED
    BY <1>1, <1>4, <1>5, SubSeqProperties, SMT
<1>7. /\ From(rows, c) \in Seq(FrameRows) /\ Len(From(rows, c)) = Len(rows) - n
      /\ \A i \in 1 .. Len(rows) - n : From(rows, c)[i] = rows[n + i]
  <2> DEFINE u == SubSeq(rows, n + 1, Len(rows))
  <2>1. n + 1 \in 1 .. Len(rows) + 1 /\ Len(rows) \in (n + 1) - 1 .. Len(rows)
    BY <1>1, <1>4, SMT
  <2>2. /\ u \in Seq(FrameRows) /\ Len(u) = Len(rows) - (n + 1) + 1
        /\ \A i \in 1 .. Len(rows) - (n + 1) + 1 : u[i] = rows[(n + 1) + i - 1]
    BY <2>1, SubSeqProperties
  <2>3. Len(rows) - (n + 1) + 1 = Len(rows) - n /\ \A i \in 1 .. Len(rows) - n : (n + 1) + i - 1 = n + i
    BY <1>1, <1>4, SMT
  <2> QED
    BY <1>5, <2>2, <2>3
<1>8. DOMAIN Upto(rows, c) = 1 .. n /\ DOMAIN From(rows, c) = 1 .. Len(rows) - n
  BY <1>6, <1>7
<1> DEFINE p == Upto(rows, c)
           s == From(rows, c)
<1> HIDE DEF p, s
<1>9. InOrder(p)
  <2> SUFFICES ASSUME NEW k \in 1 .. n, NEW l \in 1 .. n, k < l PROVE Prior(rows[k], rows[l])
    BY <1>6, <1>8 DEF InOrder, p
  <2>1. k \in DOMAIN rows /\ l \in DOMAIN rows
    BY <1>1, <1>4, SMT
  <2> QED
    BY <2>1 DEF InOrder
<1>10. InOrder(s)
  <2> SUFFICES ASSUME NEW k \in 1 .. Len(rows) - n, NEW l \in 1 .. Len(rows) - n, k < l
               PROVE  Prior(rows[n + k], rows[n + l])
    BY <1>7, <1>8 DEF InOrder, s
  <2>1. n + k \in DOMAIN rows /\ n + l \in DOMAIN rows /\ n + k < n + l
    BY <1>1, <1>4, SMT
  <2> QED
    BY <2>1 DEF InOrder
<1>11. Elems(p) = {r \in Elems(rows) : r.t < c}
  <2>1. ASSUME NEW i \in 1 .. n PROVE i \in 1 .. Len(rows) /\ rows[i].t < c
    BY <1>1, <1>4, SMT
  <2>2. ASSUME NEW i \in 1 .. Len(rows), rows[i].t < c PROVE i \in 1 .. n
    BY <1>1, <1>4, <2>2, SMT
  <2> QED
    BY <1>1, <1>6, <1>8, <2>1, <2>2 DEF Elems, p
<1>12. Elems(s) = {r \in Elems(rows) : r.t >= c}
  <2>1. ASSUME NEW i \in 1 .. Len(rows) - n PROVE n + i \in 1 .. Len(rows) /\ rows[n + i].t >= c
    <3>1. n + i \in 1 .. Len(rows) /\ ~(n + i <= n)
      BY <1>1, <1>4, SMT
    <3>2. ~(rows[n + i].t < c)
      BY <1>4, <3>1
    <3> QED
      BY <1>1, <3>1, <3>2, SMT
  <2>2. ASSUME NEW i \in 1 .. Len(rows), rows[i].t >= c
        PROVE  i - n \in 1 .. Len(rows) - n /\ n + (i - n) = i
    BY <1>1, <1>4, <2>2, SMT
  <2>3. ASSUME NEW r \in Elems(rows), r.t >= c PROVE r \in Elems(s)
    <3>1. PICK i \in 1 .. Len(rows) : r = rows[i]
      BY <1>1 DEF Elems
    <3>2. i - n \in 1 .. Len(rows) - n /\ n + (i - n) = i
      BY <2>2, <2>3, <3>1
    <3>3. s[i - n] = r /\ i - n \in DOMAIN s
      BY <1>7, <1>8, <3>1, <3>2 DEF s
    <3> QED
      BY <3>3 DEF Elems
  <2>4. ASSUME NEW r \in Elems(s) PROVE r \in Elems(rows) /\ r.t >= c
    <3>1. PICK i \in 1 .. Len(rows) - n : r = rows[n + i]
      BY <1>7, <1>8, <2>4 DEF Elems, s
    <3> QED
      BY <1>1, <2>1, <3>1 DEF Elems
  <2> QED
    BY <2>3, <2>4
<1> QED
  BY <1>6, <1>7, <1>9, <1>10, <1>11, <1>12 DEF p, s

\* A stable sort keeps the rows, and puts them in order if their runs were.
LEMMA SortIs ==
  ASSUME NEW rows \in Seq(FrameRows), RunsInOrder(rows), NEW p \in StableOrders(rows)
  PROVE  LET sorted == [k \in DOMAIN rows |-> rows[p[k]]] IN
         sorted \in Seq(FrameRows) /\ Elems(sorted) = Elems(rows) /\ InOrder(sorted)
<1> DEFINE sorted == [k \in DOMAIN rows |-> rows[p[k]]]
<1>1. /\ Len(rows) \in Nat /\ DOMAIN rows = 1 .. Len(rows)
      /\ \A i \in DOMAIN rows : rows[i] \in FrameRows
  BY SMT
<1>2. /\ \A k \in DOMAIN rows : p[k] \in DOMAIN rows
      /\ \A i \in DOMAIN rows : \E k \in DOMAIN rows : p[k] = i
      /\ \A k, l \in DOMAIN rows : k < l =>
           \/ rows[p[k]].t < rows[p[l]].t
           \/ rows[p[k]].t = rows[p[l]].t /\ p[k] < p[l]
  BY DEF StableOrders
<1>3. sorted \in [1 .. Len(rows) -> FrameRows]
  BY <1>1, <1>2, Zenon
<1>4. sorted \in Seq(FrameRows)
  BY <1>1, <1>3, SMT
<1>5. DOMAIN sorted = DOMAIN rows /\ \A k \in DOMAIN rows : sorted[k] = rows[p[k]]
  OBVIOUS
<1> HIDE DEF sorted, FrameRows
<1>6. Elems(sorted) = Elems(rows)
  <2>1. ASSUME NEW k \in DOMAIN rows PROVE sorted[k] \in Elems(rows)
    BY <1>2, <1>5 DEF Elems
  <2>2. ASSUME NEW i \in DOMAIN rows PROVE rows[i] \in Elems(sorted)
    <3>1. PICK k \in DOMAIN rows : p[k] = i
      BY <1>2
    <3> QED
      BY <1>5, <3>1 DEF Elems
  <2> QED
    BY <1>5, <2>1, <2>2 DEF Elems
<1>7. ASSUME NEW k \in DOMAIN rows, NEW l \in DOMAIN rows, k < l
      PROVE  Prior(sorted[k], sorted[l])
  <2>1. CASE rows[p[k]].t < rows[p[l]].t
    BY <1>5, <2>1 DEF Prior
  <2>2. CASE rows[p[k]].t = rows[p[l]].t /\ p[k] < p[l]
    <3>1. rows[p[k]].at < rows[p[l]].at
      BY <1>2, <2>2 DEF RunsInOrder
    <3> QED
      BY <1>5, <2>2, <3>1 DEF Prior
  <2> QED
    BY <1>2, <1>7, <2>1, <2>2
<1> QED
  BY <1>4, <1>5, <1>6, <1>7 DEF InOrder, sorted

-----------------------------------------------------------------------------
(* Merge: the invariant. *)

MergeTyped ==
  /\ given \in [SegmentIds -> Seq(FrameRows)] /\ held \in [SegmentIds -> Seq(FrameRows)]
  /\ \A id \in SegmentIds : RunsInOrder(held[id])
  /\ unswept \subseteq SegmentIds /\ waiting \subseteq SegmentIds /\ folded \subseteq SegmentIds
  /\ components \in Seq(SUBSET SegmentIds) /\ reach \in Int
  /\ older \in Seq(FrameRows) /\ newer \in Seq(FrameRows) /\ merged \in Seq(FrameRows)

RowsOf(id) == Elems(held[id])
Earlier(A, B) == \A a \in A, b \in B : a.t < b.t
Queued == UNION {components[k] : k \in DOMAIN components}
LeftOver == unswept \cup Queued \cup InHand
Over == SegmentIds \ LeftOver

\* The components in time order, and how far the last of them goes.
SweepInv ==
  /\ unswept # {} => InHand = {} /\ Over = {}
  /\ \A s \in Queued, u \in unswept : Lo(s) <= Lo(u)
  /\ \A k \in DOMAIN components : components[k] # {}
  /\ \A k, l \in DOMAIN components : k < l =>
       \A p \in components[k], q \in components[l] : Earlier(RowsOf(p), RowsOf(q))
  /\ unswept # {} /\ components # <<>> =>
       \A p \in components[Len(components)] : \A a \in RowsOf(p) : a.t <= reach

\* What is done lies before what is in hand, and that before what is queued.
PlaceInv ==
  /\ \A id \in LeftOver : RowsOf(id) # {}
  /\ \A p \in InHand, q \in Queued : Earlier(RowsOf(p), RowsOf(q))
  /\ \A p \in Over, q \in LeftOver : Earlier(RowsOf(p), RowsOf(q))
  /\ \A p, q \in Over : p # q => Earlier(RowsOf(p), RowsOf(q)) \/ Earlier(RowsOf(q), RowsOf(p))
  /\ InHand # {} => \E x, y \in InHand : x # y
  /\ \A p \in folded, q \in waiting : p < q

\* The rows of the frames S that no newer one of them supersedes.
Has(rows, t) == \E x \in Elems(rows) : x.t = t
Newest(f, S) ==
  {r \in FrameRows : \E p \in S : r \in Elems(f[p]) /\ \A q \in S : Has(f[q], r.t) => q <= p}

\* The fold keeps what a reader of the folded members would see.
FoldInv ==
  /\ InOrder(merged) /\ InOrder(older) /\ InOrder(newer)
  /\ Ahead(Elems(merged), Elems(older)) /\ Ahead(Elems(merged), Elems(newer))
  /\ Newest(held, folded) =
       Elems(merged) \cup Elems(newer) \cup {r \in Elems(older) : ~Has(newer, r.t)}

AnswersInv == Newest(held, SegmentIds) = Newest(given, SegmentIds)

MergeInv == MergeTyped /\ SweepInv /\ PlaceInv /\ FoldInv /\ AnswersInv

LEMMA RowsAre ==
  ASSUME MergeTyped
  PROVE  /\ \A id \in SegmentIds : RowsOf(id) \in SUBSET FrameRows
         /\ \A r \in FrameRows : r.t \in Int /\ r.at \in Nat
         /\ Elems(<<>>) = {} /\ InOrder(<<>>)
<1>1. \A id \in SegmentIds : held[id] \in Seq(FrameRows)
  BY DEF MergeTyped
<1>2. <<>> \in Seq(FrameRows)
  OBVIOUS
<1>3. InOrder(<<>>)
  BY SMT DEF InOrder
<1> QED
  BY <1>1, <1>2, <1>3, ElemsAre DEF RowsOf, FrameRows

\* A finite set's image is finite, here for numbers.
LEMMA TimesFinite ==
  ASSUME NEW rows \in Seq(FrameRows)
  PROVE  IsFiniteSet(Times(rows)) /\ Times(rows) \in SUBSET Int
<1>1. DOMAIN rows = 1 .. Len(rows) /\ Len(rows) \in Nat /\ \A i \in DOMAIN rows : rows[i].t \in Int
  <2>1. DOMAIN rows = 1 .. Len(rows) /\ Len(rows) \in Nat /\ \A i \in DOMAIN rows : rows[i] \in FrameRows
    OBVIOUS
  <2> QED
    BY <2>1 DEF FrameRows
<1> DEFINE q == [i \in 1 .. Len(rows) |-> rows[i].t]
<1>2. \A i \in 1 .. Len(rows) : rows[i].t \in Times(rows)
  BY <1>1 DEF Times
<1>3. q \in [1 .. Len(rows) -> Times(rows)]
  BY <1>2
<1>4. q \in Seq(Times(rows)) /\ Len(q) = Len(rows)
  BY <1>1, <1>3, SMT
<1>5. \A s \in Times(rows) : \E n \in 1 .. Len(q) : q[n] = s
  BY <1>1, <1>4 DEF Times
<1> HIDE DEF q
<1>6. IsFiniteSet(Times(rows))
  BY <1>4, <1>5, Zenon DEF IsFiniteSet
<1> QED
  BY <1>1, <1>6 DEF Times

\* The span of a frame is that of its rows.
LEMMA SpanIs ==
  ASSUME MergeTyped, NEW id \in SegmentIds, RowsOf(id) # {}
  PROVE  /\ Lo(id) \in Int /\ Hi(id) \in Int
         /\ \E a \in RowsOf(id) : a.t = Lo(id)
         /\ \E a \in RowsOf(id) : a.t = Hi(id)
         /\ \A a \in RowsOf(id) : Lo(id) <= a.t /\ a.t <= Hi(id)
<1>1. held[id] \in Seq(FrameRows)
  BY DEF MergeTyped
<1>2. Times(held[id]) = {r.t : r \in RowsOf(id)}
  BY <1>1, ElemsAre DEF RowsOf
<1>3. Times(held[id]) # {}
  BY <1>2
<1>4. IsFiniteSet(Times(held[id])) /\ Times(held[id]) \in SUBSET Int
  BY <1>1, TimesFinite
<1>5. /\ Lo(id) \in Times(held[id]) /\ \A y \in Times(held[id]) : Lo(id) <= y
      /\ Hi(id) \in Times(held[id]) /\ \A y \in Times(held[id]) : y <= Hi(id)
  BY <1>3, <1>4, Ends DEF Lo, Hi
<1> QED
  BY <1>2, <1>4, <1>5

\* The answers at one time are the rows no newer frame supersedes.
LEMMA AnswerIs ==
  ASSUME MergeAssumption, NEW f \in [SegmentIds -> Seq(FrameRows)], NEW t
  PROVE  AnswerAt(f, t) = {r \in Newest(f, SegmentIds) : r.t = t}
<1> DEFINE having == {id \in SegmentIds : t \in Times(f[id])}
<1>1. ASSUME NEW id \in SegmentIds
      PROVE  /\ Elems(f[id]) \in SUBSET FrameRows
             /\ RowsAt(f[id], t) = {r \in Elems(f[id]) : r.t = t}
             /\ id \in having <=> Has(f[id], t)
  <2>1. f[id] \in Seq(FrameRows)
    OBVIOUS
  <2>2. Times(f[id]) = {r.t : r \in Elems(f[id])}
    BY <2>1, ElemsAre
  <2> QED
    BY <2>1, <2>2, ElemsAre DEF Has
<1>2. SegmentIds \subseteq Nat /\ IsFiniteSet(SegmentIds)
  BY DEF MergeAssumption
<1>3. CASE having = {}
  <2>1. AnswerAt(f, t) = {}
    BY <1>3, Zenon DEF AnswerAt
  <2>2. \A id \in SegmentIds : ~Has(f[id], t)
    BY <1>1, <1>3
  <2> QED
    BY <2>1, <2>2 DEF Newest, Has
<1>4. CASE having # {}
  <2> DEFINE h == Highest(having)
  <2>1. having \in SUBSET SegmentIds /\ having \in SUBSET Int
    BY <1>2
  <2>2. IsFiniteSet(having)
    BY <1>2, <2>1, FS_Subset
  <2>3. h \in having /\ \A y \in having : y <= h
    BY <1>4, <2>1, <2>2, Ends
  <2>4. AnswerAt(f, t) = RowsAt(f[h], t)
    BY <1>4, Zenon DEF AnswerAt
  <2> HIDE DEF h
  <2>5. RowsAt(f[h], t) = {r \in Elems(f[h]) : r.t = t} /\ Elems(f[h]) \in SUBSET FrameRows
    BY <1>1, <2>1, <2>3
  <2>6. ASSUME NEW r \in Elems(f[h]), r.t = t PROVE r \in Newest(f, SegmentIds)
    BY <1>1, <2>1, <2>3, <2>5, <2>6 DEF Newest
  <2>7. ASSUME NEW r \in Newest(f, SegmentIds), r.t = t PROVE r \in Elems(f[h])
    <3>1. PICK p \in SegmentIds : r \in Elems(f[p]) /\ \A q \in SegmentIds : Has(f[q], r.t) => q <= p
      BY DEF Newest
    <3>2. p \in having
      BY <1>1, <2>7, <3>1 DEF Has
    <3>3. p <= h /\ h <= p /\ p \in Int /\ h \in Int
      BY <1>1, <2>1, <2>3, <2>7, <3>1, <3>2
    <3>4. p = h
      BY <3>3
    <3> QED
      BY <3>1, <3>4
  <2> QED
    BY <2>4, <2>5, <2>6, <2>7
<1> QED
  BY <1>3, <1>4

\* Rows in order start with their lowest time.
LEMMA FirstIs ==
  ASSUME NEW rows \in Seq(FrameRows), rows # <<>>, InOrder(rows)
  PROVE  /\ Head(rows) \in FrameRows /\ Head(rows) \in Elems(rows)
         /\ \A r \in Elems(rows) : r \in FrameRows /\ r.t \in Int /\ Head(rows).t <= r.t
<1>1. /\ Head(rows) \in FrameRows /\ Elems(rows) = {Head(rows)} \cup Elems(Tail(rows))
      /\ Ahead({Head(rows)}, Elems(Tail(rows)))
  BY HeadIs
<1>2. Elems(rows) \in SUBSET FrameRows
  BY ElemsAre
<1>3. \A r \in FrameRows : r.t \in Int
  BY DEF FrameRows
<1> HIDE DEF FrameRows
<1>4. ASSUME NEW r \in Elems(rows) PROVE Head(rows).t <= r.t
  <2>1. Head(rows).t \in Int /\ r.t \in Int
    BY <1>1, <1>2, <1>3
  <2>2. r = Head(rows) \/ Prior(Head(rows), r)
    BY <1>1 DEF Ahead
  <2> QED
    BY <2>1, <2>2 DEF Prior
<1> QED
  BY <1>1, <1>2, <1>3, <1>4

LEMMA InitMerge == ASSUME MergeAssumption, MergeInit PROVE MergeInv
<1>1. PICK stamps \in [SegmentIds -> UNION {Inputs[id] : id \in SegmentIds}] :
        /\ \A id \in SegmentIds : stamps[id] \in Inputs[id]
        /\ held = [id \in SegmentIds |-> [i \in DOMAIN stamps[id] |-> Row(stamps[id][i], id, i)]]
  BY Zenon DEF MergeInit
<1>2. /\ given = held /\ unswept = SegmentIds /\ components = <<>> /\ reach = 0
      /\ waiting = {} /\ folded = {} /\ older = <<>> /\ newer = <<>> /\ merged = <<>>
  BY DEF MergeInit
<1>3. ASSUME NEW id \in SegmentIds
      PROVE  held[id] \in Seq(FrameRows) /\ held[id] # <<>> /\ RunsInOrder(held[id])
  <2> DEFINE s == stamps[id]
             rows == [i \in DOMAIN s |-> Row(s[i], id, i)]
  <2>1. s \in Seq(Int) /\ s # <<>>
    BY <1>1 DEF MergeAssumption
  <2>2. held[id] = rows
    BY <1>1
  <2> HIDE DEF s
  <2>3. DOMAIN s = 1 .. Len(s) /\ Len(s) \in Nat /\ \A i \in 1 .. Len(s) : s[i] \in Int /\ i \in Nat
    BY <2>1
  <2>4. \A i \in 1 .. Len(s) : Row(s[i], id, i) \in FrameRows /\ Row(s[i], id, i).at = i
    BY <2>3 DEF Row, FrameRows
  <2>5. /\ DOMAIN rows = 1 .. Len(s)
        /\ \A i \in 1 .. Len(s) : rows[i] = Row(s[i], id, i)
    BY <2>3
  <2>6. rows \in [1 .. Len(s) -> FrameRows]
    BY <2>3, <2>4, Zenon
  <2>7. rows \in Seq(FrameRows)
    BY <2>3, <2>6, SMT
  <2>8. Len(s) # 0
    BY <2>1
  <2>9. 1 \in DOMAIN rows
    BY <2>3, <2>5, <2>8
  <2>10. rows # <<>>
    <3>1. DOMAIN <<>> = {}
      OBVIOUS
    <3> QED
      BY <2>9, <3>1
  <2> HIDE DEF rows
  <2>11. RunsInOrder(rows)
    BY <2>4, <2>5 DEF RunsInOrder
  <2> QED
    BY <2>2, <2>7, <2>10, <2>11
<1>4. MergeTyped
  <2>1. held \in [SegmentIds -> Seq(FrameRows)]
    BY <1>1, <1>3, Zenon
  <2> QED
    BY <1>2, <1>3, <2>1 DEF MergeTyped
<1>5. Queued = {} /\ InHand = {} /\ Over = {} /\ DOMAIN components = {}
  <2>1. DOMAIN <<>> = {}
    OBVIOUS
  <2> QED
    BY <1>2, <2>1, Zenon DEF Queued, InHand, Over, LeftOver
<1>6. Elems(<<>>) = {} /\ InOrder(<<>>)
  BY <1>4, RowsAre
<1>7. SweepInv
  BY <1>2, <1>5 DEF SweepInv
<1>8. PlaceInv
  <2>1. \A id \in SegmentIds : RowsOf(id) # {}
    BY <1>3, ElemsAre DEF RowsOf
  <2>2. LeftOver \subseteq SegmentIds
    BY <1>2, <1>5 DEF LeftOver
  <2> QED
    BY <1>2, <1>5, <2>1, <2>2 DEF PlaceInv
<1>9. FoldInv
  BY <1>2, <1>6 DEF FoldInv, Ahead, Newest
<1> QED
  BY <1>2, <1>4, <1>7, <1>8, <1>9 DEF MergeInv, AnswersInv

\* Steps of the fold disturb nothing but the fold.
LEMMA FoldOnly ==
  ASSUME MergeInv, UNCHANGED <<given, held, unswept, components, reach, waiting, folded>>,
         older' \in Seq(FrameRows), newer' \in Seq(FrameRows), merged' \in Seq(FrameRows),
         FoldInv'
  PROVE  MergeInv'
<1>1. MergeTyped'
  BY DEF MergeInv, MergeTyped
<1>2. /\ \A id : RowsOf(id)' = RowsOf(id) /\ Lo(id)' = Lo(id)
      /\ Queued' = Queued /\ InHand' = InHand
  BY DEF RowsOf, Lo, Queued, InHand
<1>3. LeftOver' = LeftOver /\ Over' = Over
  BY <1>2 DEF LeftOver, Over
<1>4. SweepInv'
  BY <1>2, <1>3 DEF MergeInv, SweepInv
<1>5. PlaceInv'
  BY <1>2, <1>3 DEF MergeInv, PlaceInv
<1>6. AnswersInv'
  BY DEF MergeInv, AnswersInv
<1> QED
  BY <1>1, <1>4, <1>5, <1>6 DEF MergeInv

LEMMA LessKeeps == ASSUME MergeInv, MergeLess PROVE MergeInv'
<1> DEFINE h == Head(older)
           rest == Tail(older)
<1>1. /\ older # <<>> /\ newer # <<>> /\ h.t < Head(newer).t
      /\ merged' = Append(merged, h) /\ older' = rest /\ newer' = newer
      /\ UNCHANGED <<given, held, unswept, components, reach, waiting, folded>>
  BY DEF MergeLess
<1>2. MergeTyped /\ FoldInv
  BY DEF MergeInv
<1>3. /\ h \in FrameRows /\ rest \in Seq(FrameRows) /\ Elems(older) = {h} \cup Elems(rest)
      /\ InOrder(rest) /\ Ahead({h}, Elems(rest))
  BY <1>1, <1>2, HeadIs DEF MergeTyped, FoldInv
<1>4. \A r \in Elems(newer) : r \in FrameRows /\ r.t \in Int /\ Head(newer).t <= r.t
  BY <1>1, <1>2, FirstIs DEF MergeTyped, FoldInv
<1>5. /\ Head(newer) \in FrameRows /\ \A r \in FrameRows : r.t \in Int
      /\ Elems(older) \in SUBSET FrameRows
  BY <1>1, <1>2, HeadIs, ElemsAre, RowsAre DEF MergeTyped
<1>6. \A n \in Elems(newer) : h.t < n.t
  <2>1. h.t \in Int /\ Head(newer).t \in Int
    BY <1>3, <1>5
  <2> QED
    BY <1>1, <1>4, <2>1
<1>7. /\ merged' \in Seq(FrameRows) /\ Elems(merged') = Elems(merged) \cup {h} /\ InOrder(merged')
  <2>1. Ahead(Elems(merged), {h})
    BY <1>2, <1>3 DEF FoldInv, Ahead
  <2> QED
    BY <1>1, <1>2, <1>3, <2>1, AppendIs DEF MergeTyped, FoldInv
<1>8. Ahead(Elems(merged'), Elems(older')) /\ Ahead(Elems(merged'), Elems(newer'))
  BY <1>1, <1>2, <1>3, <1>6, <1>7 DEF FoldInv, Ahead, Prior
<1>9. {r \in Elems(older) : ~Has(newer, r.t)} = {h} \cup {r \in Elems(rest) : ~Has(newer, r.t)}
  BY <1>3, <1>5, <1>6 DEF Has
<1>10. Newest(held, folded)' = Newest(held, folded)
  BY <1>1 DEF Newest
<1>11. Newest(held, folded)' =
         Elems(merged') \cup Elems(newer') \cup {r \in Elems(older') : ~Has(newer', r.t)}
  BY <1>1, <1>2, <1>7, <1>9, <1>10 DEF FoldInv
<1>12. FoldInv'
  BY <1>1, <1>2, <1>3, <1>7, <1>8, <1>11 DEF FoldInv
<1> QED
  BY <1>1, <1>2, <1>3, <1>7, <1>12, FoldOnly DEF MergeTyped

LEMMA GreaterKeeps == ASSUME MergeInv, MergeGreater PROVE MergeInv'
<1> DEFINE h == Head(newer)
           rest == Tail(newer)
<1>1. /\ older # <<>> /\ newer # <<>> /\ Head(older).t > h.t
      /\ merged' = Append(merged, h) /\ newer' = rest /\ older' = older
      /\ UNCHANGED <<given, held, unswept, components, reach, waiting, folded>>
  BY DEF MergeGreater
<1>2. MergeTyped /\ FoldInv
  BY DEF MergeInv
<1>3. /\ h \in FrameRows /\ rest \in Seq(FrameRows) /\ Elems(newer) = {h} \cup Elems(rest)
      /\ InOrder(rest) /\ Ahead({h}, Elems(rest))
  BY <1>1, <1>2, HeadIs DEF MergeTyped, FoldInv
<1>4. \A r \in Elems(older) : r \in FrameRows /\ r.t \in Int /\ Head(older).t <= r.t
  BY <1>1, <1>2, FirstIs DEF MergeTyped, FoldInv
<1>5. Head(older) \in FrameRows /\ \A r \in FrameRows : r.t \in Int
  BY <1>1, <1>2, HeadIs, RowsAre DEF MergeTyped
<1>6. \A n \in Elems(older) : h.t < n.t
  <2>1. h.t \in Int /\ Head(older).t \in Int
    BY <1>3, <1>5
  <2> QED
    BY <1>1, <1>4, <2>1
<1>7. /\ merged' \in Seq(FrameRows) /\ Elems(merged') = Elems(merged) \cup {h} /\ InOrder(merged')
  <2>1. Ahead(Elems(merged), {h})
    BY <1>2, <1>3 DEF FoldInv, Ahead
  <2> QED
    BY <1>1, <1>2, <1>3, <2>1, AppendIs DEF MergeTyped, FoldInv
<1>8. Ahead(Elems(merged'), Elems(older')) /\ Ahead(Elems(merged'), Elems(newer'))
  BY <1>1, <1>2, <1>3, <1>6, <1>7 DEF FoldInv, Ahead, Prior
<1>9. \A r \in Elems(older) : Has(newer, r.t) <=> Has(rest, r.t)
  <2>1. h.t \in Int /\ \A r \in Elems(older) : h.t # r.t
    BY <1>3, <1>4, <1>5, <1>6
  <2> QED
    BY <1>3, <2>1 DEF Has
<1>10. Newest(held, folded)' = Newest(held, folded)
  BY <1>1 DEF Newest
<1>11. Newest(held, folded)' =
         Elems(merged') \cup Elems(newer') \cup {r \in Elems(older') : ~Has(newer', r.t)}
  <2>1. {r \in Elems(older) : ~Has(newer, r.t)} = {r \in Elems(older) : ~Has(rest, r.t)}
    BY <1>9
  <2> QED
    BY <1>1, <1>2, <1>3, <1>7, <1>10, <2>1 DEF FoldInv
<1>12. FoldInv'
  BY <1>1, <1>2, <1>3, <1>7, <1>8, <1>11 DEF FoldInv
<1> QED
  BY <1>1, <1>2, <1>3, <1>7, <1>12, FoldOnly DEF MergeTyped

LEMMA EqualKeeps == ASSUME MergeInv, MergeEqual PROVE MergeInv'
<1> DEFINE h == Head(newer)
           past == Head(older).t + 1
           run == Upto(newer, past)
<1>1. /\ older # <<>> /\ newer # <<>> /\ Head(older).t = h.t
      /\ older' = From(older, past) /\ newer' = From(newer, past) /\ merged' = merged \o run
      /\ UNCHANGED <<given, held, unswept, components, reach, waiting, folded>>
  BY DEF MergeEqual
<1>2. MergeTyped /\ FoldInv
  BY DEF MergeInv
<1>3. /\ h \in Elems(newer) /\ h.t \in Int
      /\ \A r \in Elems(newer) : r.t \in Int /\ h.t <= r.t
      /\ \A r \in Elems(older) : r.t \in Int /\ h.t <= r.t
  BY <1>1, <1>2, FirstIs DEF MergeTyped, FoldInv
<1>4. past \in Int /\ past = h.t + 1
  BY <1>1, <1>3
<1> HIDE DEF past
<1>5. /\ run \in Seq(FrameRows) /\ newer' \in Seq(FrameRows) /\ InOrder(run) /\ InOrder(newer')
      /\ Elems(run) = {r \in Elems(newer) : r.t < past}
      /\ Elems(newer') = {r \in Elems(newer) : r.t >= past}
  BY <1>1, <1>2, <1>4, SplitIs DEF MergeTyped, FoldInv
<1>6. /\ older' \in Seq(FrameRows) /\ InOrder(older')
      /\ Elems(older') = {r \in Elems(older) : r.t >= past}
  BY <1>1, <1>2, <1>4, SplitIs DEF MergeTyped, FoldInv
<1> HIDE DEF run, h
<1>7. /\ merged' \in Seq(FrameRows) /\ Elems(merged') = Elems(merged) \cup Elems(run)
      /\ InOrder(merged')
  <2>1. Ahead(Elems(merged), Elems(run))
    BY <1>2, <1>5 DEF FoldInv, Ahead
  <2> QED
    BY <1>1, <1>2, <1>5, <2>1, ConcatIs DEF MergeTyped, FoldInv
<1>8. Ahead(Elems(merged'), Elems(older')) /\ Ahead(Elems(merged'), Elems(newer'))
  <2>1. ASSUME NEW a \in Elems(run), NEW b \in Elems(older') \cup Elems(newer') PROVE a.t < b.t
    BY <1>3, <1>4, <1>5, <1>6
  <2> QED
    BY <1>2, <1>5, <1>6, <1>7, <2>1 DEF FoldInv, Ahead, Prior
<1>9. /\ Elems(newer) = Elems(run) \cup Elems(newer')
      /\ {r \in Elems(older) : ~Has(newer, r.t)} = {r \in Elems(older') : ~Has(newer', r.t)}
  <2>1. Elems(newer) = Elems(run) \cup Elems(newer')
    BY <1>3, <1>4, <1>5
  <2>2. ASSUME NEW r \in Elems(older)
        PROVE  \/ r \in Elems(older') /\ (Has(newer, r.t) <=> Has(newer', r.t))
               \/ r \notin Elems(older') /\ Has(newer, r.t)
    <3>1. CASE r.t >= past
      <4>1. r \in Elems(older')
        BY <1>6, <3>1
      <4>2. Has(newer, r.t) <=> Has(newer', r.t)
        BY <1>5, <3>1 DEF Has
      <4> QED
        BY <4>1, <4>2
    <3>2. CASE ~(r.t >= past)
      <4>1. r.t = h.t
        BY <1>3, <1>4, <3>2
      <4> QED
        BY <1>3, <1>6, <3>2, <4>1 DEF Has
    <3> QED
      BY <3>1, <3>2
  <2>3. Elems(older') \subseteq Elems(older)
    BY <1>6
  <2> QED
    BY <2>1, <2>2, <2>3
<1>10. Newest(held, folded)' = Newest(held, folded)
  BY <1>1 DEF Newest
<1>11. Newest(held, folded)' =
         Elems(merged') \cup Elems(newer') \cup {r \in Elems(older') : ~Has(newer', r.t)}
  BY <1>2, <1>7, <1>9, <1>10 DEF FoldInv
<1>12. FoldInv'
  BY <1>5, <1>6, <1>7, <1>8, <1>11 DEF FoldInv
<1> QED
  BY <1>1, <1>5, <1>6, <1>7, <1>12, FoldOnly

LEMMA RestKeeps == ASSUME MergeInv, MergeRest PROVE MergeInv'
<1>1. /\ older = <<>> \/ newer = <<>>
      /\ merged' = (merged \o older) \o newer /\ older' = <<>> /\ newer' = <<>>
      /\ UNCHANGED <<given, held, unswept, components, reach, waiting, folded>>
  BY DEF MergeRest
<1>2. MergeTyped /\ FoldInv
  BY DEF MergeInv
<1>3. Elems(<<>>) = {} /\ InOrder(<<>>) /\ <<>> \in Seq(FrameRows)
  BY <1>2, RowsAre
<1>4. /\ merged \o older \in Seq(FrameRows) /\ InOrder(merged \o older)
      /\ Elems(merged \o older) = Elems(merged) \cup Elems(older)
  BY <1>2, ConcatIs DEF MergeTyped, FoldInv
<1>5. Elems(older) = {} \/ Elems(newer) = {}
  BY <1>1, <1>3
<1>6. /\ merged' \in Seq(FrameRows) /\ InOrder(merged')
      /\ Elems(merged') = Elems(merged) \cup Elems(older) \cup Elems(newer)
  <2>1. Ahead(Elems(merged \o older), Elems(newer))
    BY <1>2, <1>4, <1>5 DEF FoldInv, Ahead
  <2> QED
    BY <1>1, <1>2, <1>4, <2>1, ConcatIs DEF MergeTyped, FoldInv
<1>7. Newest(held, folded)' = Newest(held, folded)
  BY <1>1 DEF Newest
<1>8. Newest(held, folded)' =
        Elems(merged') \cup Elems(newer') \cup {r \in Elems(older') : ~Has(newer', r.t)}
  BY <1>1, <1>2, <1>3, <1>5, <1>6, <1>7 DEF FoldInv, Has
<1>9. FoldInv'
  BY <1>1, <1>3, <1>6, <1>8 DEF FoldInv, Ahead
<1> QED
  BY <1>1, <1>3, <1>6, <1>9, FoldOnly

\* The two ends of a set of ids, and of their starts.
LEMMA LowestId ==
  ASSUME MergeAssumption, NEW S \in SUBSET SegmentIds, S # {}
  PROVE  /\ Lowest(S) \in S /\ Lowest(S) \in Nat
         /\ \A y \in S : Lowest(S) <= y /\ y \in Nat
<1>1. SegmentIds \subseteq Nat /\ IsFiniteSet(SegmentIds)
  BY DEF MergeAssumption
<1>2. S \in SUBSET Nat /\ S \in SUBSET Int
  BY <1>1
<1>3. IsFiniteSet(S)
  BY <1>1, FS_Subset
<1> QED
  BY <1>2, <1>3, Ends

LEMMA MemberKeeps == ASSUME MergeAssumption, MergeInv, TakeMember PROVE MergeInv'
<1> DEFINE id == Lowest(waiting)
<1>1. /\ waiting # {} /\ older = <<>> /\ newer = <<>>
      /\ \E p \in StableOrders(held[id]) : newer' = [k \in DOMAIN held[id] |-> held[id][p[k]]]
      /\ waiting' = waiting \ {id} /\ folded' = folded \cup {id}
      /\ older' = merged /\ merged' = <<>>
      /\ UNCHANGED <<given, held, unswept, components, reach>>
  BY DEF TakeMember, Exhausted
<1>2. MergeTyped /\ SweepInv /\ PlaceInv /\ FoldInv
  BY DEF MergeInv
<1>3. id \in waiting /\ id \in SegmentIds /\ \A q \in waiting : id <= q /\ q \in Nat
  BY <1>1, <1>2, LowestId DEF MergeTyped
<1>4. SegmentIds \in SUBSET Nat
  BY DEF MergeAssumption
<1> HIDE DEF id
<1>5. newer' \in Seq(FrameRows) /\ Elems(newer') = RowsOf(id) /\ InOrder(newer')
  <2>1. PICK p \in StableOrders(held[id]) : newer' = [k \in DOMAIN held[id] |-> held[id][p[k]]]
    BY <1>1
  <2>2. held[id] \in Seq(FrameRows) /\ RunsInOrder(held[id])
    BY <1>2, <1>3 DEF MergeTyped
  <2> QED
    BY <2>1, <2>2, SortIs DEF RowsOf
<1>6. Elems(<<>>) = {} /\ InOrder(<<>>)
  BY <1>2, RowsAre
<1>7. MergeTyped'
  BY <1>1, <1>2, <1>3, <1>5 DEF MergeTyped
<1>8. /\ \A x : RowsOf(x)' = RowsOf(x) /\ Lo(x)' = Lo(x)
      /\ Queued' = Queued /\ InHand' = InHand
  BY <1>1, <1>3 DEF RowsOf, Lo, Queued, InHand
<1>9. LeftOver' = LeftOver /\ Over' = Over
  BY <1>1, <1>8 DEF LeftOver, Over
<1>10. SweepInv'
  BY <1>1, <1>2, <1>8, <1>9 DEF SweepInv
<1>11. PlaceInv'
  <2>1. \A p \in folded', q \in waiting' : p < q
    <3>1. ASSUME NEW q \in waiting, q # id PROVE id < q
      BY <1>3, <3>1
    <3> QED
      BY <1>1, <1>2, <3>1 DEF PlaceInv
  <2> QED
    BY <1>2, <1>8, <1>9, <2>1 DEF PlaceInv
<1>12. Newest(held, folded)' =
         Elems(merged') \cup Elems(newer') \cup {r \in Elems(older') : ~Has(newer', r.t)}
  <2>1. Newest(held, folded) = Elems(merged)
    BY <1>1, <1>2, <1>6 DEF FoldInv
  <2>2. \A t : Has(newer', t) <=> Has(held[id], t)
    BY <1>5 DEF Has, RowsOf
  <2>3. \A p \in folded : p < id /\ p \in Nat /\ id \in Nat
    BY <1>2, <1>3, <1>4 DEF PlaceInv, MergeTyped
  <2>4. RowsOf(id) \in SUBSET FrameRows
    BY <1>2, <1>3, RowsAre
  <2>5. ASSUME NEW r \in Newest(held, folded \cup {id})
        PROVE  r \in RowsOf(id) \/ (r \in Newest(held, folded) /\ ~Has(held[id], r.t))
    <3>1. PICK p \in folded \cup {id} :
            r \in Elems(held[p]) /\ \A q \in folded \cup {id} : Has(held[q], r.t) => q <= p
      BY DEF Newest
    <3>2. r \in FrameRows
      BY DEF Newest
    <3>3. CASE p = id
      BY <3>1, <3>3 DEF RowsOf
    <3>4. CASE p \in folded
      <4>1. ~Has(held[id], r.t)
        BY <2>3, <3>1, <3>4
      <4> QED
        BY <3>1, <3>2, <3>4, <4>1 DEF Newest
    <3> QED
      BY <3>1, <3>3, <3>4
  <2>6. ASSUME NEW r \in RowsOf(id) PROVE r \in Newest(held, folded \cup {id})
    BY <2>3, <2>4, <1>3, <1>4 DEF Newest, RowsOf
  <2>7. ASSUME NEW r \in Newest(held, folded), ~Has(held[id], r.t)
        PROVE  r \in Newest(held, folded \cup {id})
    BY <2>7 DEF Newest
  <2>8. Newest(held, folded \cup {id}) =
          RowsOf(id) \cup {r \in Newest(held, folded) : ~Has(held[id], r.t)}
    BY <2>5, <2>6, <2>7
  <2>9. Newest(held, folded)' = Newest(held, folded \cup {id})
    BY <1>1 DEF Newest
  <2>10. {r \in Elems(merged) : ~Has(held[id], r.t)} = {r \in Elems(merged) : ~Has(newer', r.t)}
    BY <2>2
  <2> QED
    BY <1>1, <1>5, <1>6, <2>1, <2>8, <2>9, <2>10
<1>13. FoldInv'
  BY <1>1, <1>2, <1>5, <1>6, <1>12 DEF FoldInv, Ahead
<1>14. AnswersInv'
  BY <1>1 DEF MergeInv, AnswersInv
<1> QED
  BY <1>7, <1>10, <1>11, <1>13, <1>14 DEF MergeInv

LEMMA TakeComponentKeeps == ASSUME MergeAssumption, MergeInv, TakeComponent PROVE MergeInv'
<1> DEFINE C == Head(components)
           rest == Tail(components)
           none == Cardinality(C) < 2
<1>1. /\ unswept = {} /\ InHand = {} /\ components # <<>>
      /\ components' = rest /\ waiting' = IF none THEN {} ELSE C
      /\ UNCHANGED <<given, held, unswept, reach, folded, older, newer, merged>>
  BY DEF TakeComponent
<1>2. MergeTyped /\ SweepInv /\ PlaceInv /\ FoldInv
  BY DEF MergeInv
<1>3. /\ C \in SUBSET SegmentIds /\ rest \in Seq(SUBSET SegmentIds) /\ C = components[1]
      /\ Len(components) \in Nat \ {0} /\ DOMAIN components = 1 .. Len(components)
      /\ DOMAIN rest = 1 .. Len(components) - 1
      /\ \A k \in 1 .. Len(components) - 1 : rest[k] = components[k + 1]
  BY <1>1, <1>2, SMT DEF MergeTyped
<1> HIDE DEF C, rest, none
<1>4. /\ 1 \in DOMAIN components
      /\ \A k \in DOMAIN rest : k + 1 \in DOMAIN components /\ 1 < k + 1
      /\ \A k \in DOMAIN components : k # 1 => k - 1 \in DOMAIN rest /\ rest[k - 1] = components[k]
  <2>1. ASSUME NEW k \in 1 .. Len(components), k # 1
        PROVE  k - 1 \in DOMAIN rest /\ rest[k - 1] = components[k]
    <3>1. k - 1 \in 1 .. Len(components) - 1 /\ (k - 1) + 1 = k
      BY <1>3, <2>1
    <3> QED
      BY <1>3, <3>1
  <2> QED
    BY <1>3, <2>1
<1>5. Queued' = UNION {rest[k] : k \in DOMAIN rest} /\ Queued = C \cup Queued'
  BY <1>1, <1>3, <1>4 DEF Queued
<1>6. C # {} /\ \A p \in C, q \in Queued' : Earlier(RowsOf(p), RowsOf(q))
  BY <1>2, <1>3, <1>4, <1>5 DEF SweepInv
<1>7. MergeTyped'
  BY <1>1, <1>2, <1>3 DEF MergeTyped
<1>8. \A x : RowsOf(x)' = RowsOf(x) /\ Lo(x)' = Lo(x)
  BY <1>1 DEF RowsOf, Lo
<1>9. (none => \E x : C = {x}) /\ (~none => \E x, y \in C : x # y)
  <2>1. IsFiniteSet(C)
    BY <1>3, FS_Subset DEF MergeAssumption
  <2>2. Cardinality(C) \in Nat /\ Cardinality(C) # 0
    BY <1>6, <2>1, FS_CardinalityType, FS_EmptySet
  <2>3. Cardinality(C) = 1 <=> \E x : C = {x}
    BY <2>1, FS_Singleton
  <2>4. none <=> Cardinality(C) = 1
    BY <2>2 DEF none
  <2>5. (\E x : C = {x}) \/ \E x, y \in C : x # y
    <3>1. PICK x \in C : TRUE
      BY <1>6
    <3> QED
      BY <3>1
  <2> QED
    BY <2>3, <2>4, <2>5
<1>10. /\ InHand' = (IF none THEN {} ELSE C) /\ folded = {} /\ folded' = {}
       /\ LeftOver = C \cup Queued'
       /\ LeftOver' = Queued' \cup (IF none THEN {} ELSE C)
  BY <1>1, <1>5 DEF InHand, LeftOver
<1>11. ASSUME NEW p \in Over' PROVE p \in Over \/ (none /\ C = {p})
  BY <1>9, <1>10 DEF Over
<1>12. \A x \in Queued' : RowsOf(x) # {} /\ x \notin C
  <2>1. \A x \in Queued' : RowsOf(x) # {}
    BY <1>2, <1>10 DEF PlaceInv
  <2>2. ASSUME NEW x \in Queued', x \in C PROVE FALSE
    <3>1. PICK a \in RowsOf(x) : TRUE
      BY <2>1, <2>2
    <3>2. a.t < a.t /\ a \in FrameRows
      BY <1>2, <1>3, <1>6, <2>2, RowsAre DEF Earlier
    <3>3. a.t \in Int
      BY <1>2, <3>2, RowsAre
    <3> QED
      BY <3>2, <3>3
  <2> QED
    BY <2>1, <2>2
<1>13. SweepInv'
  <2>1. unswept' = {}
    BY <1>1
  <2>2. \A k \in DOMAIN rest : rest[k] # {}
    BY <1>2, <1>3, <1>4 DEF SweepInv
  <2>3. \A k, l \in DOMAIN rest : k < l => \A p \in rest[k], q \in rest[l] : Earlier(RowsOf(p), RowsOf(q))
    <3>1. ASSUME NEW k \in DOMAIN rest, NEW l \in DOMAIN rest, k < l PROVE k + 1 < l + 1
      BY <1>3, <3>1
    <3> QED
      BY <1>2, <1>3, <1>4, <3>1 DEF SweepInv
  <2> QED
    BY <1>1, <1>8, <2>1, <2>2, <2>3 DEF SweepInv
<1>14. PlaceInv'
  <2>1. \A x \in LeftOver' : RowsOf(x) # {}
    BY <1>2, <1>10 DEF PlaceInv
  <2>2. \A p \in InHand', q \in Queued' : Earlier(RowsOf(p), RowsOf(q))
    BY <1>6, <1>10
  <2>3. \A p \in Over', q \in LeftOver' : Earlier(RowsOf(p), RowsOf(q))
    <3> SUFFICES ASSUME NEW p \in Over', NEW q \in LeftOver' PROVE Earlier(RowsOf(p), RowsOf(q))
      OBVIOUS
    <3>1. CASE p \in Over
      BY <1>2, <1>10, <3>1 DEF PlaceInv
    <3>2. CASE none /\ C = {p}
      BY <1>6, <1>10, <3>2
    <3> QED
      BY <1>11, <3>1, <3>2
  <2>4. \A p, q \in Over' : p # q => Earlier(RowsOf(p), RowsOf(q)) \/ Earlier(RowsOf(q), RowsOf(p))
    <3> SUFFICES ASSUME NEW p \in Over', NEW q \in Over', p # q
                 PROVE  Earlier(RowsOf(p), RowsOf(q)) \/ Earlier(RowsOf(q), RowsOf(p))
      OBVIOUS
    <3>1. CASE p \in Over /\ q \in Over
      BY <1>2, <3>1 DEF PlaceInv
    <3>2. CASE p \in Over /\ C = {q}
      BY <1>2, <1>10, <3>2 DEF PlaceInv
    <3>3. CASE C = {p} /\ q \in Over
      BY <1>2, <1>10, <3>3 DEF PlaceInv
    <3> QED
      BY <1>11, <3>1, <3>2, <3>3
  <2>5. InHand' # {} => \E x, y \in InHand' : x # y
    BY <1>9, <1>10
  <2> QED
    BY <1>8, <1>10, <2>1, <2>2, <2>3, <2>4, <2>5 DEF PlaceInv
<1>15. FoldInv'
  BY <1>1, <1>2 DEF FoldInv, Newest
<1>16. AnswersInv'
  BY <1>1 DEF MergeInv, AnswersInv
<1> QED
  BY <1>7, <1>13, <1>14, <1>15, <1>16 DEF MergeInv

LEMMA SweepKeeps == ASSUME MergeAssumption, MergeInv, SweepSpan PROVE MergeInv'
<1>1. PICK id \in unswept :
        /\ \A other \in unswept \ {id} : Precedes(id, other)
        /\ unswept' = unswept \ {id}
        /\ IF Belongs(id)
           THEN /\ components' = [components EXCEPT ![Len(components)] = @ \cup {id}]
                /\ reach' = IF Hi(id) > reach THEN Hi(id) ELSE reach
           ELSE /\ components' = Append(components, {id})
                /\ reach' = Hi(id)
        /\ UNCHANGED <<given, held, waiting, folded, older, newer, merged>>
  BY DEF SweepSpan
<1>2. MergeTyped /\ SweepInv /\ PlaceInv /\ FoldInv
  BY DEF MergeInv
<1>3. /\ InHand = {} /\ Over = {} /\ id \in SegmentIds
      /\ \A u \in unswept : u \in SegmentIds /\ RowsOf(u) # {}
  BY <1>1, <1>2 DEF SweepInv, PlaceInv, LeftOver, MergeTyped
<1>4. \A u \in unswept : Lo(u) \in Int /\ Hi(u) \in Int /\ Lo(id) <= Lo(u)
  <2>1. \A u \in unswept : Lo(u) \in Int /\ Hi(u) \in Int
    BY <1>2, <1>3, SpanIs
  <2> QED
    BY <1>1, <2>1 DEF Precedes
<1>5. /\ Lo(id) \in Int /\ Hi(id) \in Int
      /\ \A a \in RowsOf(id) : a.t \in Int /\ Lo(id) <= a.t /\ a.t <= Hi(id)
  BY <1>2, <1>3, SpanIs, RowsAre
<1> DEFINE n == Len(components)
           joins == Belongs(id)
<1>6. /\ components \in Seq(SUBSET SegmentIds) /\ n \in Nat /\ DOMAIN components = 1 .. n
      /\ \A k \in 1 .. n : components[k] \subseteq SegmentIds
      /\ reach \in Int /\ (components # <<>> <=> n # 0)
  BY <1>2 DEF MergeTyped
<1>7. joins <=> n # 0 /\ Lo(id) <= reach
  BY <1>6 DEF Belongs
<1> DEFINE m == IF joins THEN n ELSE n + 1
           grown == [k \in 1 .. m |-> IF k # m THEN components[k]
                                      ELSE IF joins THEN components[k] \cup {id} ELSE {id}]
<1>8. /\ m \in Nat \ {0} /\ n <= m /\ m - 1 <= n /\ (joins => m = n) /\ (~joins => m = n + 1)
  <2>1. CASE joins
    BY <1>6, <1>7, <2>1
  <2>2. CASE ~joins
    <3>1. m = n + 1
      BY <2>2
    <3> HIDE DEF m, n, joins
    <3> QED
      BY <1>6, <2>2, <3>1
  <2> QED
    BY <2>1, <2>2
<1>9. components' = grown
  <2>1. CASE joins
    BY <1>1, <1>6, <1>7, <2>1
  <2>2. CASE ~joins
    <3>1. components' = Append(components, {id})
      BY <1>1, <2>2
    <3> QED
      BY <1>6, <2>2, <3>1
  <2> QED
    BY <2>1, <2>2
<1> HIDE DEF n, joins, m
<1>10. /\ DOMAIN grown = 1 .. m
       /\ \A k \in 1 .. m : k # m => grown[k] = components[k] /\ k \in 1 .. n
       /\ grown[m] = IF joins THEN components[n] \cup {id} ELSE {id}
       /\ m \in 1 .. m /\ (joins => n \in 1 .. n)
  <2>1. \A k \in 1 .. m : k # m => k \in 1 .. n
    BY <1>6, <1>8
  <2>2. m \in 1 .. m /\ (joins => m \in 1 .. n /\ m = n)
    BY <1>6, <1>7, <1>8
  <2> QED
    BY <2>1, <2>2
<1> HIDE DEF grown
<1>11. Queued' = Queued \cup {id}
  <2>1. Queued' = UNION {grown[k] : k \in 1 .. m} /\ Queued = UNION {components[k] : k \in 1 .. n}
    BY <1>6, <1>9, <1>10 DEF Queued
  <2>2. ASSUME NEW k \in 1 .. n PROVE k \in 1 .. m /\ components[k] \subseteq grown[k]
    <3>1. k \in 1 .. m
      BY <1>6, <1>8
    <3>2. k = m => joins /\ k = n
      BY <1>6, <1>8
    <3> QED
      BY <1>10, <3>1, <3>2
  <2>3. ASSUME NEW k \in 1 .. m PROVE grown[k] \subseteq Queued \cup {id}
    BY <1>10, <2>1
  <2>4. id \in grown[m]
    BY <1>10
  <2> QED
    BY <1>10, <2>1, <2>2, <2>3, <2>4
<1>12. \A x : RowsOf(x)' = RowsOf(x) /\ Lo(x)' = Lo(x)
  BY <1>1 DEF RowsOf, Lo
<1>13. InHand' = {} /\ LeftOver' = LeftOver /\ Over' = {}
  BY <1>1, <1>3, <1>11 DEF InHand, LeftOver, Over
<1>14. MergeTyped'
  <2>1. grown \in Seq(SUBSET SegmentIds)
    <3>1. \A k \in 1 .. m : grown[k] \in SUBSET SegmentIds
      BY <1>3, <1>6, <1>10
    <3>2. grown = [k \in 1 .. m |-> grown[k]]
      BY DEF grown
    <3>3. grown \in [1 .. m -> SUBSET SegmentIds]
      BY <3>1, <3>2, Zenon
    <3> QED
      BY <1>8, <3>3, SMT
  <2>2. reach' \in Int
    BY <1>1, <1>5, <1>6
  <2> QED
    BY <1>1, <1>2, <1>9, <2>1, <2>2 DEF MergeTyped
\* What comes before the last component lies before it, and so before id.
<1>15. ASSUME NEW k \in 1 .. m, k # m, NEW p \in grown[k] PROVE Earlier(RowsOf(p), RowsOf(id))
  <2>1. k \in 1 .. n /\ n \in 1 .. n /\ p \in components[k]
    BY <1>6, <1>10, <1>15
  <2>2. p \in SegmentIds /\ p \in Queued
    BY <1>6, <2>1 DEF Queued
  <2>3. \A a \in RowsOf(p) : a.t \in Int
    BY <1>2, <2>2, RowsAre
  <2>4. CASE k = n
    <3>1. ~joins /\ reach < Lo(id)
      BY <1>5, <1>6, <1>7, <1>8, <1>15, <2>1, <2>4
    <3>2. \A a \in RowsOf(p) : a.t <= reach
      BY <1>1, <1>2, <1>6, <2>1, <2>4 DEF SweepInv, n
    <3> QED
      BY <1>5, <1>6, <2>3, <3>1, <3>2 DEF Earlier
  <2>5. CASE k # n
    <3>1. k < n
      BY <1>6, <2>1, <2>5
    <3>2. PICK s \in components[n] : TRUE
      BY <1>2, <1>6, <2>1 DEF SweepInv
    <3>3. s \in SegmentIds /\ s \in Queued
      BY <1>6, <2>1 DEF Queued
    <3>4. Lo(s) \in Int /\ \E b \in RowsOf(s) : b.t = Lo(s)
      BY <1>2, <3>3, SpanIs DEF PlaceInv, LeftOver
    <3>5. Lo(s) <= Lo(id)
      BY <1>1, <1>2, <3>3 DEF SweepInv
    <3>6. Earlier(RowsOf(p), RowsOf(s))
      BY <1>2, <1>6, <2>1, <3>1, <3>2 DEF SweepInv
    <3>7. \A a \in RowsOf(p) : a.t < Lo(s)
      BY <3>4, <3>6 DEF Earlier
    <3> QED
      BY <1>5, <2>3, <3>4, <3>5, <3>7 DEF Earlier
  <2> QED
    BY <2>4, <2>5
<1>16. SweepInv'
  <2>1. \A s \in Queued', u \in unswept' : Lo(s) <= Lo(u)
    BY <1>1, <1>2, <1>4, <1>11 DEF SweepInv
  <2>2. \A k \in 1 .. m : grown[k] # {}
    BY <1>2, <1>6, <1>10 DEF SweepInv
  <2>3. ASSUME NEW k \in 1 .. m, NEW l \in 1 .. m, k < l, NEW p \in grown[k], NEW q \in grown[l]
        PROVE  Earlier(RowsOf(p), RowsOf(q))
    <3>1. k # m /\ k \in 1 .. n /\ p \in components[k]
      BY <1>8, <1>10, <2>3
    <3>2. CASE q = id
      BY <1>15, <3>1, <3>2
    <3>3. CASE q # id
      <4>1. l \in 1 .. n /\ q \in components[l]
        <5>1. CASE l # m
          BY <1>10, <2>3, <5>1
        <5>2. CASE l = m
          <6>1. joins
            BY <1>10, <2>3, <3>3, <5>2
          <6> QED
            BY <1>8, <1>10, <2>3, <3>3, <5>2, <6>1
        <5> QED
          BY <5>1, <5>2
      <4> QED
        BY <1>2, <1>6, <2>3, <3>1, <4>1 DEF SweepInv
    <3> QED
      BY <3>2, <3>3
  <2>4. ASSUME NEW p \in grown[m], NEW a \in RowsOf(p) PROVE a.t <= reach'
    <3>1. CASE p = id
      BY <1>1, <1>5, <1>6, <3>1
    <3>2. CASE p # id
      <4>1. joins /\ p \in components[n] /\ p \in SegmentIds
        BY <1>6, <1>10, <3>2
      <4>2. a.t <= reach /\ a.t \in Int
        BY <1>1, <1>2, <1>6, <1>7, <4>1, RowsAre DEF SweepInv, n
      <4>3. reach' = IF Hi(id) > reach THEN Hi(id) ELSE reach
        BY <1>1, <4>1 DEF joins
      <4> QED
        BY <1>5, <1>6, <4>2, <4>3
    <3> QED
      BY <3>1, <3>2
  <2>5. Len(components') = m /\ DOMAIN components' = 1 .. m
    BY <1>8, <1>9, <1>10, <1>14 DEF MergeTyped
  <2> QED
    BY <1>9, <1>10, <1>12, <1>13, <2>1, <2>2, <2>3, <2>4, <2>5 DEF SweepInv
<1>17. PlaceInv'
  <2>1. \A p \in folded', q \in waiting' : p < q
    BY <1>1, <1>2 DEF PlaceInv
  <2> QED
    BY <1>2, <1>12, <1>13, <2>1 DEF PlaceInv
<1>18. FoldInv'
  BY <1>1, <1>2 DEF FoldInv, Newest
<1>19. AnswersInv'
  BY <1>1 DEF MergeInv, AnswersInv
<1> QED
  BY <1>14, <1>16, <1>17, <1>18, <1>19 DEF MergeInv

\* The cut is a time.
LEMMA ColdIs ==
  ASSUME MergeAssumption, MergeInv, folded # {}, waiting = {}
  PROVE  Cold \in Int
<1>1. MergeTyped /\ PlaceInv
  BY DEF MergeInv
<1>2. SegmentIds \subseteq Nat /\ IsFiniteSet(SegmentIds) /\ folded \subseteq SegmentIds
  BY <1>1 DEF MergeAssumption, MergeTyped
<1>3. InHand = folded /\ \E x, y \in folded : x # y
  BY <1>1 DEF InHand, PlaceInv
<1>4. \A id \in folded : Lo(id) \in Int
  <2>1. \A id \in folded : RowsOf(id) # {}
    BY <1>1, <1>3 DEF PlaceInv, LeftOver
  <2> QED
    BY <1>1, <1>2, <2>1, SpanIs
<1>5. ASSUME NEW S \in SUBSET folded, S # {}
      PROVE  LET starts == {Lo(id) : id \in S} IN
             Lowest(starts) \in starts /\ \A y \in starts : Lowest(starts) <= y
  <2> DEFINE starts == {Lo(id) : id \in S}
  <2>1. IsFiniteSet(S)
    BY <1>2, <1>5, FS_Subset
  <2>2. PICK q \in Seq(S) : \A s \in S : \E n \in 1 .. Len(q) : q[n] = s
    BY <2>1 DEF IsFiniteSet
  <2>3. Len(q) \in Nat /\ \A n \in 1 .. Len(q) : q[n] \in S
    BY <2>2, LenProperties, ElementOfSeq
  <2> DEFINE los == [n \in 1 .. Len(q) |-> Lo(q[n])]
  <2>4. \A n \in 1 .. Len(q) : Lo(q[n]) \in starts
    BY <2>3
  <2>5. los \in [1 .. Len(q) -> starts]
    BY <2>4, Zenon
  <2>6. los \in Seq(starts) /\ Len(los) = Len(q)
    <3> HIDE DEF starts
    <3> QED
      BY <2>3, <2>5, SMT
  <2>7. \A s \in starts : \E n \in 1 .. Len(los) : los[n] = s
    <3>1. ASSUME NEW id \in S PROVE \E n \in 1 .. Len(q) : los[n] = Lo(id)
      <4>1. PICK n \in 1 .. Len(q) : q[n] = id
        BY <2>2
      <4> QED
        BY <4>1
    <3> QED
      BY <2>6, <3>1
  <2>8. starts \in SUBSET Int /\ starts # {}
    BY <1>4, <1>5
  <2> HIDE DEF starts, los
  <2>9. IsFiniteSet(starts)
    BY <2>6, <2>7, Zenon DEF IsFiniteSet
  <2> QED
    BY <2>8, <2>9, Ends DEF starts
<1> DEFINE earliest == CHOOSE id \in folded : \A other \in folded : Lo(id) <= Lo(other)
           others == {Lo(id) : id \in folded \ {earliest}}
<1>6. folded \ {earliest} # {}
  <2> HIDE DEF earliest
  <2> QED
    BY <1>3
<1>7. Cold = Lowest(others)
  BY DEF Cold
<1>8. Lowest(others) \in others
  BY <1>5, <1>6
<1> HIDE DEF earliest
<1> QED
  BY <1>4, <1>7, <1>8

LEMMA OutputsKeep == ASSUME MergeAssumption, MergeInv, SwapOutputs PROVE MergeInv'
<1> DEFINE prefix == Upto(merged, Cold)
           suffix == From(merged, Cold)
           split == prefix # <<>> /\ suffix # <<>> /\ Decide(Len(prefix), Len(suffix))
           lowest == Lowest(folded)
           next == Lowest(folded \ {lowest})
<1>1. /\ folded # {} /\ waiting = {} /\ older = <<>> /\ newer = <<>>
      /\ held' = [id \in SegmentIds |-> IF id \notin folded THEN held[id]
                                        ELSE IF split /\ id = lowest THEN prefix
                                        ELSE IF split /\ id = next THEN suffix
                                        ELSE IF id = lowest THEN merged
                                        ELSE <<>>]
      /\ folded' = {} /\ merged' = <<>>
      /\ UNCHANGED <<given, unswept, components, reach, waiting, older, newer>>
  BY DEF SwapOutputs, Exhausted
<1>2. MergeTyped /\ SweepInv /\ PlaceInv /\ FoldInv /\ AnswersInv
  BY DEF MergeInv
<1>3. InHand = folded /\ unswept = {} /\ folded \subseteq SegmentIds
  BY <1>1, <1>2 DEF InHand, SweepInv, MergeTyped
<1>4. /\ lowest \in folded /\ next \in folded /\ lowest # next
      /\ SegmentIds \subseteq Nat
  <2>1. lowest \in folded
    BY <1>1, <1>3, LowestId
  <2>2. folded \ {lowest} # {}
    BY <1>1, <1>2, <1>3 DEF PlaceInv
  <2>3. next \in folded \ {lowest}
    BY <1>3, <2>2, LowestId
  <2> QED
    BY <2>1, <2>3 DEF MergeAssumption
<1>5. Elems(<<>>) = {} /\ InOrder(<<>>) /\ <<>> \in Seq(FrameRows)
  BY <1>2, RowsAre
<1>6. Newest(held, folded) = Elems(merged) /\ merged \in Seq(FrameRows) /\ InOrder(merged)
  BY <1>1, <1>2, <1>5 DEF FoldInv, MergeTyped
<1>7. /\ prefix \in Seq(FrameRows) /\ InOrder(prefix) /\ suffix \in Seq(FrameRows) /\ InOrder(suffix)
      /\ Elems(prefix) \cup Elems(suffix) = Elems(merged)
      /\ Earlier(Elems(prefix), Elems(suffix))
  <2>1. Cold \in Int
    BY <1>1, ColdIs
  <2>2. \A r \in Elems(merged) : r.t \in Int
    BY <1>2, <1>6, ElemsAre, RowsAre
  <2>3. /\ Elems(prefix) = {r \in Elems(merged) : r.t < Cold}
        /\ Elems(suffix) = {r \in Elems(merged) : r.t >= Cold}
    BY <1>6, <2>1, SplitIs
  <2>4. /\ prefix \in Seq(FrameRows) /\ InOrder(prefix)
        /\ suffix \in Seq(FrameRows) /\ InOrder(suffix)
    BY <1>6, <2>1, SplitIs
  <2> HIDE DEF prefix, suffix
  <2> QED
    BY <2>1, <2>2, <2>3, <2>4 DEF Earlier
<1> HIDE DEF prefix, suffix, split, lowest, next
<1> DEFINE W == Newest(held, folded)
\* What the swap leaves: the members' newest rows, in frames that do not overlap.
<1>8. ASSUME NEW id \in folded
      PROVE  held'[id] = IF split /\ id = lowest THEN prefix
                         ELSE IF split /\ id = next THEN suffix
                         ELSE IF id = lowest THEN merged
                         ELSE <<>>
  BY <1>1, <1>3
<1>9. \A id \in SegmentIds \ folded : held'[id] = held[id]
  BY <1>1
<1>10. \A id \in folded : Elems(held'[id]) \subseteq W /\ held'[id] \in Seq(FrameRows) /\ InOrder(held'[id])
  BY <1>5, <1>6, <1>7, <1>8
<1>11. \A r \in W : \E id \in folded : r \in Elems(held'[id])
  <2>1. CASE split
    <3>1. held'[lowest] = prefix /\ held'[next] = suffix
      BY <1>4, <1>8, <2>1
    <3> QED
      BY <1>4, <1>6, <1>7, <3>1
  <2>2. CASE ~split
    <3>1. held'[lowest] = merged
      BY <1>4, <1>8, <2>2
    <3> QED
      BY <1>4, <1>6, <3>1
  <2> QED
    BY <2>1, <2>2
<1>12. \A p, q \in folded : p # q =>
         Earlier(Elems(held'[p]), Elems(held'[q])) \/ Earlier(Elems(held'[q]), Elems(held'[p]))
  <2> SUFFICES ASSUME NEW p \in folded, NEW q \in folded, p # q
               PROVE  Earlier(Elems(held'[p]), Elems(held'[q])) \/ Earlier(Elems(held'[q]), Elems(held'[p]))
    OBVIOUS
  <2>1. CASE held'[p] = <<>> \/ held'[q] = <<>>
    BY <1>5, <2>1 DEF Earlier
  <2>2. CASE ~(held'[p] = <<>> \/ held'[q] = <<>>)
    <3>1. \/ held'[p] = prefix /\ held'[q] = suffix
          \/ held'[p] = suffix /\ held'[q] = prefix
      BY <1>4, <1>8, <2>2
    <3> QED
      BY <1>7, <3>1
  <2> QED
    BY <2>1, <2>2
<1>13. MergeTyped'
  <2>1. \A id \in SegmentIds : held'[id] \in Seq(FrameRows) /\ RunsInOrder(held'[id])
    <3>1. \A id \in folded : RunsInOrder(held'[id])
      BY <1>10, ElemsAre
    <3>2. \A id \in SegmentIds : held[id] \in Seq(FrameRows) /\ RunsInOrder(held[id])
      BY <1>2 DEF MergeTyped
    <3> QED
      BY <1>9, <1>10, <3>1, <3>2
  <2>2. held' \in [SegmentIds -> Seq(FrameRows)]
    <3>1. held' = [id \in SegmentIds |-> held'[id]]
      BY <1>1
    <3> QED
      BY <2>1, <3>1, Zenon
  <2> QED
    BY <1>1, <1>2, <1>5, <2>1, <2>2 DEF MergeTyped
<1>14. /\ Queued' = Queued /\ InHand' = {} /\ LeftOver' = Queued /\ LeftOver = Queued \cup folded
       /\ \A id : RowsOf(id)' = Elems(held'[id])
  BY <1>1, <1>3 DEF Queued, InHand, LeftOver, RowsOf
<1>15. \A id \in SegmentIds : RowsOf(id) \in SUBSET FrameRows
       /\ \A r \in FrameRows : r.t \in Int
  BY <1>2, RowsAre
<1>16. Queued \subseteq SegmentIds /\ \A x \in Queued : x \notin folded
  <2>1. Queued \subseteq SegmentIds
    <3>1. DOMAIN components = 1 .. Len(components)
          /\ \A k \in 1 .. Len(components) : components[k] \subseteq SegmentIds
      BY <1>2 DEF MergeTyped
    <3> QED
      BY <3>1 DEF Queued
  <2>2. ASSUME NEW x \in Queued, x \in folded PROVE FALSE
    <3>1. PICK a \in RowsOf(x) : TRUE
      BY <1>2, <1>14, <2>2 DEF PlaceInv
    <3>2. a.t < a.t /\ a.t \in Int
      BY <1>2, <1>3, <1>15, <2>2 DEF PlaceInv, Earlier
    <3> QED
      BY <3>2
  <2> QED
    BY <2>1, <2>2
\* The rows of a member share no time with those of another frame.
<1>17. ASSUME NEW p \in folded, NEW a \in RowsOf(p), NEW q \in SegmentIds \ folded, NEW b \in RowsOf(q)
       PROVE  a.t # b.t
  <2>1. q \in Queued \/ q \in Over
    BY <1>14 DEF Over
  <2>2. a.t < b.t \/ b.t < a.t
    BY <1>2, <1>3, <1>14, <2>1 DEF PlaceInv, Earlier
  <2>3. a.t \in Int /\ b.t \in Int
    BY <1>3, <1>15
  <2> QED
    BY <2>2, <2>3
<1>18. \A r \in W : r \in FrameRows /\ \E p \in folded : r \in RowsOf(p)
  BY DEF Newest, RowsOf
<1>19. /\ \A id \in SegmentIds \ folded : Elems(held'[id]) = RowsOf(id)
       /\ Over' = Over \cup folded
  <2>1. Over' = SegmentIds \ Queued /\ Over = SegmentIds \ (Queued \cup folded)
    BY <1>1, <1>14 DEF Over
  <2> QED
    BY <1>3, <1>9, <1>16, <2>1 DEF RowsOf
<1> HIDE DEF W
<1>20. SweepInv'
  <2>1. unswept' = {} /\ DOMAIN components' = DOMAIN components /\ components' = components
    BY <1>1, <1>3
  <2>2. ASSUME NEW k \in DOMAIN components, NEW l \in DOMAIN components, k < l,
               NEW p \in components[k], NEW q \in components[l]
        PROVE  Earlier(RowsOf(p), RowsOf(q)) /\ p \in Queued /\ q \in Queued
    BY <1>2, <2>2 DEF SweepInv, Queued
  <2>3. \A x \in Queued : RowsOf(x)' = RowsOf(x)
    BY <1>14, <1>16, <1>19
  <2>4. ASSUME NEW k \in DOMAIN components, NEW l \in DOMAIN components, k < l,
               NEW p \in components[k], NEW q \in components[l]
        PROVE  Earlier(RowsOf(p)', RowsOf(q)')
    BY <2>2, <2>3, <2>4
  <2>5. \A k \in DOMAIN components : components[k] # {}
    BY <1>2 DEF SweepInv
  <2> QED
    BY <2>1, <2>4, <2>5 DEF SweepInv, Earlier
<1>21. PlaceInv'
  <2>1. \A x \in LeftOver' : RowsOf(x)' # {}
    BY <1>2, <1>14, <1>16, <1>19 DEF PlaceInv
  <2>2. \A p \in Over', q \in LeftOver' : Earlier(RowsOf(p)', RowsOf(q)')
    <3> SUFFICES ASSUME NEW p \in Over', NEW q \in Queued PROVE Earlier(RowsOf(p)', RowsOf(q))
      BY <1>14, <1>16, <1>19
    <3>1. CASE p \in folded
      <4>1. \A a \in RowsOf(p)' : \E p0 \in folded : a \in RowsOf(p0)
        BY <1>10, <1>14, <1>18, <3>1
      <4>2. \A p0 \in folded : Earlier(RowsOf(p0), RowsOf(q))
        BY <1>2, <1>3 DEF PlaceInv
      <4> QED
        BY <4>1, <4>2 DEF Earlier
    <3>2. CASE p \notin folded
      <4>1. p \in Over /\ p \in SegmentIds \ folded
        BY <1>19, <3>2 DEF Over
      <4> QED
        BY <1>2, <1>14, <1>19, <4>1 DEF PlaceInv
    <3> QED
      BY <3>1, <3>2
  <2>3. ASSUME NEW p \in Over, NEW q \in folded PROVE Earlier(RowsOf(p)', RowsOf(q)')
    <3>1. \A b \in RowsOf(q)' : \E q0 \in folded : b \in RowsOf(q0)
      BY <1>10, <1>14, <1>18, <2>3
    <3>2. \A q0 \in folded : Earlier(RowsOf(p), RowsOf(q0))
      BY <1>2, <1>14 DEF PlaceInv
    <3>3. RowsOf(p)' = RowsOf(p)
      BY <1>14, <1>19 DEF Over
    <3> QED
      BY <3>1, <3>2, <3>3 DEF Earlier
  <2>4. ASSUME NEW p \in Over, NEW q \in Over, p # q
        PROVE  Earlier(RowsOf(p)', RowsOf(q)') \/ Earlier(RowsOf(q)', RowsOf(p)')
    <3>1. RowsOf(p)' = RowsOf(p) /\ RowsOf(q)' = RowsOf(q)
      BY <1>14, <1>19 DEF Over
    <3> QED
      BY <1>2, <2>4, <3>1 DEF PlaceInv
  <2>5. \A p, q \in Over' : p # q => Earlier(RowsOf(p)', RowsOf(q)') \/ Earlier(RowsOf(q)', RowsOf(p)')
    BY <1>12, <1>14, <1>19, <2>3, <2>4
  <2> QED
    BY <1>1, <1>14, <2>1, <2>2, <2>5 DEF PlaceInv, Earlier
<1>22. FoldInv'
  BY <1>1, <1>5 DEF FoldInv, Ahead, Newest
<1>23. Newest(held', SegmentIds) = Newest(held, SegmentIds)
  <2>1. ASSUME NEW id \in SegmentIds \ folded
        PROVE  Elems(held'[id]) = RowsOf(id) /\ \A t : Has(held'[id], t) <=> Has(held[id], t)
    BY <1>19 DEF Has, RowsOf
  <2>2. ASSUME NEW id \in folded, NEW t, Has(held'[id], t)
        PROVE  \E p \in folded : \E a \in RowsOf(p) : a.t = t
    BY <1>10, <1>18, <2>2 DEF Has
  <2>3. ASSUME NEW r \in Newest(held', SegmentIds) PROVE r \in Newest(held, SegmentIds)
    <3>1. PICK p \in SegmentIds :
            r \in Elems(held'[p]) /\ \A q \in SegmentIds : Has(held'[q], r.t) => q <= p
      BY DEF Newest
    <3>2. r \in FrameRows
      BY DEF Newest
    <3>3. CASE p \notin folded
      <4>1. r \in RowsOf(p)
        BY <2>1, <3>1, <3>3
      <4>2. ASSUME NEW q \in SegmentIds, Has(held[q], r.t) PROVE q <= p
        <5>1. q \notin folded
          <6>1. PICK b \in RowsOf(q) : b.t = r.t
            BY <4>2 DEF Has, RowsOf
          <6> QED
            BY <1>17, <3>3, <4>1, <6>1
        <5> QED
          BY <2>1, <3>1, <4>2, <5>1
      <4> QED
        BY <3>2, <4>1, <4>2 DEF Newest, RowsOf
    <3>4. CASE p \in folded
      <4>1. r \in W
        BY <1>10, <3>1, <3>4
      <4>2. PICK p0 \in folded : r \in Elems(held[p0]) /\ \A q \in folded : Has(held[q], r.t) => q <= p0
        BY <4>1 DEF Newest, W
      <4>3. ASSUME NEW q \in SegmentIds, Has(held[q], r.t) PROVE q \in folded
        <5>1. PICK b \in RowsOf(q) : b.t = r.t
          BY <4>3 DEF Has, RowsOf
        <5>2. r \in RowsOf(p0)
          BY <4>2 DEF RowsOf
        <5> QED
          BY <1>17, <4>2, <5>1, <5>2
      <4> QED
        BY <1>3, <3>2, <4>2, <4>3 DEF Newest
    <3> QED
      BY <3>3, <3>4
  <2>4. ASSUME NEW r \in Newest(held, SegmentIds) PROVE r \in Newest(held', SegmentIds)
    <3>1. PICK p \in SegmentIds :
            r \in Elems(held[p]) /\ \A q \in SegmentIds : Has(held[q], r.t) => q <= p
      BY DEF Newest
    <3>2. r \in FrameRows /\ r \in RowsOf(p)
      BY <3>1 DEF Newest, RowsOf
    <3>3. CASE p \notin folded
      <4>1. r \in Elems(held'[p])
        BY <2>1, <3>2, <3>3
      <4>2. ASSUME NEW q \in SegmentIds, Has(held'[q], r.t) PROVE q <= p
        <5>1. q \notin folded
          <6>1. ASSUME q \in folded PROVE FALSE
            <7>1. PICK p0 \in folded : \E a \in RowsOf(p0) : a.t = r.t
              BY <2>2, <4>2, <6>1
            <7> QED
              BY <1>17, <3>2, <3>3, <7>1
          <6> QED
            BY <6>1
        <5> QED
          BY <2>1, <3>1, <4>2, <5>1
      <4> QED
        BY <3>2, <4>1, <4>2 DEF Newest
    <3>4. CASE p \in folded
      <4>1. r \in W
        BY <1>3, <3>1, <3>2, <3>4 DEF Newest, W
      <4>2. PICK p1 \in folded : r \in Elems(held'[p1])
        BY <1>11, <4>1
      <4>3. ASSUME NEW q \in SegmentIds, Has(held'[q], r.t) PROVE q = p1
        <5>1. CASE q \in folded
          <6>1. PICK x \in Elems(held'[q]) : x.t = r.t
            BY <4>3 DEF Has
          <6>2. r.t \in Int
            BY <1>15, <3>2
          <6>3. q # p1 => r.t < x.t \/ x.t < r.t
            BY <1>12, <4>2, <5>1, <6>1 DEF Earlier
          <6> QED
            BY <6>1, <6>2, <6>3
        <5>2. CASE q \notin folded
          <6>1. PICK b \in RowsOf(q) : b.t = r.t
            BY <2>1, <4>3, <5>2 DEF Has
          <6> QED
            BY <1>17, <3>2, <3>4, <5>2, <6>1
        <5> QED
          BY <5>1, <5>2
      <4>4. p1 \in SegmentIds /\ p1 <= p1
        BY <1>3, <1>4, <4>2
      <4> QED
        BY <3>2, <4>2, <4>3, <4>4 DEF Newest
    <3> QED
      BY <3>3, <3>4
  <2> QED
    BY <2>3, <2>4
<1>24. AnswersInv'
  <2>1. /\ Newest(held, SegmentIds)' = Newest(held', SegmentIds)
        /\ Newest(given, SegmentIds)' = Newest(given, SegmentIds)
    BY <1>1 DEF Newest, SegmentIds
  <2> QED
    BY <1>2, <1>23, <2>1 DEF AnswersInv
<1> QED
  BY <1>13, <1>20, <1>21, <1>22, <1>24 DEF MergeInv

LEMMA NextMerge == MergeAssumption /\ MergeInv /\ [MergeNext]_mergeVars => MergeInv'
<1> SUFFICES ASSUME MergeAssumption, MergeInv, [MergeNext]_mergeVars PROVE MergeInv'
  OBVIOUS
<1>1. CASE UNCHANGED mergeVars
  <2>1. UNCHANGED <<given, held, unswept, components, reach, waiting, folded, older, newer, merged>>
    BY <1>1 DEF mergeVars
  <2>2. FoldInv'
    BY <2>1 DEF MergeInv, FoldInv, Newest
  <2> QED
    BY <2>1, <2>2, FoldOnly DEF MergeInv, MergeTyped
<1> QED
  BY <1>1, SweepKeeps, TakeComponentKeeps, MemberKeeps, LessKeeps, GreaterKeeps, EqualKeeps,
     RestKeeps, OutputsKeep DEF MergeNext

LEMMA InvAnswers == MergeAssumption /\ MergeInv => MergeKeepsAnswers
<1> SUFFICES ASSUME MergeAssumption, MergeInv PROVE MergeKeepsAnswers
  OBVIOUS
<1>1. MergeTyped /\ SweepInv /\ PlaceInv /\ AnswersInv
  BY DEF MergeInv
<1>2. \A t : AnswerAt(held, t) = AnswerAt(given, t)
  <2>1. \A t : AnswerAt(held, t) = {r \in Newest(held, SegmentIds) : r.t = t}
    BY <1>1, AnswerIs DEF MergeTyped
  <2>2. \A t : AnswerAt(given, t) = {r \in Newest(given, SegmentIds) : r.t = t}
    BY <1>1, AnswerIs DEF MergeTyped
  <2> QED
    BY <1>1, <2>1, <2>2 DEF AnswersInv
<1>3. ASSUME unswept = {}, components = <<>>, InHand = {},
             NEW p \in {id \in SegmentIds : held[id] # <<>>},
             NEW q \in {id \in SegmentIds : held[id] # <<>>}, p # q
      PROVE  Hi(p) < Lo(q) \/ Hi(q) < Lo(p)
  <2>1. LeftOver = {}
    <3>1. DOMAIN <<>> = {}
      OBVIOUS
    <3> QED
      BY <1>3, <3>1 DEF LeftOver, Queued
  <2>2. Earlier(RowsOf(p), RowsOf(q)) \/ Earlier(RowsOf(q), RowsOf(p))
    BY <1>1, <1>3, <2>1 DEF PlaceInv, Over
  <2>3. ASSUME NEW id \in SegmentIds, held[id] # <<>>
        PROVE  /\ \E a \in RowsOf(id) : a.t = Lo(id)
               /\ \E a \in RowsOf(id) : a.t = Hi(id)
    <3>1. RowsOf(id) # {}
      BY <1>1, <2>3, ElemsAre DEF RowsOf, MergeTyped
    <3> QED
      BY <1>1, <3>1, SpanIs
  <2>4. (\E a \in RowsOf(p) : a.t = Lo(p)) /\ \E a \in RowsOf(p) : a.t = Hi(p)
    BY <2>3
  <2>5. (\E a \in RowsOf(q) : a.t = Lo(q)) /\ \E a \in RowsOf(q) : a.t = Hi(q)
    BY <2>3
  <2> QED
    BY <2>2, <2>4, <2>5 DEF Earlier
<1>4. \A id \in SegmentIds : RunsInOrder(held[id])
  BY <1>1 DEF MergeTyped
<1> QED
  BY <1>2, <1>3, <1>4, Zenon DEF MergeKeepsAnswers

\* segment_store.rs, split.rs: for any frames of any rows, out of order or not,
\* and any size to split at, every swap leaves each answer what it was, run by
\* run, and when the sweep is done no two frames overlap.
THEOREM MergesKeepAnswers == MergeAssumption => (MergeSpec => []MergeKeepsAnswers)
<1> SUFFICES ASSUME MergeAssumption PROVE MergeSpec => []MergeKeepsAnswers
  OBVIOUS
<1>1. MergeInit => MergeInv
  BY InitMerge
<1>2. MergeInv /\ [MergeNext]_mergeVars => MergeInv'
  BY NextMerge
<1>3. MergeInv => MergeKeepsAnswers
  BY InvAnswers
<1> QED
  BY <1>1, <1>2, <1>3, PTL DEF MergeSpec
=============================================================================

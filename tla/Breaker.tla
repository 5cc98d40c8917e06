------------------------------- MODULE Breaker ------------------------------
(***************************************************************************)
(* The maintenance circuit breaker (segment_store/maint.rs): store-wide     *)
(* sweeps visit the aspects in turn, skip one whose breaker is tripped, and *)
(* record how their pass over each of the others ended.  Sweeps may run     *)
(* together (the daemon's and an operator's), wait for an aspect that other *)
(* maintenance holds, and be dropped anywhere.                              *)
(***************************************************************************)
EXTENDS Integers, Sequences

CONSTANTS
  Sweeps,
  Aspects,    \* names, visited in the order of Order
  Order,
  Threshold,  \* failure_threshold; 0 disables the breaker
  Cooldown,
  MaxTime,    \* bounds the clock
  MaxPasses,  \* bounds the passes recorded of an aspect
  Nobody

VARIABLES
  now,
  breakerState,  \* breaker_state, where [failures |-> 0, until |-> 0] is no entry
  holder,        \* who holds each aspect's maintenance lock: a sweep, or "other"
  sweep,         \* per sweep: [at, i], the aspect it is at and how far it is with it
  recorded       \* history: per aspect, the outcomes recorded, with their times

breakerVars == <<now, breakerState, holder, sweep, recorded>>

BreakerAssumption ==
  Threshold \in Nat /\ Cooldown \in Nat /\ Order \in Seq(Aspects)

Closed == [failures |-> 0, until |-> 0]
NoSweep == [at |-> "idle", i |-> 0]

BreakerTypeOK ==
  /\ now \in 1 .. MaxTime
  /\ breakerState \in [Aspects -> [failures : 0 .. MaxPasses, until : 0 .. MaxTime + Cooldown]]
  /\ holder \in [Aspects -> Sweeps \cup {"other", Nobody}]
  /\ sweep \in [Sweeps -> [at : {"idle", "look", "take", "pass"}, i : 0 .. Len(Order)]]
  /\ \A s \in Sweeps : sweep[s].at = "pass" <=> \E a \in Aspects : holder[a] = s

BreakerInit ==
  /\ now = 1
  /\ breakerState = [a \in Aspects |-> Closed]
  /\ holder = [a \in Aspects |-> Nobody]
  /\ sweep = [s \in Sweeps |-> NoSweep]
  /\ recorded = [a \in Aspects |-> <<>>]

At(s) == Order[sweep[s].i]
Step(s, where) == sweep' = [sweep EXCEPT ![s].at = where]
NextAspect(s) ==
  sweep' = [sweep EXCEPT ![s] = IF @.i = Len(Order) THEN NoSweep
                                ELSE [at |-> "look", i |-> @.i + 1]]

-----------------------------------------------------------------------------
BeginSweep(s) ==
  /\ sweep[s] = NoSweep
  /\ sweep' = [sweep EXCEPT ![s] = [at |-> "look", i |-> 1]]
  /\ UNCHANGED <<now, breakerState, holder, recorded>>

\* breaker_permits.
Permits(a) == Threshold = 0 \/ breakerState[a].until <= now

\* Whether to attempt the aspect is decided before its lock is taken.
Look(s) ==
  /\ sweep[s].at = "look"
  /\ IF Permits(At(s)) THEN Step(s, "take") ELSE NextAspect(s)
  /\ UNCHANGED <<now, breakerState, holder, recorded>>

\* try_maint or maint_within.
TakeLock(s) ==
  /\ sweep[s].at = "take" /\ holder[At(s)] = Nobody
  /\ holder' = [holder EXCEPT ![At(s)] = s]
  /\ Step(s, "pass")
  /\ UNCHANGED <<now, breakerState, recorded>>

\* The lock is held, now or until the deadline: that is no failure.
Busy(s) ==
  /\ sweep[s].at = "take" /\ holder[At(s)] # Nobody
  /\ NextAspect(s)
  /\ UNCHANGED <<now, breakerState, holder, recorded>>

BugCountFailure(e) ==
  [failures |-> e.failures + 1, until |-> IF e.failures = Threshold - 1 THEN now + Cooldown ELSE e.until]

\* breaker_count_failure: each failure from the threshold on begins the
\* cooldown again.
CountFailure(e) ==
  LET n == e.failures + 1 IN
  [failures |-> n, until |-> IF n >= Threshold THEN now + Cooldown ELSE e.until]

\* breaker_record, before the guard is dropped.
Record(a, failed) ==
  /\ Len(recorded[a]) < MaxPasses
  /\ recorded' = [recorded EXCEPT ![a] = Append(@, [failed |-> failed, time |-> now])]
  /\ IF Threshold = 0 THEN UNCHANGED breakerState
     ELSE breakerState' = [breakerState EXCEPT ![a] = IF failed THEN CountFailure(@) ELSE Closed]

Pass(s) ==
  /\ sweep[s].at = "pass"
  /\ \E failed \in BOOLEAN : Record(At(s), failed)
  /\ holder' = [holder EXCEPT ![At(s)] = Nobody]
  /\ NextAspect(s)
  /\ UNCHANGED now

\* The sweep's future is dropped: its guard goes, and it records nothing.
Drop(s) ==
  /\ sweep[s] # NoSweep
  /\ sweep' = [sweep EXCEPT ![s] = NoSweep]
  /\ holder' = [a \in Aspects |-> IF holder[a] = s THEN Nobody ELSE holder[a]]
  /\ UNCHANGED <<now, breakerState, recorded>>

\* Maintenance of one aspect asks no breaker, and its outcome is not recorded.
OtherTakes(a) ==
  /\ holder[a] = Nobody
  /\ holder' = [holder EXCEPT ![a] = "other"]
  /\ UNCHANGED <<now, breakerState, sweep, recorded>>

OtherDone(a) ==
  /\ holder[a] = "other"
  /\ holder' = [holder EXCEPT ![a] = Nobody]
  /\ UNCHANGED <<now, breakerState, sweep, recorded>>

Tick ==
  /\ now < MaxTime
  /\ now' = now + 1
  /\ UNCHANGED <<breakerState, holder, sweep, recorded>>

BreakerNext ==
  \/ Tick
  \/ \E s \in Sweeps : BeginSweep(s) \/ Look(s) \/ TakeLock(s) \/ Busy(s) \/ Pass(s) \/ Drop(s)
  \/ \E a \in Aspects : OtherTakes(a) \/ OtherDone(a)

BreakerSpec == BreakerInit /\ [][BreakerNext]_breakerVars

-----------------------------------------------------------------------------
\* breaker_tripped, what the store tells of an aspect.
Tripped(a) == Threshold # 0 /\ breakerState[a].until > now

\* MaintenanceBreaker: an aspect is passed over exactly while its last passes
\* that any sweep recorded, Threshold of them at least, all failed, and the
\* last of them is younger than the cooldown; whatever sweeps were let in
\* before it tripped, were busy, or were dropped.
TrippedIffEarned ==
  \A a \in Aspects :
    LET log == recorded[a]
        last == Len(log)
        earned == /\ Threshold # 0 /\ last >= Threshold
                  /\ \A i \in last - Threshold + 1 .. last : log[i].failed
                  /\ now < log[last].time + Cooldown
    IN Tripped(a) <=> earned
=============================================================================

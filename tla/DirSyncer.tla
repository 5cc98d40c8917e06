----------------------------- MODULE DirSyncer -----------------------------
(***************************************************************************)
(* The fsyncs of segments/, shared by everyone who changes it              *)
(* (durable/dirsync.rs).  Callers change the directory and then call sync; *)
(* one fsync at a time runs in a task of its own, the flight, and a caller *)
(* returns once an fsync that began after its call has completed.  A call  *)
(* may be cancelled where it awaits; the flight may fail, or be dropped    *)
(* with its runtime.                                                       *)
(*                                                                         *)
(* The directory is a sequence of numbered changes.  A call of sync is the *)
(* steps between two takings of the state's mutex.                         *)
(***************************************************************************)
EXTENDS Naturals

CONSTANTS
  Callers,
  MaxCalls  \* bound: how many calls of sync are made

ASSUME MaxCallsAssumption == MaxCalls \in Nat

VARIABLES
  requested,   \* State: the generation handed to the latest call
  completed,   \* the generation up to which calls are covered
  poisoned,    \* whether an fsync failed
  flight,      \* where the fsync in flight stands
  covers,      \* the generation it covers
  notifying,   \* how many flights published their result and have still to notify
  pc,          \* where each caller stands
  generation,  \* the generation of its call
  notified,    \* whether it was notified since it last enabled its Notified
  (* the directory *)
  made,     \* how many changes were made to it
  need,     \* caller -> its latest change
  seen,     \* the changes the running fsync found
  safe,     \* those up to here reached the disk
  dropped,  \* those the kernel dropped when an fsync failed
  fsyncs    \* history: how many fsyncs were claimed

state == <<requested, completed, poisoned, flight, covers, notifying>>
callers == <<pc, generation, notified>>
directory == <<made, need, seen, safe, dropped>>
vars == <<state, callers, directory, fsyncs>>

\* "enable": about to enable its Notified; "check": about to look at the
\* state; "wait": awaiting the notification.
Pc == {"idle", "enable", "check", "wait", "ok", "err"}
Calling == {"enable", "check", "wait"}

\* "claimed": begun, and not yet polled; "syncing": in the fsync; "synced" and
\* "failed": about to publish.
Flight == {"none", "claimed", "syncing", "synced", "failed"}

TypeOK ==
  /\ requested \in Nat /\ completed \in Nat /\ poisoned \in BOOLEAN
  /\ flight \in Flight /\ covers \in Nat /\ notifying \in Nat
  /\ pc \in [Callers -> Pc]
  /\ generation \in [Callers -> Nat] /\ notified \in [Callers -> BOOLEAN]
  /\ made \in Nat /\ need \in [Callers -> Nat]
  /\ seen \in Nat /\ safe \in Nat /\ dropped \in SUBSET Nat
  /\ fsyncs \in Nat

Init ==
  /\ requested = 0 /\ completed = 0 /\ poisoned = FALSE
  /\ flight = "none" /\ covers = 0 /\ notifying = 0
  /\ pc = [c \in Callers |-> "idle"]
  /\ generation = [c \in Callers |-> 0] /\ notified = [c \in Callers |-> FALSE]
  /\ made = 0 /\ need = [c \in Callers |-> 0]
  /\ seen = 0 /\ safe = 0 /\ dropped = {}
  /\ fsyncs = 0
-----------------------------------------------------------------------------
(* The callers *)

Goes(c, p) == pc' = [pc EXCEPT ![c] = p]

\* The call ends, and with it what it kept.
Returns(c, p) ==
  /\ Goes(c, p)
  /\ generation' = [generation EXCEPT ![c] = 0]
  /\ notified' = [notified EXCEPT ![c] = FALSE]

\* The caller creates, renames or removes an entry, before it calls.
Change(c) ==
  /\ pc[c] \in {"idle", "ok", "err"} /\ requested < MaxCalls
  /\ made < MaxCalls
  /\ made' = made + 1
  /\ need' = [need EXCEPT ![c] = made']
  /\ Goes(c, "idle")
  /\ UNCHANGED <<state, generation, notified, seen, safe, dropped, fsyncs>>

Call(c) ==
  /\ pc[c] = "idle" /\ requested < MaxCalls
  /\ IF poisoned
     THEN Goes(c, "err") /\ UNCHANGED <<requested, generation>>
     ELSE /\ requested' = requested + 1
          /\ generation' = [generation EXCEPT ![c] = requested']
          /\ Goes(c, "enable")
  /\ UNCHANGED <<completed, poisoned, flight, covers, notifying, notified, directory, fsyncs>>

Enable(c) ==
  /\ pc[c] = "enable"
  /\ Goes(c, "check")
  /\ notified' = [notified EXCEPT ![c] = FALSE]
  /\ UNCHANGED <<state, generation, directory, fsyncs>>

BugBegin ==
  /\ flight' = "claimed"
  /\ covers' = completed
  /\ fsyncs' = fsyncs + 1

\* Flight::begin, for the calls made so far.
Begin ==
  /\ flight' = "claimed"
  /\ covers' = requested
  /\ fsyncs' = fsyncs + 1

BugCheckPoison(c) ==
  /\ pc[c] = "check"
  /\ \/ /\ completed >= generation[c]
        /\ Returns(c, "ok") /\ UNCHANGED <<flight, covers, fsyncs>>
     \/ /\ completed < generation[c]
        /\ Goes(c, "wait") /\ UNCHANGED <<generation, notified>>
        /\ IF flight = "none" THEN Begin ELSE UNCHANGED <<flight, covers, fsyncs>>
  /\ UNCHANGED <<requested, completed, poisoned, notifying, directory>>

\* A covering fsync counts even if a later one failed.
Check(c) ==
  /\ pc[c] = "check"
  /\ \/ /\ completed >= generation[c]
        /\ Returns(c, "ok") /\ UNCHANGED <<flight, covers, fsyncs>>
     \/ /\ completed < generation[c] /\ poisoned
        /\ Returns(c, "err") /\ UNCHANGED <<flight, covers, fsyncs>>
     \/ /\ completed < generation[c] /\ ~poisoned
        /\ Goes(c, "wait") /\ UNCHANGED <<generation, notified>>
        /\ IF flight = "none" THEN Begin ELSE UNCHANGED <<flight, covers, fsyncs>>
  /\ UNCHANGED <<requested, completed, poisoned, notifying, directory>>

Wake(c) ==
  /\ pc[c] = "wait" /\ notified[c]
  /\ Goes(c, "enable")
  /\ UNCHANGED <<state, generation, notified, directory, fsyncs>>

\* The call's future is dropped at its await.
Cancel(c) ==
  /\ pc[c] = "wait"
  /\ Returns(c, "idle")
  /\ UNCHANGED <<state, directory, fsyncs>>
-----------------------------------------------------------------------------
(* The flight *)

\* The task is polled: the fsync begins, and finds the changes made so far.
Run ==
  /\ flight = "claimed"
  /\ flight' = "syncing"
  /\ seen' = made
  /\ UNCHANGED <<requested, completed, poisoned, covers, notifying, callers, made, need, safe, dropped, fsyncs>>

Synced ==
  /\ flight = "syncing"
  /\ flight' = "synced"
  /\ safe' = seen
  /\ UNCHANGED <<requested, completed, poisoned, covers, notifying, callers, made, need, seen, dropped, fsyncs>>

\* The kernel drops the changes it could not write, and forgets that it did.
Failed ==
  /\ flight = "syncing"
  /\ flight' = "failed"
  /\ dropped' = dropped \cup safe + 1..made
  /\ UNCHANGED <<requested, completed, poisoned, covers, notifying, callers, made, need, seen, safe, fsyncs>>

\* The task ends without a result: refused by a runtime that shuts down, or
\* dropped by it, or it panicked.
Dropped ==
  /\ flight \in {"claimed", "syncing"}
  /\ flight' = "failed"
  /\ UNCHANGED <<requested, completed, poisoned, covers, notifying, callers, directory, fsyncs>>

MaxOf(a, b) == IF a < b THEN b ELSE a

\* It covers whoever has called by now.
BugPublish ==
  /\ flight \in {"synced", "failed"}
  /\ flight' = "none"
  /\ IF flight = "synced"
     THEN completed' = requested /\ UNCHANGED poisoned
     ELSE poisoned' = TRUE /\ UNCHANGED completed
  /\ notifying' = notifying + 1
  /\ UNCHANGED <<requested, covers, callers, directory, fsyncs>>

\* Drop for Flight, under the mutex; the waiters are notified after it.
Publish ==
  /\ flight \in {"synced", "failed"}
  /\ flight' = "none"
  /\ IF flight = "synced"
     THEN completed' = MaxOf(completed, covers) /\ UNCHANGED poisoned
     ELSE poisoned' = TRUE /\ UNCHANGED completed
  /\ notifying' = notifying + 1
  /\ UNCHANGED <<requested, covers, callers, directory, fsyncs>>

\* One of those that wait is notified, as by notify_one.
BugNotifyWaiters ==
  /\ notifying > 0
  /\ notifying' = notifying - 1
  /\ LET waiting == {c \in Callers : pc[c] \in {"check", "wait"}}
     IN \/ waiting = {} /\ UNCHANGED notified
        \/ \E w \in waiting : notified' = [notified EXCEPT ![w] = TRUE]
  /\ UNCHANGED <<requested, completed, poisoned, flight, covers, pc, generation, directory, fsyncs>>

NotifyWaiters ==
  /\ notifying > 0
  /\ notifying' = notifying - 1
  /\ notified' = [c \in Callers |-> notified[c] \/ pc[c] \in {"check", "wait"}]
  /\ UNCHANGED <<requested, completed, poisoned, flight, covers, pc, generation, directory, fsyncs>>

CallStep(c) == Enable(c) \/ Check(c) \/ Wake(c)
FlightStep == Run \/ Synced \/ Failed \/ Dropped \/ Publish \/ NotifyWaiters

Next ==
  \/ \E c \in Callers : Change(c) \/ Call(c) \/ CallStep(c) \/ Cancel(c)
  \/ FlightStep

Spec == Init /\ [][Next]_vars

\* A caller that was woken is polled, and so is the flight's task; an fsync
\* ends, one way or the other.
FairSpec == Spec /\ WF_vars(FlightStep) /\ \A c \in Callers : WF_vars(CallStep(c))
-----------------------------------------------------------------------------

\* A call that returns Ok has its changes on the disk: an fsync that began
\* after them succeeded, and none that failed before it dropped them
\* (DirSyncer::sync).
OkMeansDurable ==
  \A c \in Callers : pc[c] = "ok" => need[c] <= safe /\ need[c] \notin dropped

\* After a failure nothing is fsynced again, since a success "would not prove"
\* anything (DirSyncer).
NoFsyncAfterFailure == [][poisoned => poisoned' /\ flight' = "none"]_vars

\* N calls cost at most N fsyncs, cancelled ones included (dirsync.rs, module
\* doc).
AtMostOneEach == fsyncs <= requested

\* Every call that is not cancelled returns: no wake-up is missed, and a
\* flight that fails or a caller that is cancelled strands nobody.
EveryCallReturns == \A c \in Callers : pc[c] \in Calling ~> pc[c] \notin Calling
-----------------------------------------------------------------------------
(* What makes these inductive *)

\* Where a call stands to the counters, and its change to the disk.
CallInv(c) ==
  /\ need[c] <= made
  /\ pc[c] \in Calling =>
       /\ generation[c] > 0 /\ generation[c] <= requested
       /\ generation[c] <= completed => need[c] <= safe
       /\ flight \in {"syncing", "synced"} /\ generation[c] <= covers => need[c] <= seen
  /\ pc[c] = "ok" => need[c] <= safe

\* The fsync in flight covers a call that none before it covered; it found at
\* least what is safe already; and it is the last once one failed.
FlightInv ==
  /\ completed <= requested
  /\ flight # "none" => completed < covers /\ covers <= requested /\ ~poisoned
  /\ flight = "syncing" => safe <= seen /\ seen <= made
  /\ flight = "synced" => safe = seen
  /\ safe <= made
  /\ \A n \in dropped : safe < n
  /\ dropped = {} \/ poisoned \/ flight = "failed"

CostInv ==
  fsyncs <= IF flight # "none" THEN covers
            ELSE IF poisoned THEN requested ELSE completed

IInv == TypeOK /\ FlightInv /\ CostInv /\ \A c \in Callers : CallInv(c)
=============================================================================

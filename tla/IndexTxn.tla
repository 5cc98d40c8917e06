------------------------------ MODULE IndexTxn ------------------------------
(***************************************************************************)
(* index_txn.rs: a list of operations in one BEGIN CONCURRENT ... COMMIT,   *)
(* retried on a fresh snapshot after a conflict when that is safe, and the  *)
(* poison that an ambiguous COMMIT leaves (commit_index).                   *)
(*                                                                          *)
(* The engine is snapshot isolation: a transaction works on the rows of its *)
(* BEGIN, a statement may find the database busy or another writer's row,   *)
(* and COMMIT refuses when a row it wrote has changed since.                *)
(***************************************************************************)
EXTENDS Integers, Sequences, FiniteSets

CONSTANTS
  Keys, SeqKey, Txns, Ops,  \* as in AtomicTxns
  MaxRetries,            \* MAX_RETRIES
  Faults                 \* the errors the engine may raise: "definite", "ambiguous"

VARIABLES
  rows,      \* the committed rows
  seen,      \* per transaction, the rows its caller decided from
  based,     \* per transaction, the rows of its last BEGIN
  answer,    \* what its caller was told
  pc,        \* where it is
  work,      \* those with its own writes
  applied,   \* how many operations have run in this attempt
  attempts,  \* how many attempts it has made
  poisoned,  \* the store's poison
  late       \* history: how many attempts it began under the poison

private == <<pc, work, applied>>
vars == <<rows, seen, based, answer, private, attempts, poisoned, late>>

Atomic == INSTANCE AtomicTxns

\* A transaction has its number, and touches a row once.
OpsAssumption ==
  /\ Txns \subseteq Nat /\ MaxRetries \in Nat /\ SeqKey \in Keys
  /\ \A t \in Txns :
       /\ Ops[t] \in Seq([kind : Atomic!Kinds, key : Keys])
       /\ \A i, j \in DOMAIN Ops[t] : Ops[t][i].key = Ops[t][j].key => i = j

TypeOK ==
  /\ rows \in [Keys -> Txns \cup {0, Atomic!Absent}]
  /\ pc \in [Txns -> {"idle", "read", "ready", "open", "backoff", "done"}]
  /\ answer \in [Txns -> {"none", "ok", "retryable", "conflict", "definite", "ambiguous"}]
  /\ \A t \in Txns : applied[t] \in 0 .. Len(Ops[t]) /\ attempts[t] \in 0 .. MaxRetries + 1
  /\ poisoned \in BOOLEAN
  /\ \A t \in Txns : pc[t] = "done" <=> answer[t] # "none"

Goto(t, where) == pc' = [pc EXCEPT ![t] = where]

Init ==
  /\ Atomic!Init
  /\ pc = [t \in Txns |-> "idle"]
  /\ work = [t \in Txns |-> Atomic!None]
  /\ applied = [t \in Txns |-> 0] /\ attempts = [t \in Txns |-> 0]
  /\ poisoned = FALSE /\ late = [t \in Txns |-> 0]

-----------------------------------------------------------------------------
\* The caller reads what it decides from.
Look(t) ==
  /\ pc[t] = "idle"
  /\ seen' = [seen EXCEPT ![t] = rows]
  /\ Goto(t, "read")
  /\ UNCHANGED <<rows, based, answer, work, applied, attempts, poisoned, late>>

Answer(t, a) ==
  /\ answer' = [answer EXCEPT ![t] = a]
  /\ Goto(t, "done")

\* commit_index: a poisoned store is refused before anything else.
Writable(t) ==
  /\ pc[t] = "read"
  /\ IF poisoned THEN Answer(t, "definite") ELSE Goto(t, "ready") /\ UNCHANGED answer
  /\ UNCHANGED <<rows, seen, based, work, applied, attempts, poisoned, late>>

\* BEGIN, on a connection of its own.
Begin(t) ==
  /\ pc[t] = "ready"
  /\ based' = [based EXCEPT ![t] = rows] /\ work' = [work EXCEPT ![t] = rows]
  /\ applied' = [applied EXCEPT ![t] = 0]
  /\ attempts' = [attempts EXCEPT ![t] = @ + 1]
  /\ late' = [late EXCEPT ![t] = @ + IF poisoned THEN 1 ELSE 0]
  /\ Goto(t, "open")
  /\ UNCHANGED <<rows, seen, answer, poisoned>>

BugMayRetry(t, opsRan) == attempts[t] <= MaxRetries

\* run_while: operations that re-check nothing must not run on a second
\* snapshot.
MayRetry(t, opsRan) == (~opsRan \/ Atomic!AllGuarded(t)) /\ attempts[t] <= MaxRetries

\* A conflict: a busy database, a stale snapshot, a row of another writer.
Conflicted(t, opsRan) ==
  IF MayRetry(t, opsRan)
  THEN Goto(t, "backoff") /\ UNCHANGED answer
  ELSE Answer(t, "retryable")

BeginFails(t) ==
  /\ pc[t] = "ready"
  /\ attempts' = [attempts EXCEPT ![t] = @ + 1]
  /\ late' = [late EXCEPT ![t] = @ + IF poisoned THEN 1 ELSE 0]
  /\ \/ IF attempts[t] < MaxRetries
        THEN Goto(t, "backoff") /\ UNCHANGED answer ELSE Answer(t, "retryable")
     \/ "definite" \in Faults /\ Answer(t, "definite")
  /\ UNCHANGED <<rows, seen, based, work, applied, poisoned>>

\* The precondition, on this attempt's snapshot.
Expected(t, op) == Atomic!Expects(op, seen[t][op.key], work[t][op.key])

Running(t) == pc[t] = "open" /\ applied[t] < Len(Ops[t])
Op(t) == Ops[t][applied[t] + 1]

Apply(t) ==
  /\ Running(t) /\ Expected(t, Op(t))
  /\ work' = [work EXCEPT ![t][Op(t).key] = Atomic!Makes(t, Op(t), @)]
  /\ applied' = [applied EXCEPT ![t] = @ + 1]
  /\ UNCHANGED <<rows, seen, based, answer, pc, attempts, poisoned, late>>

ApplyFails(t) ==
  /\ Running(t)
  /\ \/ ~Expected(t, Op(t)) /\ Answer(t, "conflict")
     \/ Conflicted(t, TRUE)
     \/ "definite" \in Faults /\ Answer(t, "definite")
  /\ UNCHANGED <<rows, seen, based, work, applied, attempts, poisoned, late>>

-----------------------------------------------------------------------------
(* COMMIT. *)

Committing(t) == pc[t] = "open" /\ applied[t] = Len(Ops[t])
Valid(t) == \A k \in Atomic!Written(t) : rows[k] = based[t][k]

\* What the commit leaves in the database: its own rows, over those of others.
Merged(t) == [k \in Keys |-> IF k \in Atomic!Written(t) THEN work[t][k] ELSE rows[k]]

Commit(t) ==
  /\ Committing(t) /\ Valid(t)
  /\ rows' = Merged(t)
  /\ Answer(t, "ok")
  /\ UNCHANGED <<seen, based, work, applied, attempts, poisoned, late>>

\* The conflicts that validation finds, before the log record is written.
CommitConflicts(t) ==
  /\ Committing(t) /\ ~Valid(t)
  /\ Conflicted(t, TRUE)
  /\ UNCHANGED <<rows, seen, based, work, applied, attempts, poisoned, late>>

\* commit_error_kind: any other error is ambiguous, and poisons the store.
Unknown(t) == Answer(t, "ambiguous") /\ poisoned' = TRUE

CommitUnknown(t) ==
  /\ Committing(t) /\ Valid(t) /\ "ambiguous" \in Faults
  /\ rows' \in {rows, Merged(t)}
  /\ Unknown(t)
  /\ UNCHANGED <<seen, based, work, applied, attempts, late>>

BugAllowed == TRUE

\* may_retry, after the backoff.
Allowed == ~poisoned

Backoff(t) ==
  /\ pc[t] = "backoff"
  /\ IF Allowed THEN Goto(t, "ready") /\ UNCHANGED answer ELSE Answer(t, "retryable")
  /\ UNCHANGED <<rows, seen, based, work, applied, attempts, poisoned, late>>

-----------------------------------------------------------------------------
Step(t) ==
  \/ Look(t) \/ Writable(t) \/ Begin(t) \/ BeginFails(t) \/ Apply(t) \/ ApplyFails(t)
  \/ Commit(t) \/ CommitConflicts(t) \/ CommitUnknown(t) \/ Backoff(t)

Next == \E t \in Txns : Step(t)

Spec == Init /\ [][Next]_vars

-----------------------------------------------------------------------------
\* index_txn.rs: "commit together or not at all", and a retry never overwrites
\* or deletes a row that another writer committed in between.
IsAtomic == Atomic!Spec

\* run_while's may_retry: after an ambiguous COMMIT a transaction makes at most
\* the one attempt it had been allowed before.
PoisonStops == \A t \in Txns : late[t] <= 1
=============================================================================

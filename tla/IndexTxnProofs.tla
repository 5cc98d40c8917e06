--------------------------- MODULE IndexTxnProofs ---------------------------
(***************************************************************************)
(* Theorems about IndexTxn, for any transactions, operations, number of     *)
(* retries and faults: it implements AtomicTxns, and the poison ends the    *)
(* retries.                                                                 *)
(***************************************************************************)
EXTENDS IndexTxn, SequenceTheorems, TLAPS

-----------------------------------------------------------------------------
(* Types. *)

Values == Txns \cup {0, Atomic!Absent}
Rows == [Keys -> Values]

RowsTyped ==
  /\ rows \in Rows
  /\ work \in [Txns -> Rows] /\ seen \in [Txns -> Rows] /\ based \in [Txns -> Rows]

Places == {"idle", "read", "ready", "open", "backoff", "done"}
Answers == {"none", "ok", "retryable", "conflict", "definite", "ambiguous"}

ControlTyped ==
  /\ pc \in [Txns -> Places] /\ answer \in [Txns -> Answers]
  /\ \A t \in Txns : pc[t] = "done" <=> answer[t] # "none"
  /\ poisoned \in BOOLEAN

\* An attempt may begin only while there are retries left.
CountsTyped ==
  /\ applied \in [Txns -> Nat] /\ attempts \in [Txns -> Nat]
  /\ \A t \in Txns :
       /\ applied[t] <= Len(Ops[t]) /\ attempts[t] <= MaxRetries + 1
       /\ pc[t] \in {"ready", "backoff", "idle", "read"} => attempts[t] <= MaxRetries

LEMMA OpsTyped ==
  ASSUME OpsAssumption, NEW t \in Txns
  PROVE  /\ Len(Ops[t]) \in Nat /\ DOMAIN Ops[t] = 1 .. Len(Ops[t])
         /\ \A i \in 1 .. Len(Ops[t]) : Ops[t][i] \in [kind : Atomic!Kinds, key : Keys]
<1>1. Ops[t] \in Seq([kind : Atomic!Kinds, key : Keys])
  BY DEF OpsAssumption
<1> QED
  BY <1>1, ElementOfSeq, LenProperties

\* The operation that runs next names a row.
LEMMA OpTyped ==
  ASSUME OpsAssumption, CountsTyped, NEW t \in Txns, Running(t)
  PROVE  /\ applied[t] + 1 \in 1 .. Len(Ops[t])
         /\ Op(t).key \in Keys /\ Op(t).kind \in Atomic!Kinds
<1>1. applied[t] + 1 \in 1 .. Len(Ops[t])
  BY OpsTyped, SMT DEF CountsTyped, Running
<1>2. Op(t) \in [kind : Atomic!Kinds, key : Keys]
  BY <1>1, OpsTyped DEF Op
<1> QED
  BY <1>1, <1>2

\* What an operation makes of a row is the transaction's number, the old value
\* or none.
LEMMA MakesTyped ==
  ASSUME OpsAssumption, NEW t \in Txns, NEW op, NEW found \in Values
  PROVE  Atomic!Makes(t, op, found) \in Values
BY SMT DEF Atomic!Makes, Values

LEMMA MergedTyped ==
  ASSUME RowsTyped, NEW t \in Txns
  PROVE  Merged(t) \in Rows
BY SMT DEF RowsTyped, Rows, Merged

LEMMA StepRowsTyped ==
  ASSUME OpsAssumption, RowsTyped, CountsTyped, NEW t \in Txns, Step(t)
  PROVE  RowsTyped'
<1>1. CASE Look(t) \/ Begin(t)
  BY <1>1, SMT DEF RowsTyped, Look, Begin
<1>4. CASE Writable(t) \/ BeginFails(t) \/ ApplyFails(t) \/ CommitConflicts(t) \/ Backoff(t)
  <2>1. UNCHANGED <<rows, work, seen, based>>
    BY <1>4 DEF Writable, BeginFails, ApplyFails, CommitConflicts, Backoff
  <2> QED
    BY <2>1 DEF RowsTyped
<1>2. CASE Apply(t)
  <2>1. Op(t).key \in Keys
    BY <1>2, OpTyped DEF Apply
  <2>2. work[t] \in Rows
    BY DEF RowsTyped
  <2>3. Atomic!Makes(t, Op(t), work[t][Op(t).key]) \in Values
    BY <2>1, <2>2, MakesTyped DEF Rows
  <2>4. [work[t] EXCEPT ![Op(t).key] = Atomic!Makes(t, Op(t), @)] \in Rows
    BY <2>1, <2>2, <2>3, SMT DEF Rows
  <2>5. work' = [work EXCEPT ![t] = [work[t] EXCEPT ![Op(t).key] = Atomic!Makes(t, Op(t), @)]]
    BY <1>2 DEF Apply
  <2> QED
    BY <1>2, <2>4, <2>5, SMT DEF Apply, RowsTyped
<1>3. CASE Commit(t) \/ CommitUnknown(t)
  BY <1>3, MergedTyped, SMT DEF Commit, CommitUnknown, RowsTyped
<1> QED
  BY <1>1, <1>2, <1>3, <1>4 DEF Step

LEMMA ConflictOutcome ==
  ASSUME NEW t \in Txns, NEW opsRan, Conflicted(t, opsRan)
  PROVE  \/ Answer(t, "retryable")
         \/ Goto(t, "backoff") /\ UNCHANGED answer
<1>1. CASE MayRetry(t, opsRan)
  BY <1>1 DEF Conflicted
<1>2. CASE ~MayRetry(t, opsRan)
  BY <1>2 DEF Conflicted
<1> QED
  BY <1>1, <1>2

LEMMA StepControlTyped ==
  ASSUME ControlTyped, NEW t \in Txns, Step(t)
  PROVE  ControlTyped'
<1> USE DEF ControlTyped, Goto, Answer, Places, Answers
<1>1. CASE Look(t) \/ Writable(t) \/ Begin(t)
  BY <1>1, SMT DEF Look, Writable, Begin
<1>2. CASE BeginFails(t) \/ Backoff(t)
  BY <1>2, SMT DEF BeginFails, Backoff
<1>3. CASE Apply(t)
  BY <1>3, SMT DEF Apply
<1>4. CASE ApplyFails(t)
  <2>1. \/ \E a \in {"conflict", "definite", "retryable"} : Answer(t, a)
        \/ Goto(t, "backoff") /\ UNCHANGED answer
    BY <1>4, ConflictOutcome DEF ApplyFails
  <2> QED
    BY <1>4, <2>1, SMT DEF ApplyFails, Running
<1>5. CASE Commit(t)
  BY <1>5, SMT DEF Commit, Committing
<1>6. CASE CommitConflicts(t)
  <2>1. \/ Answer(t, "retryable")
        \/ Goto(t, "backoff") /\ UNCHANGED answer
    BY <1>6, ConflictOutcome DEF CommitConflicts
  <2> QED
    BY <1>6, <2>1, SMT DEF CommitConflicts, Committing
<1>7. CASE CommitUnknown(t)
  BY <1>7, SMT DEF CommitUnknown, Unknown, Committing
<1> QED
  BY <1>1, <1>2, <1>3, <1>4, <1>5, <1>6, <1>7 DEF Step

LEMMA StepCountsTyped ==
  ASSUME OpsAssumption, ControlTyped, CountsTyped, NEW t \in Txns, Step(t)
  PROVE  CountsTyped'
<1> USE DEF CountsTyped, ControlTyped, Goto, Answer
<1>0. MaxRetries \in Nat /\ \A u \in Txns : Len(Ops[u]) \in Nat
  BY OpsTyped DEF OpsAssumption
<1>1. CASE Look(t) \/ Writable(t)
  BY <1>0, <1>1, SMT DEF Look, Writable
<1>2. CASE Begin(t)
  BY <1>0, <1>2, SMT DEF Begin
<1>3. CASE BeginFails(t)
  BY <1>0, <1>3, SMT DEF BeginFails
<1>4. CASE Backoff(t)
  BY <1>0, <1>4, SMT DEF Backoff
<1>5. CASE Apply(t)
  BY <1>0, <1>5, SMT DEF Apply, Running
<1>6. CASE ApplyFails(t)
  BY <1>0, <1>6, SMT DEF ApplyFails, Conflicted, MayRetry, Running
<1>7. CASE CommitConflicts(t)
  BY <1>0, <1>7, SMT DEF CommitConflicts, Conflicted, MayRetry, Committing
<1>8. CASE Commit(t) \/ CommitUnknown(t)
  BY <1>0, <1>8, SMT DEF Commit, CommitUnknown, Unknown, Committing
<1> QED
  BY <1>1, <1>2, <1>3, <1>4, <1>5, <1>6, <1>7, <1>8 DEF Step

Typed == RowsTyped /\ ControlTyped /\ CountsTyped

LEMMA StepTyped ==
  ASSUME OpsAssumption, Typed, [Next]_vars
  PROVE  Typed'
<1>1. CASE UNCHANGED vars
  BY <1>1 DEF vars, private, Typed, RowsTyped, ControlTyped, CountsTyped
<1>2. CASE Next
  BY <1>2, StepRowsTyped, StepControlTyped, StepCountsTyped DEF Next, Typed
<1> QED
  BY <1>1, <1>2

LEMMA InitTyped == ASSUME OpsAssumption PROVE Init => Typed
<1> SUFFICES ASSUME Init PROVE Typed
  OBVIOUS
<1>0. MaxRetries \in Nat /\ \A u \in Txns : Len(Ops[u]) \in Nat
  BY OpsTyped DEF OpsAssumption
<1>1. RowsTyped
  BY SMT DEF Init, Atomic!Init, RowsTyped, Rows, Values, Atomic!None
<1>2. ControlTyped
  <2>1. pc = [t \in Txns |-> "idle"] /\ answer = [t \in Txns |-> "none"] /\ poisoned = FALSE
    BY DEF Init, Atomic!Init
  <2>2. pc \in [Txns -> Places] /\ answer \in [Txns -> Answers]
    BY <2>1, SMT DEF Places, Answers
  <2>3. \A t \in Txns : pc[t] = "idle" /\ answer[t] = "none"
    BY <2>1
  <2>4. poisoned \in BOOLEAN
    BY <2>1
  <2> QED
    BY <2>2, <2>3, <2>4, SMT DEF ControlTyped
<1>3. CountsTyped
  BY <1>0, SMT DEF Init, CountsTyped
<1> QED
  BY <1>1, <1>2, <1>3 DEF Typed

\* index_txn.rs: rows, control and counters of the retry loop keep their types;
\* in particular no transaction makes more than MAX_RETRIES retries.
THEOREM TypeCorrect == OpsAssumption => (Spec => []TypeOK)
<1> SUFFICES ASSUME OpsAssumption PROVE Spec => []TypeOK
  OBVIOUS
<1>0. MaxRetries \in Nat /\ \A u \in Txns : Len(Ops[u]) \in Nat
  BY OpsTyped DEF OpsAssumption
<1>1. Init => Typed
  BY InitTyped
<1>2. Typed /\ [Next]_vars => Typed'
  BY StepTyped
<1>3. Typed => TypeOK
  BY <1>0, SMT DEF Typed, RowsTyped, ControlTyped, CountsTyped, TypeOK, Rows, Values, Places, Answers
<1> QED
  BY <1>1, <1>2, <1>3, PTL DEF Spec

-----------------------------------------------------------------------------
(* The refinement. *)

Applied(t) == {Ops[t][i].key : i \in 1 .. applied[t]}

\* The writes of an open transaction are those of the operations it has run,
\* on the rows of its snapshot, which were what they expected.
OpenInv ==
  \A t \in Txns : pc[t] = "open" =>
    /\ \A k \in Applied(t) :
         /\ work[t][k] = Atomic!Makes(t, Ops[t][Atomic!OpOn(t, k)], based[t][k])
         /\ Atomic!Expects(Ops[t][Atomic!OpOn(t, k)], seen[t][k], based[t][k])
    /\ \A k \in Keys \ Applied(t) : work[t][k] = based[t][k]

\* A transaction that re-checks nothing is based on one snapshot.
OnceInv ==
  \A t \in Txns :
    pc[t] \notin {"open", "done"} /\ ~Atomic!AllGuarded(t) => based[t] = Atomic!None

LEMMA OpOnUnique ==
  ASSUME OpsAssumption, NEW t \in Txns, NEW i \in 1 .. Len(Ops[t])
  PROVE  Atomic!OpOn(t, Ops[t][i].key) = i
<1>1. \A j \in DOMAIN Ops[t] : Ops[t][j].key = Ops[t][i].key => j = i
  BY OpsTyped DEF OpsAssumption
<1>2. i \in DOMAIN Ops[t]
  BY OpsTyped
<1> QED
  BY <1>1, <1>2, SMT DEF Atomic!OpOn

LEMMA StepOpen ==
  ASSUME OpsAssumption, Typed, OpenInv, NEW t \in Txns, Step(t)
  PROVE  OpenInv'
<1> USE DEF Goto, Answer
<1> SUFFICES ASSUME NEW u \in Txns, pc'[u] = "open"
             PROVE  (/\ \A k \in Applied(u) :
                          /\ work[u][k] = Atomic!Makes(u, Ops[u][Atomic!OpOn(u, k)], based[u][k])
                          /\ Atomic!Expects(Ops[u][Atomic!OpOn(u, k)], seen[u][k], based[u][k])
                     /\ \A k \in Keys \ Applied(u) : work[u][k] = based[u][k])'
  BY DEF OpenInv
<1>1. CASE pc[u] = "open" /\ UNCHANGED <<applied, work, based>> /\ seen'[u] = seen[u]
  BY <1>1 DEF OpenInv, Applied
<1>2. CASE Begin(t) /\ u = t
  <2>1. applied'[t] = 0 /\ work'[t] = rows /\ based'[t] = rows
    BY <1>2, SMT DEF Begin, Typed, RowsTyped, CountsTyped
  <2>2. Applied(t)' = {}
    BY <2>1, SMT DEF Applied
  <2> QED
    BY <1>2, <2>1, <2>2
<1>3. CASE Apply(t) /\ u = t
  <2> DEFINE n == applied[t] + 1
             k == Op(t).key
  <2>1. n \in 1 .. Len(Ops[t]) /\ k \in Keys /\ k = Ops[t][n].key /\ Op(t) = Ops[t][n]
    BY <1>3, OpTyped DEF Apply, Typed, Op
  <2>2. applied'[t] = n /\ applied[t] \in Nat /\ pc[t] = "open"
    BY <1>3, SMT DEF Apply, Running, Typed, CountsTyped
  <2>3. Applied(t)' = Applied(t) \cup {k}
    <3>1. 1 .. n = (1 .. applied[t]) \cup {n}
      BY <2>2, SMT
    <3> QED
      BY <2>1, <2>2, <3>1 DEF Applied
  <2>4. k \notin Applied(t)
    <3> SUFFICES ASSUME NEW i \in 1 .. applied[t], Ops[t][i].key = k PROVE FALSE
      BY DEF Applied
    <3>1. i \in DOMAIN Ops[t] /\ n \in DOMAIN Ops[t] /\ i # n
      BY <2>1, <2>2, OpsTyped, SMT
    <3> QED
      BY <2>1, <3>1 DEF OpsAssumption
  <2>5. Atomic!OpOn(t, k) = n
    BY <2>1, OpOnUnique
  <2>6. work[t][k] = based[t][k]
    BY <2>1, <2>2, <2>4 DEF OpenInv
  <2>7. /\ work'[t] = [work[t] EXCEPT ![k] = Atomic!Makes(t, Op(t), work[t][k])]
        /\ work[t] \in [Keys -> Values]
    BY <1>3, SMT DEF Apply, Typed, RowsTyped, Rows
  <2>8. Atomic!Expects(Op(t), seen[t][k], work[t][k])
    BY <1>3 DEF Apply, Expected
  <2>9. UNCHANGED <<seen, based>>
    BY <1>3 DEF Apply
  <2>10. \A j \in Applied(t) :
          /\ work'[t][j] = Atomic!Makes(t, Ops[t][Atomic!OpOn(t, j)], based[t][j])
          /\ Atomic!Expects(Ops[t][Atomic!OpOn(t, j)], seen[t][j], based[t][j])
    BY <2>2, <2>4, <2>7 DEF OpenInv
  <2>11. /\ work'[t][k] = Atomic!Makes(t, Ops[t][Atomic!OpOn(t, k)], based[t][k])
         /\ Atomic!Expects(Ops[t][Atomic!OpOn(t, k)], seen[t][k], based[t][k])
    BY <2>1, <2>5, <2>6, <2>7, <2>8
  <2>12. \A j \in Keys \ (Applied(t) \cup {k}) : work'[t][j] = based[t][j]
    BY <2>2, <2>7 DEF OpenInv
  <2> QED
    BY <1>3, <2>3, <2>9, <2>10, <2>11, <2>12
<1>4. CASE Look(t)
  BY <1>1, <1>4, SMT DEF Look, Typed, RowsTyped, ControlTyped, Places
<1>5. CASE (Begin(t) \/ Apply(t)) /\ u # t
  <2>1. pc[u] = "open" /\ applied'[u] = applied[u] /\ work'[u] = work[u] /\ based'[u] = based[u] /\ seen'[u] = seen[u]
    BY <1>5, SMT DEF Begin, Apply, Typed, RowsTyped, ControlTyped, CountsTyped
  <2> QED
    BY <2>1 DEF OpenInv, Applied
<1>6. CASE Writable(t) \/ BeginFails(t) \/ Backoff(t) \/ Commit(t) \/ CommitUnknown(t)
  <2>1. UNCHANGED <<applied, work, based, seen>>
    BY <1>6 DEF Writable, BeginFails, Backoff, Commit, CommitUnknown
  <2>2. \E p \in Places \ {"open"} : Goto(t, p)
    BY <1>6, SMT DEF Writable, BeginFails, Backoff, Commit, CommitUnknown, Unknown, Places
  <2>3. pc[u] = "open"
    BY <2>2, SMT DEF Typed, ControlTyped
  <2> QED
    BY <1>1, <2>1, <2>3
<1>7. CASE ApplyFails(t) \/ CommitConflicts(t)
  <2>1. UNCHANGED <<applied, work, based, seen>>
    BY <1>7 DEF ApplyFails, CommitConflicts
  <2>2. \E p \in Places \ {"open"} : Goto(t, p)
    <3>1. (\E a \in {"conflict", "definite", "retryable"} : Answer(t, a)) \/ Goto(t, "backoff")
      BY <1>7, ConflictOutcome DEF ApplyFails, CommitConflicts
    <3> QED
      BY <3>1, SMT DEF Places
  <2>3. pc[u] = "open"
    BY <2>2, SMT DEF Typed, ControlTyped
  <2> QED
    BY <1>1, <2>1, <2>3
<1> QED
  BY <1>2, <1>3, <1>4, <1>5, <1>6, <1>7 DEF Step

LEMMA StepOnce ==
  ASSUME Typed, OnceInv, NEW t \in Txns, Step(t)
  PROVE  OnceInv'
<1> USE DEF Goto, Answer
<1> SUFFICES ASSUME NEW u \in Txns, pc'[u] \notin {"open", "done"}, ~Atomic!AllGuarded(u)
             PROVE  based'[u] = Atomic!None
  BY SMT DEF OnceInv, Atomic!AllGuarded
<1>0. ASSUME pc[u] \notin {"open", "done"}, based'[u] = based[u] PROVE based'[u] = Atomic!None
  BY <1>0 DEF OnceInv
<1>1. CASE Begin(t)
  <2>1. pc[u] = pc'[u] /\ based'[u] = based[u]
    BY <1>1, SMT DEF Begin, Typed, ControlTyped, RowsTyped
  <2> QED
    BY <1>0, <2>1
<1>2. CASE Look(t) \/ Writable(t) \/ BeginFails(t) \/ Backoff(t)
  <2>1. pc[t] \notin {"open", "done"} /\ UNCHANGED based
    BY <1>2, SMT DEF Look, Writable, BeginFails, Backoff
  <2>2. u # t => pc'[u] = pc[u]
    BY <1>2, SMT DEF Look, Writable, BeginFails, Backoff, Typed, ControlTyped
  <2> QED
    BY <1>0, <2>1, <2>2
<1>3. CASE Apply(t) \/ Commit(t) \/ CommitUnknown(t)
  <2>1. UNCHANGED based /\ (pc' = pc \/ Goto(t, "done"))
    BY <1>3 DEF Apply, Commit, CommitUnknown, Unknown
  <2>2. pc'[u] = pc[u]
    BY <2>1, SMT DEF Typed, ControlTyped
  <2> QED
    BY <1>0, <2>1, <2>2
<1>4. CASE ApplyFails(t) \/ CommitConflicts(t)
  <2>1. /\ UNCHANGED based
        /\ \/ Goto(t, "done")
           \/ Goto(t, "backoff") /\ Atomic!AllGuarded(t)
    <3>1. Conflicted(t, TRUE) =>
            \/ Goto(t, "done")
            \/ Goto(t, "backoff") /\ Atomic!AllGuarded(t)
      <4>1. CASE MayRetry(t, TRUE)
        BY <4>1 DEF Conflicted, MayRetry
      <4>2. CASE ~MayRetry(t, TRUE)
        BY <4>2 DEF Conflicted
      <4> QED
        BY <4>1, <4>2
    <3> QED
      BY <1>4, <3>1 DEF ApplyFails, CommitConflicts
  <2>2. pc'[u] = pc[u]
    BY <2>1, SMT DEF Typed, ControlTyped
  <2> QED
    BY <1>0, <2>1, <2>2
<1> QED
  BY <1>1, <1>2, <1>3, <1>4 DEF Step

\* An open transaction that validates has the rows its operations expect, and
\* what it commits is what they make of them.
LEMMA CommitLands ==
  ASSUME OpsAssumption, Typed, OpenInv, NEW t \in Txns, Committing(t), Valid(t)
  PROVE  Atomic!Holds(t) /\ Merged(t) = Atomic!Effect(t)
<1>1. pc[t] = "open" /\ Applied(t) = Atomic!Written(t)
  BY OpsTyped DEF Committing, Applied, Atomic!Written
<1>2. Atomic!Written(t) \subseteq Keys
  BY OpsTyped DEF Atomic!Written
<1>3. \A k \in Atomic!Written(t) :
        /\ rows[k] = based[t][k]
        /\ work[t][k] = Atomic!Makes(t, Ops[t][Atomic!OpOn(t, k)], rows[k])
        /\ Atomic!Expects(Ops[t][Atomic!OpOn(t, k)], seen[t][k], rows[k])
  BY <1>1, <1>2 DEF OpenInv, Valid
<1>4. Atomic!Holds(t)
  BY <1>3 DEF Atomic!Holds
<1>5. Merged(t) = Atomic!Effect(t)
  BY <1>3 DEF Merged, Atomic!Effect
<1> QED
  BY <1>4, <1>5

LEMMA StepRefines ==
  ASSUME OpsAssumption, Typed, OpenInv, OnceInv, NEW t \in Txns, Step(t)
  PROVE  [Atomic!Next]_(Atomic!vars)
<1> USE DEF Answer, Atomic!vars
<1>0. pc[t] # "done" => answer[t] = "none"
  BY DEF Typed, ControlTyped
<1>f. ASSUME pc[t] # "done", UNCHANGED <<rows, seen, based>>,
             NEW a \in {"retryable", "conflict", "definite", "ambiguous"}, Answer(t, a)
      PROVE  Atomic!Next
  BY <1>0, <1>f DEF Atomic!Next, Atomic!Fail
<1>1. CASE Look(t)
  BY <1>0, <1>1 DEF Look, Atomic!Next, Atomic!Look
<1>2. CASE Writable(t)
  BY <1>f, <1>2 DEF Writable
<1>3. CASE Begin(t)
  BY <1>0, <1>3 DEF Begin, OnceInv, Atomic!Next, Atomic!Base
<1>4. CASE BeginFails(t)
  BY <1>f, <1>4 DEF BeginFails
<1>5. CASE Apply(t)
  BY <1>5 DEF Apply
<1>6. CASE ApplyFails(t)
  BY <1>f, <1>6, ConflictOutcome DEF ApplyFails, Running
<1>7. CASE Commit(t)
  BY <1>0, <1>7, CommitLands DEF Commit, Committing, Atomic!Next, Atomic!Land
<1>8. CASE CommitConflicts(t)
  BY <1>f, <1>8, ConflictOutcome DEF CommitConflicts, Committing
<1>9. CASE CommitUnknown(t)
  <2>1. CASE rows' = rows
    BY <1>f, <1>9, <2>1 DEF CommitUnknown, Unknown, Committing
  <2>2. CASE rows' = Merged(t)
    BY <1>0, <1>9, <2>2, CommitLands DEF CommitUnknown, Unknown, Committing, Atomic!Next, Atomic!Land
  <2> QED
    BY <1>9, <2>1, <2>2 DEF CommitUnknown
<1>10. CASE Backoff(t)
  BY <1>f, <1>10 DEF Backoff
<1> QED
  BY <1>1, <1>2, <1>3, <1>4, <1>5, <1>6, <1>7, <1>8, <1>9, <1>10 DEF Step

\* index_txn.rs: its operations "commit together or not at all", on rows that
\* are still what the caller decided from, and the answer says which, however
\* often the transaction was retried.
THEOREM Refines == OpsAssumption => (Spec => IsAtomic)
<1> SUFFICES ASSUME OpsAssumption PROVE Spec => IsAtomic
  OBVIOUS
<1> DEFINE IInv == Typed /\ OpenInv /\ OnceInv
<1>1. Init => IInv
  <2> SUFFICES ASSUME Init PROVE IInv
    OBVIOUS
  <2>1. \A t \in Txns : pc[t] = "idle" /\ based[t] = Atomic!None
    BY DEF Init, Atomic!Init
  <2> QED
    BY <2>1, InitTyped DEF OpenInv, OnceInv
<1>2. IInv /\ [Next]_vars => IInv'
  <2>1. CASE UNCHANGED vars
    BY <2>1, StepTyped DEF vars, private, OpenInv, OnceInv, Applied
  <2>2. CASE Next
    BY <2>2, StepTyped, StepOpen, StepOnce DEF Next
  <2> QED
    BY <2>1, <2>2
<1>3. IInv /\ [Next]_vars => [Atomic!Next]_(Atomic!vars)
  <2>1. CASE UNCHANGED vars
    BY <2>1 DEF vars, Atomic!vars
  <2>2. CASE Next
    BY <2>2, StepRefines DEF Next
  <2> QED
    BY <2>1, <2>2
<1>4. Init => Atomic!Init
  BY DEF Init
<1> QED
  BY <1>1, <1>2, <1>3, <1>4, PTL DEF Spec, IsAtomic, Atomic!Spec

-----------------------------------------------------------------------------
(* The poison. *)

\* Nothing begins under a poison but what had been allowed to before it.
LateInv ==
  /\ late \in [Txns -> Nat]
  /\ \A t \in Txns :
       /\ late[t] <= 1
       /\ ~poisoned \/ pc[t] = "ready" => late[t] = 0

LEMMA StepLate ==
  ASSUME Typed, LateInv, NEW t \in Txns, Step(t)
  PROVE  LateInv'
<1> USE DEF LateInv, Goto, Answer
<1>0. pc \in [Txns -> Places] /\ poisoned \in BOOLEAN
  BY DEF Typed, ControlTyped
<1>1. CASE Look(t) \/ Writable(t)
  BY <1>0, <1>1, SMT DEF Look, Writable
<1>2. CASE Begin(t)
  BY <1>0, <1>2, SMT DEF Begin
<1>3. CASE BeginFails(t)
  BY <1>0, <1>3, SMT DEF BeginFails
<1>4. CASE Backoff(t)
  BY <1>0, <1>4, SMT DEF Backoff, Allowed
<1>5. CASE Apply(t) \/ Commit(t) \/ CommitUnknown(t)
  BY <1>0, <1>5, SMT DEF Apply, Commit, CommitUnknown, Unknown
<1>6. CASE ApplyFails(t) \/ CommitConflicts(t)
  <2>1. Goto(t, "done") \/ Goto(t, "backoff")
    BY <1>6, ConflictOutcome DEF ApplyFails, CommitConflicts
  <2>2. UNCHANGED <<late, poisoned>>
    BY <1>6 DEF ApplyFails, CommitConflicts
  <2> QED
    BY <1>0, <2>1, <2>2, SMT
<1> QED
  BY <1>1, <1>2, <1>3, <1>4, <1>5, <1>6 DEF Step

\* commit_index and run_while: once a COMMIT was ambiguous, a transaction makes
\* at most the one attempt it had been allowed before.
THEOREM PoisonIsFinal == OpsAssumption => (Spec => []PoisonStops)
<1> SUFFICES ASSUME OpsAssumption PROVE Spec => []PoisonStops
  OBVIOUS
<1>1. Init => Typed /\ LateInv
  <2>1. Init => \A t \in Txns : pc[t] = "idle" /\ late[t] = 0
    BY DEF Init
  <2>2. Init => late \in [Txns -> Nat]
    BY DEF Init
  <2> QED
    BY <2>1, <2>2, InitTyped, SMT DEF LateInv
<1>2. Typed /\ LateInv /\ [Next]_vars => Typed' /\ LateInv'
  <2>1. CASE UNCHANGED vars
    BY <2>1, StepTyped DEF vars, private, LateInv
  <2>2. CASE Next
    BY <2>2, StepTyped, StepLate DEF Next
  <2> QED
    BY <2>1, <2>2
<1>3. LateInv => PoisonStops
  BY DEF LateInv, PoisonStops
<1> QED
  BY <1>1, <1>2, <1>3, PTL DEF Spec
=============================================================================

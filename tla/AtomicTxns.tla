----------------------------- MODULE AtomicTxns -----------------------------
(***************************************************************************)
(* What index_txn.rs promises of a transaction, whatever conflicts, retries *)
(* and failures lie between: it happens in one step or not at all, what it  *)
(* was decided from still holds when it does, and its answer says which.    *)
(***************************************************************************)
EXTENDS Integers, Sequences

CONSTANTS
  Keys,    \* rows of the index; SeqKey is the allocator's
  SeqKey,
  Txns,    \* transactions, numbered: each writes its number
  Ops      \* per transaction, its sequence of [kind, key]

VARIABLES rows, seen, based, answer

vars == <<rows, seen, based, answer>>

Absent == 0 - 1
None == [k \in Keys |-> Absent]
Kinds == {"insert", "replace", "delete", "upsert", "raise"}

\* IndexOp::is_guarded.
Guarded(op) == op.kind # "upsert"
AllGuarded(t) == \A i \in DOMAIN Ops[t] : Guarded(Ops[t][i])

\* What an operation expects of its row, and what it makes of it.
Expects(op, expected, found) ==
  CASE op.kind = "insert" -> found = Absent
    [] op.kind \in {"replace", "delete"} -> found # Absent /\ found = expected
    [] OTHER -> TRUE

Makes(t, op, found) ==
  CASE op.kind = "delete" -> Absent
    [] op.kind = "raise" -> IF found > t THEN found ELSE t
    [] OTHER -> t

\* A transaction touches a row once.
OpOn(t, k) == CHOOSE i \in DOMAIN Ops[t] : Ops[t][i].key = k
Written(t) == {Ops[t][i].key : i \in DOMAIN Ops[t]}

Holds(t) ==
  IF AllGuarded(t)
  THEN \A k \in Written(t) : Expects(Ops[t][OpOn(t, k)], seen[t][k], rows[k])
  ELSE \A k \in Written(t) : rows[k] = based[t][k]

Effect(t) ==
  [k \in Keys |-> IF k \in Written(t) THEN Makes(t, Ops[t][OpOn(t, k)], rows[k]) ELSE rows[k]]

Init ==
  /\ rows \in [Keys -> {0, Absent}] /\ rows[SeqKey] = 0
  /\ seen = [t \in Txns |-> None] /\ based = [t \in Txns |-> None]
  /\ answer = [t \in Txns |-> "none"]

\* The caller decides from the rows it reads.
Look(t) ==
  /\ answer[t] = "none"
  /\ seen' = [seen EXCEPT ![t] = rows]
  /\ UNCHANGED <<rows, based, answer>>

\* An operation that expects nothing of its row runs on one snapshot only.
Base(t) ==
  /\ answer[t] = "none" /\ (AllGuarded(t) \/ based[t] = None)
  /\ based' = [based EXCEPT ![t] = rows]
  /\ UNCHANGED <<rows, seen, answer>>

Land(t) ==
  /\ answer[t] = "none" /\ Holds(t)
  /\ rows' = Effect(t)
  /\ \E a \in {"ok", "ambiguous"} : answer' = [answer EXCEPT ![t] = a]
  /\ UNCHANGED <<seen, based>>

Fail(t) ==
  /\ answer[t] = "none"
  /\ \E a \in {"retryable", "conflict", "definite", "ambiguous"} : answer' = [answer EXCEPT ![t] = a]
  /\ UNCHANGED <<rows, seen, based>>

Next == \E t \in Txns : Look(t) \/ Base(t) \/ Land(t) \/ Fail(t)

Spec == Init /\ [][Next]_vars
=============================================================================

--------------------------- MODULE ReclaimEpochs ---------------------------
(***************************************************************************)
(* The reclaim epochs of one store (reaper.rs, ReclaimEpochs): which reads *)
(* are running since which epoch, in which epoch each frame was retired,   *)
(* and whether a backup holds the reaper off.  The module has the state    *)
(* and the operations; the modules that extend it say who calls them.      *)
(*                                                                         *)
(* The code keeps a count of pins per epoch; a pin here names the read     *)
(* that holds it, and the count of an epoch is the number of reads that    *)
(* pin it.                                                                 *)
(***************************************************************************)
EXTENDS Integers

CONSTANTS
  Readers,   \* the reads that may run at once
  Names      \* the frame file names

VARIABLES
  current,   \* the epoch a read that pins now records
  pins,      \* reader -> the epoch it pinned, or NoEpoch
  retiredIn, \* frame name -> the epoch this process retired it in, or NoEpoch
  holds      \* how many GcHolds are alive

epochVars == <<current, pins, retiredIn, holds>>

NoEpoch == -1

EpochTypeOK ==
  /\ current \in Nat
  /\ pins \in [Readers -> Nat \cup {NoEpoch}]
  /\ retiredIn \in [Names -> Nat \cup {NoEpoch}]
  /\ holds \in Nat

\* A fresh process: nothing is pinned, retired or held.
EpochInit ==
  /\ current = 0
  /\ pins = [r \in Readers |-> NoEpoch]
  /\ retiredIn = [n \in Names |-> NoEpoch]
  /\ holds = 0

\* The process died: its epochs went with it.
EpochReset ==
  /\ current' = 0
  /\ pins' = [r \in Readers |-> NoEpoch]
  /\ retiredIn' = [n \in Names |-> NoEpoch]
  /\ holds' = 0

Pin(r) == pins' = [pins EXCEPT ![r] = current]

Unpin(r) == pins' = [pins EXCEPT ![r] = NoEpoch]

\* The names are retired under the current epoch, then the epoch advances: a
\* read that pins from now on prunes the index after the swap.
Retire(names) ==
  /\ retiredIn' = [n \in Names |-> IF n \in names THEN current ELSE retiredIn[n]]
  /\ current' = current + 1

Forget(names) ==
  retiredIn' = [n \in Names |-> IF n \in names THEN NoEpoch ELSE retiredIn[n]]

Held == holds > 0

BugReclaimableSameEpoch(n) ==
  /\ ~Held
  /\ retiredIn[n] # NoEpoch =>
       \A r \in Readers : pins[r] # NoEpoch => pins[r] >= retiredIn[n]

BugReclaimableUnderHold(n) ==
  retiredIn[n] # NoEpoch =>
    \A r \in Readers : pins[r] # NoEpoch => pins[r] > retiredIn[n]

\* A name this process did not retire is taken to be open in no read of it.
Reclaimable(n) ==
  /\ ~Held
  /\ retiredIn[n] # NoEpoch =>
       \A r \in Readers : pins[r] # NoEpoch => pins[r] > retiredIn[n]
=============================================================================

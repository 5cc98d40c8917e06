------------------------------- MODULE MCRoot -------------------------------
(***************************************************************************)
(* A store's root and its copies, checked together: a behaviour is one of   *)
(* Recovery, StoreOpen or Backups, and the variables of the others stay     *)
(* what they are.                                                           *)
(***************************************************************************)
EXTENDS Recovery, StoreOpen, Backups, TLC

CONSTANTS f1, f2, dev, this, next, newest

VARIABLE part

\* Each event from outside once; a release is not cut off, and no pass reads a
\* frame that a seal is writing.
OneEach == [event \in {"drop", "crash", "damage", "age", "declare"} |-> 1]

\* What the proofs about Recovery assume holds of this instance.
ASSUME FramesOfTwo == FramesAssumption

\* The registry as it is, in a build of today and one of the same layout with
\* fewer migrations, and two builds to come: the last adds a migration that
\* keeps older writers.
Layouts4 == dev :> 2 @@ this :> 2 @@ next :> 3 @@ newest :> 4
Registered4 == dev :> 2 @@ this :> 3 @@ next :> 4 @@ newest :> 5
LayoutsOf == <<1, 2, 2, 3, 4>>
FloorsOf == <<1, 2, 2, 2, 4>>

\* What the proofs about StoreOpen assume holds of this instance.
ASSUME RegistryOfFive == RegistryWithin(5) /\ RederiveAssumption

\* What the proofs about Backups assume holds of this instance.
ASSUME BackupNumbers == BackupsAssumption

\* A machine that starts in several states starts in one while another runs.
RootInit ==
  /\ part \in {"open", "recovery", "backups"}
  /\ IF part = "open" THEN TRUE ELSE present = FALSE
  /\ IF part = "recovery" THEN TRUE
     ELSE loc = [f \in Frames |-> "none"] /\ intent = FALSE /\ declared = TRUE
  /\ Init /\ StoreInit /\ BackupsInit

RootNext ==
  \/ part = "recovery" /\ Next /\ UNCHANGED <<part, storeVars, backupVars>>
  \/ part = "open" /\ StoreNext /\ UNCHANGED <<part, vars, backupVars>>
  \/ part = "backups" /\ BackupsNext /\ UNCHANGED <<part, vars, storeVars>>

RootSpec == RootInit /\ [][RootNext]_<<part, vars, storeVars, backupVars>>

-----------------------------------------------------------------------------
\* Every machine's variables keep their types.
WellTyped == TypeOK /\ StoreTypeOK /\ BackupsTypeOK
=============================================================================

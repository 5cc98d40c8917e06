----------------------------- MODULE MCRecovery -----------------------------
(***************************************************************************)
(* Recovery on small instances.                                            *)
(***************************************************************************)
EXTENDS Recovery, TLC

CONSTANTS f1, f2

Once == "drop" :> 1 @@ "crash" :> 1 @@ "damage" :> 1 @@ "age" :> 1 @@ "declare" :> 1
=============================================================================

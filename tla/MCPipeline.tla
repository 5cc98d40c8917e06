----------------------------- MODULE MCPipeline -----------------------------
(***************************************************************************)
(* Instances of Pipeline for the runs that expect a violation: how many     *)
(* rows an ingest may add in each mode.                                     *)
(***************************************************************************)
EXTENDS Pipeline

TwoWrites == [m \in Modes |-> 2]
ThreeWrites == [m \in Modes |-> 3]
=============================================================================

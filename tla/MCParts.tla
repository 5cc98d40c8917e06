------------------------------- MODULE MCParts ------------------------------
(***************************************************************************)
(* The machines that are small enough to be checked together: a behaviour   *)
(* is one of DirSyncer, Breaker, IngestChunks or Pipeline, and the variables *)
(* of the others stay what they are.                                        *)
(***************************************************************************)
EXTENDS DirSyncer, Breaker, IngestChunks, Pipeline, TLC

CONSTANTS c1, c2, s1, s2

VARIABLE part

OneAspect == <<"a">>
PartWrites == [log |-> 2, queue |-> 6]

\* What the proofs about the machines assume holds of this instance.
ASSUME SweepsAssumption == BreakerAssumption
ASSUME SizesAssumption == ChunksAssumption
ASSUME RunsAssumption == PipelineAssumption /\ RetentionAssumption

\* A machine that starts in several states starts in one while another runs.
PartsInit ==
  /\ part \in {"dirsync", "breaker", "chunks", "batches"}
  /\ IF part = "chunks" THEN TRUE ELSE batch = <<>> /\ target = 0
  /\ ChunksInit
  /\ IF part = "batches" THEN TRUE ELSE mode = "log"
  /\ PipelineInit
  /\ Init /\ BreakerInit

PartsNext ==
  \/ /\ part = "dirsync" /\ Next
     /\ UNCHANGED <<part, breakerVars, chunkVars, pipelineVars>>
  \/ /\ part = "breaker" /\ BreakerNext
     /\ UNCHANGED <<part, vars, chunkVars, pipelineVars>>
  \/ /\ part = "chunks" /\ ChunksNext
     /\ UNCHANGED <<part, vars, breakerVars, pipelineVars>>
  \/ /\ part = "batches" /\ PipelineNext
     /\ UNCHANGED <<part, vars, breakerVars, chunkVars>>

allVars == <<part, vars, breakerVars, chunkVars, pipelineVars>>

\* The fairness of DirSyncer, whose other variables no other machine steps.
PartsSpec ==
  /\ PartsInit
  /\ [][PartsNext]_allVars
  /\ WF_vars(part = "dirsync" /\ FlightStep)
  /\ \A c \in Callers : WF_vars(part = "dirsync" /\ CallStep(c))

-----------------------------------------------------------------------------
\* Every machine's variables keep their types (of DirSyncer, its inductive
\* invariant).
TypesOK == IInv /\ BreakerTypeOK /\ ChunksTypeOK /\ PipelineTypeOK
=============================================================================

--------------------------- MODULE SourcePipelineMC ---------------------------
(* SourcePipeline with a limit of attempts for each stage.                    *)
EXTENDS SourcePipeline

CONSTANTS ReadAttempts, ClaimsAttempts, ReconcileAttempts, GraphAttempts

Attempts == [q \in Stages |-> CASE q = "read" -> ReadAttempts [] q = "claims" -> ClaimsAttempts
                                [] q = "reconcile" -> ReconcileAttempts [] q = "graph" -> GraphAttempts]
================================================================================

------------------------- MODULE MCExecutionService -------------------------
(***************************************************************************)
(* Model-checking instance of ExecutionService.                             *)
(***************************************************************************)
EXTENDS ExecutionService

=============================================================================

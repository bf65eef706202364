---------------------------- MODULE MCEventStream ----------------------------
(***************************************************************************)
(* Model-checking instance of EventStream.  No symmetry: the liveness           *)
(* properties are checked on the same state graph.                             *)
(***************************************************************************)
EXTENDS EventStream

=============================================================================

-------------------------- MODULE MCServerLifecycle --------------------------
(***************************************************************************)
(* Model-checking instance of ServerLifecycle.                              *)
(***************************************************************************)
EXTENDS ServerLifecycle, TLC

\* Requests, and client objects, are interchangeable.
LifecycleSymmetry == Permutations(Request) \cup Permutations(Client)

=============================================================================

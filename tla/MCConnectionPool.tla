-------------------------- MODULE MCConnectionPool --------------------------
(***************************************************************************)
(* Model-checking instance of ConnectionPool.                               *)
(***************************************************************************)
EXTENDS ConnectionPool

\* Callers are interchangeable, and so are endpoints.
PoolSymmetry == Permutations(Task) \cup Permutations(Key)

=============================================================================

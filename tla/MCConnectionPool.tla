-------------------------- MODULE MCConnectionPool --------------------------
(***************************************************************************)
(* The properties of the pool and what TLC needs to check them.            *)
(***************************************************************************)
EXTENDS ConnectionPoolProperties, TLC

\* Safety runs only: no property or fairness condition names one of them.
Symmetry == Permutations(Conn) \cup Permutations(Caller)
=============================================================================

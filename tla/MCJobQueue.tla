----------------------------- MODULE MCJobQueue -----------------------------
(***************************************************************************)
(* The properties of the queue and what TLC needs to check them.           *)
(***************************************************************************)
EXTENDS JobQueueProperties, TLC

\* Safety runs only: no property or fairness condition names a job or a claim.
Symmetry == Permutations(Job) \cup Permutations(OwnRun) \cup Permutations(OtherRun)
=============================================================================

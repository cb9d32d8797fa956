------------------------------ MODULE MCWorker ------------------------------
(***************************************************************************)
(* An instance of the worker for TLC: of three jobs one is retried, and    *)
(* one gets its processor late.                                            *)
(***************************************************************************)
EXTENDS WorkerProperties, TLC

CONSTANTS retried, plain, late

MCMaxRuns == (retried :> 2) @@ (plain :> 1) @@ (late :> 1)
=============================================================================

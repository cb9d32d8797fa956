---------------------------- MODULE MCLifecycle ----------------------------
(***************************************************************************)
(* An instance of the lifecycle for TLC: a server over a store and a cache *)
(* that may fail; initializing the store is retried.                       *)
(***************************************************************************)
EXTENDS LifecycleProperties, TLC

CONSTANTS store, cache, server

MCDependsOn == (store :> {}) @@ (cache :> {}) @@ (server :> {store})
MCRetries   == (store :> 1) @@ (cache :> 0) @@ (server :> 0)
=============================================================================

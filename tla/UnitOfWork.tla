----------------------------- MODULE UnitOfWork -----------------------------
(***************************************************************************)
(* What run() promises whoever calls it.  A unit of work lasts completely  *)
(* or not at all: an outermost unit is kept in one step with every unit    *)
(* inside it whose caller was told it succeeded, and nothing a caller was  *)
(* told failed is ever kept.                                               *)
(***************************************************************************)
CONSTANT Unit

VARIABLES told,     \* what the caller of a unit knows
          inside,   \* the units a unit is part of
          kept      \* the units whose work lasts

vars == <<told, inside, kept>>

Init ==
    /\ told = [u \in Unit |-> "nothing"]
    /\ inside = [u \in Unit |-> {}]
    /\ kept = {}

\* A unit starts on its own or inside units that are under way.
Enter(u) ==
    /\ told[u] = "nothing"
    /\ told' = [told EXCEPT ![u] = "waiting"]
    /\ \E around \in SUBSET { e \in Unit : told[e] = "waiting" } :
          inside' = [inside EXCEPT ![u] = around]
    /\ UNCHANGED kept

\* What lasts when the outermost unit r does.
Whole(r) == {r} \cup { u \in Unit : /\ r \in inside[u]
                                    /\ told[u] = "resolved"
                                    /\ \A e \in inside[u] \ {r} : told[e] = "resolved" }

Keep(r) ==
    /\ told[r] = "waiting" /\ inside[r] = {} /\ r \notin kept
    /\ \A u \in Unit : r \in inside[u] => told[u] # "waiting"
    /\ kept' = kept \cup Whole(r)
    /\ UNCHANGED <<told, inside>>

Resolve(u) ==
    /\ told[u] = "waiting"
    /\ inside[u] = {} => u \in kept
    /\ told' = [told EXCEPT ![u] = "resolved"]
    /\ UNCHANGED <<inside, kept>>

Reject(u) ==
    /\ told[u] = "waiting" /\ u \notin kept
    /\ told' = [told EXCEPT ![u] = "rejected"]
    /\ UNCHANGED <<inside, kept>>

\* Every step changes something, if only what one caller knows.
Next == /\ vars' # vars
        /\ \E u \in Unit : Enter(u) \/ Keep(u) \/ Resolve(u) \/ Reject(u)

Spec == Init /\ [][Next]_vars
=============================================================================

------------------------------- MODULE Lease -------------------------------
(***************************************************************************)
(* What a connection pool promises its users: a connection is leased to at *)
(* most one of them, and at most Slots are leased at any time.             *)
(***************************************************************************)
EXTENDS Integers, FiniteSets

CONSTANTS User, Item, Nobody, Slots

VARIABLE lease      \* lease[u]: the item u uses, or Nobody

Users(l)  == { u \in User : l[u] # Nobody }
Leased(l) == { l[u] : u \in Users(l) }

Init == lease = [u \in User |-> Nobody]

\* An unleased item goes to a user without one, while a slot is free.
Grant(u) ==
    /\ lease[u] = Nobody
    /\ Cardinality(Users(lease)) < Slots
    /\ \E x \in Item \ Leased(lease) : lease' = [lease EXCEPT ![u] = x]

Return(u) ==
    /\ lease[u] # Nobody
    /\ lease' = [lease EXCEPT ![u] = Nobody]

\* The item goes straight from the user that returns it to the one that waits.
Transfer(u, w) ==
    /\ lease[u] # Nobody /\ lease[w] = Nobody
    /\ lease' = [lease EXCEPT ![u] = Nobody, ![w] = lease[u]]

Next == \E u \in User : \/ Grant(u) \/ Return(u)
                        \/ \E w \in User : Transfer(u, w)

Spec == Init /\ [][Next]_lease
=============================================================================

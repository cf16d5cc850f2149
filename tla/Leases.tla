------------------------------- MODULE Leases -------------------------------
(* What a connection pool promises the fibers that use it, with no mutex,     *)
(* list, clock or statistics: connections are lent to fibers, each to at most *)
(* Capacity of them at a time, and a connection that has been retired is      *)
(* never lent again, although those that have it may keep it.                 *)
EXTENDS Naturals, FiniteSets

CONSTANTS Fibers, ConnIds, None, Capacity

VARIABLES
    lease,      \* the connection each fiber has, or None
    retired     \* connections that will not be lent any more

Borrowers(c) == {f \in Fibers : lease[f] = c}

Init ==
    /\ lease = [f \in Fibers |-> None]
    /\ retired = {}

\* A fiber without a connection gets one that has room for it.
Lend(f, c) ==
    /\ lease[f] = None
    /\ c \notin retired'
    /\ Cardinality(Borrowers(c)) < Capacity
    /\ lease' = [lease EXCEPT ![f] = c]

\* Some fibers give their connection back.
GiveBack(S) == lease' = [f \in Fibers |-> IF f \in S THEN None ELSE lease[f]]

Next ==
    /\ retired \subseteq retired'
    /\ \/ \E f \in Fibers, c \in ConnIds : Lend(f, c)
       \/ \E S \in SUBSET Fibers : GiveBack(S)

Spec == Init /\ [][Next]_<<lease, retired>>
=============================================================================

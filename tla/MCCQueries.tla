------------------------------ MODULE MCCQueries ------------------------------
(* Instances of CQueries: three visitors, one or two rooms.                    *)
EXTENDS CQueries, TLC

CONSTANTS alice, bob, carol, r1, r2

Symmetry == Permutations({alice, bob, carol}) \cup Permutations(Room)

\* Only the order of timestamps matters: entry n carries n.
Dense == \A i \in 1..Len(log) : log[i].timestamp = i
===============================================================================

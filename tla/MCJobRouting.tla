---------------------------- MODULE MCJobRouting ----------------------------
(* Instances of JobRouting for TLC.                                        *)
EXTENDS JobRouting, TLC

CONSTANTS j1, j2, n1, n2, n3

\* Every node connects once; or one of them connects twice.
NoReconnect   == {<<n, 1>> : n \in Node}
OneReconnects == NoReconnect \cup {<<n1, 2>>}

Symmetry == Permutations(Job) \cup Permutations(Node)
=============================================================================

------------------------------- MODULE MCProxy -------------------------------
(* Small instances of EventStreamProxy for TLC.                            *)
EXTENDS EventStreamProxy, TLC

CONSTANTS c1, c2, c3, n1, n2, x, y

SubsOfEach == [ns \in Namespaces |-> Subs]
Symmetric == Permutations(Clients) \cup Permutations(Subs) \cup Permutations(Namespaces)
=============================================================================

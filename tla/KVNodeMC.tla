------------------------------ MODULE KVNodeMC ------------------------------
(* Instances of KVNode for TLC. *)
EXTENDS KVNode, TLC

CONSTANTS n1, p1

Symmetry == Permutations(Node) \cup Permutations(Payload)

\* Where liveness rules out symmetry sets: the first election is n1's, the
\* first write is p1.
First ==
    /\ ballots = {} => ballots' \subseteq {<<n1, 1, n1>>}
    /\ ~(\E p \in Payload : reply[p] # "new") => \A p \in Payload \ {p1} : reply'[p] = "new"

MCFairSpec == Init /\ [][Next /\ First]_vars /\ Fairness

=============================================================================

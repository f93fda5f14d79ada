------------------------------ MODULE MCRouter ------------------------------
(* Router with a few connections and clients, for TLC. *)
EXTENDS Router, TLC

CONSTANTS a, b, q1, q2, q3

MCClients == {a, b}
MCConns == {q1, q2, q3}
Symmetry == Permutations(MCClients) \cup Permutations(MCConns)

=============================================================================

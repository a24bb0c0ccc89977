----------------------------- MODULE MCSessions -----------------------------
(* A small instance of Sessions for TLC. *)
EXTENDS SessionProperties, TLC

\* Identifiers are random and never compared by order.
Symmetry == Permutations(Users) \cup Permutations(Tokens) \cup Permutations(Attempts)

=============================================================================

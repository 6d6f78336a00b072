------------------------- MODULE MCConnectionPool --------------------------
(* Model values for the runs of ConnectionPool. *)
EXTENDS ConnectionPool, TLC

CONSTANTS monitor, n1, n2, n3, w1, w2, s1, s2

Symmetry == Permutations(Node) \cup Permutations(Slot)

=============================================================================

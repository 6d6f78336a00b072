------------------------- MODULE MCClientLifecycle -------------------------
(* Model values for the runs of ClientLifecycle. *)
EXTENDS ClientLifecycle

CONSTANTS c1, c2

=============================================================================

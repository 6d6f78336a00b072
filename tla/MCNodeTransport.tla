-------------------------- MODULE MCNodeTransport ---------------------------
(* Model values for the run of NodeTransport. *)
EXTENDS NodeTransport

CONSTANTS p1, p2, interval

=============================================================================

--------------------------- MODULE MCNodesDatabase ---------------------------
(***************************************************************************)
(* Two remote nodes, of which it does not matter which is which, for TLC.  *)
(***************************************************************************)
EXTENDS NodesDatabase, TLC

NodeSymmetry == Permutations(Node)
=============================================================================

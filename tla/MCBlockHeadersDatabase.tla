----------------------- MODULE MCBlockHeadersDatabase -----------------------
(***************************************************************************)
(* A small tree of headers for TLC.                                        *)
(*                                                                         *)
(*          g - a1 - a2 - a3 - a4        the first chain                   *)
(*               |    `- x3 - y4         x3 is an invalid block            *)
(*               |- b2                   heavier than a4, and shorter      *)
(*               `- c2 - c3              c2 ties with a2, c3 beats them all *)
(***************************************************************************)
EXTENDS BlockHeadersDatabase

CONSTANTS g, a1, a2, a3, a4, b2, c2, c3, x3, y4, none

MCHeader == {g, a1, a2, a3, a4, b2, c2, c3, x3, y4}

MCParent == [h \in MCHeader |->
    CASE h = g -> none
      [] h = a1 -> g
      [] h \in {a2, b2, c2} -> a1
      [] h \in {a3, x3} -> a2
      [] h = a4 -> a3
      [] h = c3 -> c2
      [] h = y4 -> x3]

MCWork == [h \in MCHeader |-> CASE h = b2 -> 4 [] h = c3 -> 5 [] OTHER -> 1]

(* Chunks of a chain, a chunk out of order, one whose start is unknown at  *)
(* first, siblings of equal work, and an invalid block followed by a       *)
(* header linked to it and by one that is not.                             *)
MCBatches == {<<a1, a2>>, <<a2, a3, a4>>, <<a4, a3>>, <<b2>>, <<c2, a2>>,
              <<c2, c3>>, <<a2, x3, y4, b2>>}

MCInvalidBlockSets == {{x3}}

(* The first invalid block becomes known to the operator between two runs. *)
MCGrowingInvalidBlockSets == {{}, {a2}}
MCGrowingBatches == {<<a1, a2, a3, a4>>, <<c2>>, <<c2, c3>>, <<b2>>}
MCGrowingWork == [h \in MCHeader |-> IF h = b2 THEN 4 ELSE 1]

(* Besides, headers without work, the first of the chain and two tips, and *)
(* arrays that hold a header twice or begin with the one they end with.    *)
MCAnyWork == [h \in MCHeader |-> CASE h = b2 -> 3 [] h \in {a1, a4, c2} -> 0 [] OTHER -> 1]
MCAnyBatches == {<<a1>>, <<a1, a2, a1>>, <<a2, a3, a4>>, <<c2, b2, c2>>, <<c2, c3>>}
=============================================================================

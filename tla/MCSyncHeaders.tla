--------------------------- MODULE MCSyncHeaders ---------------------------
(***************************************************************************)
(* Two remote nodes and the chains they follow, for TLC.                   *)
(*                                                                         *)
(*          g - a1 - a2 - a3 - a4 - a5     the first chain                 *)
(*               |    `- x3 - x4           x3 is an invalid block          *)
(*               `- b2 - b3 - b4           a fork                          *)
(***************************************************************************)
EXTENDS SyncHeaders

CONSTANTS g, a1, a2, a3, a4, a5, b2, b3, b4, x3, x4, none, n1, n2

MCHeader == {g, a1, a2, a3, a4, a5, b2, b3, b4, x3, x4}

MCParent == [h \in MCHeader |->
    CASE h = g -> none
      [] h = a1 -> g
      [] h \in {a2, b2} -> a1
      [] h \in {a3, x3} -> a2
      [] h = a4 -> a3
      [] h = a5 -> a4
      [] h = x4 -> x3
      [] h = b3 -> b2
      [] h = b4 -> b3]

(* b3 ties with a5, and is shorter. *)
MCWork == [h \in MCHeader |-> CASE h = b3 -> 3 [] OTHER -> 1]
MCRemoteTips == (n1 :> {a5}) @@ (n2 :> {a2, b3, x4})

(* One node stays two headers behind the other. *)
MCSlowTips == (n1 :> {a4}) @@ (n2 :> {a2})

(* Both nodes follow the chain, one always after the other. *)
MCSameTips == (n1 :> {a5}) @@ (n2 :> {a2, a5})
=============================================================================

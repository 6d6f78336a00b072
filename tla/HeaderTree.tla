----------------------------- MODULE HeaderTree -----------------------------
(***************************************************************************)
(* src/BlockHeader.ts: the tree that the hashes in block headers span, and *)
(* the height and work that add up along it.  A header is named by its     *)
(* hash.                                                                   *)
(***************************************************************************)
EXTENDS Integers, Sequences, FiniteSets

CONSTANTS
    Header,     \* the block headers that exist
    Genesis,    \* the genesis header
    Parent,     \* Parent[h]: header of prevHashHex, or no header of ours
    Work        \* Work[h]: 2^256 divided by the target of h

(* The number of ancestors of a header, its height once it is linked. *)
Depth[h \in Header] == IF Parent[h] \in Header THEN Depth[Parent[h]] + 1 ELSE 0

(* The chain that ends in h, from its root on, and the work it stands for. *)
ChainTo[h \in Header] ==
    IF Parent[h] \in Header THEN Append(ChainTo[Parent[h]], h) ELSE <<h>>

TotalWork[h \in Header] ==
    Work[h] + (IF Parent[h] \in Header THEN TotalWork[Parent[h]] ELSE 0)

(* Hashes are finitely many.  A target above 2^256 gives a work of zero.   *)
ASSUME HeaderAssumption ==
    /\ IsFiniteSet(Header)
    /\ Genesis \in Header
    /\ Parent[Genesis] \notin Header
    /\ Work \in [Header -> Nat]

(* A header holds the hash of its parent, so none is its own ancestor. *)
ASSUME DepthAssumption ==
    /\ Depth \in [Header -> Nat]
    /\ Depth[Genesis] = 0
    /\ \A h \in Header : Parent[h] \in Header => Depth[h] = Depth[Parent[h]] + 1
=============================================================================

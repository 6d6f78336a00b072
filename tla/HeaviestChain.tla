--------------------------- MODULE HeaviestChain ---------------------------
(***************************************************************************)
(* What a store of block headers promises, with no tree, index or queue.   *)
(*                                                                         *)
(* A header is known once its parent is; the tip moves only to the         *)
(* heaviest known header, and only when that one is strictly heavier; the  *)
(* tips are written to disk in the order they were adopted; side branches  *)
(* may be forgotten; a crash takes the store back to the chain on disk and *)
(* to nothing else.  BlockHeadersDatabase is shown to implement it.        *)
(***************************************************************************)
EXTENDS HeaderTree, Functions

VARIABLES
    known,      \* the headers held in memory
    tip,        \* the last header of the longest chain
    pending,    \* the tips adopted and not yet on disk, oldest first
    durable     \* the tip of the chain on disk

vars == <<known, tip, pending, durable>>

Init ==
    /\ known = {Genesis}
    /\ tip = Genesis
    /\ pending = <<>>
    /\ durable = Genesis

(* A header is learned after its parent. *)
Learn(h) ==
    /\ h \notin known
    /\ Parent[h] \in known
    /\ known' = known \cup {h}
    /\ UNCHANGED <<tip, pending, durable>>

(* The tip moves to the heaviest known header, never to one as heavy as it. *)
Adopt(h) ==
    /\ TotalWork[h] > TotalWork[tip]
    /\ \A k \in known : TotalWork[k] <= TotalWork[h]
    /\ tip' = h
    /\ pending' = Append(pending, h)
    /\ UNCHANGED <<known, durable>>

(* Side branches are dropped all together, the longest chain never. *)
Forget ==
    /\ known' = Range(ChainTo[tip])
    /\ UNCHANGED <<tip, pending, durable>>

(* The oldest pending tip reaches the disk. *)
Save ==
    /\ pending # <<>>
    /\ durable' = Head(pending)
    /\ pending' = Tail(pending)
    /\ UNCHANGED <<known, tip>>

(* The process ends; what comes back is the chain on disk, whole. *)
Crash ==
    /\ known' = Range(ChainTo[durable])
    /\ tip' = durable
    /\ pending' = <<>>
    /\ UNCHANGED durable

Next ==
    \/ \E h \in Header : Learn(h)
    \/ \E h \in known : Adopt(h)
    \/ Forget
    \/ Save
    \/ Crash

Spec == Init /\ [][Next]_vars

=============================================================================

-------------------- MODULE BlockHeadersDatabase_proofs --------------------
(***************************************************************************)
(* Proofs about BlockHeadersDatabase, for every tree of headers, every     *)
(* set of batches and every set of invalid blocks.                         *)
(*                                                                         *)
(* IInv is inductive.  There is one lemma per action, and under it one     *)
(* step per conjunct of IInv the action can disturb.  Nothing is assumed   *)
(* of the headers' work, nor that a header comes once, but in the theorems *)
(* that say so: TreeIsExact and PruneAssertionsHold.                       *)
(***************************************************************************)
EXTENDS BlockHeadersDatabase, InductionLemmas

(* The initial state satisfies the inductive invariant: the constructor    *)
(* leaves genesis alone in the tree (50-81).                               *)
LEMMA InitIInv == Init => IInv
<1> SUFFICES ASSUME Init PROVE IInv
  OBVIOUS
<1> USE HeaderAssumption, DepthAssumption, InputAssumption DEF Init
<1>1. TypeOK
  <2>1. Genesis \in Header /\ Work[Genesis] \in Nat
    OBVIOUS
  <2>2. allHeaders \in [Known -> [height : Nat, workTotal : Nat]] /\ Known = {Genesis}
    BY <2>1 DEF Known
  <2>3. sortedHeadersIndex \in [OnChain -> Nat]
    BY DEF OnChain
  <2>4. headersTree \in [Known -> SUBSET Header]
    BY <2>2
  <2>5. sortedHeaders \in Seq(Header) \ {<<>>}
    BY <2>1
  <2>6. invalidBlocks \subseteq Header \ {Genesis}
    OBVIOUS
  <2>7. saveTasks \in Seq(Changes) /\ unsavedChanges \in Seq(Changes)
    OBVIOUS
  <2>8. headersTreeLeafHashes \subseteq Known
    BY <2>2
  <2>9. /\ phase \in {"idle", "insert", "collect", "prune"}
        /\ newHeaders \in Seq(Header)
        /\ headersInvalidated \in Seq(Header)
        /\ headersToAdd \in Seq(Header)
        /\ staleHeaderHashes \subseteq Header
        /\ status \in {"down", "loading", "open", "closing", "failed"}
        /\ levelDb \subseteq Entries
    OBVIOUS
  <2>10. saving \in BOOLEAN /\ (saving => unsavedChanges # <<>>)
    BY Zenon
  <2> HIDE HeaderAssumption, DepthAssumption, InputAssumption DEF Init
  <2> QED
    BY <2>1, <2>2, <2>3, <2>4, <2>5, <2>6, <2>7, <2>8, <2>9, <2>10
       DEF TypeOK
<1>2. SessionInv
  BY DEF SessionInv, Known
<1>3. HeadersDescendFromGenesis
  BY DEF HeadersDescendFromGenesis, Known
<1>4. TreeInv
  BY DEF TreeInv, Known
<1>5. LongestChainIsIndexed
  BY DEF LongestChainIsIndexed, Known, OnChain, HeightOf, Range
<1>6. TipIsHeaviest
  BY DEF TipIsHeaviest, Known, Tip, WorkTotal
<1>7. DepthInv
  BY DEF DepthInv, Known, HeightOf, WorkTotal
<1> QED
  BY <1>1, <1>2, <1>3, <1>4, <1>5, <1>6, <1>7
     DEF IInv, InsertInv, CollectInv, PruneInv

(* A change built from headers that are known has the type of a change:    *)
(* createLevelDbBatchArray takes the keys from the headers (19-35).        *)
LEMMA ChangeType ==
  ASSUME IInv, NEW removed \in Seq(Known), NEW added \in Seq(Known)
  PROVE  Change(removed, added) \in Changes
<1>1. \A h \in Known : h \in Header /\ HeightOf(h) = Depth[h] /\ HeightOf(h) \in Nat
  BY DEF IInv, TypeOK, DepthInv, HeightOf
<1>2. Range(removed) \subseteq Known /\ Range(added) \subseteq Known
  BY DEF Range
<1>3. {HeightOf(h) : h \in Range(removed)} \in SUBSET Nat
  BY <1>1, <1>2
<1>4. {<<HeightOf(h), h>> : h \in Range(added)} \in SUBSET Entries
  BY <1>1, <1>2 DEF Entries
<1> QED
  BY <1>3, <1>4 DEF Change, Changes

(* The tip of the longest chain is a known header on it. *)
LEMMA TipOnChain ==
  ASSUME IInv
  PROVE  Tip \in Known /\ Tip \in OnChain /\ Tip \in Header
BY DEF IInv, TypeOK, LongestChainIsIndexed, Tip, Range

(* The parent of a header on the longest chain is on it too, unless the    *)
(* header is genesis.                                                      *)
LEMMA ParentOnChain ==
  ASSUME IInv, NEW h \in OnChain, h # Genesis
  PROVE  Parent[h] \in OnChain
<1>1. PICK i \in 1..Len(sortedHeaders) : h = sortedHeaders[i]
  BY DEF IInv, TypeOK, LongestChainIsIndexed, Range
<1>2. i \in 2..Len(sortedHeaders)
  BY <1>1 DEF IInv, TypeOK, LongestChainIsIndexed
<1>3. Parent[h] = sortedHeaders[i - 1] /\ i - 1 \in DOMAIN sortedHeaders
  BY <1>1, <1>2 DEF IInv, TypeOK, LongestChainIsIndexed
<1> QED
  BY <1>3 DEF IInv, LongestChainIsIndexed, Range

(* Inserting a header keeps the invariant: its parent stops being a leaf   *)
(* only because a header no lighter takes its place (212-219).  One that   *)
(* is known already gets the height and the work it has.                   *)
LEMMA InsertHeaderStep ==
  ASSUME IInv, InsertHeader
  PROVE  IInv'
<1>0. PICK header \in Header : header = Head(newHeaders)
  BY DEF InsertHeader, LinkHeader, Leaves, IInv, TypeOK
<1> DEFINE prev == Parent[header]
<1>1. /\ prev \in Known /\ prev \in Header
      /\ header \notin invalidBlocks
      /\ header = newHeaders[1] /\ 1 \in DOMAIN newHeaders
      /\ newHeaders' = Tail(newHeaders)
      /\ newHeaders' \in Seq(Header)
      /\ phase = "insert" /\ phase' = "insert"
  BY <1>0 DEF InsertHeader, LinkHeader, Leaves, IInv, TypeOK
<1>2. header # Genesis /\ Depth[header] = Depth[prev] + 1
  BY <1>1, HeaderAssumption, DepthAssumption
<1>3. /\ Known' = Known \cup {header}
      /\ \A h \in Known : allHeaders'[h] = allHeaders[h]
      /\ allHeaders'[header] = [height    |-> HeightOf(prev) + 1,
                                workTotal |-> WorkTotal(prev) + Work[header]]
      /\ allHeaders' \in [Known' -> [height : Nat, workTotal : Nat]]
  <2>1. HeightOf(prev) \in Nat /\ WorkTotal(prev) \in Nat /\ Work[header] \in Nat
    BY <1>1, HeaderAssumption DEF IInv, TypeOK, HeightOf, WorkTotal
  <2>2. \A h \in Known : allHeaders[h] \in [height : Nat, workTotal : Nat]
    BY DEF IInv, TypeOK
  <2>3. allHeaders' = [h \in Known \cup {header} |->
                         IF h = header
                         THEN [height    |-> HeightOf(prev) + 1,
                               workTotal |-> WorkTotal(prev) + Work[header]]
                         ELSE allHeaders[h]]
    BY <1>0 DEF InsertHeader, LinkHeader, Leaves
  <2>4. Known' = Known \cup {header}
    BY <2>3 DEF Known
  <2>5. ASSUME header \in Known
        PROVE  allHeaders[header] = [height    |-> HeightOf(prev) + 1,
                                     workTotal |-> WorkTotal(prev) + Work[header]]
    <3>1. /\ HeightOf(header) = HeightOf(prev) + 1
          /\ WorkTotal(header) = WorkTotal(prev) + Work[header]
      BY <2>5, <1>2 DEF IInv, HeadersDescendFromGenesis
    <3>2. allHeaders[header] = [height |-> HeightOf(header), workTotal |-> WorkTotal(header)]
      BY <2>2, <2>5 DEF HeightOf, WorkTotal
    <3> QED
      BY <3>1, <3>2
  <2> QED
    BY <2>1, <2>2, <2>3, <2>4, <2>5
<1>4. /\ \A h \in Known : /\ WorkTotal(h)' = WorkTotal(h) /\ WorkTotal(h) \in Nat
                          /\ HeightOf(h)' = HeightOf(h)
      /\ WorkTotal(header)' = WorkTotal(prev) + Work[header]
      /\ HeightOf(header)' = HeightOf(prev) + 1
      /\ Work[header] \in Nat
  <2>1. \A h \in Known : allHeaders[h] \in [height : Nat, workTotal : Nat]
    BY DEF IInv, TypeOK
  <2>2. Work[header] \in Nat
    BY HeaderAssumption
  <2>3. \A h \in Known : /\ WorkTotal(h)' = WorkTotal(h)
                          /\ HeightOf(h)' = HeightOf(h)
                          /\ WorkTotal(h) \in Nat
    BY <1>3, <2>1 DEF WorkTotal, HeightOf
  <2>4. /\ WorkTotal(header)' = WorkTotal(prev) + Work[header]
        /\ HeightOf(header)' = HeightOf(prev) + 1
    BY <1>3 DEF WorkTotal, HeightOf
  <2> QED
    BY <2>2, <2>3, <2>4
<1>5. /\ headersTree' = [h \in Known' |->
                           IF h = header THEN {}
                           ELSE IF h = prev THEN headersTree[h] \cup {header}
                           ELSE headersTree[h]]
      /\ headersTreeLeafHashes' = (headersTreeLeafHashes \ {prev}) \cup {header}
  <2>1. DOMAIN headersTree = Known
    BY DEF IInv, TypeOK
  <2> QED
    BY <1>0, <1>3, <2>1 DEF InsertHeader, LinkHeader, Leaves
<1>6. /\ Tip' = Tip /\ OnChain' = OnChain
      /\ sortedHeaders' = sortedHeaders /\ sortedHeadersIndex' = sortedHeadersIndex
      /\ status' = status /\ invalidBlocks' = invalidBlocks
  BY DEF InsertHeader, LinkHeader, Leaves, chainVars, Tip, OnChain
<1>7. Tip \in Known /\ Tip \in OnChain
  BY TipOnChain
<1>8. TypeOK'
  <2>1. headersTree' \in [Known' -> SUBSET Header]
    BY <1>1, <1>3, <1>5 DEF IInv, TypeOK
  <2>2. Known' \subseteq Header /\ headersTreeLeafHashes' \subseteq Known'
    BY <1>1, <1>3, <1>5 DEF IInv, TypeOK
  <2>3. /\ saveTasks' = saveTasks /\ unsavedChanges' = unsavedChanges
        /\ saving' = saving /\ levelDb' = levelDb
        /\ headersInvalidated' = headersInvalidated
        /\ headersToAdd' = headersToAdd /\ staleHeaderHashes' = staleHeaderHashes
    BY DEF InsertHeader, LinkHeader, Leaves, saveVars
  <2> QED
    BY <1>1, <1>3, <1>6, <2>1, <2>2, <2>3 DEF IInv, TypeOK
<1>9. SessionInv'
  BY <1>1, <1>6 DEF IInv, SessionInv
<1>10. HeadersDescendFromGenesis'
  <2>1. /\ HeightOf(prev)' = HeightOf(prev) /\ WorkTotal(prev)' = WorkTotal(prev)
        /\ Genesis \in Known' /\ prev \in Known'
    BY <1>1, <1>3, <1>4 DEF IInv, HeadersDescendFromGenesis
  <2>2. ASSUME NEW h \in Known' \ {Genesis}
        PROVE  /\ Parent[h] \in Known'
               /\ h \notin invalidBlocks'
               /\ HeightOf(h)' = HeightOf(Parent[h])' + 1
               /\ WorkTotal(h)' = WorkTotal(Parent[h])' + Work[h]
    <3>1. CASE h = header
      BY <3>1, <2>1, <1>1, <1>4, <1>6
    <3>2. CASE h # header
      BY <3>2, <1>3, <1>4, <1>6 DEF IInv, HeadersDescendFromGenesis
    <3> QED
      BY <3>1, <3>2
  <2> QED
    BY <2>1, <2>2 DEF HeadersDescendFromGenesis
<1>11. TreeInv'
  <2>1. ASSUME NEW h \in Known'
        PROVE  headersTree'[h] \subseteq {c \in Known' : Parent[c] = h}
    <3>1. CASE h = header
      BY <3>1, <1>5
    <3>2. CASE h # header
      BY <3>2, <1>3, <1>5 DEF IInv, TreeInv
    <3> QED
      BY <3>1, <3>2
  <2>2. ASSUME NEW h \in Known', \A c \in Known' : Parent[c] # h
        PROVE  h \in headersTreeLeafHashes'
    BY <2>2, <1>3, <1>5 DEF IInv, TreeInv
  <2> QED
    BY <2>1, <2>2 DEF TreeInv
<1>12. LongestChainIsIndexed'
  BY <1>3, <1>4, <1>6 DEF IInv, LongestChainIsIndexed, Range
<1>13. DepthInv'
  <2>1. WorkTotal(prev) >= WorkTotal(Genesis) /\ Genesis \in Known
    BY <1>1 DEF IInv, DepthInv, HeadersDescendFromGenesis
  <2>2. \A h \in Known : HeightOf(h) = Depth[h] /\ WorkTotal(h) >= WorkTotal(Genesis)
    BY DEF IInv, DepthInv
  <2>3. WorkTotal(header)' >= WorkTotal(Genesis)
    BY <1>1, <1>4, <2>1
  <2> QED
    BY <1>1, <1>2, <1>3, <1>4, <2>1, <2>2, <2>3 DEF DepthInv
<1>14. InsertInv'
  <2>1. ASSUME NEW h \in Known'
        PROVE  \E l \in headersTreeLeafHashes' \cup {Tip} :
                  WorkTotal(h)' <= WorkTotal(l)'
    <3>1. CASE h = header
      BY <3>1, <1>1, <1>4, <1>5
    <3>2. CASE h \in Known
      <4>1. PICK l \in headersTreeLeafHashes \cup {Tip} : WorkTotal(h) <= WorkTotal(l)
        BY <3>2, <1>1 DEF IInv, InsertInv
      <4>2. l \in Known
        BY <4>1, <1>7 DEF IInv, TypeOK
      <4>3. CASE l \in headersTreeLeafHashes' \cup {Tip}
        BY <4>1, <4>2, <4>3, <3>2, <1>4
      <4>4. CASE l = prev
        BY <4>1, <4>2, <4>4, <3>2, <1>1, <1>4, <1>5
      <4> QED
        BY <4>1, <4>3, <4>4, <1>5
    <3> QED
      BY <3>1, <3>2, <1>3
  <2> QED
    BY <2>1, <1>6 DEF InsertInv
<1> QED
  BY <1>1, <1>8, <1>9, <1>10, <1>11, <1>12, <1>13, <1>14
     DEF IInv, TipIsHeaviest, CollectInv, PruneInv

(* A step that touches neither the tree nor the chain keeps what is said   *)
(* of them.                                                                *)
LEMMA HeadersFrame ==
  ASSUME IInv, UNCHANGED <<headerVars, chainVars, invalidBlocks>>
  PROVE  /\ Known' = Known /\ OnChain' = OnChain /\ Tip' = Tip
         /\ \A h : WorkTotal(h)' = WorkTotal(h) /\ HeightOf(h)' = HeightOf(h)
         /\ HeadersDescendFromGenesis'
         /\ TreeInv'
         /\ LongestChainIsIndexed'
         /\ DepthInv'
<1>1. /\ allHeaders' = allHeaders /\ headersTree' = headersTree
      /\ headersTreeLeafHashes' = headersTreeLeafHashes
      /\ sortedHeaders' = sortedHeaders /\ sortedHeadersIndex' = sortedHeadersIndex
      /\ invalidBlocks' = invalidBlocks
  BY DEF headerVars, chainVars
<1>2. /\ Known' = Known /\ OnChain' = OnChain /\ Tip' = Tip
      /\ \A h : WorkTotal(h)' = WorkTotal(h)
      /\ \A h : HeightOf(h)' = HeightOf(h)
  BY <1>1 DEF Known, OnChain, Tip, WorkTotal, HeightOf
<1>3. HeadersDescendFromGenesis'
  BY <1>1, <1>2 DEF IInv, HeadersDescendFromGenesis
<1>4. TreeInv'
  BY <1>1, <1>2 DEF IInv, TreeInv
<1>5. LongestChainIsIndexed'
  BY <1>1, <1>2 DEF IInv, LongestChainIsIndexed, Range
<1>6. DepthInv'
  BY <1>1, <1>2 DEF IInv, DepthInv
<1> QED
  BY <1>2, <1>3, <1>4, <1>5, <1>6

(* The same for the types of the variables a call does not write. *)
LEMMA TypeFrame ==
  ASSUME IInv, UNCHANGED <<headerVars, chainVars, invalidBlocks, saveVars>>,
         phase' \in {"idle", "insert", "collect", "prune"},
         newHeaders' \in Seq(Header),
         headersInvalidated' \in Seq(Header),
         headersToAdd' \in Seq(Header),
         staleHeaderHashes' \subseteq Header,
         status' \in {"down", "loading", "open", "closing", "failed"}
  PROVE  TypeOK'
<1>1. /\ allHeaders' = allHeaders /\ headersTree' = headersTree
      /\ headersTreeLeafHashes' = headersTreeLeafHashes
      /\ sortedHeaders' = sortedHeaders /\ sortedHeadersIndex' = sortedHeadersIndex
      /\ invalidBlocks' = invalidBlocks
      /\ saveTasks' = saveTasks /\ unsavedChanges' = unsavedChanges
      /\ saving' = saving /\ levelDb' = levelDb
  BY DEF headerVars, chainVars, saveVars
<1>2. Known' = Known /\ OnChain' = OnChain
  BY <1>1 DEF Known, OnChain
<1> QED
  BY <1>1, <1>2 DEF IInv, TypeOK

(* The same for the variables of the promise chain. *)
LEMMA SavingTypeFrame ==
  ASSUME IInv, UNCHANGED <<headerVars, chainVars, invalidBlocks>>,
         phase' = phase, newHeaders' = newHeaders,
         headersInvalidated' = headersInvalidated, headersToAdd' = headersToAdd,
         staleHeaderHashes' = staleHeaderHashes, status' = status,
         saveTasks' \in Seq(Changes), unsavedChanges' \in Seq(Changes),
         saving' \in BOOLEAN, saving' => unsavedChanges' # <<>>,
         levelDb' \subseteq Entries
  PROVE  TypeOK'
<1>1. /\ allHeaders' = allHeaders /\ headersTree' = headersTree
      /\ headersTreeLeafHashes' = headersTreeLeafHashes
      /\ sortedHeaders' = sortedHeaders /\ sortedHeadersIndex' = sortedHeadersIndex
      /\ invalidBlocks' = invalidBlocks
  BY DEF headerVars, chainVars
<1>2. Known' = Known /\ OnChain' = OnChain
  BY <1>1 DEF Known, OnChain
<1> QED
  BY <1>1, <1>2 DEF IInv, TypeOK

(* Leaving the loop at a header whose parent is unknown (187-194). *)
LEMMA BrokenChainStep ==
  ASSUME IInv, BrokenChain
  PROVE  IInv'
<1>1. /\ UNCHANGED <<headerVars, chainVars, invalidBlocks, saveVars>>
      /\ phase' = phase /\ phase = "insert" /\ newHeaders' = <<>>
      /\ headersInvalidated' = headersInvalidated
      /\ headersToAdd' = headersToAdd /\ currentHeader' = currentHeader
      /\ staleHeaderHashes' = staleHeaderHashes /\ status' = status
  BY DEF BrokenChain
<1>2. TypeOK'
  BY <1>1, TypeFrame DEF IInv, TypeOK
<1>3. InsertInv'
  BY <1>1, HeadersFrame DEF IInv, InsertInv, headerVars
<1>4. SessionInv'
  BY <1>1, HeadersFrame DEF IInv, SessionInv, chainVars
<1> QED
  BY <1>1, <1>2, <1>3, <1>4, HeadersFrame
     DEF IInv, TipIsHeaviest, CollectInv, PruneInv

(* Leaving the loop at an invalid block (197-210). *)
LEMMA InvalidHeaderStep ==
  ASSUME IInv, InvalidHeader
  PROVE  IInv'
<1>1. /\ UNCHANGED <<headerVars, chainVars, invalidBlocks, saveVars>>
      /\ phase' = phase /\ phase = "insert" /\ newHeaders' = <<>>
      /\ headersToAdd' = headersToAdd /\ currentHeader' = currentHeader
      /\ staleHeaderHashes' = staleHeaderHashes /\ status' = status
  BY DEF InvalidHeader
<1>2. headersInvalidated' \in Seq(Header)
  <2>1. PICK n \in 1..Len(newHeaders) : headersInvalidated' = SubSeq(newHeaders, 1, n)
    BY DEF InvalidHeader
  <2> QED
    BY <2>1 DEF IInv, TypeOK
<1>3. TypeOK'
  BY <1>1, <1>2, TypeFrame DEF IInv, TypeOK
<1>4. InsertInv'
  BY <1>1, HeadersFrame DEF IInv, InsertInv, headerVars
<1>5. SessionInv'
  BY <1>1, HeadersFrame DEF IInv, SessionInv, chainVars
<1> QED
  BY <1>1, <1>3, <1>4, <1>5, HeadersFrame
     DEF IInv, TipIsHeaviest, CollectInv, PruneInv

(* No leaf is heavier than the tip, so no header is (235-242). *)
LEMMA KeepTipStep ==
  ASSUME IInv, KeepTip
  PROVE  IInv'
<1>1. /\ UNCHANGED <<headerVars, chainVars, invalidBlocks, saveVars>>
      /\ phase = "insert" /\ phase' = "idle" /\ status' = "open"
      /\ newHeaders' = newHeaders /\ headersInvalidated' = headersInvalidated
      /\ headersToAdd' = headersToAdd /\ currentHeader' = currentHeader
      /\ staleHeaderHashes' = staleHeaderHashes
  BY DEF KeepTip, ReturnFromInsert
<1>2. TypeOK'
  BY <1>1, TypeFrame DEF IInv, TypeOK
<1>3. TipIsHeaviest'
  <2>1. \A l \in headersTreeLeafHashes : WorkTotal(l) <= WorkTotal(Tip)
    <3>1. \A l \in Known : WorkTotal(l) \in Nat
      BY DEF IInv, TypeOK, WorkTotal
    <3>2. headersTreeLeafHashes \subseteq Known
      BY DEF IInv, TypeOK
    <3> QED
      BY <3>1, <3>2, TipOnChain DEF KeepTip, HeavierLeaves
  <2>2. ASSUME NEW h \in Known PROVE WorkTotal(h) <= WorkTotal(Tip)
    <3>1. PICK l \in headersTreeLeafHashes \cup {Tip} : WorkTotal(h) <= WorkTotal(l)
      BY <1>1 DEF IInv, InsertInv
    <3>2. l \in Known /\ WorkTotal(l) <= WorkTotal(Tip)
      BY <2>1, <3>1, TipOnChain DEF IInv, TypeOK, WorkTotal
    <3>3. \A k \in Known : WorkTotal(k) \in Nat
      BY DEF IInv, TypeOK, WorkTotal
    <3> QED
      BY <3>1, <3>2, <3>3, TipOnChain
  <2> QED
    BY <1>1, <2>2, HeadersFrame DEF TipIsHeaviest
<1>4. SessionInv'
  BY <1>1 DEF SessionInv
<1> QED
  BY <1>1, <1>2, <1>3, <1>4, HeadersFrame
     DEF IInv, InsertInv, CollectInv, PruneInv

(* The walk back begins at a leaf that outweighs every header (222-246). *)
LEMMA ChooseTipStep ==
  ASSUME IInv, ChooseTip
  PROVE  IInv'
<1>1. /\ UNCHANGED <<headerVars, chainVars, invalidBlocks, saveVars>>
      /\ phase = "insert" /\ phase' = "collect" /\ status' = status
      /\ newHeaders' = newHeaders /\ headersInvalidated' = headersInvalidated
      /\ headersToAdd' = <<>> /\ staleHeaderHashes' = staleHeaderHashes
  BY DEF ChooseTip
<1>2. PICK leaf \in HeavierLeaves :
        /\ \A l \in HeavierLeaves : WorkTotal(l) <= WorkTotal(leaf)
        /\ currentHeader' = leaf
  BY DEF ChooseTip
<1>3. TypeOK'
  BY <1>1, TypeFrame DEF IInv, TypeOK
<1>4. CollectInv'
  <2>1. \A h \in Known : WorkTotal(h) \in Nat
    BY DEF IInv, TypeOK, WorkTotal
  <2>2. leaf \in Known /\ WorkTotal(Tip) < WorkTotal(leaf)
    BY <1>2, <2>1, TipOnChain DEF HeavierLeaves, IInv, TypeOK
  <2>3. \A l \in headersTreeLeafHashes \cup {Tip} :
          l \in Known /\ WorkTotal(l) <= WorkTotal(leaf)
    BY <1>2, <2>1, <2>2, TipOnChain DEF HeavierLeaves, IInv, TypeOK
  <2>4. ASSUME NEW h \in Known PROVE WorkTotal(h) <= WorkTotal(leaf)
    <3>1. PICK l \in headersTreeLeafHashes \cup {Tip} : WorkTotal(h) <= WorkTotal(l)
      BY <1>1 DEF IInv, InsertInv
    <3> QED
      BY <2>1, <2>2, <2>3, <3>1
  <2>5. NewTip' = leaf
    BY <1>1, <1>2 DEF NewTip
  <2> QED
    BY <1>1, <1>2, <2>2, <2>4, <2>5, HeadersFrame DEF CollectInv
<1>5. SessionInv'
  BY <1>1, HeadersFrame DEF IInv, SessionInv, chainVars
<1> QED
  BY <1>1, <1>3, <1>4, <1>5, HeadersFrame
     DEF IInv, TipIsHeaviest, InsertInv, PruneInv

(* One step of the walk back: the parent of a header that is not on the    *)
(* longest chain is known, so the walk never falls off the tree (247-251). *)
LEMMA CollectHeaderStep ==
  ASSUME IInv, CollectHeader
  PROVE  IInv'
<1>1. /\ UNCHANGED <<headerVars, chainVars, invalidBlocks, saveVars>>
      /\ phase = "collect" /\ phase' = "collect" /\ status' = status
      /\ newHeaders' = newHeaders /\ headersInvalidated' = headersInvalidated
      /\ staleHeaderHashes' = staleHeaderHashes
      /\ currentHeader \in Known /\ currentHeader \notin OnChain
      /\ headersToAdd' = <<currentHeader>> \o headersToAdd
      /\ currentHeader' = Parent[currentHeader]
  BY DEF CollectHeader
<1>2. /\ headersToAdd \in Seq(Header) /\ currentHeader \in Header
      /\ headersToAdd' \in Seq(Header)
      /\ Len(headersToAdd') = Len(headersToAdd) + 1
      /\ headersToAdd'[1] = currentHeader
      /\ \A i \in 2..Len(headersToAdd') :
            headersToAdd'[i] = headersToAdd[i - 1] /\ i - 1 \in DOMAIN headersToAdd
  BY <1>1 DEF IInv, TypeOK
<1>3. TypeOK'
  BY <1>1, <1>2, TypeFrame DEF IInv, TypeOK
<1>4. CollectInv'
  <2>4. currentHeader # Genesis
    BY <1>1 DEF IInv, TypeOK, LongestChainIsIndexed, Range
  <2>1. Parent[currentHeader] \in Known
    BY <1>1, <2>4 DEF IInv, HeadersDescendFromGenesis
  <2>2. NewTip' = NewTip
    BY <1>1, <1>2 DEF NewTip
  <2>3. ASSUME NEW i \in DOMAIN headersToAdd'
        PROVE  /\ headersToAdd'[i] \in Known \ OnChain
               /\ HeightOf(headersToAdd'[i]) = HeightOf(currentHeader') + i
               /\ Parent[headersToAdd'[i]] =
                    IF i = 1 THEN currentHeader' ELSE headersToAdd'[i - 1]
    <3>0. /\ HeightOf(currentHeader) = HeightOf(currentHeader') + 1
          /\ HeightOf(currentHeader') \in Nat
      BY <1>1, <2>1, <2>4 DEF IInv, HeadersDescendFromGenesis, TypeOK, HeightOf
    <3>1. CASE i = 1
      BY <3>0, <3>1, <1>1, <1>2
    <3>2. CASE i = 2
      <4>1. headersToAdd'[2] = headersToAdd[1] /\ 1 \in DOMAIN headersToAdd
        BY <3>2, <1>2
      <4>2. /\ headersToAdd[1] \in Known \ OnChain
            /\ Parent[headersToAdd[1]] = currentHeader
            /\ HeightOf(headersToAdd[1]) = HeightOf(currentHeader) + 1
        BY <4>1, <1>1 DEF IInv, CollectInv
      <4> QED
        BY <3>0, <3>2, <4>1, <4>2, <1>2
    <3>3. CASE i > 2
      <4>1. /\ i - 1 \in DOMAIN headersToAdd /\ i - 1 # 1
            /\ headersToAdd'[i] = headersToAdd[i - 1]
            /\ headersToAdd'[i - 1] = headersToAdd[(i - 1) - 1]
        BY <3>3, <1>2
      <4>2. /\ headersToAdd[i - 1] \in Known \ OnChain
            /\ HeightOf(headersToAdd[i - 1]) = HeightOf(currentHeader) + (i - 1)
            /\ Parent[headersToAdd[i - 1]] = headersToAdd[(i - 1) - 1]
        BY <4>1, <1>1 DEF IInv, CollectInv
      <4> QED
        BY <3>0, <3>3, <4>1, <4>2, <1>2
    <3> QED
      BY <3>1, <3>2, <3>3, <1>2
  <2> QED
    BY <1>1, <2>1, <2>2, <2>3, HeadersFrame DEF IInv, CollectInv
<1>5. SessionInv'
  BY <1>1, HeadersFrame DEF IInv, SessionInv, chainVars
<1> QED
  BY <1>1, <1>3, <1>4, <1>5, HeadersFrame
     DEF IInv, TipIsHeaviest, InsertInv, PruneInv

(* pruneBranches begins with the leaves other than the tip (308-309). *)
LEMMA PruneBranchesStep ==
  ASSUME IInv, PruneBranches
  PROVE  IInv'
<1>1. /\ UNCHANGED <<headerVars, chainVars, invalidBlocks, saveVars>>
      /\ phase = "idle" /\ phase' = "prune" /\ status' = status /\ status = "open"
      /\ newHeaders' = newHeaders /\ headersInvalidated' = headersInvalidated
      /\ headersToAdd' = headersToAdd
      /\ staleHeaderHashes' = headersTreeLeafHashes \ {Tip}
  BY DEF PruneBranches
<1>2. TypeOK'
  BY <1>1, TypeFrame DEF IInv, TypeOK
<1>4. PruneInv'
  BY <1>1, HeadersFrame DEF IInv, TypeOK, PruneInv, headerVars
<1>5. SessionInv'
  BY <1>1, HeadersFrame DEF IInv, SessionInv
<1> QED
  BY <1>1, <1>2, <1>4, <1>5, HeadersFrame
     DEF IInv, TipIsHeaviest, InsertInv, CollectInv

(* One step of the walk from a stale leaf: the parent it comes to is known *)
(* and not on the longest chain (314-318).                                 *)
LEMMA WalkStaleBranchStep ==
  ASSUME IInv, WalkStaleBranch
  PROVE  IInv'
<1>1. /\ UNCHANGED <<headerVars, chainVars, invalidBlocks, saveVars>>
      /\ phase = "prune" /\ phase' = "prune" /\ status' = status
      /\ newHeaders' = newHeaders /\ headersInvalidated' = headersInvalidated
      /\ headersToAdd' = headersToAdd
  BY DEF WalkStaleBranch
<1>2. PICK h \in Unwalked : staleHeaderHashes' = staleHeaderHashes \cup {Parent[h]}
  BY DEF WalkStaleBranch
<1>3. Parent[h] \in Known \ OnChain
  <2>1. h \in Known \ OnChain /\ Parent[h] \notin OnChain
    BY <1>1, <1>2 DEF Unwalked, IInv, PruneInv
  <2>2. h # Genesis
    BY <2>1 DEF IInv, TypeOK, LongestChainIsIndexed, Range
  <2> QED
    BY <2>1, <2>2 DEF IInv, HeadersDescendFromGenesis
<1>4. TypeOK'
  BY <1>1, <1>2, <1>3, TypeFrame DEF IInv, TypeOK
<1>5. PruneInv'
  BY <1>1, <1>2, <1>3, TipOnChain, HeadersFrame DEF IInv, PruneInv, headerVars
<1>6. SessionInv'
  BY <1>1, HeadersFrame DEF IInv, SessionInv
<1> QED
  BY <1>1, <1>4, <1>5, <1>6, HeadersFrame
     DEF IInv, TipIsHeaviest, InsertInv, CollectInv

(* The splice keeps the chain up to the header where the walk met it, and  *)
(* the headers collected follow (253-256).                                 *)
LEMMA SplicedChain ==
  ASSUME IInv, SpliceChain
  PROVE  \E start \in 1..Len(sortedHeaders) :
           /\ currentHeader = sortedHeaders[start]
           /\ start = HeightOf(currentHeader) + 1
           /\ sortedHeaders' \in Seq(Header)
           /\ Len(sortedHeaders') = start + Len(headersToAdd)
           /\ \A i \in 1..start : sortedHeaders'[i] = sortedHeaders[i]
           /\ \A i \in 1..Len(headersToAdd) : sortedHeaders'[start + i] = headersToAdd[i]
<1>1. PICK start \in 1..Len(sortedHeaders) : currentHeader = sortedHeaders[start]
  BY DEF SpliceChain, IInv, TypeOK, LongestChainIsIndexed, Range
<1>2. start = HeightOf(currentHeader) + 1
  BY <1>1 DEF IInv, TypeOK, LongestChainIsIndexed
<1>3. /\ headersToAdd \in Seq(Header) /\ sortedHeaders \in Seq(Header)
      /\ Len(sortedHeaders) \in Nat /\ Len(headersToAdd) \in Nat
  BY DEF IInv, TypeOK
<1>4. sortedHeaders' = SubSeq(sortedHeaders, 1, start) \o headersToAdd
  BY <1>2 DEF SpliceChain
<1>5. /\ SubSeq(sortedHeaders, 1, start) \in Seq(Header)
      /\ Len(SubSeq(sortedHeaders, 1, start)) = start
      /\ \A i \in 1..start : SubSeq(sortedHeaders, 1, start)[i] = sortedHeaders[i]
  BY <1>3
<1>6. /\ sortedHeaders' \in Seq(Header)
      /\ Len(sortedHeaders') = start + Len(headersToAdd)
      /\ \A i \in 1..start : sortedHeaders'[i] = sortedHeaders[i]
      /\ \A i \in 1..Len(headersToAdd) : sortedHeaders'[start + i] = headersToAdd[i]
  BY <1>3, <1>4, <1>5
<1> QED
  BY <1>1, <1>2, <1>6

(* The new tip is the leaf where the walk back began. *)
LEMMA SplicedTip ==
  ASSUME IInv, SpliceChain
  PROVE  Tip' = NewTip
<1>1. headersToAdd \in Seq(Header) /\ Len(headersToAdd) \in Nat
  BY DEF IInv, TypeOK
<1>2. PICK start \in 1..Len(sortedHeaders) :
        /\ currentHeader = sortedHeaders[start]
        /\ Len(sortedHeaders') = start + Len(headersToAdd)
        /\ \A i \in 1..start : sortedHeaders'[i] = sortedHeaders[i]
        /\ \A i \in 1..Len(headersToAdd) : sortedHeaders'[start + i] = headersToAdd[i]
  BY SplicedChain
<1>3. start \in Nat /\ start \in 1..start
  BY <1>2 DEF IInv, TypeOK
<1>4. CASE headersToAdd = <<>>
  <2>1. Len(sortedHeaders') = start
    BY <1>2, <1>3, <1>4
  <2> QED
    BY <1>2, <1>3, <1>4, <2>1 DEF Tip, NewTip
<1>5. CASE headersToAdd # <<>>
  <2>1. Len(headersToAdd) \in 1..Len(headersToAdd)
    BY <1>1, <1>5
  <2> QED
    BY <1>2, <1>5, <2>1 DEF Tip, NewTip
<1> QED
  BY <1>4, <1>5

(* The splice: the headers collected replace what lay above the header in  *)
(* common, at the heights that follow its own, and the index follows       *)
(* (253-261).                                                              *)
LEMMA SpliceChainStep ==
  ASSUME IInv, SpliceChain
  PROVE  IInv'
<1>1. /\ UNCHANGED <<headerVars, invalidBlocks>>
      /\ phase = "collect" /\ phase' = "idle" /\ status' = "open"
      /\ newHeaders' = newHeaders /\ headersInvalidated' = headersInvalidated
      /\ headersToAdd' = headersToAdd /\ staleHeaderHashes' = staleHeaderHashes
      /\ unsavedChanges' = unsavedChanges /\ saving' = saving /\ levelDb' = levelDb
      /\ currentHeader \in OnChain
  BY DEF SpliceChain, ReturnFromInsert
<1>2. /\ allHeaders' = allHeaders /\ headersTree' = headersTree
      /\ headersTreeLeafHashes' = headersTreeLeafHashes
      /\ Known' = Known
      /\ \A h : WorkTotal(h)' = WorkTotal(h) /\ HeightOf(h)' = HeightOf(h)
  BY <1>1 DEF headerVars, Known, WorkTotal, HeightOf
<1>3. PICK start \in 1..Len(sortedHeaders) :
         /\ currentHeader = sortedHeaders[start]
         /\ start = HeightOf(currentHeader) + 1
         /\ sortedHeaders' \in Seq(Header)
         /\ Len(sortedHeaders') = start + Len(headersToAdd)
         /\ \A i \in 1..start : sortedHeaders'[i] = sortedHeaders[i]
         /\ \A i \in 1..Len(headersToAdd) : sortedHeaders'[start + i] = headersToAdd[i]
  BY SplicedChain
<1>4. start = HeightOf(currentHeader) + 1 /\ HeightOf(currentHeader) = start - 1
  BY <1>3 DEF IInv, TypeOK, LongestChainIsIndexed
<1>5. /\ headersToAdd \in Seq(Header) /\ sortedHeaders \in Seq(Header)
      /\ Len(sortedHeaders) \in Nat /\ Len(headersToAdd) \in Nat
  BY DEF IInv, TypeOK
<1>6. /\ sortedHeaders' \in Seq(Header)
      /\ Len(sortedHeaders') = start + Len(headersToAdd)
      /\ \A i \in 1..start : sortedHeaders'[i] = sortedHeaders[i]
      /\ \A i \in 1..Len(headersToAdd) : sortedHeaders'[start + i] = headersToAdd[i]
  BY <1>3
<1>7. \A i \in DOMAIN headersToAdd :
        /\ headersToAdd[i] \in Known \ OnChain
        /\ HeightOf(headersToAdd[i]) = start - 1 + i
        /\ Parent[headersToAdd[i]] = IF i = 1 THEN currentHeader ELSE headersToAdd[i - 1]
  BY <1>1, <1>4 DEF IInv, CollectInv
<1>8. \A i, j \in DOMAIN headersToAdd : headersToAdd[i] = headersToAdd[j] => i = j
  BY <1>5, <1>7
<1>9. \A i \in 1..Len(sortedHeaders) :
        /\ sortedHeaders[i] \in Known /\ sortedHeaders[i] \in OnChain
        /\ sortedHeadersIndex[sortedHeaders[i]] = i - 1
        /\ HeightOf(sortedHeaders[i]) = i - 1
  BY DEF IInv, LongestChainIsIndexed, Range, TypeOK
<1>10. PICK removed \in Seq(Header) :
         /\ removed = SubSeq(sortedHeaders, start + 1, Len(sortedHeaders))
         /\ Len(removed) = Len(sortedHeaders) - start
         /\ \A i \in 1..Len(removed) : removed[i] = sortedHeaders[start + i]
  <2>1. start + 1 \in 1..Len(sortedHeaders) + 1
    BY <1>5
  <2>2. SubSeq(sortedHeaders, start + 1, Len(sortedHeaders)) \in Seq(Header)
    BY <1>5, <2>1
  <2>3. Len(SubSeq(sortedHeaders, start + 1, Len(sortedHeaders))) = Len(sortedHeaders) - start
    BY <1>5, <2>1
  <2>4. \A i \in 1..Len(sortedHeaders) - start :
          SubSeq(sortedHeaders, start + 1, Len(sortedHeaders))[i] = sortedHeaders[start + i]
    BY <1>5, <2>1
  <2> QED
    BY <2>2, <2>3, <2>4
<1>11. /\ OnChain' = (OnChain \ Range(removed)) \cup Range(headersToAdd)
       /\ \A h \in OnChain' :
            /\ h \notin Range(headersToAdd) => sortedHeadersIndex'[h] = sortedHeadersIndex[h]
            /\ h \in Range(headersToAdd) =>
                 \A i \in DOMAIN headersToAdd :
                   headersToAdd[i] = h => sortedHeadersIndex'[h] = start + i - 1
       /\ sortedHeadersIndex' = [h \in OnChain' |-> sortedHeadersIndex'[h]]
  <2> DEFINE n == HeightOf(currentHeader) + 1
             gone == SubSeq(sortedHeaders, n + 1, Len(sortedHeaders))
             place(h) == CHOOSE i \in DOMAIN headersToAdd : headersToAdd[i] = h
  <2>1. sortedHeadersIndex' =
          [h \in (OnChain \ Range(gone)) \cup Range(headersToAdd) |->
             IF h \in Range(headersToAdd) THEN n + place(h) - 1
             ELSE sortedHeadersIndex[h]]
    BY Zenon DEF SpliceChain
  <2>2. n = start /\ gone = removed
    BY <1>4, <1>10
  <2>3. ASSUME NEW i \in DOMAIN headersToAdd PROVE place(headersToAdd[i]) = i
    BY <1>8
  <2> HIDE DEF n, gone, place
  <2> QED
    BY <2>1, <2>2, <2>3 DEF OnChain
<1>12. Range(headersToAdd) = {headersToAdd[i] : i \in 1..Len(headersToAdd)}
       /\ Range(removed) = {sortedHeaders[i] : i \in start + 1 .. Len(sortedHeaders)}
  <2>1. Range(headersToAdd) = {headersToAdd[i] : i \in 1..Len(headersToAdd)}
    BY <1>5 DEF Range
  <2>2. \A i \in start + 1 .. Len(sortedHeaders) :
          i - start \in 1..Len(removed) /\ sortedHeaders[i] = removed[i - start]
    <3>1. \A i \in start + 1 .. Len(sortedHeaders) :
            i - start \in 1..Len(removed) /\ start + (i - start) = i
      BY <1>5, <1>10
    <3> QED
      BY <3>1, <1>10
  <2>3. \A i \in 1..Len(removed) :
          start + i \in start + 1 .. Len(sortedHeaders) /\ removed[i] = sortedHeaders[start + i]
    BY <1>5, <1>10
  <2>4. Range(removed) = {removed[i] : i \in 1..Len(removed)}
    <3>1. DOMAIN removed = 1..Len(removed)
      OBVIOUS
    <3> QED
      BY Zenon, <3>1 DEF Range
  <2>5. ASSUME NEW i \in 1..Len(removed)
        PROVE  removed[i] \in {sortedHeaders[j] : j \in start + 1 .. Len(sortedHeaders)}
    BY Zenon, <2>3
  <2>6. ASSUME NEW i \in start + 1 .. Len(sortedHeaders)
        PROVE  sortedHeaders[i] \in {removed[j] : j \in 1..Len(removed)}
    BY Zenon, <2>2
  <2> QED
    BY <2>1, <2>4, <2>5, <2>6
<1>13. \A i \in 1..start + Len(headersToAdd) :
         /\ sortedHeaders'[i] \in Known
         /\ sortedHeaders'[i] \in OnChain'
         /\ sortedHeadersIndex'[sortedHeaders'[i]] = i - 1
         /\ HeightOf(sortedHeaders'[i]) = i - 1
  <2>1. ASSUME NEW i \in 1..start
        PROVE  /\ sortedHeaders[i] \in OnChain \ Range(removed)
               /\ sortedHeaders[i] \notin Range(headersToAdd)
    <3>1. sortedHeaders[i] \notin Range(removed)
      BY <1>5, <1>9, <1>12
    <3> QED
      BY <3>1, <1>5, <1>7, <1>9, <1>12
  <2>2. ASSUME NEW i \in 1..Len(headersToAdd)
        PROVE  sortedHeadersIndex'[headersToAdd[i]] = start + i - 1
               /\ headersToAdd[i] \in OnChain'
    <3>1. headersToAdd[i] \in Range(headersToAdd) /\ i \in DOMAIN headersToAdd
      BY <1>5, <1>12
    <3> QED
      BY <3>1, <1>11
  <2>3. ASSUME NEW i \in 1..start
        PROVE  sortedHeadersIndex'[sortedHeaders[i]] = i - 1
               /\ sortedHeaders[i] \in OnChain'
    BY <2>1, <1>5, <1>9, <1>11
  <2>4. ASSUME NEW i \in 1..start + Len(headersToAdd), i > start
        PROVE  i - start \in 1..Len(headersToAdd)
               /\ sortedHeaders'[i] = headersToAdd[i - start]
    <3>1. i - start \in 1..Len(headersToAdd) /\ i = start + (i - start)
      BY <2>4, <1>5
    <3> QED
      BY <3>1, <1>6
  <2>5. ASSUME NEW i \in 1..start + Len(headersToAdd), i > start
        PROVE  /\ sortedHeaders'[i] \in Known
               /\ sortedHeaders'[i] \in OnChain'
               /\ sortedHeadersIndex'[sortedHeaders'[i]] = i - 1
               /\ HeightOf(sortedHeaders'[i]) = i - 1
    <3>1. PICK j \in 1..Len(headersToAdd) : j = i - start
      BY <2>4, <2>5
    <3>2. sortedHeaders'[i] = headersToAdd[j] /\ start + j - 1 = i - 1 /\ start - 1 + j = i - 1
      BY <2>4, <2>5, <3>1, <1>5
    <3>3. /\ sortedHeadersIndex'[headersToAdd[j]] = start + j - 1
          /\ headersToAdd[j] \in OnChain'
      BY <2>2
    <3>4. headersToAdd[j] \in Known /\ HeightOf(headersToAdd[j]) = start - 1 + j
      BY <1>5, <1>7
    <3> HIDE <2>2, <2>4
    <3>5. HeightOf(sortedHeaders'[i]) = HeightOf(headersToAdd[j])
      BY <3>2
    <3> QED
      BY <3>2, <3>3, <3>4, <3>5
  <2>6. ASSUME NEW i \in 1..start + Len(headersToAdd), i <= start
        PROVE  /\ sortedHeaders'[i] \in Known
               /\ sortedHeaders'[i] \in OnChain'
               /\ sortedHeadersIndex'[sortedHeaders'[i]] = i - 1
               /\ HeightOf(sortedHeaders'[i]) = i - 1
    <3>1. i \in 1..start /\ sortedHeaders'[i] = sortedHeaders[i] /\ i \in 1..Len(sortedHeaders)
      BY <2>6, <1>5, <1>6
    <3> QED
      BY <3>1, <2>3, <1>9
  <2> QED
    BY <2>5, <2>6, <1>5
<1>14. LongestChainIsIndexed'
  <2>1. sortedHeaders'[1] = Genesis
    <3>1. sortedHeaders[1] = Genesis
      BY DEF IInv, LongestChainIsIndexed
    <3>2. 1 \in 1..start
      BY <1>5
    <3>3. sortedHeaders'[1] = sortedHeaders[1]
      BY <3>2, <1>6
    <3> QED
      BY <3>1, <3>3
  <2>2. ASSUME NEW i \in 2..Len(sortedHeaders')
        PROVE  Parent[sortedHeaders'[i]] = sortedHeaders'[i - 1]
    <3>1. CASE i <= start
      <4>1. i \in 2..Len(sortedHeaders) /\ i \in 1..start /\ i - 1 \in 1..start
        BY <3>1, <1>5, <1>6
      <4> QED
        BY <4>1, <1>6 DEF IInv, LongestChainIsIndexed
    <3>2. CASE i = start + 1
      <4>1. 1 \in 1..Len(headersToAdd) /\ i - 1 = start /\ start \in 1..start
        BY <3>2, <1>5, <1>6
      <4>2. sortedHeaders'[i] = headersToAdd[1] /\ sortedHeaders'[i - 1] = currentHeader
        BY <3>2, <4>1, <1>3, <1>6
      <4> QED
        BY <4>1, <4>2, <1>5, <1>7
    <3>3. CASE i > start + 1
      <4>1. /\ i - start \in 1..Len(headersToAdd) /\ i - start # 1
            /\ (i - start) - 1 \in 1..Len(headersToAdd)
            /\ i = start + (i - start) /\ i - 1 = start + ((i - start) - 1)
        BY <3>3, <1>5, <1>6
      <4>2. /\ sortedHeaders'[i] = headersToAdd[i - start]
            /\ sortedHeaders'[i - 1] = headersToAdd[(i - start) - 1]
        BY <4>1, <1>6
      <4> QED
        BY <4>1, <4>2, <1>5, <1>7
    <3> QED
      BY <3>1, <3>2, <3>3, <1>5, <1>6
  <2>3. OnChain' = Range(sortedHeaders')
    <3>1. Range(sortedHeaders') \subseteq OnChain'
      BY <1>6, <1>13 DEF Range
    <3>2. ASSUME NEW h \in OnChain' PROVE h \in Range(sortedHeaders')
      <4>1. CASE h \in Range(headersToAdd)
        <5>1. PICK i \in 1..Len(headersToAdd) : h = headersToAdd[i]
          BY <4>1, <1>12
        <5>2. start + i \in 1..Len(sortedHeaders') /\ sortedHeaders'[start + i] = h
          BY <5>1, <1>5, <1>6
        <5> QED
          BY <5>2, <1>6 DEF Range
      <4>2. CASE h \in OnChain \ Range(removed)
        <5>1. PICK i \in 1..Len(sortedHeaders) : h = sortedHeaders[i]
          BY <4>2 DEF IInv, TypeOK, LongestChainIsIndexed, Range
        <5>2. i \in 1..start
          BY <5>1, <4>2, <1>5, <1>12
        <5>3. i \in 1..Len(sortedHeaders') /\ sortedHeaders'[i] = h
          BY <5>1, <5>2, <1>5, <1>6
        <5> QED
          BY <5>3, <1>6 DEF Range
      <4> QED
        BY <4>1, <4>2, <1>11
    <3> QED
      BY <3>1, <3>2
  <2> QED
    BY <2>1, <2>2, <2>3, <1>2, <1>6, <1>13 DEF LongestChainIsIndexed
<1>15. TypeOK'
  <2>1. sortedHeaders' # <<>>
    BY <1>5, <1>6
  <2>2. sortedHeadersIndex' \in [OnChain' -> Nat]
    <3>1. ASSUME NEW h \in OnChain' PROVE sortedHeadersIndex'[h] \in Nat
      <4>1. PICK i \in 1..start + Len(headersToAdd) : h = sortedHeaders'[i]
        BY <1>5, <1>6, <1>14 DEF LongestChainIsIndexed, Range
      <4> QED
        BY <4>1, <1>5, <1>13
    <3>2. sortedHeadersIndex' = [h \in OnChain' |-> sortedHeadersIndex'[h]]
      BY <1>11
    <3> QED
      BY <3>1, <3>2
  <2>3. saveTasks' \in Seq(Changes)
    <3>1. headersToAdd \in Seq(Known) /\ removed \in Seq(Known)
      BY <1>5, <1>7, <1>9, <1>10
    <3>2. Change(removed, headersToAdd) \in Changes
      BY <3>1, ChangeType
    <3>3. saveTasks' = IF status = "open"
                       THEN Append(saveTasks, Change(removed, headersToAdd))
                       ELSE saveTasks
      BY <1>4, <1>10 DEF SpliceChain
    <3> QED
      BY <3>2, <3>3 DEF IInv, TypeOK
  <2> QED
    BY <1>1, <1>2, <1>6, <2>1, <2>2, <2>3 DEF IInv, TypeOK
<1>16. TipIsHeaviest'
  <2>1. Tip' = NewTip
    BY SplicedTip
  <2> QED
    BY <1>1, <1>2, <2>1 DEF IInv, CollectInv, TipIsHeaviest
<1>17. HeadersDescendFromGenesis' /\ TreeInv' /\ DepthInv'
  BY <1>1, <1>2 DEF IInv, HeadersDescendFromGenesis, TreeInv, DepthInv
<1>18. SessionInv'
  BY <1>1 DEF SessionInv
<1> QED
  BY <1>1, <1>14, <1>15, <1>16, <1>17, <1>18
     DEF IInv, InsertInv, CollectInv, PruneInv

(* A header of the longest chain below the tip has a child on it. *)
LEMMA ChildOnChain ==
  ASSUME IInv, NEW h \in OnChain, h # Tip
  PROVE  \E c \in OnChain : c \in Known /\ Parent[c] = h
<1>1. PICK i \in 1..Len(sortedHeaders) : h = sortedHeaders[i]
  BY DEF IInv, TypeOK, LongestChainIsIndexed, Range
<1>2. i + 1 \in 2..Len(sortedHeaders) /\ i + 1 \in 1..Len(sortedHeaders) /\ (i + 1) - 1 = i
  BY <1>1 DEF Tip, IInv, TypeOK
<1>3. Parent[sortedHeaders[i + 1]] = sortedHeaders[(i + 1) - 1]
  BY <1>2 DEF IInv, LongestChainIsIndexed
<1>4. sortedHeaders[i + 1] \in Known /\ sortedHeaders[i + 1] \in OnChain
  BY <1>2 DEF IInv, TypeOK, LongestChainIsIndexed, Range
<1> QED
  BY <1>1, <1>2, <1>3, <1>4

(* When the walk from the stale leaves has ended, every header that is not *)
(* on the longest chain is stale.  Were some not, the highest of these     *)
(* would be no leaf, and its child not stale either, as the walk has ended.*)
LEMMA StaleIsRest ==
  ASSUME IInv, phase = "prune", Unwalked = {}, staleHeaderHashes \cap OnChain = {}
  PROVE  Known \ staleHeaderHashes = OnChain
<1>1. OnChain \subseteq Known \ staleHeaderHashes
  BY DEF IInv, TypeOK, LongestChainIsIndexed, Range
<1> DEFINE Bad == Known \ (OnChain \cup staleHeaderHashes)
<1>2. ASSUME Bad # {} PROVE FALSE
  <2> DEFINE depth == [h \in Bad |-> Depth[h]]
             S == {Depth[h] : h \in Bad}
  <2>1. Bad \subseteq Header /\ IsFiniteSet(Bad)
    BY HeaderAssumption, FS_Subset DEF IInv, TypeOK
  <2>2. IsFiniteSet(S) /\ S \subseteq Int /\ S # {}
    <3>1. depth \in Surjection(Bad, S)
      BY DEF Surjection
    <3>2. \A h \in Bad : Depth[h] \in Nat
      BY <2>1, DepthAssumption
    <3> QED
      BY <1>2, <2>1, <3>1, <3>2, FS_Surjection
  <2>3. PICK m \in S : \A k \in S : k <= m
    BY <2>2, GreatestNumber
  <2>4. PICK b \in Bad : m = Depth[b]
    BY <2>3
  <2>5. b # Tip /\ b \notin headersTreeLeafHashes
    BY TipOnChain DEF IInv, PruneInv
  <2>6. PICK c \in Known : Parent[c] = b
    BY <2>5 DEF IInv, TreeInv
  <2>7. c \in Header /\ b \in Header /\ c # Genesis
    BY <2>6, HeaderAssumption DEF IInv, TypeOK
  <2>8. c \notin OnChain
    BY <2>6, <2>7, ParentOnChain
  <2>9. c \in Bad
    BY <2>6, <2>8 DEF Unwalked
  <2>10. Depth[c] = Depth[b] + 1 /\ Depth[b] \in Nat
    BY <2>6, <2>7, DepthAssumption
  <2>11. Depth[c] <= Depth[b]
    BY <2>3, <2>4, <2>9
  <2> QED
    BY <2>10, <2>11
<1> QED
  BY <1>1, <1>2

(* pruneBranches drops exactly what is not on the longest chain, unless an *)
(* assertion ends the process (323-341).                                   *)
LEMMA DropStaleHeadersStep ==
  ASSUME IInv, DropStaleHeaders
  PROVE  IInv'
<1>1. /\ UNCHANGED <<chainVars, invalidBlocks, saveVars>>
      /\ phase = "prune" /\ phase' = "idle" /\ status' = status
      /\ newHeaders' = newHeaders /\ headersInvalidated' = headersInvalidated
      /\ headersToAdd' = headersToAdd /\ staleHeaderHashes' = {}
  BY DEF DropStaleHeaders
<1>2. Known \ staleHeaderHashes = OnChain /\ OnChain \subseteq Known
  BY StaleIsRest DEF DropStaleHeaders
<1>3. /\ Known' = OnChain
      /\ allHeaders' = [h \in OnChain |-> allHeaders[h]]
      /\ \A h \in OnChain : WorkTotal(h)' = WorkTotal(h) /\ HeightOf(h)' = HeightOf(h)
  BY <1>2 DEF DropStaleHeaders, Restrict, Known, WorkTotal, HeightOf
<1>4. OnChain' = OnChain /\ Tip' = Tip /\ sortedHeaders' = sortedHeaders
      /\ sortedHeadersIndex' = sortedHeadersIndex
  BY <1>1 DEF chainVars, OnChain, Tip
<1>5. Tip \in OnChain /\ Genesis \in OnChain
  BY TipOnChain DEF IInv, TypeOK, LongestChainIsIndexed, Range
<1>6. headersTree' = [h \in OnChain |-> headersTree[h] \ DivergenceHeaders]
  BY <1>2 DEF DropStaleHeaders, IInv, TypeOK
<1>7. headersTreeLeafHashes' = {Tip}
  BY DEF DropStaleHeaders
<1>8. staleHeaderHashes \cap OnChain = {}
  BY DEF DropStaleHeaders
<1>9. TreeInv'
  <2>1. ASSUME NEW h \in OnChain
        PROVE  headersTree'[h] \subseteq {c \in OnChain : Parent[c] = h}
    <3>1. headersTree[h] \subseteq {c \in Known : Parent[c] = h}
      BY <1>2 DEF IInv, TreeInv
    <3> QED
      BY <1>2, <1>6, <3>1 DEF DivergenceHeaders
  <2>2. ASSUME NEW h \in OnChain, \A c \in OnChain : Parent[c] # h
        PROVE  h = Tip
    BY <2>2, ChildOnChain
  <2> QED
    BY <1>3, <1>7, <2>1, <2>2 DEF TreeInv
<1>10. HeadersDescendFromGenesis'
  <2>1. ASSUME NEW h \in OnChain, h # Genesis
        PROVE  /\ Parent[h] \in OnChain
               /\ h \notin invalidBlocks
               /\ HeightOf(h) = HeightOf(Parent[h]) + 1
               /\ WorkTotal(h) = WorkTotal(Parent[h]) + Work[h]
    BY <2>1, <1>2, ParentOnChain DEF IInv, HeadersDescendFromGenesis
  <2> QED
    BY <1>1, <1>3, <1>5, <2>1 DEF HeadersDescendFromGenesis
<1>11. LongestChainIsIndexed'
  <2>1. \A i \in 1..Len(sortedHeaders) : sortedHeaders[i] \in OnChain
    BY DEF IInv, TypeOK, LongestChainIsIndexed, Range
  <2> QED
    BY <1>3, <1>4, <2>1 DEF IInv, LongestChainIsIndexed
<1>12. TypeOK'
  <2>1. /\ Known' \subseteq Header
        /\ allHeaders' \in [Known' -> [height : Nat, workTotal : Nat]]
    BY <1>2, <1>3 DEF IInv, TypeOK
  <2>2. headersTree' \in [Known' -> SUBSET Header]
    BY <1>2, <1>3, <1>6 DEF IInv, TypeOK
  <2>3. headersTreeLeafHashes' \subseteq Known'
    BY <1>3, <1>5, <1>7
  <2>4. (saving' => unsavedChanges' # <<>>) /\ saving' \in BOOLEAN
    BY Zenon, <1>1 DEF IInv, TypeOK, saveVars
  <2> QED
    BY <1>1, <1>4, <2>1, <2>2, <2>3, <2>4 DEF IInv, TypeOK, saveVars
<1>13. TipIsHeaviest'
  BY <1>1, <1>2, <1>3, <1>4, <1>5 DEF IInv, TipIsHeaviest
<1>14. DepthInv'
  BY <1>2, <1>3, <1>5 DEF IInv, DepthInv
<1>15. SessionInv'
  BY <1>1 DEF IInv, SessionInv
<1> QED
  BY <1>1, <1>9, <1>10, <1>11, <1>12, <1>13, <1>14, <1>15
     DEF IInv, InsertInv, CollectInv, PruneInv

(* A call of addHeaders begins with headers of the array it is given       *)
(* (166-169, 275-278).                                                     *)
LEMMA AddHeadersStep ==
  ASSUME IInv, NEW headers \in Batches, AddHeaders(headers)
  PROVE  IInv'
<1>1. /\ UNCHANGED <<headerVars, chainVars, invalidBlocks, saveVars>>
      /\ phase = "idle" /\ phase' = "insert" /\ status' = status /\ status = "open"
      /\ headersInvalidated' = <<>>
      /\ headersToAdd' = headersToAdd /\ staleHeaderHashes' = staleHeaderHashes
  BY DEF AddHeaders
<1>2. headers \in Seq(Header)
  BY InputAssumption
<1>3. newHeaders' \in Seq(Header)
  <2>1. CASE Len(sortedHeaders) > 1
    <3>1. PICK position \in UnknownPositions(headers) :
            newHeaders' = [i \in DOMAIN position |-> headers[position[i]]]
      BY <2>1 DEF AddHeaders
    <3>2. PICK n \in 0..Len(headers) : position \in [1..n -> DOMAIN headers]
      BY <3>1 DEF UnknownPositions
    <3>3. n \in Nat /\ \A i \in 1..n : headers[position[i]] \in Header
      BY <1>2, <3>2
    <3>4. newHeaders' = [i \in 1..n |-> headers[position[i]]]
      BY <3>1, <3>2
    <3> QED
      BY <3>3, <3>4
  <2>2. CASE ~ (Len(sortedHeaders) > 1)
    BY <1>2, <2>2 DEF AddHeaders
  <2> QED
    BY <2>1, <2>2
<1>4. TypeOK'
  BY <1>1, <1>3, TypeFrame DEF IInv, TypeOK
<1>5. InsertInv'
  <2>1. \A h \in Known : \E l \in headersTreeLeafHashes \cup {Tip} : WorkTotal(h) <= WorkTotal(l)
    BY <1>1 DEF IInv, TipIsHeaviest
  <2>2. headersTreeLeafHashes' = headersTreeLeafHashes
    BY <1>1 DEF headerVars
  <2> QED
    BY <1>1, <2>1, <2>2, HeadersFrame DEF InsertInv
<1>6. SessionInv'
  BY <1>1, HeadersFrame DEF IInv, SessionInv
<1> QED
  BY <1>1, <1>4, <1>5, <1>6, HeadersFrame
     DEF IInv, TipIsHeaviest, CollectInv, PruneInv

(* What is on disk is finite: there is one entry per header at most. *)
LEMMA LevelDbIsFinite ==
  ASSUME IInv
  PROVE  Cardinality(levelDb) \in Nat
<1> DEFINE entry == [h \in Header |-> <<Depth[h], h>>]
<1>1. entry \in Surjection(Header, Entries)
  BY DEF Surjection, Entries
<1>2. IsFiniteSet(Entries)
  BY <1>1, HeaderAssumption, FS_Surjection
<1>3. levelDb \in SUBSET Entries
  BY DEF IInv, TypeOK
<1> QED
  BY <1>2, <1>3, FS_Subset, FS_CardinalityType

(* fromDatabase passes one header per height, so no header twice; the      *)
(* constructor's genesis is all that is known yet (106-137).               *)
LEMMA FromDatabaseStep ==
  ASSUME IInv, FromDatabase
  PROVE  IInv'
<1>1. /\ UNCHANGED <<headerVars, chainVars, saveVars>>
      /\ status = "down" /\ phase = "idle" /\ phase' = "insert" /\ status' = "loading"
      /\ headersInvalidated' = headersInvalidated /\ headersToAdd' = headersToAdd
      /\ staleHeaderHashes' = staleHeaderHashes /\ invalidBlocks' \in InvalidBlockSets
  BY DEF FromDatabase, IInv, SessionInv
<1>2. Known = {Genesis}
  BY <1>1 DEF IInv, SessionInv
<1>3. /\ allHeaders' = allHeaders /\ headersTree' = headersTree
      /\ headersTreeLeafHashes' = headersTreeLeafHashes
      /\ sortedHeaders' = sortedHeaders /\ sortedHeadersIndex' = sortedHeadersIndex
      /\ saveTasks' = saveTasks /\ unsavedChanges' = unsavedChanges
      /\ saving' = saving /\ levelDb' = levelDb
  BY <1>1 DEF headerVars, chainVars, saveVars
<1>4. /\ Known' = Known /\ OnChain' = OnChain /\ Tip' = Tip
      /\ \A h : WorkTotal(h)' = WorkTotal(h)
      /\ \A h : HeightOf(h)' = HeightOf(h)
  BY <1>3 DEF Known, OnChain, Tip, WorkTotal, HeightOf
<1>5. Len(sortedHeaders) = 1 /\ Tip = Genesis
  <2>1. \A i \in 1..Len(sortedHeaders) : HeightOf(sortedHeaders[i]) = i - 1 /\ sortedHeaders[i] = Genesis
    BY <1>2 DEF IInv, LongestChainIsIndexed
  <2>2. HeightOf(Genesis) = 0
    BY <1>2, DepthAssumption DEF IInv, DepthInv
  <2>3. Len(sortedHeaders) \in 1..Len(sortedHeaders)
    BY DEF IInv, TypeOK
  <2> QED
    BY <2>1, <2>2, <2>3 DEF Tip
<1>6. PICK n \in Nat : n = Cardinality(levelDb)
  BY LevelDbIsFinite
<1>7. \A i \in 1..n : \E h \in Header : <<i, h>> \in levelDb
  <2>1. ASSUME NEW i \in 1..n PROVE \E h \in Header : <<i, h>> \in levelDb
    <3>1. i \in Heights(levelDb)
      BY <1>6 DEF FromDatabase
    <3>2. PICK e \in levelDb : e[1] = i
      BY <3>1 DEF Heights
    <3>3. PICK h \in Header : e = <<Depth[h], h>>
      BY <3>2 DEF IInv, TypeOK, Entries
    <3> QED
      BY <3>2, <3>3
  <2> QED
    BY <2>1
<1>8. newHeaders' = [i \in 1..n |-> CHOOSE h \in Header : <<i, h>> \in levelDb]
  BY <1>6 DEF FromDatabase
<1>9. \A i \in 1..n : newHeaders'[i] \in Header /\ Depth[newHeaders'[i]] = i
  <2>1. ASSUME NEW i \in 1..n
        PROVE  newHeaders'[i] \in Header /\ Depth[newHeaders'[i]] = i
    <3>1. newHeaders'[i] = CHOOSE h \in Header : <<i, h>> \in levelDb
      BY <1>8
    <3>2. newHeaders'[i] \in Header /\ <<i, newHeaders'[i]>> \in levelDb
      BY Zenon, <1>7, <3>1
    <3>3. <<i, newHeaders'[i]>> \in Entries
      BY <3>2 DEF IInv, TypeOK
    <3> QED
      BY <3>2, <3>3 DEF Entries
  <2> QED
    BY <2>1
<1>10. newHeaders' \in Seq(Header) /\ DOMAIN newHeaders' = 1..n
  <2> DEFINE header(i) == CHOOSE h \in Header : <<i, h>> \in levelDb
  <2>1. newHeaders' = [i \in 1..n |-> header(i)]
    BY <1>8
  <2> HIDE DEF header
  <2>2. newHeaders' = [i \in 1..n |-> newHeaders'[i]]
    BY <2>1
  <2> QED
    BY <1>9, <2>2
<1>11. invalidBlocks' \subseteq Header \ {Genesis}
  BY <1>1, InputAssumption
<1>12. TypeOK'
  BY <1>1, <1>3, <1>4, <1>10, <1>11 DEF IInv, TypeOK
<1>13. HeadersDescendFromGenesis'
  BY <1>2, <1>4 DEF HeadersDescendFromGenesis
<1>14. TreeInv' /\ LongestChainIsIndexed' /\ DepthInv'
  BY <1>3, <1>4 DEF IInv, TreeInv, LongestChainIsIndexed, DepthInv
<1>15. InsertInv'
  <2>1. WorkTotal(Genesis) \in Nat
    BY <1>2 DEF IInv, TypeOK, WorkTotal
  <2> QED
    BY <1>2, <1>3, <1>4, <1>5, <2>1 DEF InsertInv
<1>16. SessionInv'
  BY <1>1, <1>3, <1>5 DEF SessionInv
<1> QED
  BY <1>1, <1>12, <1>13, <1>14, <1>15, <1>16
     DEF IInv, TipIsHeaviest, CollectInv, PruneInv

(* A start that fails leaves memory as it was (124-126). *)
LEMMA MissingHeaderStep ==
  ASSUME IInv, MissingHeader
  PROVE  IInv'
<1>1. /\ UNCHANGED <<headerVars, chainVars, invalidBlocks, saveVars>>
      /\ phase = "idle" /\ phase' = phase /\ status = "down" /\ status' = "failed"
      /\ newHeaders' = newHeaders /\ headersInvalidated' = headersInvalidated
      /\ headersToAdd' = headersToAdd /\ staleHeaderHashes' = staleHeaderHashes
  BY DEF MissingHeader, memoryVars, callVars, IInv, SessionInv
<1>2. TypeOK'
  BY <1>1, TypeFrame DEF IInv, TypeOK
<1>3. SessionInv'
  BY <1>1, HeadersFrame DEF IInv, SessionInv
<1> QED
  BY <1>1, <1>2, <1>3, HeadersFrame
     DEF IInv, TipIsHeaviest, InsertInv, CollectInv, PruneInv

(* close() waits; nothing but the status changes (149-151). *)
LEMMA CloseStep ==
  ASSUME IInv, Close
  PROVE  IInv'
<1>1. /\ UNCHANGED <<headerVars, chainVars, invalidBlocks, saveVars>>
      /\ phase = "idle" /\ phase' = phase /\ status = "open" /\ status' = "closing"
      /\ newHeaders' = newHeaders /\ headersInvalidated' = headersInvalidated
      /\ headersToAdd' = headersToAdd /\ staleHeaderHashes' = staleHeaderHashes
  BY DEF Close, memoryVars, callVars
<1>2. TypeOK'
  BY <1>1, TypeFrame DEF IInv, TypeOK
<1>3. SessionInv'
  BY <1>1, HeadersFrame DEF IInv, SessionInv
<1> QED
  BY <1>1, <1>2, <1>3, HeadersFrame
     DEF IInv, TipIsHeaviest, InsertInv, CollectInv, PruneInv

(* A task begins: its change moves behind those already queued (280-283). *)
LEMMA StartSaveTaskStep ==
  ASSUME IInv, StartSaveTask
  PROVE  IInv'
<1>1. /\ UNCHANGED <<headerVars, chainVars, invalidBlocks>>
      /\ phase' = phase /\ phase = "idle" /\ status' = status /\ levelDb' = levelDb
      /\ newHeaders' = newHeaders /\ headersInvalidated' = headersInvalidated
      /\ headersToAdd' = headersToAdd /\ staleHeaderHashes' = staleHeaderHashes
      /\ saveTasks # <<>>
      /\ saveTasks' = Tail(saveTasks)
      /\ unsavedChanges' = Append(unsavedChanges, Head(saveTasks))
  BY DEF StartSaveTask, memoryVars, callVars
<1>2. saveTasks \in Seq(Changes) /\ unsavedChanges \in Seq(Changes)
  BY DEF IInv, TypeOK
<1>3. saveTasks' \in Seq(Changes) /\ unsavedChanges' \in Seq(Changes)
  BY <1>1, <1>2
<1>4. unsavedChanges' # <<>>
  BY <1>1, <1>2
<1>5. saving' \in BOOLEAN /\ (saving' => unsavedChanges' # <<>>)
  BY Zenon, <1>4 DEF StartSaveTask
<1>6. TypeOK'
  <2>1. levelDb' \subseteq Entries
    BY <1>1 DEF IInv, TypeOK
  <2> QED
    BY <1>1, <1>3, <1>5, <2>1, SavingTypeFrame
<1>7. SessionInv'
  BY <1>1, HeadersFrame DEF IInv, SessionInv
<1> QED
  BY <1>1, <1>6, <1>7, HeadersFrame
     DEF IInv, TipIsHeaviest, InsertInv, CollectInv, PruneInv

(* A batch written leaves only entries at their header's height (284-291). *)
LEMMA BatchWrittenStep ==
  ASSUME IInv, BatchWritten
  PROVE  IInv'
<1>1. /\ UNCHANGED <<headerVars, chainVars, invalidBlocks>>
      /\ phase' = phase /\ phase = "idle" /\ status' = status
      /\ newHeaders' = newHeaders /\ headersInvalidated' = headersInvalidated
      /\ headersToAdd' = headersToAdd /\ staleHeaderHashes' = staleHeaderHashes
      /\ saveTasks' = saveTasks
      /\ unsavedChanges' = Tail(unsavedChanges)
      /\ levelDb' = ApplyChange(levelDb, Head(unsavedChanges))
  BY DEF BatchWritten, memoryVars, callVars
<1>2. /\ saveTasks \in Seq(Changes) /\ unsavedChanges \in Seq(Changes)
      /\ levelDb \subseteq Entries
  BY DEF IInv, TypeOK
<1>3. unsavedChanges # <<>>
  BY Zenon DEF IInv, TypeOK, BatchWritten
<1>4. saveTasks' \in Seq(Changes) /\ unsavedChanges' \in Seq(Changes)
  BY <1>1, <1>2, <1>3
<1>5. levelDb' \subseteq Entries
  <2>1. Head(unsavedChanges) \in Changes
    BY <1>2, <1>3
  <2>2. Head(unsavedChanges).put \subseteq Entries
    BY <2>1 DEF Changes
  <2> QED
    BY <1>1, <1>2, <2>2 DEF ApplyChange
<1>6. saving' \in BOOLEAN /\ (saving' => unsavedChanges' # <<>>)
  BY Zenon, <1>1 DEF BatchWritten
<1>7. TypeOK'
  BY <1>1, <1>4, <1>5, <1>6, SavingTypeFrame
<1>8. SessionInv'
  BY <1>1, HeadersFrame DEF IInv, SessionInv
<1> QED
  BY <1>1, <1>7, <1>8, HeadersFrame
     DEF IInv, TipIsHeaviest, InsertInv, CollectInv, PruneInv

(* A batch that fails changes nothing but that the task is over (286-294). *)
LEMMA BatchFailedStep ==
  ASSUME IInv, BatchFailed
  PROVE  IInv'
<1>1. /\ UNCHANGED <<headerVars, chainVars, invalidBlocks>>
      /\ phase' = phase /\ phase = "idle" /\ status' = status /\ levelDb' = levelDb
      /\ newHeaders' = newHeaders /\ headersInvalidated' = headersInvalidated
      /\ headersToAdd' = headersToAdd /\ staleHeaderHashes' = staleHeaderHashes
      /\ saveTasks' = saveTasks /\ unsavedChanges' = unsavedChanges
  BY DEF BatchFailed, memoryVars, callVars
<1>2. /\ saveTasks' \in Seq(Changes) /\ unsavedChanges' \in Seq(Changes)
      /\ levelDb' \subseteq Entries
  BY <1>1 DEF IInv, TypeOK
<1>3. saving' \in BOOLEAN /\ (saving' => unsavedChanges' # <<>>)
  BY Zenon DEF BatchFailed
<1>4. TypeOK'
  BY <1>1, <1>2, <1>3, SavingTypeFrame
<1>5. SessionInv'
  BY <1>1, HeadersFrame DEF IInv, SessionInv
<1> QED
  BY <1>1, <1>4, <1>5, HeadersFrame
     DEF IInv, TipIsHeaviest, InsertInv, CollectInv, PruneInv

(* A session that ends leaves what the constructor makes and what is on    *)
(* disk (50-81).                                                           *)
LEMMA FreshMemoryStep ==
  ASSUME IInv, FreshMemory, status' = "down", UNCHANGED <<invalidBlocks, levelDb>>
  PROVE  IInv'
<1>1. /\ allHeaders' = [h \in {Genesis} |-> [height |-> 0, workTotal |-> Work[h]]]
      /\ headersTree' = [h \in {Genesis} |-> {}]
      /\ headersTreeLeafHashes' = {Genesis}
      /\ sortedHeaders' = <<Genesis>>
      /\ sortedHeadersIndex' = [h \in {Genesis} |-> 0]
      /\ phase' = "idle" /\ status' = "down"
      /\ newHeaders' = <<>> /\ headersInvalidated' = <<>> /\ headersToAdd' = <<>>
      /\ staleHeaderHashes' = {}
      /\ saveTasks' = <<>> /\ unsavedChanges' = <<>>
      /\ invalidBlocks' = invalidBlocks /\ levelDb' = levelDb
  BY DEF FreshMemory
<1>2. Genesis \in Header /\ Work[Genesis] \in Nat /\ Depth[Genesis] = 0
      /\ Parent[Genesis] \notin Header
  BY HeaderAssumption, DepthAssumption
<1>3. Known' = {Genesis} /\ OnChain' = {Genesis} /\ Tip' = Genesis
  BY <1>1 DEF Known, OnChain, Tip
<1>4. HeightOf(Genesis)' = 0 /\ WorkTotal(Genesis)' = Work[Genesis]
  BY <1>1 DEF HeightOf, WorkTotal
<1>5. TypeOK'
  <2>1. allHeaders' \in [Known' -> [height : Nat, workTotal : Nat]]
    BY <1>1, <1>2, <1>3
  <2>2. headersTree' \in [Known' -> SUBSET Header] /\ headersTreeLeafHashes' \subseteq Known'
    BY <1>1, <1>3
  <2>3. sortedHeadersIndex' \in [OnChain' -> Nat] /\ sortedHeaders' \in Seq(Header) \ {<<>>}
    BY <1>1, <1>2, <1>3
  <2>4. /\ newHeaders' \in Seq(Header) /\ headersInvalidated' \in Seq(Header)
        /\ headersToAdd' \in Seq(Header)
        /\ saveTasks' \in Seq(Changes) /\ unsavedChanges' \in Seq(Changes)
    BY <1>1
  <2>5. saving' \in BOOLEAN /\ (saving' => unsavedChanges' # <<>>)
    BY Zenon DEF FreshMemory
  <2>6. invalidBlocks' \subseteq Header \ {Genesis} /\ levelDb' \subseteq Entries
    BY <1>1 DEF IInv, TypeOK
  <2> QED
    BY <1>1, <1>2, <1>3, <2>1, <2>2, <2>3, <2>4, <2>5, <2>6 DEF TypeOK
<1>6. SessionInv'
  BY <1>1, <1>3 DEF SessionInv
<1>7. HeadersDescendFromGenesis'
  BY <1>3 DEF HeadersDescendFromGenesis
<1>8. TreeInv'
  BY <1>1, <1>3 DEF TreeInv
<1>9. LongestChainIsIndexed'
  BY <1>1, <1>3, <1>4 DEF LongestChainIsIndexed, Range
<1>10. TipIsHeaviest' /\ DepthInv'
  BY <1>2, <1>3, <1>4 DEF TipIsHeaviest, DepthInv
<1> QED
  BY <1>1, <1>5, <1>6, <1>7, <1>8, <1>9, <1>10
     DEF IInv, InsertInv, CollectInv, PruneInv

(* IInv is inductive: no step of the database breaks it. *)
LEMMA Inductive == IInv /\ [Next]_vars => IInv'
<1> SUFFICES ASSUME IInv, [Next]_vars PROVE IInv'
  OBVIOUS
<1>1. CASE FromDatabase
  BY <1>1, FromDatabaseStep
<1>2. CASE MissingHeader
  BY <1>2, MissingHeaderStep
<1>3. CASE \E headers \in Batches : AddHeaders(headers)
  BY <1>3, AddHeadersStep
<1>4. CASE PruneBranches
  BY <1>4, PruneBranchesStep
<1>5. CASE CallStep
  BY <1>5, InsertHeaderStep, BrokenChainStep, InvalidHeaderStep, KeepTipStep,
     ChooseTipStep, CollectHeaderStep, SpliceChainStep, WalkStaleBranchStep,
     DropStaleHeadersStep DEF CallStep
<1>6. CASE SaveStep
  BY <1>6, StartSaveTaskStep, BatchWrittenStep, BatchFailedStep DEF SaveStep
<1>7. CASE Close
  BY <1>7, CloseStep
<1>8. CASE FinishClose \/ Crash
  BY <1>8, FreshMemoryStep DEF FinishClose, Crash
<1>9. CASE UNCHANGED vars
  <2>1. /\ UNCHANGED <<headerVars, chainVars, invalidBlocks, saveVars>>
        /\ phase' = phase /\ status' = status
        /\ newHeaders' = newHeaders /\ headersInvalidated' = headersInvalidated
        /\ headersToAdd' = headersToAdd /\ staleHeaderHashes' = staleHeaderHashes
        /\ currentHeader' = currentHeader
    BY <1>9 DEF vars, memoryVars, callVars
  <2>2. TypeOK'
    BY <2>1, TypeFrame DEF IInv, TypeOK
  <2>3. headersTreeLeafHashes' = headersTreeLeafHashes
    BY <2>1 DEF headerVars
  <2>4. SessionInv' /\ PruneInv' /\ TipIsHeaviest'
    BY <2>1, <2>3, HeadersFrame DEF IInv, SessionInv, PruneInv, TipIsHeaviest, chainVars
  <2>5. InsertInv'
    BY <2>1, <2>3, HeadersFrame DEF IInv, InsertInv
  <2>6. CollectInv'
    BY <2>1, HeadersFrame DEF IInv, CollectInv, NewTip
  <2>7. HeadersDescendFromGenesis' /\ TreeInv' /\ LongestChainIsIndexed' /\ DepthInv'
    BY <2>1, HeadersFrame
  <2> QED
    BY <2>2, <2>4, <2>5, <2>6, <2>7 DEF IInv
<1> QED
  BY <1>1, <1>2, <1>3, <1>4, <1>5, <1>6, <1>7, <1>8, <1>9 DEF Next

(* The inductive invariant holds in every reachable state. *)
THEOREM SpecIInv == Spec => []IInv
<1>1. Init => IInv
  BY InitIInv
<1>2. IInv /\ [Next]_vars => IInv'
  BY Inductive
<1> QED
  BY <1>1, <1>2, PTL DEF Spec

(* Type correctness. *)
THEOREM TypeCorrect == Spec => []TypeOK
<1>1. IInv => TypeOK
  BY DEF IInv
<1> QED
  BY <1>1, SpecIInv, PTL

(* Every header known descends from genesis through headers that are       *)
(* known, none of them an invalid block, and its height and its total work *)
(* add up along the way (179-220).                                         *)
THEOREM DescendFromGenesis == Spec => []HeadersDescendFromGenesis
<1>1. IInv => HeadersDescendFromGenesis
  BY DEF IInv
<1> QED
  BY <1>1, SpecIInv, PTL

(* The array of the longest chain is linked from genesis on, and its index *)
(* is its inverse (244-261).                                               *)
THEOREM ChainIsIndexed == Spec => []LongestChainIsIndexed
<1>1. IInv => LongestChainIsIndexed
  BY DEF IInv
<1> QED
  BY <1>1, SpecIInv, PTL

(* Between calls the tip has the most work of all headers known, although  *)
(* _insert compares the leaves alone (222-242).                            *)
THEOREM HeaviestTip == Spec => []TipIsHeaviest
<1>1. IInv => TipIsHeaviest
  BY DEF IInv
<1> QED
  BY <1>1, SpecIInv, PTL

(* A step that does not end the session changes the tip only by a splice,  *)
(* which puts a header with strictly more work there (222-266).            *)
THEOREM TipGetsHeavier == Spec => TipOnlyGetsHeavier
<1>1. IInv /\ [Next]_vars =>
        [(Tip' # Tip /\ status' # "down") => allHeaders'[Tip'].workTotal > WorkTotal(Tip)]_vars
  <2> SUFFICES ASSUME IInv, Next, Tip' # Tip, status' # "down"
               PROVE  allHeaders'[Tip'].workTotal > WorkTotal(Tip)
    OBVIOUS
  <2>1. ASSUME UNCHANGED sortedHeaders PROVE FALSE
    BY <2>1 DEF Tip
  <2>2. SpliceChain
    <3>1. ~ (FinishClose \/ Crash)
      BY DEF FinishClose, Crash
    <3> QED
      BY <2>1, <3>1 DEF Next, FromDatabase, MissingHeader, AddHeaders, PruneBranches,
         CallStep, InsertHeader, BrokenChain, InvalidHeader, KeepTip, ChooseTip,
         CollectHeader, WalkStaleBranch, DropStaleHeaders, SaveStep, StartSaveTask,
         BatchWritten, BatchFailed, Close, chainVars, memoryVars
  <2>3. /\ Tip' = NewTip /\ allHeaders' = allHeaders /\ phase = "collect"
    BY <2>2, SplicedTip DEF SpliceChain, headerVars
  <2>4. WorkTotal(Tip) < WorkTotal(NewTip)
    BY <2>3 DEF IInv, CollectInv
  <2>5. allHeaders'[Tip'].workTotal = WorkTotal(NewTip)
    BY <2>3 DEF WorkTotal
  <2>6. NewTip \in Known /\ Tip \in Known
    <3>1. headersToAdd # <<>> => Len(headersToAdd) \in DOMAIN headersToAdd
      BY DEF IInv, TypeOK
    <3> QED
      BY <2>3, <3>1, TipOnChain DEF NewTip, IInv, CollectInv
  <2>7. WorkTotal(NewTip) \in Nat /\ WorkTotal(Tip) \in Nat
    BY <2>6 DEF IInv, TypeOK, WorkTotal
  <2> QED
    BY <2>4, <2>5, <2>7
<1> QED
  BY <1>1, SpecIInv, PTL DEF Spec, TipOnlyGetsHeavier

----------------------------------------------------------------------------
(* The tree is exact, and pruneBranches asserts nothing that fails, as     *)
(* long as KnownHaveWork and NewHeadersDiffer hold.                        *)

(* What _insert has still to look at is new; genesis, whose parent is not  *)
(* known, ends the loop.                                                   *)
NewHeadersInv ==
  phase = "insert" =>
    \A i \in DOMAIN newHeaders : newHeaders[i] = Genesis \/ newHeaders[i] \notin Known

ExactInv == TreeMatchesHeaders /\ NewHeadersInv

(* A header that is not known joins the tree: its parent alone gets a      *)
(* child, and stops being a leaf (212-219).                                *)
LEMMA InsertHeaderExact ==
  ASSUME IInv, ExactInv, NewHeadersDiffer, InsertHeader
  PROVE  ExactInv'
<1>0. PICK header \in Header : header = Head(newHeaders)
  BY DEF InsertHeader, IInv, TypeOK
<1> DEFINE prev == Parent[header]
<1>1. /\ prev \in Known /\ prev \in Header
      /\ header = newHeaders[1] /\ 1 \in DOMAIN newHeaders
      /\ newHeaders' = Tail(newHeaders)
      /\ phase = "insert" /\ phase' = "insert"
  BY <1>0 DEF InsertHeader, IInv, TypeOK
<1>2. header # Genesis /\ header \notin Known /\ header # prev
  BY <1>1, HeaderAssumption DEF ExactInv, NewHeadersInv
<1>3. Known' = Known \cup {header}
  BY <1>0 DEF InsertHeader, LinkHeader, Known
<1>4. /\ headersTree' = [h \in Known' |->
                           IF h = header THEN {}
                           ELSE IF h = prev THEN headersTree[h] \cup {header}
                           ELSE headersTree[h]]
      /\ headersTreeLeafHashes' = (headersTreeLeafHashes \ {prev}) \cup {header}
  <2>1. DOMAIN headersTree = Known
    BY DEF IInv, TypeOK
  <2> QED
    BY <1>0, <1>3, <2>1 DEF InsertHeader, LinkHeader, Leaves
<1>5. \A h \in Known : Parent[h] # header
  BY <1>2, HeaderAssumption DEF IInv, HeadersDescendFromGenesis, TypeOK
<1>6. ASSUME NEW h \in Known'
      PROVE  headersTree'[h] = {c \in Known' : Parent[c] = h}
  <2>1. CASE h = header
    BY <2>1, <1>2, <1>3, <1>4, <1>5
  <2>2. CASE h = prev
    BY <2>2, <1>1, <1>2, <1>3, <1>4 DEF ExactInv, TreeMatchesHeaders
  <2>3. CASE h # header /\ h # prev
    BY <2>3, <1>1, <1>2, <1>3, <1>4 DEF ExactInv, TreeMatchesHeaders
  <2> QED
    BY <2>1, <2>2, <2>3
<1>7. headersTreeLeafHashes' = {h \in Known' : headersTree'[h] = {}}
  BY <1>1, <1>2, <1>3, <1>4 DEF ExactInv, TreeMatchesHeaders
<1>8. NewHeadersInv'
  <2>1. \A i \in DOMAIN newHeaders' :
          /\ i + 1 \in DOMAIN newHeaders /\ newHeaders'[i] = newHeaders[i + 1]
          /\ i + 1 # 1
    BY <1>1 DEF IInv, TypeOK
  <2>2. \A i \in DOMAIN newHeaders' : newHeaders'[i] # header
    BY <1>1, <2>1 DEF NewHeadersDiffer
  <2> QED
    BY <1>1, <1>3, <2>1, <2>2 DEF ExactInv, NewHeadersInv
<1> QED
  BY <1>6, <1>7, <1>8 DEF ExactInv, TreeMatchesHeaders

(* With genesis alone on the longest chain, genesis is all there is: the   *)
(* filter of _insert may be skipped then (166-169).                        *)
LEMMA GenesisAlone ==
  ASSUME IInv, KnownHaveWork, Len(sortedHeaders) = 1, phase = "idle"
  PROVE  Known = {Genesis}
<1>1. Tip = Genesis /\ Genesis \in Known
  BY DEF IInv, LongestChainIsIndexed, HeadersDescendFromGenesis, Tip
<1>2. ASSUME NEW h \in Known, h # Genesis PROVE FALSE
  <2>1. Parent[h] \in Known /\ WorkTotal(h) = WorkTotal(Parent[h]) + Work[h]
    BY <1>2 DEF IInv, HeadersDescendFromGenesis
  <2>2. WorkTotal(Parent[h]) >= WorkTotal(Genesis) /\ WorkTotal(h) <= WorkTotal(Genesis)
    BY <1>1, <2>1 DEF IInv, DepthInv, TipIsHeaviest
  <2>3. /\ Work[h] \in Nat /\ Work[h] > 0
        /\ \A k \in Known : WorkTotal(k) \in Nat
    BY <1>2, HeaderAssumption DEF KnownHaveWork, IInv, TypeOK, WorkTotal
  <2> QED
    BY <1>1, <2>1, <2>2, <2>3
<1> QED
  BY <1>1, <1>2

(* A call begins with headers that are new: the known ones are filtered    *)
(* out, or there are none but genesis (166-169).                           *)
LEMMA AddHeadersExact ==
  ASSUME IInv, ExactInv, KnownHaveWork, NEW headers \in Batches, AddHeaders(headers)
  PROVE  ExactInv'
<1>1. UNCHANGED headerVars /\ phase = "idle"
  BY DEF AddHeaders
<1>2. Known' = Known /\ TreeMatchesHeaders'
  BY <1>1 DEF headerVars, Known, ExactInv, TreeMatchesHeaders
<1>3. CASE Len(sortedHeaders) > 1
  <2>1. PICK position \in UnknownPositions(headers) :
          newHeaders' = [i \in DOMAIN position |-> headers[position[i]]]
    BY <1>3 DEF AddHeaders
  <2>2. \A i \in DOMAIN position : headers[position[i]] \notin Known
    BY <2>1 DEF UnknownPositions, Range
  <2> QED
    BY <1>2, <2>1, <2>2 DEF ExactInv, NewHeadersInv
<1>4. CASE ~ (Len(sortedHeaders) > 1)
  <2>1. PICK n \in Nat : n = Len(sortedHeaders) /\ n \in 1..n
    BY DEF IInv, TypeOK
  <2>2. Len(sortedHeaders) = 1
    BY <1>4, <2>1
  <2>3. Known = {Genesis}
    BY <1>1, <2>2, GenesisAlone
  <2> QED
    BY <1>2, <2>3 DEF ExactInv, NewHeadersInv
<1> QED
  BY <1>3, <1>4

(* The tip has no child, which would be heavier: pruneBranches finds it    *)
(* among the leaves, as it asserts.                                        *)
LEMMA TipIsLeaf ==
  ASSUME IInv, TreeMatchesHeaders, KnownHaveWork, phase \in {"idle", "prune"}
  PROVE  Tip \in headersTreeLeafHashes /\ headersTree[Tip] = {}
<1>1. Tip \in Known
  BY TipOnChain
<1>2. ASSUME NEW c \in Known, Parent[c] = Tip PROVE FALSE
  <2>1. c \in Header /\ Tip \in Header /\ c # Genesis
    BY <1>1, <1>2, HeaderAssumption DEF IInv, TypeOK
  <2>2. WorkTotal(c) = WorkTotal(Tip) + Work[c]
    BY <1>2, <2>1 DEF IInv, HeadersDescendFromGenesis
  <2>3. WorkTotal(c) <= WorkTotal(Tip)
    BY DEF IInv, TipIsHeaviest
  <2>4. WorkTotal(Tip) \in Nat /\ WorkTotal(c) \in Nat
    BY <1>1 DEF IInv, TypeOK, WorkTotal
  <2>5. Work[c] \in Nat /\ Work[c] > 0
    BY <1>2, <2>1, HeaderAssumption DEF KnownHaveWork
  <2> QED
    BY <2>2, <2>3, <2>4, <2>5
<1> QED
  BY <1>1, <1>2 DEF TreeMatchesHeaders

(* On the longest chain the tip alone is a leaf: nothing there is stale.   *)
LEMMA NoneStaleOnChain ==
  ASSUME IInv, TreeMatchesHeaders, phase = "prune"
  PROVE  staleHeaderHashes \cap OnChain = {}
<1> SUFFICES ASSUME NEW h \in staleHeaderHashes, h \in OnChain PROVE FALSE
  OBVIOUS
<1>1. h \in headersTreeLeafHashes /\ h # Tip
  BY DEF IInv, PruneInv
<1>2. PICK c \in OnChain : c \in Known /\ Parent[c] = h
  BY <1>1, ChildOnChain
<1> QED
  BY <1>1, <1>2 DEF TreeMatchesHeaders

(* What is left is the longest chain, each header the child of the one     *)
(* before (323-341).                                                       *)
LEMMA DropStaleHeadersExact ==
  ASSUME IInv, ExactInv, KnownHaveWork, DropStaleHeaders
  PROVE  ExactInv'
<1>1. Known \ staleHeaderHashes = OnChain /\ phase = "prune" /\ phase' = "idle"
  BY StaleIsRest DEF DropStaleHeaders
<1>2. Known' = OnChain
  BY <1>1 DEF DropStaleHeaders, Restrict, Known
<1>3. /\ headersTree' = [h \in OnChain |-> headersTree[h] \ DivergenceHeaders]
      /\ headersTreeLeafHashes' = {Tip}
  BY <1>1 DEF DropStaleHeaders, IInv, TypeOK
<1>4. ASSUME NEW h \in OnChain
      PROVE  headersTree'[h] = {c \in OnChain : Parent[c] = h}
  <2>1. headersTree[h] = {c \in Known : Parent[c] = h} /\ staleHeaderHashes \subseteq Known
    BY <1>1 DEF ExactInv, TreeMatchesHeaders, IInv, PruneInv
  <2> QED
    BY <1>1, <1>3, <2>1 DEF DivergenceHeaders
<1>5. ASSUME NEW h \in OnChain PROVE h = Tip <=> headersTree'[h] = {}
  <2>1. CASE h # Tip
    BY <2>1, <1>4, ChildOnChain
  <2>2. CASE h = Tip
    BY <2>2, <1>1, <1>3, TipIsLeaf DEF ExactInv
  <2> QED
    BY <2>1, <2>2
<1> QED
  BY <1>1, <1>2, <1>3, <1>4, <1>5, TipOnChain DEF ExactInv, NewHeadersInv, TreeMatchesHeaders

(* A session that ends leaves genesis alone in the tree (50-81). *)
LEMMA FreshMemoryExact ==
  ASSUME FreshMemory
  PROVE  ExactInv'
<1>1. /\ allHeaders' = [h \in {Genesis} |-> [height |-> 0, workTotal |-> Work[h]]]
      /\ headersTree' = [h \in {Genesis} |-> {}]
      /\ headersTreeLeafHashes' = {Genesis}
      /\ phase' = "idle"
  BY DEF FreshMemory
<1>2. Known' = {Genesis} /\ Parent[Genesis] # Genesis
  BY <1>1, HeaderAssumption DEF Known
<1> QED
  BY <1>1, <1>2 DEF ExactInv, NewHeadersInv, TreeMatchesHeaders

(* The other steps leave the tree alone and _insert nothing more to do. *)
LEMMA ExactFrame ==
  ASSUME ExactInv, UNCHANGED headerVars,
         phase' = "insert" => phase = "insert" /\ newHeaders' \in {newHeaders, <<>>}
  PROVE  ExactInv'
<1>1. Known' = Known /\ TreeMatchesHeaders'
  BY DEF headerVars, Known, ExactInv, TreeMatchesHeaders
<1>2. NewHeadersInv'
  <2> SUFFICES ASSUME phase' = "insert", NEW i \in DOMAIN newHeaders'
               PROVE  newHeaders'[i] = Genesis \/ newHeaders'[i] \notin Known
    BY <1>1 DEF NewHeadersInv
  <2>1. CASE newHeaders' = newHeaders
    BY <2>1 DEF ExactInv, NewHeadersInv
  <2>2. CASE newHeaders' = <<>>
    BY <2>2
  <2> QED
    BY <2>1, <2>2
<1> QED
  BY <1>1, <1>2 DEF ExactInv

(* No step makes the tree inexact while the headers known have work and    *)
(* none comes twice in an array.                                           *)
LEMMA ExactInductive ==
  IInv /\ ExactInv /\ KnownHaveWork /\ NewHeadersDiffer /\ [Next]_vars => ExactInv'
<1> SUFFICES ASSUME IInv, ExactInv, KnownHaveWork, NewHeadersDiffer, [Next]_vars
             PROVE  ExactInv'
  OBVIOUS
<1>1. CASE FromDatabase
  <2>1. UNCHANGED headerVars /\ Known = {Genesis}
    BY <1>1 DEF FromDatabase, IInv, SessionInv
  <2>2. Known' = {Genesis}
    BY <2>1 DEF headerVars, Known
  <2> QED
    BY <2>1, <2>2 DEF headerVars, Known, ExactInv, NewHeadersInv, TreeMatchesHeaders
<1>2. CASE \E headers \in Batches : AddHeaders(headers)
  BY <1>2, AddHeadersExact
<1>3. CASE InsertHeader
  BY <1>3, InsertHeaderExact
<1>4. CASE DropStaleHeaders
  BY <1>4, DropStaleHeadersExact
<1>5. CASE FinishClose \/ Crash
  BY <1>5, FreshMemoryExact DEF FinishClose, Crash
<1>6. CASE BrokenChain \/ InvalidHeader
  BY <1>6, ExactFrame DEF BrokenChain, InvalidHeader
<1>7. CASE KeepTip \/ ChooseTip \/ CollectHeader \/ SpliceChain \/ PruneBranches \/ WalkStaleBranch
  BY <1>7, ExactFrame DEF KeepTip, ChooseTip, CollectHeader, SpliceChain, ReturnFromInsert,
     PruneBranches, WalkStaleBranch
<1>8. CASE MissingHeader \/ SaveStep \/ Close \/ UNCHANGED vars
  BY <1>8, ExactFrame DEF MissingHeader, SaveStep, StartSaveTask, BatchWritten, BatchFailed,
     Close, vars, memoryVars, callVars
<1> QED
  BY <1>1, <1>2, <1>3, <1>4, <1>5, <1>6, <1>7, <1>8 DEF Next, CallStep

(* The tree and its leaf set agree with the links between the headers      *)
(* known, through insertions, reorganisations and prunings, as long as no  *)
(* header known lacks work and no array holds a header twice (212-219,     *)
(* 304-343).                                                               *)
THEOREM TreeIsExact ==
  Spec /\ []KnownHaveWork /\ []NewHeadersDiffer => []TreeMatchesHeaders
<1>1. Init => ExactInv
  <2> SUFFICES ASSUME Init PROVE ExactInv
    OBVIOUS
  <2>1. Known = {Genesis} /\ Parent[Genesis] # Genesis
    BY HeaderAssumption DEF Init, Known
  <2> QED
    BY <2>1 DEF Init, ExactInv, NewHeadersInv, TreeMatchesHeaders
<1>2. IInv /\ ExactInv /\ KnownHaveWork /\ NewHeadersDiffer /\ [Next]_vars => ExactInv'
  BY ExactInductive
<1>3. ExactInv => TreeMatchesHeaders
  BY DEF ExactInv
<1> QED
  BY <1>1, <1>2, <1>3, SpecIInv, PTL DEF Spec

(* An assertion of pruneBranches (326-331, 338-341) fails only if a header *)
(* without work has come to be known or an array passed to addHeaders held *)
(* a header twice: both can happen, and both end the process.              *)
THEOREM PruneAssertionsHold ==
  Spec /\ []KnownHaveWork /\ []NewHeadersDiffer => []PruneAssertions
<1>1. IInv /\ TreeMatchesHeaders /\ KnownHaveWork => PruneAssertions
  <2> SUFFICES ASSUME IInv, TreeMatchesHeaders, KnownHaveWork, phase = "prune", Unwalked = {}
               PROVE  /\ staleHeaderHashes \cap OnChain = {}
                      /\ \A h \in DivergenceHeaders :
                            headersTree[Parent[h]] \ (DivergenceHeaders \ {h}) # {}
                      /\ headersTreeLeafHashes \ staleHeaderHashes = {Tip}
    BY DEF PruneAssertions
  <2>1. staleHeaderHashes \subseteq Known \ {Tip} /\ staleHeaderHashes \cap OnChain = {}
    BY NoneStaleOnChain DEF IInv, PruneInv
  <2>2. ASSUME NEW h \in DivergenceHeaders
        PROVE  headersTree[Parent[h]] \ (DivergenceHeaders \ {h}) # {}
    <3>1. h \in Known /\ Parent[h] \in Known
      BY <2>1, StaleIsRest DEF DivergenceHeaders
    <3>2. h \in headersTree[Parent[h]]
      BY <3>1 DEF TreeMatchesHeaders
    <3> QED
      BY <3>2
  <2>3. headersTreeLeafHashes \ staleHeaderHashes = {Tip}
    BY <2>1, TipIsLeaf DEF IInv, PruneInv
  <2> QED
    BY <2>1, <2>2, <2>3
<1> QED
  BY <1>1, TreeIsExact, SpecIInv, PTL

=============================================================================

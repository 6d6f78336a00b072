--------------------------- MODULE LevelDb_proofs ----------------------------
(***************************************************************************)
(* Proofs about what BlockHeadersDatabase has on disk and queued for it,   *)
(* and that it implements HeaviestChain, for every tree of headers, every  *)
(* set of batches and every set of invalid blocks that does not change     *)
(* from one session to the next.                                           *)
(*                                                                         *)
(* What is on disk, after any number of the queued changes, is described   *)
(* by the one header the chain there ends in.                              *)
(***************************************************************************)
EXTENDS BlockHeadersDatabase_proofs, InductionLemmas

(* The headers from which h descends, and h. *)
Ancestors(h) == Range(ChainTo[h])

(* What is on disk once the chain that ends in h is saved. *)
EntriesTo(h) == {<<Depth[k], k>> : k \in Ancestors(h) \ {Genesis}}

----------------------------------------------------------------------------
(* The tree of headers *)

(* The walk along prevHash from a header goes down in height. *)
LEMMA HeaderDepthIsRanking == IsRanking(Depth, Parent, Header)
BY DepthAssumption DEF IsRanking

(* ChainTo is what its recursive definition says: the walk along prevHash  *)
(* ends.                                                                   *)
LEMMA ChainToEquation ==
  /\ ChainTo \in [Header -> Seq(Header)]
  /\ \A h \in Header :
       ChainTo[h] = IF Parent[h] \in Header THEN Append(ChainTo[Parent[h]], h) ELSE <<h>>
<1>1. ChainTo = CHOOSE c : c = [h \in Header |-> IF Parent[h] \in Header
                                                THEN Append(c[Parent[h]], h) ELSE <<h>>]
  BY DEF ChainTo
<1>2. IsChain(ChainTo, Header, Parent)
  BY <1>1, HeaderDepthIsRanking, ChainIsDefined
<1> QED
  BY <1>2 DEF IsChain

(* TotalWork is what its recursive definition says. *)
LEMMA TotalWorkEquation ==
  \A h \in Header :
    /\ TotalWork[h] \in Nat
    /\ TotalWork[h] = Work[h] + (IF Parent[h] \in Header THEN TotalWork[Parent[h]] ELSE 0)
<1>1. TotalWork = CHOOSE f : f = [h \in Header |-> Work[h] + (IF Parent[h] \in Header
                                                            THEN f[Parent[h]] ELSE 0)]
  BY DEF TotalWork
<1>2. Work \in [Header -> Nat]
  BY HeaderAssumption
<1> QED
  BY <1>1, <1>2, HeaderDepthIsRanking, SumIsDefined

(* The ancestors of a header: its parent's, and itself. *)
LEMMA AncestorsEquation ==
  ASSUME NEW h \in Header
  PROVE  Ancestors(h) = (IF Parent[h] \in Header THEN Ancestors(Parent[h]) ELSE {}) \cup {h}
<1>1. IsChain(ChainTo, Header, Parent)
  BY ChainToEquation DEF IsChain
<1> QED
  BY <1>1, ChainElements DEF Ancestors

(* To prove that every header is in T: none is the lowest outside of it.   *)
LEMMA HeaderInduction ==
  ASSUME NEW T,
         \A h \in Header : (Parent[h] \in Header => Parent[h] \in T) => h \in T
  PROVE  Header \subseteq T
BY HeaderDepthIsRanking, InductionOnParents

(* An ancestor is a header, and lower unless it is the header itself. *)
LEMMA AncestorsAreLower ==
  ASSUME NEW h \in Header
  PROVE  /\ h \in Ancestors(h)
         /\ Ancestors(h) \subseteq Header
         /\ \A k \in Ancestors(h) : k = h \/ Depth[k] < Depth[h]
<1> DEFINE T == {x \in Header : /\ Ancestors(x) \subseteq Header
                               /\ \A k \in Ancestors(x) : k = x \/ Depth[k] < Depth[x]}
<1>1. ASSUME NEW x \in Header, Parent[x] \in Header => Parent[x] \in T
      PROVE  x \in T
  BY <1>1, AncestorsEquation, DepthAssumption
<1> HIDE DEF T
<1>2. Header \subseteq T
  BY <1>1, HeaderInduction
<1> QED
  BY <1>2, AncestorsEquation DEF T

(* The ancestors of an ancestor are ancestors. *)
LEMMA AncestorsAreClosed ==
  ASSUME NEW h \in Header, NEW k \in Ancestors(h)
  PROVE  Ancestors(k) \subseteq Ancestors(h)
<1> DEFINE T == {x \in Header : \A y \in Ancestors(x) : Ancestors(y) \subseteq Ancestors(x)}
<1>1. ASSUME NEW x \in Header, Parent[x] \in Header => Parent[x] \in T
      PROVE  x \in T
  BY <1>1, AncestorsEquation
<1> HIDE DEF T
<1>2. Header \subseteq T
  BY <1>1, HeaderInduction
<1> QED
  BY <1>2 DEF T

(* No two ancestors of a header are at the same height. *)
LEMMA OneAncestorPerHeight ==
  ASSUME NEW h \in Header, NEW j \in Ancestors(h), NEW k \in Ancestors(h), Depth[j] = Depth[k]
  PROVE  j = k
<1> DEFINE T == {x \in Header : \A y, z \in Ancestors(x) : Depth[y] = Depth[z] => y = z}
<1>1. ASSUME NEW x \in Header, Parent[x] \in Header => Parent[x] \in T
      PROVE  x \in T
  <2>1. CASE Parent[x] \in Header
    <3>1. \A y \in Ancestors(Parent[x]) : Depth[y] < Depth[x] /\ y \in Header
      BY <2>1, AncestorsAreLower, DepthAssumption
    <3>2. Depth[x] \in Nat /\ \A y \in Header : Depth[y] \in Nat
      BY DepthAssumption
    <3> QED
      BY <1>1, <2>1, <3>1, <3>2, AncestorsEquation
  <2>2. CASE Parent[x] \notin Header
    BY <2>2, AncestorsEquation
  <2> QED
    BY <2>1, <2>2
<1> HIDE DEF T
<1>2. Header \subseteq T
  BY <1>1, HeaderInduction
<1> QED
  BY <1>2 DEF T

(* A header that descends from genesis has an ancestor at each height up   *)
(* to its own, genesis at zero, and they all descend from genesis.         *)
LEMMA AncestorAtEveryHeight ==
  ASSUME NEW h \in Header, Genesis \in Ancestors(h)
  PROVE  /\ \A d \in 0..Depth[h] : \E k \in Ancestors(h) : Depth[k] = d
         /\ \A k \in Ancestors(h) : Genesis \in Ancestors(k)
<1> DEFINE T == {x \in Header : Genesis \in Ancestors(x) =>
                  /\ \A d \in 0..Depth[x] : \E k \in Ancestors(x) : Depth[k] = d
                  /\ \A k \in Ancestors(x) : Genesis \in Ancestors(k)}
<1>1. ASSUME NEW x \in Header, Parent[x] \in Header => Parent[x] \in T
      PROVE  x \in T
  <2> SUFFICES ASSUME Genesis \in Ancestors(x)
               PROVE  /\ \A d \in 0..Depth[x] : \E k \in Ancestors(x) : Depth[k] = d
                      /\ \A k \in Ancestors(x) : Genesis \in Ancestors(k)
    OBVIOUS
  <2>1. x \in Ancestors(x)
    BY AncestorsAreLower
  <2>2. CASE x = Genesis
    <3>1. Ancestors(x) = {x} /\ Depth[x] = 0
      BY <2>2, AncestorsEquation, HeaderAssumption, DepthAssumption
    <3> QED
      BY <3>1
  <2>3. CASE x # Genesis
    <3>1. Parent[x] \in Header /\ Genesis \in Ancestors(Parent[x])
      BY <2>3, AncestorsEquation
    <3>2. Ancestors(x) = Ancestors(Parent[x]) \cup {x}
      BY <3>1, AncestorsEquation
    <3>3. /\ \A d \in 0..Depth[Parent[x]] : \E k \in Ancestors(Parent[x]) : Depth[k] = d
          /\ \A k \in Ancestors(Parent[x]) : Genesis \in Ancestors(k)
      BY <1>1, <3>1
    <3>4. Depth[x] = Depth[Parent[x]] + 1 /\ Depth[Parent[x]] \in Nat
      BY <3>1, DepthAssumption
    <3>5. \A d \in 0..Depth[x] : d \in 0..Depth[Parent[x]] \/ d = Depth[x]
      BY <3>4
    <3> QED
      BY <3>2, <3>3, <3>5
  <2> QED
    BY <2>2, <2>3
<1> HIDE DEF T
<1>2. Header \subseteq T
  BY <1>1, HeaderInduction
<1> QED
  BY <1>2 DEF T

(* What is known of the chain that ends in h: it starts from genesis, and  *)
(* no header of it is an invalid block.                                    *)
Descends(h) ==
  /\ h \in Header
  /\ Genesis \in Ancestors(h)
  /\ Ancestors(h) \cap invalidBlocks = {}

(* The same of a header that became the tip.  It was strictly heavier than *)
(* the tip before it, so that a start finds it heavier than genesis.       *)
Sound(h) ==
  /\ h \in Header
  /\ Genesis \in Ancestors(h)
  /\ Ancestors(h) \cap invalidBlocks = {}
  /\ h = Genesis \/ TotalWork[h] > Work[Genesis]

(* The top of a set of entries is the header of its highest one. *)
LEMMA TopOfSet ==
  ASSUME NEW entries, NEW e \in entries, e[1] \in Int,
         \A f \in entries : f = e \/ (f[1] \in Int /\ f[1] < e[1])
  PROVE  TopOf(entries) = e[2]
<1> DEFINE IsTop(f) == \A k \in entries : k[1] <= f[1]
           top == CHOOSE f \in entries : IsTop(f)
<1>1. IsTop(e)
  OBVIOUS
<1>2. \A f \in entries : IsTop(f) => f = e
  OBVIOUS
<1>3. top = e
  <2> HIDE DEF IsTop
  <2> QED
    BY Zenon, <1>1, <1>2
<1>4. TopOf(entries) = top[2]
  BY Zenon DEF TopOf
<1> HIDE DEF top
<1> QED
  BY <1>3, <1>4

(* The set of headers that a chain consists of determines its tip. *)
LEMMA TopOfEntries ==
  ASSUME NEW h \in Header, Genesis \in Ancestors(h)
  PROVE  TopOf(EntriesTo(h)) = h
<1>1. h \in Ancestors(h) /\ Ancestors(h) \subseteq Header
      /\ \A k \in Ancestors(h) : k = h \/ Depth[k] < Depth[h]
  BY AncestorsAreLower
<1>2. CASE h = Genesis
  <2>1. Ancestors(h) = {Genesis}
    BY <1>2, AncestorsEquation, HeaderAssumption
  <2>2. EntriesTo(h) = {}
    BY <2>1 DEF EntriesTo
  <2> QED
    BY <1>2, <2>2 DEF TopOf
<1>3. CASE h # Genesis
  <2> DEFINE e == <<Depth[h], h>>
  <2>1. e \in EntriesTo(h) /\ e[1] \in Int
    BY <1>1, <1>3, DepthAssumption DEF EntriesTo
  <2>2. \A f \in EntriesTo(h) : f = e \/ (f[1] \in Int /\ f[1] < e[1])
    BY <1>1, DepthAssumption DEF EntriesTo
  <2>3. TopOf(EntriesTo(h)) = e[2]
    BY <2>1, <2>2, TopOfSet
  <2> QED
    BY <2>3
<1> QED
  BY <1>2, <1>3

(* There is one entry for each height from one to the tip's. *)
LEMMA EntriesHeights ==
  ASSUME NEW h \in Header, Genesis \in Ancestors(h)
  PROVE  /\ Heights(EntriesTo(h)) = 1..Depth[h]
         /\ Cardinality(EntriesTo(h)) = Depth[h]
         /\ \A k \in Header : \A d : <<d, k>> \in EntriesTo(h) <=>
               k \in Ancestors(h) /\ d = Depth[k] /\ k # Genesis
         /\ \A k \in Ancestors(h) : k # Genesis <=> Depth[k] \in 1..Depth[h]
<1>1. /\ h \in Ancestors(h) /\ Ancestors(h) \subseteq Header
      /\ \A k \in Ancestors(h) : Depth[k] \in 0..Depth[h]
      /\ Depth[h] \in Nat
  BY AncestorsAreLower, DepthAssumption
<1>2. \A k \in Ancestors(h) : k # Genesis <=> Depth[k] \in 1..Depth[h]
  BY <1>1, OneAncestorPerHeight, DepthAssumption
<1>3. \A d \in 1..Depth[h] : \E k \in Ancestors(h) : Depth[k] = d
  BY <1>1, AncestorAtEveryHeight
<1>4. \A k \in Header : \A d : <<d, k>> \in EntriesTo(h) <=>
               k \in Ancestors(h) /\ d = Depth[k] /\ k # Genesis
  BY DEF EntriesTo
<1>5. \A d \in 1..Depth[h] : \E e \in EntriesTo(h) : e[1] = d
  <2> SUFFICES ASSUME NEW d \in 1..Depth[h]
               PROVE  \E e \in EntriesTo(h) : e[1] = d
    OBVIOUS
  <2>1. PICK k \in Ancestors(h) : Depth[k] = d
    BY <1>3
  <2>2. <<Depth[k], k>> \in EntriesTo(h)
    BY <1>2, <2>1 DEF EntriesTo
  <2> QED
    BY <2>1, <2>2
<1>6. \A e \in EntriesTo(h) : e[1] \in 1..Depth[h]
  BY <1>2 DEF EntriesTo
<1>7. Heights(EntriesTo(h)) = 1..Depth[h]
  BY <1>5, <1>6 DEF Heights
<1>8. Cardinality(EntriesTo(h)) = Depth[h]
  <2> DEFINE height == [e \in EntriesTo(h) |-> e[1]]
  <2>1. height \in [EntriesTo(h) -> 1..Depth[h]]
    BY <1>2 DEF EntriesTo
  <2>2. \A e, f \in EntriesTo(h) : height[e] = height[f] => e = f
    BY OneAncestorPerHeight DEF EntriesTo
  <2>3. \A d \in 1..Depth[h] : \E e \in EntriesTo(h) : height[e] = d
    BY <1>5
  <2>4. height \in Bijection(EntriesTo(h), 1..Depth[h])
    BY <2>1, <2>2, <2>3 DEF Bijection, Injection, Surjection, IsInjective
  <2>5. ExistsBijection(EntriesTo(h), 1..Depth[h])
    BY <2>4 DEF ExistsBijection
  <2>6. IsFiniteSet(1..Depth[h]) /\ Cardinality(1..Depth[h]) = Depth[h]
    BY <1>1, FS_Interval
  <2>7. IsFiniteSet(EntriesTo(h))
    <3> DEFINE entry == [k \in Header |-> <<Depth[k], k>>]
    <3>1. entry \in Surjection(Header, Entries)
      BY DEF Surjection, Entries
    <3>2. EntriesTo(h) \in SUBSET Entries
      BY <1>1 DEF EntriesTo, Entries
    <3> QED
      BY <3>1, <3>2, HeaderAssumption, FS_Surjection, FS_Subset
  <2>8. Cardinality(1..Depth[h]) = Cardinality(EntriesTo(h))
    BY <2>5, <2>7, FS_Bijection
  <2> QED
    BY <2>6, <2>8
<1> QED
  BY <1>2, <1>4, <1>7, <1>8

(* A set of headers that has the parent of each has all their ancestors. *)
LEMMA ClosedUnderParent ==
  ASSUME NEW S, S \subseteq Header, \A k \in S : Parent[k] \in Header => Parent[k] \in S,
         NEW h \in S
  PROVE  Ancestors(h) \subseteq S
<1> DEFINE T == {x \in Header : x \in S => Ancestors(x) \subseteq S}
<1>1. ASSUME NEW x \in Header, Parent[x] \in Header => Parent[x] \in T
      PROVE  x \in T
  BY <1>1, AncestorsEquation
<1> HIDE DEF T
<1>2. Header \subseteq T
  BY <1>1, HeaderInduction
<1> QED
  BY <1>2 DEF T

(* An ancestor has no more work. *)
LEMMA AncestorsAreLighter ==
  ASSUME NEW h \in Header, NEW k \in Ancestors(h)
  PROVE  TotalWork[k] <= TotalWork[h]
<1> DEFINE T == {x \in Header : \A y \in Ancestors(x) : TotalWork[y] <= TotalWork[x]}
<1>1. ASSUME NEW x \in Header, Parent[x] \in Header => Parent[x] \in T
      PROVE  x \in T
  <2>1. CASE Parent[x] \in Header
    <3>1. \A y \in Ancestors(Parent[x]) : TotalWork[y] <= TotalWork[Parent[x]] /\ y \in Header
      BY <1>1, <2>1, AncestorsAreLower
    <3>2. \A y \in Header : TotalWork[y] \in Nat
      BY TotalWorkEquation
    <3>3. TotalWork[Parent[x]] <= TotalWork[x]
      <4>1. TotalWork[x] = Work[x] + TotalWork[Parent[x]] /\ Work[x] \in Nat
        BY <2>1, TotalWorkEquation, HeaderAssumption
      <4> QED
        BY <2>1, <3>2, <4>1
    <3>4. Ancestors(x) = Ancestors(Parent[x]) \cup {x}
      BY <2>1, AncestorsEquation
    <3>5. ASSUME NEW y \in Ancestors(x)
          PROVE  TotalWork[y] <= TotalWork[x]
      <4>1. CASE y = x
        BY <3>2, <4>1
      <4>2. CASE y \in Ancestors(Parent[x])
        BY <2>1, <3>1, <3>2, <3>3, <4>2
      <4> QED
        BY <3>4, <4>1, <4>2
    <3> QED
      BY <3>5
  <2>2. CASE Parent[x] \notin Header
    <3>1. Ancestors(x) = {x} /\ TotalWork[x] \in Nat
      BY <2>2, AncestorsEquation, TotalWorkEquation
    <3> QED
      BY <3>1
  <2> QED
    BY <2>1, <2>2
<1> HIDE DEF T
<1>2. Header \subseteq T
  BY <1>1, HeaderInduction
<1> QED
  BY <1>2 DEF T

----------------------------------------------------------------------------
(* What is in memory *)

(* A known header descends from genesis through known headers, none of     *)
(* them an invalid block.                                                  *)
LEMMA KnownIsSound ==
  ASSUME IInv, NEW h \in Known
  PROVE  Descends(h) /\ Ancestors(h) \subseteq Known
<1> DEFINE T == {x \in Header : x \in Known => Descends(x) /\ Ancestors(x) \subseteq Known}
<1>1. Known \subseteq Header /\ Genesis \notin invalidBlocks
  BY DEF IInv, TypeOK
<1>2. ASSUME NEW x \in Header, Parent[x] \in Header => Parent[x] \in T
      PROVE  x \in T
  <2>1. CASE x = Genesis
    <3>1. Ancestors(x) = {x} /\ Genesis \in Known
      BY <2>1, AncestorsEquation, HeaderAssumption DEF IInv, HeadersDescendFromGenesis
    <3> QED
      BY <1>1, <2>1, <3>1 DEF Descends
  <2>2. CASE x # Genesis /\ x \in Known
    <3>1. Parent[x] \in Known /\ x \notin invalidBlocks
      BY <2>2 DEF IInv, HeadersDescendFromGenesis
    <3>2. Ancestors(x) = Ancestors(Parent[x]) \cup {x}
      BY <1>1, <3>1, AncestorsEquation
    <3> QED
      BY <1>1, <1>2, <2>2, <3>1, <3>2 DEF Descends
  <2> QED
    BY <2>1, <2>2
<1> HIDE DEF T
<1>3. Header \subseteq T
  BY <1>2, HeaderInduction
<1> QED
  BY <1>1, <1>3 DEF T

(* The work set on a known header is that of the chain it ends. *)
LEMMA KnownWork ==
  ASSUME IInv, WorkTotal(Genesis) = Work[Genesis], NEW h \in Known
  PROVE  WorkTotal(h) = TotalWork[h]
<1> DEFINE T == {x \in Header : x \in Known => WorkTotal(x) = TotalWork[x]}
<1>1. Known \subseteq Header
  BY DEF IInv, TypeOK
<1>2. ASSUME NEW x \in Header, Parent[x] \in Header => Parent[x] \in T
      PROVE  x \in T
  <2>1. CASE x = Genesis
    <3>1. TotalWork[x] = Work[x]
      BY <2>1, TotalWorkEquation, HeaderAssumption
    <3> QED
      BY <2>1, <3>1
  <2>2. CASE x # Genesis /\ x \in Known
    <3>1. Parent[x] \in Known /\ WorkTotal(x) = WorkTotal(Parent[x]) + Work[x]
      BY <2>2 DEF IInv, HeadersDescendFromGenesis
    <3>2. TotalWork[x] = Work[x] + TotalWork[Parent[x]] /\ TotalWork[Parent[x]] \in Nat
          /\ Work[x] \in Nat
      BY <1>1, <3>1, TotalWorkEquation, HeaderAssumption
    <3>3. WorkTotal(Parent[x]) = TotalWork[Parent[x]]
      BY <1>1, <1>2, <3>1
    <3> QED
      BY <3>1, <3>2, <3>3
  <2> QED
    BY <2>1, <2>2
<1> HIDE DEF T
<1>3. Header \subseteq T
  BY <1>2, HeaderInduction
<1> QED
  BY <1>1, <1>3 DEF T

(* The longest chain is the tip and its ancestors. *)
LEMMA ChainIsAncestors ==
  ASSUME IInv
  PROVE  OnChain = Ancestors(Tip)
<1>1. /\ OnChain \subseteq Header /\ Tip \in OnChain /\ Tip \in Header
      /\ Genesis \in Ancestors(Tip)
  BY TipOnChain, KnownIsSound DEF IInv, TypeOK, LongestChainIsIndexed, Descends, Range
<1>2. \A k \in OnChain : Parent[k] \in Header => Parent[k] \in OnChain
  BY ParentOnChain, HeaderAssumption
<1>3. Ancestors(Tip) \subseteq OnChain
  BY <1>1, <1>2, ClosedUnderParent
<1>4. ASSUME NEW h \in OnChain
      PROVE  h \in Ancestors(Tip)
  <2>1. PICK i \in 1..Len(sortedHeaders) : h = sortedHeaders[i]
    BY DEF IInv, TypeOK, LongestChainIsIndexed, Range
  <2>2. \A j \in 1..Len(sortedHeaders) : Depth[sortedHeaders[j]] = j - 1
    BY DEF IInv, LongestChainIsIndexed, DepthInv
  <2>3. Len(sortedHeaders) \in 1..Len(sortedHeaders)
    BY DEF IInv, TypeOK
  <2>4. Depth[h] \in 0..Depth[Tip]
    BY <2>1, <2>2, <2>3 DEF Tip
  <2>5. PICK k \in Ancestors(Tip) : Depth[k] = Depth[h]
    BY <1>1, <2>4, AncestorAtEveryHeight
  <2>6. PICK j \in 1..Len(sortedHeaders) : k = sortedHeaders[j]
    BY <1>3 DEF IInv, TypeOK, LongestChainIsIndexed, Range
  <2>7. i = j
    BY <2>1, <2>2, <2>5, <2>6
  <2> QED
    BY <2>1, <2>5, <2>6, <2>7
<1> QED
  BY <1>3, <1>4

(* The entries of the longest chain are those of its tip's ancestors. *)
LEMMA ChainEntriesAreTips == IInv => ChainEntries = EntriesTo(Tip)
<1> SUFFICES ASSUME IInv
             PROVE  ChainEntries = EntriesTo(Tip)
  OBVIOUS
<1>1. /\ OnChain = Range(sortedHeaders) /\ DOMAIN sortedHeaders = 1..Len(sortedHeaders)
      /\ Len(sortedHeaders) \in Nat
  BY DEF IInv, TypeOK, LongestChainIsIndexed
<1>2. \A j \in 1..Len(sortedHeaders) : Depth[sortedHeaders[j]] = j - 1
  BY DEF IInv, LongestChainIsIndexed, DepthInv
<1>3. sortedHeaders[1] = Genesis
  BY DEF IInv, LongestChainIsIndexed
<1>4. \A j \in 1..Len(sortedHeaders) : sortedHeaders[j] # Genesis <=> j \in 2..Len(sortedHeaders)
  BY <1>1, <1>2, <1>3, DepthAssumption
<1>5. EntriesTo(Tip) = {<<Depth[k], k>> : k \in OnChain \ {Genesis}}
  BY ChainIsAncestors DEF EntriesTo
<1>6. ASSUME NEW e \in ChainEntries
      PROVE  e \in EntriesTo(Tip)
  <2>1. PICK i \in 2..Len(sortedHeaders) : e = <<i - 1, sortedHeaders[i]>>
    BY DEF ChainEntries
  <2>2. i \in 1..Len(sortedHeaders) /\ sortedHeaders[i] \in OnChain \ {Genesis}
    BY <1>1, <1>4, <2>1 DEF Range
  <2>3. e = <<Depth[sortedHeaders[i]], sortedHeaders[i]>>
    BY <1>2, <2>1, <2>2
  <2> QED
    BY <1>5, <2>2, <2>3
<1>7. ASSUME NEW e \in EntriesTo(Tip)
      PROVE  e \in ChainEntries
  <2>1. PICK k \in OnChain \ {Genesis} : e = <<Depth[k], k>>
    BY <1>5
  <2>2. PICK i \in 1..Len(sortedHeaders) : k = sortedHeaders[i]
    BY <1>1 DEF Range
  <2>3. i \in 2..Len(sortedHeaders) /\ e = <<i - 1, sortedHeaders[i]>>
    BY <1>2, <1>4, <2>1, <2>2
  <2> QED
    BY <2>3 DEF ChainEntries
<1> QED
  BY <1>6, <1>7

(* The same after a step. *)
LEMMA ChainEntriesAreTipsNext == IInv' => ChainEntries' = EntriesTo(Tip')
<1>1. (IInv => ChainEntries = EntriesTo(Tip))'
  BY ChainEntriesAreTips, PTL
<1> QED
  BY <1>1

----------------------------------------------------------------------------
(* What is on disk and queued for it *)

(* The setting does not change between two runs: a block that becomes an   *)
(* invalid one while descendants of it are on disk leaves a hole there.    *)
FixedInvalid == \A a, b \in InvalidBlockSets : a = b

(* The tip on disk after n of the queued changes. *)
TopAfter(db, queue, n) == IF n = 0 THEN TopOf(db) ELSE TopOf(queue[n].put)

(* Each queued change takes the disk from one sound chain to the next. *)
Saves(db, queue) ==
  \A n \in 1..Len(queue) :
     /\ Sound(TopAfter(db, queue, n))
     /\ ApplyChange(EntriesTo(TopAfter(db, queue, n - 1)), queue[n])
          = EntriesTo(TopAfter(db, queue, n))

(* A sound chain is on disk. *)
LevelDbInv == Sound(TopOf(levelDb)) /\ levelDb = EntriesTo(TopOf(levelDb))

(* The last queued change saves the longest chain; a session that has not  *)
(* begun has none queued.                                                  *)
SavedInv ==
  IF status \in {"open", "closing"}
  THEN TopAfter(levelDb, QueuedChanges, Len(QueuedChanges)) = Tip
  ELSE QueuedChanges = <<>>

(* While _insert is given the chain on disk, the headers known are the     *)
(* lower part of it and the others are still to come.                      *)
LoadInv ==
  status = "loading" =>
    LET top  == TopOf(levelDb)
        done == Depth[top] - Len(newHeaders)
    IN  /\ Known = {h \in Ancestors(top) : Depth[h] <= done}
        /\ \A i \in 1..Len(newHeaders) :
              newHeaders[i] \in Ancestors(top) /\ Depth[newHeaders[i]] = done + i
        /\ \A l \in headersTreeLeafHashes : Depth[l] = done
        /\ phase = "collect" => newHeaders = <<>> /\ NewTip = top

DiskInv ==
  /\ invalidBlocks \in InvalidBlockSets
  /\ status # "failed"
  /\ WorkTotal(Genesis) = Work[Genesis]
  /\ LevelDbInv
  /\ Saves(levelDb, QueuedChanges)
  /\ SavedInv
  /\ LoadInv

(* A change queued behind the others. *)
LEMMA QueueGrows ==
  ASSUME NEW db, NEW queue \in Seq(Changes), Saves(db, queue),
         NEW change \in Changes, Sound(TopOf(change.put)),
         ApplyChange(EntriesTo(TopAfter(db, queue, Len(queue))), change)
           = EntriesTo(TopOf(change.put))
  PROVE  /\ Saves(db, Append(queue, change))
         /\ TopAfter(db, Append(queue, change), Len(Append(queue, change))) = TopOf(change.put)
<1> DEFINE longer == Append(queue, change)
<1>1. /\ Len(longer) = Len(queue) + 1 /\ Len(queue) \in Nat
      /\ longer[Len(queue) + 1] = change
      /\ \A n \in 1..Len(queue) : longer[n] = queue[n]
  OBVIOUS
<1> HIDE DEF longer
<1>2. \A n \in 0..Len(queue) : TopAfter(db, longer, n) = TopAfter(db, queue, n)
  BY <1>1 DEF TopAfter
<1>3. TopAfter(db, longer, Len(queue) + 1) = TopOf(change.put)
  BY <1>1 DEF TopAfter
<1>4. ASSUME NEW n \in 1..Len(longer)
      PROVE  /\ Sound(TopAfter(db, longer, n))
             /\ ApplyChange(EntriesTo(TopAfter(db, longer, n - 1)), longer[n])
                  = EntriesTo(TopAfter(db, longer, n))
  <2>1. CASE n \in 1..Len(queue)
    <3>1. n - 1 \in 0..Len(queue) /\ n \in 0..Len(queue)
      BY <2>1
    <3> QED
      BY <1>1, <1>2, <2>1, <3>1 DEF Saves
  <2>2. CASE n = Len(queue) + 1
    <3>1. n - 1 = Len(queue) /\ n - 1 \in 0..Len(queue)
      BY <1>1, <2>2
    <3> QED
      BY <1>1, <1>2, <1>3, <2>2, <3>1
  <2> QED
    BY <1>1, <2>1, <2>2
<1>5. Saves(db, longer)
  BY <1>4 DEF Saves
<1> QED
  BY <1>1, <1>3, <1>5 DEF longer

(* The oldest change written. *)
LEMMA QueueShrinks ==
  ASSUME NEW db, NEW queue \in Seq(Changes), Saves(db, queue), queue # <<>>,
         db = EntriesTo(TopOf(db)),
         NEW new, new = ApplyChange(db, Head(queue))
  PROVE  /\ new = EntriesTo(TopOf(new)) /\ Sound(TopOf(new))
         /\ TopOf(new) = TopOf(Head(queue).put)
         /\ Saves(new, Tail(queue))
         /\ TopAfter(new, Tail(queue), Len(Tail(queue))) = TopAfter(db, queue, Len(queue))
<1> DEFINE rest == Tail(queue)
<1>1. /\ Len(rest) = Len(queue) - 1 /\ Len(rest) \in Nat /\ Len(queue) \in Nat
      /\ Head(queue) = queue[1] /\ 1 \in 1..Len(queue)
      /\ \A n \in 1..Len(rest) : rest[n] = queue[n + 1]
  OBVIOUS
<1> HIDE DEF rest
<1>2. /\ Sound(TopOf(Head(queue).put))
      /\ new = EntriesTo(TopOf(Head(queue).put))
  BY <1>1 DEF Saves, TopAfter
<1>3. TopOf(new) = TopOf(Head(queue).put)
  BY <1>2, TopOfEntries DEF Sound
<1>4. \A n \in 0..Len(rest) : TopAfter(new, rest, n) = TopAfter(db, queue, n + 1)
  BY <1>1, <1>3 DEF TopAfter
<1>5. ASSUME NEW n \in 1..Len(rest)
      PROVE  /\ Sound(TopAfter(new, rest, n))
             /\ ApplyChange(EntriesTo(TopAfter(new, rest, n - 1)), rest[n])
                  = EntriesTo(TopAfter(new, rest, n))
  <2>1. /\ n + 1 \in 1..Len(queue) /\ (n + 1) - 1 = n /\ (n - 1) + 1 = n
        /\ n \in 0..Len(rest) /\ n - 1 \in 0..Len(rest)
    BY <1>1
  <2>2. TopAfter(new, rest, n - 1) = TopAfter(db, queue, n)
    BY <1>4, <2>1
  <2>3. TopAfter(new, rest, n) = TopAfter(db, queue, n + 1)
    BY <1>4, <2>1
  <2> QED
    BY <1>1, <2>1, <2>2, <2>3 DEF Saves
<1>6. Saves(new, rest)
  BY <1>5 DEF Saves
<1>7. TopAfter(new, rest, Len(rest)) = TopAfter(db, queue, Len(queue))
  <2>1. Len(rest) \in 0..Len(rest) /\ Len(rest) + 1 = Len(queue)
    BY <1>1
  <2> QED
    BY <1>4, <2>1
<1> QED
  BY <1>2, <1>3, <1>6, <1>7 DEF rest

(* The changes queued are one sequence, wherever its two parts meet. *)
LEMMA QueueParts ==
  ASSUME NEW S, NEW s \in Seq(S), NEW t \in Seq(S), NEW x \in S
  PROVE  /\ s \o t \in Seq(S)
         /\ s \o Append(t, x) = Append(s \o t, x)
         /\ t # <<>> => Append(s, Head(t)) \o Tail(t) = s \o t
         /\ s # <<>> => /\ s \o t # <<>>
                        /\ Head(s \o t) = Head(s)
                        /\ Tail(s \o t) = Tail(s) \o t
<1>1. s \o t \in Seq(S) /\ s \o Append(t, x) = Append(s \o t, x)
  OBVIOUS
<1>2. ASSUME t # <<>>
      PROVE  Append(s, Head(t)) \o Tail(t) = s \o t
  BY <1>2
<1>3. ASSUME s # <<>>
      PROVE  s \o t # <<>> /\ Head(s \o t) = Head(s) /\ Tail(s \o t) = Tail(s) \o t
  BY <1>3
<1> QED
  BY <1>1, <1>2, <1>3

(* The changes queued have their type. *)
LEMMA QueueType ==
  ASSUME IInv
  PROVE  QueuedChanges \in Seq(Changes)
BY DEF IInv, TypeOK, QueuedChanges

(* The constructor, before anything was ever saved. *)
LEMMA InitDiskInv == Init => DiskInv
<1> SUFFICES ASSUME Init
             PROVE  DiskInv
  OBVIOUS
<1>1. /\ levelDb = {} /\ status = "down" /\ invalidBlocks \in InvalidBlockSets
      /\ saveTasks = <<>> /\ unsavedChanges = <<>>
      /\ allHeaders = [h \in {Genesis} |-> [height |-> 0, workTotal |-> Work[h]]]
  BY DEF Init
<1>2. QueuedChanges = <<>>
  BY <1>1 DEF QueuedChanges
<1>3. WorkTotal(Genesis) = Work[Genesis]
  BY <1>1 DEF WorkTotal
<1>4. Ancestors(Genesis) = {Genesis} /\ Genesis \in Header /\ Genesis \notin invalidBlocks
  BY <1>1, AncestorsEquation, HeaderAssumption, InputAssumption
<1>5. TopOf(levelDb) = Genesis
  BY <1>1 DEF TopOf
<1>6. LevelDbInv
  <2>1. EntriesTo(Genesis) = {}
    BY <1>4 DEF EntriesTo
  <2> QED
    BY <1>1, <1>4, <1>5, <2>1 DEF LevelDbInv, Sound
<1>7. Saves(levelDb, QueuedChanges)
  BY <1>2 DEF Saves
<1> QED
  BY <1>1, <1>2, <1>3, <1>6, <1>7 DEF DiskInv, SavedInv, LoadInv

(* What is sound stays so, whatever happens in memory. *)
LEMMA SoundFrame ==
  ASSUME invalidBlocks' = invalidBlocks
  PROVE  /\ \A h : Sound(h)' <=> Sound(h)
         /\ (levelDb' = levelDb /\ LevelDbInv) => LevelDbInv'
<1>1. \A h : Sound(h)' <=> Sound(h)
  BY DEF Sound
<1>2. (levelDb' = levelDb /\ LevelDbInv) => LevelDbInv'
  BY <1>1 DEF LevelDbInv
<1> QED
  BY <1>1, <1>2

(* A step outside of loading that leaves the disk, the queue and the tip. *)
LEMMA DiskFrame ==
  ASSUME DiskInv,
         UNCHANGED <<invalidBlocks, levelDb, QueuedChanges, Tip>>,
         WorkTotal(Genesis)' = WorkTotal(Genesis),
         status # "loading", status' \notin {"loading", "failed"},
         status' \in {"open", "closing"} <=> status \in {"open", "closing"}
  PROVE  DiskInv'
<1>1. /\ invalidBlocks' = invalidBlocks /\ levelDb' = levelDb
      /\ QueuedChanges' = QueuedChanges /\ Tip' = Tip
  OBVIOUS
<1>2. LevelDbInv'
  BY <1>1, SoundFrame DEF DiskInv
<1>3. Saves(levelDb, QueuedChanges)'
  BY <1>1, SoundFrame DEF DiskInv, Saves
<1>4. SavedInv'
  BY <1>1 DEF DiskInv, SavedInv
<1>5. LoadInv'
  BY DEF LoadInv
<1> QED
  BY <1>1, <1>2, <1>3, <1>4, <1>5 DEF DiskInv

(* The elements of the upper part of a sequence. *)
LEMMA UpperPart ==
  ASSUME NEW S, NEW s \in Seq(S), NEW start \in 1..Len(s)
  PROVE  /\ SubSeq(s, start + 1, Len(s)) \in Seq(Range(s))
         /\ Range(SubSeq(s, start + 1, Len(s))) = {s[i] : i \in start + 1 .. Len(s)}
<1> DEFINE upper == SubSeq(s, start + 1, Len(s))
<1>1. /\ start + 1 \in 1..Len(s) + 1 /\ Len(s) \in Nat /\ DOMAIN s = 1..Len(s)
      /\ start \in Nat
  OBVIOUS
<1>2. /\ upper \in Seq(S) /\ Len(upper) = Len(s) - start
      /\ \A i \in 1..Len(s) - start : upper[i] = s[start + i]
  <2>1. upper \in Seq(S)
    BY <1>1
  <2>2. Len(upper) = Len(s) - start
    <3>1. Len(upper) = IF start + 1 <= Len(s) THEN Len(s) - (start + 1) + 1 ELSE 0
      BY <1>1
    <3>2. \A n, k \in Nat : n \in 1..k => (IF n + 1 <= k THEN k - (n + 1) + 1 ELSE 0) = k - n
      OBVIOUS
    <3> QED
      BY Zenon, <1>1, <3>1, <3>2
  <2>3. \A i \in 1..Len(s) - start : upper[i] = s[start + i]
    BY <1>1
  <2> QED
    BY <2>1, <2>2, <2>3
<1> HIDE DEF upper
<1>3. DOMAIN upper = 1..Len(upper)
  BY <1>2
<1>4. \A i \in 1..Len(upper) : start + i \in start + 1 .. Len(s) /\ upper[i] = s[start + i]
  BY <1>1, <1>2
<1>5. \A i \in start + 1 .. Len(s) : i - start \in 1..Len(upper) /\ start + (i - start) = i
  BY <1>1, <1>2
<1>6. \A i \in start + 1 .. Len(s) : upper[i - start] = s[i]
  BY <1>4, <1>5
<1>7. Range(upper) = {s[i] : i \in start + 1 .. Len(s)}
  <2>1. Range(upper) = {upper[i] : i \in 1..Len(upper)}
    BY Zenon, <1>3 DEF Range
  <2>2. ASSUME NEW i \in start + 1 .. Len(s)
        PROVE  s[i] \in {upper[j] : j \in 1..Len(upper)}
    BY <1>5, <1>6
  <2>3. ASSUME NEW i \in 1..Len(upper)
        PROVE  upper[i] \in {s[j] : j \in start + 1 .. Len(s)}
    BY <1>4
  <2> QED
    BY <2>1, <2>2, <2>3
<1>8. upper \in Seq(Range(s))
  <2>1. \A i \in 1..Len(upper) : upper[i] \in Range(s)
    BY <1>1, <1>4 DEF Range
  <2> QED
    BY <1>2, <2>1
<1> QED
  BY <1>7, <1>8 DEF upper

(* The walk back began above the longest chain: what it collected is not   *)
(* empty, as the new tip is heavier than the old one.                      *)
LEMMA CollectedSome ==
  ASSUME IInv, WorkTotal(Genesis) = Work[Genesis], phase = "collect", currentHeader \in OnChain
  PROVE  headersToAdd # <<>>
<1> SUFFICES ASSUME headersToAdd = <<>>
             PROVE  FALSE
  OBVIOUS
<1>1. WorkTotal(Tip) < WorkTotal(currentHeader) /\ currentHeader \in Known
  BY DEF IInv, CollectInv, NewTip
<1>2. currentHeader \in Ancestors(Tip) /\ Tip \in Known /\ Tip \in Header
  BY ChainIsAncestors, TipOnChain
<1>3. TotalWork[currentHeader] <= TotalWork[Tip]
  BY <1>2, AncestorsAreLighter
<1>4. WorkTotal(currentHeader) <= WorkTotal(Tip)
  BY <1>1, <1>2, <1>3, KnownWork
<1>5. WorkTotal(currentHeader) \in Nat /\ WorkTotal(Tip) \in Nat
  BY <1>1, <1>2 DEF IInv, TypeOK, WorkTotal
<1> QED
  BY <1>1, <1>4, <1>5

(* The change queued with the splice takes the old chain to the new one:   *)
(* heights that a shorter chain lacks are deleted (19-35, 263-266).        *)
LEMMA SplicedEntries ==
  ASSUME IInv, IInv', WorkTotal(Genesis) = Work[Genesis], SpliceChain
  PROVE  LET removed == SubSeq(sortedHeaders, HeightOf(currentHeader) + 2, Len(sortedHeaders))
             change  == Change(removed, headersToAdd)
         IN  /\ change \in Changes
             /\ TopOf(change.put) = Tip'
             /\ ApplyChange(EntriesTo(Tip), change) = EntriesTo(Tip')
             /\ status = "open" => QueuedChanges' = Append(QueuedChanges, change)
<1> DEFINE removed == SubSeq(sortedHeaders, HeightOf(currentHeader) + 2, Len(sortedHeaders))
           change  == Change(removed, headersToAdd)
           N == Len(sortedHeaders)
           K == Len(headersToAdd)
<1>1. phase = "collect" /\ currentHeader \in OnChain /\ headersToAdd # <<>>
  BY CollectedSome DEF SpliceChain
<1>2. PICK start \in 1..N :
        /\ currentHeader = sortedHeaders[start]
        /\ start = HeightOf(currentHeader) + 1
        /\ sortedHeaders' \in Seq(Header)
        /\ Len(sortedHeaders') = start + K
        /\ \A i \in 1..start : sortedHeaders'[i] = sortedHeaders[i]
        /\ \A i \in 1..K : sortedHeaders'[start + i] = headersToAdd[i]
  BY SplicedChain
<1>3. /\ headersToAdd \in Seq(Header) /\ sortedHeaders \in Seq(Header)
      /\ N \in Nat /\ K \in Nat \ {0} /\ DOMAIN headersToAdd = 1..K
      /\ HeightOf(currentHeader) = start - 1
      /\ start \in Nat
  <2>1. /\ headersToAdd \in Seq(Header) /\ sortedHeaders \in Seq(Header)
        /\ N \in Nat /\ K \in Nat /\ DOMAIN headersToAdd = 1..K
    BY DEF IInv, TypeOK
  <2>2. K # 0
    BY <1>1, <2>1
  <2>3. HeightOf(currentHeader) = start - 1
    BY <1>2 DEF IInv, LongestChainIsIndexed
  <2> QED
    BY <2>1, <2>2, <2>3
<1>4. \A i \in 1..K : headersToAdd[i] \in Known /\ HeightOf(headersToAdd[i]) = start - 1 + i
  BY <1>1, <1>3 DEF IInv, CollectInv
<1>5. \A i \in 1..N : sortedHeaders[i] \in Known /\ HeightOf(sortedHeaders[i]) = i - 1
  BY DEF IInv, LongestChainIsIndexed
<1>6. HeightOf(currentHeader) + 2 = start + 1
  BY <1>3
<1>7. removed \in Seq(Range(sortedHeaders)) /\ Range(removed) = {sortedHeaders[i] : i \in start + 1 .. N}
  BY <1>3, <1>6, UpperPart
<1>8. Range(headersToAdd) = {headersToAdd[i] : i \in 1..K}
  BY <1>3 DEF Range
<1> HIDE DEF removed
<1>9. change \in Changes
  <2>1. Range(sortedHeaders) \subseteq Known
    BY <1>3, <1>5 DEF Range
  <2>2. removed \in Seq(Known)
    BY <1>7, <2>1
  <2>3. headersToAdd \in Seq(Known)
    BY <1>3, <1>4
  <2> QED
    BY <2>2, <2>3, ChangeType
<1>10. change.del = {i - 1 : i \in start + 1 .. N}
  <2>1. \A i \in start + 1 .. N : i \in 1..N
    BY <1>3
  <2>2. change.del = {HeightOf(h) : h \in Range(removed)}
    BY DEF Change
  <2> QED
    BY <1>5, <1>7, <2>1, <2>2
<1>11. change.put = {<<start - 1 + i, headersToAdd[i]>> : i \in 1..K}
  <2>1. change.put = {<<HeightOf(h), h>> : h \in Range(headersToAdd)}
    BY DEF Change
  <2> QED
    BY <1>4, <1>8, <2>1
<1> HIDE DEF change
<1>12. Tip' = headersToAdd[K]
  <2>1. NewTip = headersToAdd[K]
    BY <1>1 DEF NewTip
  <2> QED
    BY <2>1, SplicedTip
<1>13. TopOf(change.put) = Tip'
  <2> DEFINE e == <<start - 1 + K, headersToAdd[K]>>
  <2>1. e \in change.put /\ e[1] \in Int
    BY <1>3, <1>11
  <2>2. \A f \in change.put : f = e \/ (f[1] \in Int /\ f[1] < e[1])
    BY <1>3, <1>11
  <2>3. TopOf(change.put) = e[2]
    BY <2>1, <2>2, TopOfSet
  <2> QED
    BY <1>12, <2>3
<1>14. /\ EntriesTo(Tip) = {<<i - 1, sortedHeaders[i]>> : i \in 2..N}
       /\ EntriesTo(Tip') = {<<i - 1, sortedHeaders'[i]>> : i \in 2..start + K}
  BY <1>2, ChainEntriesAreTips, ChainEntriesAreTipsNext DEF ChainEntries
<1>15. ApplyChange(EntriesTo(Tip), change) = EntriesTo(Tip')
  <2>1. /\ Heights(change.put) = {e[1] : e \in change.put}
        /\ \A h \in Heights(change.put) : \E i \in 1..K : h = start - 1 + i
    BY <1>11 DEF Heights
  <2>2. ApplyChange(EntriesTo(Tip), change)
          = {e \in EntriesTo(Tip) : e[1] \notin change.del \cup Heights(change.put)} \cup change.put
    BY DEF ApplyChange
  <2>3. ASSUME NEW i \in 2..N
        PROVE  i - 1 \notin change.del \cup Heights(change.put) <=> i <= start
    <3>1. i - 1 \in change.del <=> i > start
      BY <1>3, <1>10
    <3>2. ASSUME i - 1 \in Heights(change.put)
          PROVE  i > start
      <4>1. PICK j \in 1..K : i - 1 = start - 1 + j
        BY <2>1, <3>2
      <4> QED
        BY <1>3, <4>1
    <3> QED
      BY <1>3, <3>1, <3>2
  <2>4. ASSUME NEW e \in ApplyChange(EntriesTo(Tip), change)
        PROVE  e \in EntriesTo(Tip')
    <3>1. CASE e \in EntriesTo(Tip) /\ e[1] \notin change.del \cup Heights(change.put)
      <4>1. PICK i \in 2..N : e = <<i - 1, sortedHeaders[i]>>
        BY <1>14, <3>1
      <4>2. i \in 2..start + K /\ i \in 1..start
        BY <1>3, <2>3, <3>1, <4>1
      <4> QED
        BY <1>2, <1>14, <4>1, <4>2
    <3>2. CASE e \in change.put
      <4>1. PICK i \in 1..K : e = <<start - 1 + i, headersToAdd[i]>>
        BY <1>11, <3>2
      <4>2. start + i \in 2..start + K /\ (start + i) - 1 = start - 1 + i
        BY <1>3
      <4>3. <<(start + i) - 1, sortedHeaders'[start + i]>> \in EntriesTo(Tip')
        BY <1>14, <4>2
      <4> QED
        BY <1>2, <4>1, <4>2, <4>3
    <3> QED
      BY <2>2, <3>1, <3>2
  <2>5. ASSUME NEW e \in EntriesTo(Tip')
        PROVE  e \in ApplyChange(EntriesTo(Tip), change)
    <3>1. PICK i \in 2..start + K : e = <<i - 1, sortedHeaders'[i]>>
      BY <1>14
    <3>2. CASE i <= start
      <4>1. i \in 1..start /\ i \in 2..N
        BY <1>3, <3>1, <3>2
      <4>2. e = <<i - 1, sortedHeaders[i]>> /\ e \in EntriesTo(Tip)
        BY <1>2, <1>14, <3>1, <4>1
      <4> QED
        BY <2>2, <2>3, <3>2, <4>1, <4>2
    <3>3. CASE i > start
      <4>1. i - start \in 1..K /\ start + (i - start) = i /\ start - 1 + (i - start) = i - 1
        BY <1>3, <3>1, <3>3
      <4>2. e = <<start - 1 + (i - start), headersToAdd[i - start]>>
        BY <1>2, <3>1, <4>1
      <4> QED
        BY <1>11, <2>2, <4>1, <4>2
    <3> QED
      BY <1>3, <3>1, <3>2, <3>3
  <2> QED
    BY <2>4, <2>5
<1>16. ASSUME status = "open"
       PROVE  QueuedChanges' = Append(QueuedChanges, change)
  <2>1. saveTasks' = Append(saveTasks, change)
    <3>1. (HeightOf(currentHeader) + 1) + 1 = HeightOf(currentHeader) + 2
      BY <1>3
    <3>2. saveTasks' = Append(saveTasks,
            Change(SubSeq(sortedHeaders, (HeightOf(currentHeader) + 1) + 1, Len(sortedHeaders)),
                   headersToAdd))
      BY Zenon, <1>16 DEF SpliceChain
    <3> QED
      BY Zenon, <3>1, <3>2 DEF change, removed
  <2>2. unsavedChanges \in Seq(Changes) /\ saveTasks \in Seq(Changes) /\ unsavedChanges' = unsavedChanges
    BY DEF IInv, TypeOK, SpliceChain
  <2> QED
    BY <1>9, <2>1, <2>2, QueueParts DEF QueuedChanges
<1> QED
  BY <1>9, <1>13, <1>15, <1>16 DEF change, removed

(* A splice queues the change that saves it; fromDatabase's has none to    *)
(* queue, as it is the chain on disk (263-266).                            *)
LEMMA SpliceChainDisk ==
  ASSUME IInv, DiskInv, SpliceChain
  PROVE  DiskInv'
<1>1. /\ phase = "collect" /\ status' = "open" /\ currentHeader \in OnChain
      /\ invalidBlocks' = invalidBlocks /\ levelDb' = levelDb
      /\ unsavedChanges' = unsavedChanges /\ allHeaders' = allHeaders
  BY DEF SpliceChain, ReturnFromInsert, headerVars
<1>2. IInv'
  BY SpliceChainStep
<1>3. WorkTotal(Genesis)' = Work[Genesis] /\ WorkTotal(Genesis) = Work[Genesis]
  BY <1>1 DEF WorkTotal, DiskInv
<1>4. LevelDbInv' /\ LoadInv' /\ invalidBlocks' \in InvalidBlockSets
  BY <1>1, SoundFrame DEF DiskInv, LoadInv
<1>5. Sound(Tip')
  <2>1. Tip' = NewTip /\ NewTip \in Known
    <3>1. headersToAdd # <<>>
      BY <1>1, <1>3, CollectedSome
    <3>2. Len(headersToAdd) \in DOMAIN headersToAdd
      BY <3>1 DEF IInv, TypeOK
    <3> QED
      BY <1>1, <3>1, <3>2, SplicedTip DEF IInv, CollectInv, NewTip
  <2>2. WorkTotal(NewTip) > WorkTotal(Tip) /\ Tip \in Known
    BY <1>1, TipOnChain DEF IInv, CollectInv, LongestChainIsIndexed
  <2>3. WorkTotal(Tip) >= WorkTotal(Genesis)
    BY <2>2 DEF IInv, DepthInv
  <2>4. WorkTotal(NewTip) \in Nat /\ WorkTotal(Tip) \in Nat /\ WorkTotal(Genesis) \in Nat
    BY <2>1, <2>2 DEF IInv, TypeOK, HeadersDescendFromGenesis, WorkTotal
  <2>5. TotalWork[NewTip] > Work[Genesis]
    BY <1>3, <2>1, <2>2, <2>3, <2>4, KnownWork
  <2>6. Descends(NewTip)
    BY <2>1, KnownIsSound
  <2>7. Sound(NewTip)
    BY <2>5, <2>6 DEF Sound, Descends
  <2> QED
    BY <2>1, <2>7
<1>6. CASE status = "open"
  <2> DEFINE change == Change(SubSeq(sortedHeaders, HeightOf(currentHeader) + 2, Len(sortedHeaders)),
                              headersToAdd)
  <2>1. /\ change \in Changes
        /\ TopOf(change.put) = Tip'
        /\ ApplyChange(EntriesTo(Tip), change) = EntriesTo(Tip')
        /\ QueuedChanges' = Append(QueuedChanges, change)
    BY <1>2, <1>3, <1>6, SplicedEntries
  <2> HIDE DEF change
  <2>4. TopAfter(levelDb, QueuedChanges, Len(QueuedChanges)) = Tip
    BY <1>6 DEF DiskInv, SavedInv
  <2>5. /\ Saves(levelDb, Append(QueuedChanges, change))
        /\ TopAfter(levelDb, Append(QueuedChanges, change), Len(Append(QueuedChanges, change))) = Tip'
    BY <1>5, <2>1, <2>4, QueueType, QueueGrows DEF DiskInv
  <2>6. Saves(levelDb, QueuedChanges)'
    BY <1>1, <2>1, <2>5, SoundFrame DEF Saves
  <2>7. SavedInv'
    BY <1>1, <2>1, <2>5 DEF SavedInv
  <2> QED
    BY <1>1, <1>3, <1>4, <2>6, <2>7 DEF DiskInv
<1>7. CASE status = "loading"
  <2>1. QueuedChanges = <<>> /\ Tip' = TopOf(levelDb)
    BY <1>1, <1>7, SplicedTip DEF DiskInv, SavedInv, LoadInv
  <2>2. QueuedChanges' = QueuedChanges
    BY <1>1, <1>7 DEF SpliceChain, QueuedChanges
  <2>3. Saves(levelDb, QueuedChanges)' /\ SavedInv'
    BY <1>1, <2>1, <2>2 DEF Saves, SavedInv, TopAfter
  <2> QED
    BY <1>1, <1>3, <1>4, <2>3 DEF DiskInv
<1> QED
  BY <1>1, <1>6, <1>7 DEF IInv, SessionInv, TypeOK

(* A batch written takes the disk to the next chain (280-290). *)
LEMMA BatchWrittenDisk ==
  ASSUME IInv, DiskInv, BatchWritten
  PROVE  /\ DiskInv'
         /\ TopOf(levelDb') = TopOf(Head(QueuedChanges).put)
         /\ QueuedChanges' = Tail(QueuedChanges) /\ QueuedChanges # <<>>
<1>1. /\ saving /\ phase = "idle" /\ unsavedChanges # <<>>
      /\ levelDb' = ApplyChange(levelDb, Head(unsavedChanges))
      /\ unsavedChanges' = Tail(unsavedChanges) /\ saveTasks' = saveTasks
      /\ invalidBlocks' = invalidBlocks /\ status' = status
      /\ sortedHeaders' = sortedHeaders /\ allHeaders' = allHeaders
  BY DEF BatchWritten, memoryVars, headerVars, chainVars, IInv, TypeOK
<1>2. /\ QueuedChanges # <<>> /\ Head(QueuedChanges) = Head(unsavedChanges)
      /\ QueuedChanges' = Tail(QueuedChanges)
  <2>1. unsavedChanges \in Seq(Changes) /\ saveTasks \in Seq(Changes)
    BY DEF IInv, TypeOK
  <2>2. Head(unsavedChanges) \in Changes
    BY <1>1, <2>1
  <2> QED
    BY <1>1, <2>1, <2>2, QueueParts DEF QueuedChanges
<1>3. /\ levelDb' = EntriesTo(TopOf(levelDb')) /\ Sound(TopOf(levelDb'))
      /\ TopOf(levelDb') = TopOf(Head(QueuedChanges).put)
      /\ Saves(levelDb', Tail(QueuedChanges))
      /\ TopAfter(levelDb', Tail(QueuedChanges), Len(Tail(QueuedChanges)))
           = TopAfter(levelDb, QueuedChanges, Len(QueuedChanges))
  BY <1>1, <1>2, QueueType, QueueShrinks DEF DiskInv, LevelDbInv
<1>4. LevelDbInv'
  BY <1>1, <1>3, SoundFrame DEF LevelDbInv
<1>5. Saves(levelDb, QueuedChanges)'
  BY <1>1, <1>2, <1>3, SoundFrame DEF Saves
<1>6. status \in {"open", "closing"} /\ SavedInv'
  BY <1>1, <1>2, <1>3 DEF DiskInv, SavedInv, Tip
<1>7. WorkTotal(Genesis)' = WorkTotal(Genesis)
  BY <1>1 DEF WorkTotal
<1>8. LoadInv'
  BY <1>1, <1>6 DEF LoadInv
<1> QED
  BY <1>1, <1>2, <1>3, <1>4, <1>5, <1>6, <1>7, <1>8 DEF DiskInv

(* A session that ends, however it does, leaves the chain on disk. *)
LEMMA FreshMemoryDisk ==
  ASSUME DiskInv, FreshMemory, status' = "down", UNCHANGED <<invalidBlocks, levelDb>>
  PROVE  DiskInv'
<1>1. /\ invalidBlocks' = invalidBlocks /\ levelDb' = levelDb
      /\ saveTasks' = <<>> /\ unsavedChanges' = <<>>
      /\ allHeaders' = [h \in {Genesis} |-> [height |-> 0, workTotal |-> Work[h]]]
  BY DEF FreshMemory
<1>2. QueuedChanges' = <<>> /\ WorkTotal(Genesis)' = Work[Genesis]
  BY <1>1 DEF QueuedChanges, WorkTotal
<1>3. Saves(levelDb, QueuedChanges)' /\ SavedInv' /\ LoadInv'
  BY <1>2 DEF Saves, SavedInv, LoadInv
<1> QED
  BY <1>1, <1>2, <1>3, SoundFrame DEF DiskInv

----------------------------------------------------------------------------
(* fromDatabase, and _insert for it *)

(* A start finds every height (121-126). *)
LEMMA NoHeightIsMissing ==
  ASSUME DiskInv
  PROVE  Heights(levelDb) = 1..Cardinality(levelDb) /\ Cardinality(levelDb) = Depth[TopOf(levelDb)]
BY EntriesHeights DEF DiskInv, LevelDbInv, Sound

(* A step of a start that is not over leaves the disk and the queue. *)
LEMMA LoadFrame ==
  ASSUME DiskInv, UNCHANGED <<invalidBlocks, levelDb, QueuedChanges>>,
         WorkTotal(Genesis)' = WorkTotal(Genesis), status \in {"down", "loading"},
         status' = "loading", LoadInv'
  PROVE  DiskInv'
<1>1. /\ invalidBlocks' = invalidBlocks /\ levelDb' = levelDb /\ QueuedChanges' = QueuedChanges
  OBVIOUS
<1>2. QueuedChanges' = <<>>
  BY <1>1 DEF DiskInv, SavedInv
<1>3. Saves(levelDb, QueuedChanges)' /\ SavedInv'
  BY <1>2 DEF Saves, SavedInv
<1> QED
  BY <1>1, <1>3, SoundFrame DEF DiskInv

(* The chain on disk is what _insert is given, lowest header first. *)
LEMMA FromDatabaseDisk ==
  ASSUME FixedInvalid, IInv, DiskInv, FromDatabase
  PROVE  DiskInv' /\ invalidBlocks' = invalidBlocks
<1> DEFINE top == TopOf(levelDb)
           n == Depth[top]
<1>1. /\ status = "down" /\ status' = "loading" /\ phase' = "insert"
      /\ allHeaders' = allHeaders /\ levelDb' = levelDb
      /\ unsavedChanges' = unsavedChanges /\ saveTasks' = saveTasks
      /\ invalidBlocks' \in InvalidBlockSets
  BY DEF FromDatabase, headerVars, saveVars
<1>2. invalidBlocks' = invalidBlocks
  BY <1>1 DEF FixedInvalid, DiskInv
<1>3. QueuedChanges' = QueuedChanges /\ Known' = Known /\ WorkTotal(Genesis)' = WorkTotal(Genesis)
  BY <1>1 DEF QueuedChanges, Known, WorkTotal
<1>4. /\ top \in Header /\ Genesis \in Ancestors(top) /\ levelDb = EntriesTo(top)
      /\ n \in Nat /\ Ancestors(top) \subseteq Header
  BY AncestorsAreLower, DepthAssumption DEF DiskInv, LevelDbInv, Sound
<1>5. newHeaders' = [i \in 1..n |-> CHOOSE h \in Header : <<i, h>> \in levelDb]
  BY NoHeightIsMissing DEF FromDatabase
<1>6. ASSUME NEW i \in 1..n
      PROVE  newHeaders'[i] \in Ancestors(top) /\ Depth[newHeaders'[i]] = i
  <2>1. newHeaders'[i] = CHOOSE h \in Header : <<i, h>> \in levelDb
    BY <1>5
  <2>2. \E h \in Header : <<i, h>> \in levelDb
    <3>1. PICK k \in Ancestors(top) : Depth[k] = i
      BY <1>4, AncestorAtEveryHeight
    <3>2. k # Genesis /\ k \in Header
      BY <1>4, <3>1, DepthAssumption
    <3> QED
      BY <1>4, <3>1, <3>2, EntriesHeights
  <2>3. newHeaders'[i] \in Header /\ <<i, newHeaders'[i]>> \in levelDb
    BY Zenon, <2>1, <2>2
  <2> QED
    BY <1>4, <2>3, EntriesHeights
<1>7. Len(newHeaders') = n
  <2> DEFINE header(i) == CHOOSE h \in Header : <<i, h>> \in levelDb
  <2>1. newHeaders' = [i \in 1..n |-> header(i)]
    BY <1>5
  <2> HIDE DEF header
  <2> QED
    BY <1>4, <2>1
<1>8. Known = {h \in Ancestors(top) : Depth[h] <= 0}
  <2>1. Known = {Genesis}
    BY <1>1 DEF IInv, SessionInv
  <2>2. \A h \in Ancestors(top) : Depth[h] <= 0 <=> h = Genesis
    BY <1>4, OneAncestorPerHeight, DepthAssumption
  <2> QED
    BY <1>4, <2>1, <2>2
<1>9. headersTreeLeafHashes' = headersTreeLeafHashes /\ headersTreeLeafHashes \subseteq {Genesis}
  BY <1>1 DEF FromDatabase, headerVars, IInv, TypeOK, SessionInv
<1>10. LoadInv'
  BY <1>1, <1>3, <1>4, <1>6, <1>7, <1>8, <1>9, DepthAssumption DEF LoadInv
<1> QED
  BY <1>1, <1>2, <1>3, <1>10, LoadFrame

(* The next header of a chain that is loaded is linked and no invalid      *)
(* block, as it was when it was saved.                                     *)
LEMMA NextLoaded ==
  ASSUME IInv, DiskInv, status = "loading", newHeaders # <<>>
  PROVE  /\ Head(newHeaders) = newHeaders[1] /\ 1 \in 1..Len(newHeaders)
         /\ newHeaders[1] \in Header
         /\ Parent[newHeaders[1]] \in Known
         /\ newHeaders[1] \notin invalidBlocks
<1> DEFINE top == TopOf(levelDb)
           done == Depth[top] - Len(newHeaders)
           header == newHeaders[1]
<1>1. newHeaders \in Seq(Header) /\ Head(newHeaders) = header /\ 1 \in 1..Len(newHeaders)
      /\ Len(newHeaders) \in Nat
  BY DEF IInv, TypeOK
<1>2. /\ Known = {h \in Ancestors(top) : Depth[h] <= done}
      /\ header \in Ancestors(top) /\ Depth[header] = done + 1
  BY <1>1 DEF DiskInv, LoadInv
<1>3. /\ top \in Header /\ Genesis \in Ancestors(top) /\ Ancestors(top) \cap invalidBlocks = {}
      /\ Ancestors(top) \subseteq Header
      /\ Depth[top] \in Nat
  BY AncestorsAreLower, DepthAssumption DEF DiskInv, LevelDbInv, Sound
<1>4. done \in Int /\ 0 <= done
  BY <1>1, <1>2, <1>3, DepthAssumption DEF IInv, HeadersDescendFromGenesis
<1>5. header # Genesis /\ Genesis \in Ancestors(header) /\ header \in Header
  BY <1>2, <1>3, <1>4, DepthAssumption, AncestorAtEveryHeight
<1>6. Parent[header] \in Header /\ Parent[header] \in Ancestors(header)
  BY <1>5, AncestorsEquation, AncestorsAreLower
<1>7. Parent[header] \in Ancestors(top) /\ Depth[Parent[header]] = done
  <2>1. Parent[header] \in Ancestors(top)
    BY <1>2, <1>3, <1>6, AncestorsAreClosed
  <2>2. Depth[header] = Depth[Parent[header]] + 1 /\ Depth[Parent[header]] \in Nat
    BY <1>5, <1>6, DepthAssumption
  <2> QED
    BY <1>2, <1>4, <2>1, <2>2
<1> QED
  BY <1>1, <1>2, <1>3, <1>4, <1>5, <1>7

(* A header of the chain on disk joins the tree. *)
LEMMA InsertLoaded ==
  ASSUME IInv, DiskInv, status = "loading", InsertHeader
  PROVE  DiskInv'
<1> DEFINE top == TopOf(levelDb)
           done == Depth[top] - Len(newHeaders)
           header == newHeaders[1]
<1>1. /\ newHeaders # <<>> /\ newHeaders' = Tail(newHeaders)
      /\ phase = "insert" /\ phase' = "insert" /\ status' = status
      /\ invalidBlocks' = invalidBlocks /\ levelDb' = levelDb
      /\ unsavedChanges' = unsavedChanges /\ saveTasks' = saveTasks
  BY DEF InsertHeader, saveVars
<1>2. Head(newHeaders) = header /\ 1 \in 1..Len(newHeaders) /\ header \in Header
      /\ newHeaders \in Seq(Header)
  BY <1>1, NextLoaded DEF IInv, TypeOK
<1>3. Known' = Known \cup {header}
  BY <1>2 DEF InsertHeader, LinkHeader, Known
<1>4. /\ Known = {h \in Ancestors(top) : Depth[h] <= done}
      /\ \A i \in 1..Len(newHeaders) :
            newHeaders[i] \in Ancestors(top) /\ Depth[newHeaders[i]] = done + i
      /\ top \in Header /\ Depth[top] \in Nat
      /\ Ancestors(top) \subseteq Header
  BY AncestorsAreLower, DepthAssumption DEF DiskInv, LoadInv, LevelDbInv, Sound
<1>5. /\ Len(newHeaders') = Len(newHeaders) - 1 /\ Len(newHeaders) \in Nat
      /\ \A i \in 1..Len(newHeaders') : newHeaders'[i] = newHeaders[i + 1] /\ i + 1 \in 1..Len(newHeaders)
      /\ Depth[top] - Len(newHeaders') = done + 1
      /\ done \in Int
  BY <1>1, <1>2, <1>4
<1>6. Known' = {h \in Ancestors(top) : Depth[h] <= done + 1}
  <2>1. header \in Ancestors(top) /\ Depth[header] = done + 1
    BY <1>2, <1>4
  <2>2. \A h \in Ancestors(top) : Depth[h] \in Nat
    BY <1>4, DepthAssumption
  <2>3. \A h \in Ancestors(top) : Depth[h] <= done + 1 <=> (Depth[h] <= done \/ h = header)
    BY <1>4, <1>5, <2>1, <2>2, OneAncestorPerHeight
  <2> QED
    BY <1>3, <1>4, <2>1, <2>3
<1>7. \A i \in 1..Len(newHeaders') :
        newHeaders'[i] \in Ancestors(top) /\ Depth[newHeaders'[i]] = (done + 1) + i
  <2> SUFFICES ASSUME NEW i \in 1..Len(newHeaders')
               PROVE  newHeaders'[i] \in Ancestors(top) /\ Depth[newHeaders'[i]] = (done + 1) + i
    OBVIOUS
  <2>1. newHeaders'[i] = newHeaders[i + 1] /\ i + 1 \in 1..Len(newHeaders) /\ i \in Int
    BY <1>5
  <2>2. newHeaders[i + 1] \in Ancestors(top) /\ Depth[newHeaders[i + 1]] = done + (i + 1)
    BY <1>4, <2>1
  <2>3. done + (i + 1) = (done + 1) + i
    BY <1>5, <2>1
  <2> QED
    BY <2>1, <2>2, <2>3
<1>8. headersTreeLeafHashes' = {header}
  <2>1. /\ headersTreeLeafHashes \subseteq Ancestors(top)
        /\ \A l \in headersTreeLeafHashes : Depth[l] = done
    BY <1>4 DEF DiskInv, LoadInv, IInv, TypeOK
  <2>2. Parent[header] \in Ancestors(top) /\ Parent[header] \in Header
    BY <1>1, <1>4, NextLoaded
  <2>3. Depth[Parent[header]] = done
    <3>1. Depth[header] = done + 1
      BY <1>2, <1>4
    <3>2. Depth[header] = Depth[Parent[header]] + 1 /\ Depth[Parent[header]] \in Nat
      BY <1>2, <2>2, DepthAssumption
    <3> QED
      BY <1>5, <3>1, <3>2
  <2>4. headersTreeLeafHashes \subseteq {Parent[header]}
    BY <1>4, <2>1, <2>2, <2>3, OneAncestorPerHeight
  <2>5. headersTreeLeafHashes' = (headersTreeLeafHashes \ {Parent[header]}) \cup {header}
    BY <1>2 DEF InsertHeader, LinkHeader, Leaves
  <2> QED
    BY <2>4, <2>5
<1>9. LoadInv'
  <2>1. Depth[header] = done + 1
    BY <1>2, <1>4
  <2> QED
    BY <1>1, <1>5, <1>6, <1>7, <1>8, <2>1 DEF LoadInv
<1>10. QueuedChanges' = QueuedChanges
  BY <1>1 DEF QueuedChanges
<1>11. WorkTotal(Genesis)' = WorkTotal(Genesis)
  <2>1. Genesis \in Known /\ header # Genesis
    BY <1>1, <1>2, NextLoaded, HeaderAssumption
       DEF IInv, TypeOK, HeadersDescendFromGenesis
  <2> QED
    BY <1>2, <2>1 DEF InsertHeader, LinkHeader, WorkTotal
<1> QED
  BY <1>1, <1>9, <1>10, <1>11, LoadFrame

(* With every header of the chain on disk inserted, the headers known are  *)
(* that chain, and the longest chain is still genesis.                     *)
LEMMA AllLoaded ==
  ASSUME IInv, DiskInv, status = "loading", newHeaders = <<>>
  PROVE  /\ Known = Ancestors(TopOf(levelDb))
         /\ TopOf(levelDb) \in Known
         /\ Tip = Genesis
<1> DEFINE top == TopOf(levelDb)
<1>1. /\ top \in Header /\ Genesis \in Ancestors(top) /\ Depth[top] \in Nat
      /\ top \in Ancestors(top)
      /\ \A h \in Ancestors(top) : Depth[h] <= Depth[top]
  BY AncestorsAreLower, DepthAssumption DEF DiskInv, LevelDbInv, Sound
<1>2. Depth[top] - Len(newHeaders) = Depth[top]
  BY <1>1
<1>3. Known = {h \in Ancestors(top) : Depth[h] <= Depth[top]}
  BY <1>2 DEF DiskInv, LoadInv
<1>4. Tip = Genesis
  BY DEF IInv, SessionInv, LongestChainIsIndexed, Tip
<1> QED
  BY <1>1, <1>3, <1>4

(* No leaf is heavier than genesis: nothing was on disk. *)
LEMMA KeepTipLoaded ==
  ASSUME IInv, DiskInv, status = "loading", KeepTip
  PROVE  DiskInv' /\ TopOf(levelDb) = Genesis /\ Tip = Genesis
<1> DEFINE top == TopOf(levelDb)
<1>1. /\ newHeaders = <<>> /\ HeavierLeaves = {} /\ phase = "insert"
      /\ invalidBlocks' = invalidBlocks /\ levelDb' = levelDb
      /\ unsavedChanges' = unsavedChanges /\ saveTasks' = saveTasks
      /\ allHeaders' = allHeaders /\ sortedHeaders' = sortedHeaders
      /\ status' = "open"
  BY DEF KeepTip, ReturnFromInsert, headerVars, chainVars, saveVars
<1>2. top \in Known /\ Tip = Genesis /\ Genesis \in Known
  BY <1>1, AllLoaded DEF IInv, HeadersDescendFromGenesis
<1>3. \A h \in Known : WorkTotal(h) \in Nat
  BY DEF IInv, TypeOK, WorkTotal
<1>4. WorkTotal(top) <= WorkTotal(Genesis)
  <2>1. PICK l \in headersTreeLeafHashes \cup {Tip} : WorkTotal(top) <= WorkTotal(l)
    BY <1>1, <1>2 DEF IInv, InsertInv
  <2>2. l \in Known
    BY <1>2, <2>1 DEF IInv, TypeOK
  <2>3. WorkTotal(l) <= WorkTotal(Genesis)
    BY <1>1, <1>2, <1>3, <2>1, <2>2 DEF HeavierLeaves
  <2> QED
    BY <1>2, <1>3, <2>1, <2>2, <2>3
<1>5. top = Genesis
  <2> SUFFICES ASSUME top # Genesis
               PROVE  FALSE
    OBVIOUS
  <2>1. TotalWork[top] > Work[Genesis]
    BY DEF DiskInv, LevelDbInv, Sound
  <2>2. WorkTotal(top) = TotalWork[top] /\ WorkTotal(Genesis) = Work[Genesis]
    BY <1>2, KnownWork DEF DiskInv
  <2> QED
    BY <1>2, <1>3, <1>4, <2>1, <2>2
<1>6. QueuedChanges = <<>> /\ QueuedChanges' = <<>>
  BY <1>1 DEF DiskInv, SavedInv, QueuedChanges
<1>7. Tip' = Tip /\ WorkTotal(Genesis)' = WorkTotal(Genesis)
  BY <1>1 DEF Tip, WorkTotal
<1>8. Saves(levelDb, QueuedChanges)' /\ SavedInv' /\ LoadInv'
  BY <1>1, <1>2, <1>5, <1>6, <1>7 DEF Saves, SavedInv, TopAfter, LoadInv
<1> QED
  BY <1>1, <1>2, <1>5, <1>7, <1>8, SoundFrame DEF DiskInv

(* The only leaf of a chain is its tip, which becomes the tip again. *)
LEMMA ChooseTipLoaded ==
  ASSUME IInv, DiskInv, status = "loading", ChooseTip
  PROVE  DiskInv'
<1> DEFINE top == TopOf(levelDb)
<1>1. /\ newHeaders = <<>> /\ newHeaders' = newHeaders /\ phase' = "collect"
      /\ invalidBlocks' = invalidBlocks /\ levelDb' = levelDb
      /\ unsavedChanges' = unsavedChanges /\ saveTasks' = saveTasks
      /\ allHeaders' = allHeaders /\ headersToAdd' = <<>> /\ status' = status
  BY DEF ChooseTip, headerVars, saveVars
<1>2. /\ Known = Ancestors(top) /\ top \in Header /\ Genesis \in Ancestors(top)
      /\ Ancestors(top) \subseteq Header
  BY <1>1, AllLoaded, AncestorsAreLower DEF DiskInv, LevelDbInv, Sound
<1>3. PICK leaf \in headersTreeLeafHashes : currentHeader' = leaf
  BY DEF ChooseTip, HeavierLeaves
<1>4. leaf \in Ancestors(top) /\ Depth[leaf] = Depth[top]
  <2>1. Depth[top] - Len(newHeaders) = Depth[top]
    BY <1>1, <1>2, DepthAssumption
  <2> QED
    BY <1>2, <1>3, <2>1 DEF DiskInv, LoadInv, IInv, TypeOK
<1>5. leaf = top
  BY <1>2, <1>4, AncestorsAreLower, OneAncestorPerHeight
<1>6. NewTip' = top
  BY <1>1, <1>3, <1>5 DEF NewTip
<1>7. Known' = Known /\ QueuedChanges' = QueuedChanges /\ WorkTotal(Genesis)' = WorkTotal(Genesis)
  BY <1>1 DEF Known, QueuedChanges, WorkTotal
<1>8. LoadInv'
  <2>1. headersTreeLeafHashes' = headersTreeLeafHashes
    BY DEF ChooseTip, headerVars
  <2> QED
    BY <1>1, <1>6, <1>7, <2>1 DEF DiskInv, LoadInv
<1> QED
  BY <1>1, <1>7, <1>8, LoadFrame

(* The walk back does not move the new tip. *)
LEMMA CollectKeepsNewTip ==
  ASSUME IInv, CollectHeader
  PROVE  NewTip' = NewTip
<1>1. /\ headersToAdd' = <<currentHeader>> \o headersToAdd
      /\ headersToAdd \in Seq(Header) /\ currentHeader \in Header
  BY DEF CollectHeader, IInv, TypeOK
<1>2. /\ headersToAdd' # <<>> /\ Len(headersToAdd') = Len(headersToAdd) + 1
      /\ headersToAdd'[1] = currentHeader
      /\ \A i \in 1..Len(headersToAdd) : headersToAdd'[i + 1] = headersToAdd[i]
  BY <1>1
<1>3. CASE headersToAdd = <<>>
  BY <1>2, <1>3 DEF NewTip
<1>4. CASE headersToAdd # <<>>
  <2>1. Len(headersToAdd) \in 1..Len(headersToAdd)
    BY <1>1, <1>4
  <2> QED
    BY <1>2, <1>4, <2>1 DEF NewTip
<1> QED
  BY <1>3, <1>4

(* The same while the chain on disk is loaded. *)
LEMMA CollectLoaded ==
  ASSUME IInv, DiskInv, status = "loading", CollectHeader
  PROVE  DiskInv'
<1>1. /\ newHeaders' = newHeaders /\ phase' = phase
      /\ invalidBlocks' = invalidBlocks /\ levelDb' = levelDb
      /\ unsavedChanges' = unsavedChanges /\ saveTasks' = saveTasks
      /\ allHeaders' = allHeaders /\ status' = status
      /\ headersTreeLeafHashes' = headersTreeLeafHashes
  BY DEF CollectHeader, headerVars, saveVars
<1>2. Known' = Known /\ QueuedChanges' = QueuedChanges /\ WorkTotal(Genesis)' = WorkTotal(Genesis)
  BY <1>1 DEF Known, QueuedChanges, WorkTotal
<1>3. LoadInv'
  BY <1>1, <1>2, CollectKeepsNewTip DEF DiskInv, LoadInv
<1> QED
  BY <1>1, <1>2, <1>3, LoadFrame

(* Every step outside of loading that writes neither the disk nor the      *)
(* queue nor the tip.                                                      *)
LEMMA QuietSteps ==
  ASSUME IInv, DiskInv, status # "loading",
         \/ \E headers \in Batches : AddHeaders(headers)
         \/ PruneBranches
         \/ InsertHeader
         \/ BrokenChain
         \/ InvalidHeader
         \/ KeepTip
         \/ ChooseTip
         \/ CollectHeader
         \/ WalkStaleBranch
         \/ DropStaleHeaders
         \/ StartSaveTask
         \/ BatchFailed
         \/ Close
         \/ UNCHANGED vars
  PROVE  /\ DiskInv' /\ UNCHANGED <<levelDb, QueuedChanges, Tip>>
         /\ status' \in {"open", "closing"} <=> status \in {"open", "closing"}
<1>1. /\ invalidBlocks' = invalidBlocks /\ levelDb' = levelDb /\ sortedHeaders' = sortedHeaders
  BY DEF AddHeaders, PruneBranches, InsertHeader, BrokenChain, InvalidHeader, KeepTip,
         ChooseTip, CollectHeader, WalkStaleBranch, DropStaleHeaders, StartSaveTask,
         BatchFailed, Close, vars, memoryVars, chainVars, saveVars
<1>2. QueuedChanges' = QueuedChanges
  <2>1. CASE StartSaveTask
    <3>1. unsavedChanges \in Seq(Changes) /\ saveTasks \in Seq(Changes)
      BY DEF IInv, TypeOK
    <3>2. saveTasks # <<>> /\ Head(saveTasks) \in Changes
      BY <2>1, <3>1 DEF StartSaveTask
    <3>3. Append(unsavedChanges, Head(saveTasks)) \o Tail(saveTasks) = unsavedChanges \o saveTasks
      BY <3>1, <3>2, QueueParts
    <3> QED
      BY <2>1, <3>3 DEF StartSaveTask, QueuedChanges
  <2>2. CASE ~ StartSaveTask
    <3>1. unsavedChanges' = unsavedChanges /\ saveTasks' = saveTasks
      BY <2>2
         DEF AddHeaders, PruneBranches, InsertHeader, BrokenChain, InvalidHeader, KeepTip,
             ChooseTip, CollectHeader, WalkStaleBranch, DropStaleHeaders,
             BatchFailed, Close, vars, memoryVars, chainVars, saveVars
    <3> QED
      BY <3>1 DEF QueuedChanges
  <2> QED
    BY <2>1, <2>2
<1>3. /\ status' \in {"open", "closing"} <=> status \in {"open", "closing"}
      /\ status' \notin {"loading", "failed"}
  <2>1. status \in {"down", "open", "closing"} /\ (phase # "idle" => status = "open")
    BY DEF DiskInv, IInv, SessionInv, TypeOK
  <2> QED
    BY <2>1
       DEF AddHeaders, PruneBranches, InsertHeader, BrokenChain, InvalidHeader, KeepTip,
           ChooseTip, CollectHeader, WalkStaleBranch, DropStaleHeaders, StartSaveTask,
           BatchFailed, Close, vars, ReturnFromInsert
<1>4. WorkTotal(Genesis)' = WorkTotal(Genesis)
  <2>1. CASE InsertHeader
    <3>1. newHeaders # <<>> /\ phase = "insert" /\ Head(newHeaders) = newHeaders[1]
          /\ 1 \in DOMAIN newHeaders
          /\ Parent[newHeaders[1]] \in Known
      BY <2>1 DEF InsertHeader, IInv, TypeOK
    <3>2. newHeaders[1] # Genesis /\ Genesis \in Known
      BY <3>1, HeaderAssumption DEF IInv, TypeOK, HeadersDescendFromGenesis
    <3> QED
      BY <2>1, <3>1, <3>2 DEF InsertHeader, LinkHeader, WorkTotal
  <2>2. CASE DropStaleHeaders
    <3>1. Genesis \in Known \ staleHeaderHashes
      BY <2>2 DEF DropStaleHeaders, IInv, HeadersDescendFromGenesis,
                  LongestChainIsIndexed, TypeOK, Range
    <3>2. allHeaders' = [h \in Known \ staleHeaderHashes |-> allHeaders[h]]
      BY <2>2 DEF DropStaleHeaders, Restrict
    <3> QED
      BY <3>1, <3>2 DEF WorkTotal
  <2>3. CASE ~ InsertHeader /\ ~ DropStaleHeaders
    <3>1. allHeaders' = allHeaders
      BY <2>3
         DEF AddHeaders, PruneBranches, BrokenChain, InvalidHeader, KeepTip,
             ChooseTip, CollectHeader, WalkStaleBranch, StartSaveTask,
             BatchFailed, Close, vars, memoryVars, headerVars
    <3> QED
      BY <3>1 DEF WorkTotal
  <2> QED
    BY <2>1, <2>2, <2>3
<1>5. Tip' = Tip
  BY <1>1 DEF Tip
<1> QED
  BY <1>1, <1>2, <1>3, <1>4, <1>5, DiskFrame

(* DiskInv is inductive, relative to IInv. *)
LEMMA DiskInductive ==
  ASSUME FixedInvalid, IInv, DiskInv, [Next]_vars
  PROVE  DiskInv'
<1>1. CASE FromDatabase
  BY <1>1, FromDatabaseDisk
<1>2. CASE MissingHeader
  BY <1>2, NoHeightIsMissing DEF MissingHeader
<1>3. CASE SpliceChain
  BY <1>3, SpliceChainDisk
<1>4. CASE BatchWritten
  BY <1>4, BatchWrittenDisk
<1>5. CASE FinishClose \/ Crash
  BY <1>5, FreshMemoryDisk DEF FinishClose, Crash
<1>6. CASE status = "loading" /\ CallStep
  <2>1. phase \in {"insert", "collect"}
    BY <1>6 DEF IInv, SessionInv
  <2>2. ~ BrokenChain /\ ~ InvalidHeader
    BY <1>6, NextLoaded DEF BrokenChain, InvalidHeader
  <2>3. ~ WalkStaleBranch /\ ~ DropStaleHeaders
    BY <2>1 DEF WalkStaleBranch, DropStaleHeaders
  <2> QED
    BY <1>6, <2>2, <2>3, InsertLoaded, KeepTipLoaded, ChooseTipLoaded, CollectLoaded,
       SpliceChainDisk DEF CallStep
<1>7. CASE status = "loading" /\ ((\E headers \in Batches : AddHeaders(headers)) \/ PruneBranches
                                  \/ SaveStep \/ Close)
  <2>1. phase # "idle"
    BY <1>7 DEF IInv, SessionInv
  <2> QED
    BY <1>7, <2>1 DEF AddHeaders, PruneBranches, SaveStep, StartSaveTask, BatchWritten,
                      BatchFailed, Close
<1>8. CASE status = "loading" /\ UNCHANGED vars
  <2>1. /\ phase' = phase /\ newHeaders' = newHeaders /\ status' = status
        /\ invalidBlocks' = invalidBlocks /\ levelDb' = levelDb
        /\ unsavedChanges' = unsavedChanges /\ saveTasks' = saveTasks
        /\ allHeaders' = allHeaders /\ headersToAdd' = headersToAdd
        /\ currentHeader' = currentHeader
        /\ headersTreeLeafHashes' = headersTreeLeafHashes
    BY <1>8 DEF vars, memoryVars, headerVars, callVars, saveVars
  <2>2. Known' = Known /\ QueuedChanges' = QueuedChanges /\ NewTip' = NewTip
        /\ WorkTotal(Genesis)' = WorkTotal(Genesis)
    BY <2>1 DEF Known, QueuedChanges, NewTip, WorkTotal
  <2>3. LoadInv'
    BY <2>1, <2>2 DEF DiskInv, LoadInv
  <2> QED
    BY <1>8, <2>1, <2>2, <2>3, LoadFrame
<1>9. CASE status # "loading"
  BY <1>1, <1>2, <1>3, <1>4, <1>5, <1>9, QuietSteps DEF Next, CallStep, SaveStep
<1> QED
  BY <1>1, <1>2, <1>5, <1>6, <1>7, <1>8, <1>9 DEF Next

(* What is on disk and queued is as DiskInv says in every reachable state. *)
THEOREM SpecDiskInv ==
  ASSUME FixedInvalid
  PROVE  Spec => [](IInv /\ DiskInv)
<1>1. Init => DiskInv
  BY InitDiskInv
<1>2. IInv /\ DiskInv /\ [Next]_vars => DiskInv'
  BY DiskInductive
<1> QED
  BY <1>1, <1>2, SpecIInv, PTL DEF Spec

(* fromDatabase never throws "Missing header at height" (124-126), as long *)
(* as the invalid blocks are the same at every start.                      *)
THEOREM NoStartFails ==
  ASSUME FixedInvalid
  PROVE  Spec => []EveryHeightIsPresent
<1>1. DiskInv => EveryHeightIsPresent
  BY DEF DiskInv, EveryHeightIsPresent
<1> QED
  BY <1>1, SpecDiskInv, PTL

(* At every moment the disk holds one unbroken chain from genesis on, so   *)
(* that a process that ends then can start again (121-126).                *)
THEOREM DiskHoldsAChain ==
  ASSUME FixedInvalid
  PROVE  Spec => []LevelDbHoldsAChain
<1>1. ASSUME DiskInv
      PROVE  LevelDbHoldsAChain
  <2> DEFINE top == TopOf(levelDb)
  <2>1. top \in Header /\ Genesis \in Ancestors(top) /\ levelDb = EntriesTo(top)
        /\ Ancestors(top) \subseteq Header
    BY <1>1, AncestorsAreLower DEF DiskInv, LevelDbInv, Sound
  <2>2. ASSUME NEW entry \in levelDb
        PROVE  IF entry[1] = 1 THEN Parent[entry[2]] = Genesis
               ELSE <<entry[1] - 1, Parent[entry[2]]>> \in levelDb
    <3>1. PICK k \in Ancestors(top) \ {Genesis} : entry = <<Depth[k], k>>
      BY <2>1, <2>2 DEF EntriesTo
    <3>2. Genesis \in Ancestors(k) /\ k \in Header
      BY <2>1, <3>1, AncestorAtEveryHeight
    <3>3. Parent[k] \in Header /\ Parent[k] \in Ancestors(k)
      BY <3>1, <3>2, AncestorsEquation, AncestorsAreLower
    <3>4. Parent[k] \in Ancestors(top)
      BY <2>1, <3>1, <3>3, AncestorsAreClosed
    <3>5. Depth[k] = Depth[Parent[k]] + 1 /\ Depth[Parent[k]] \in Nat
      BY <3>2, <3>3, DepthAssumption
    <3>6. CASE Depth[k] = 1
      <4>1. Depth[Parent[k]] = Depth[Genesis]
        BY <3>5, <3>6, DepthAssumption
      <4>2. Parent[k] = Genesis
        BY <2>1, <3>4, <4>1, OneAncestorPerHeight
      <4> QED
        BY <3>1, <3>6, <4>2
    <3>7. CASE Depth[k] # 1
      <4>1. Parent[k] # Genesis
        BY <3>5, <3>7, DepthAssumption
      <4>2. <<Depth[Parent[k]], Parent[k]>> \in levelDb
        BY <2>1, <3>4, <4>1 DEF EntriesTo
      <4>3. Depth[Parent[k]] = Depth[k] - 1
        BY <3>5
      <4> QED
        BY <3>1, <3>7, <4>2, <4>3
    <3> QED
      BY <3>6, <3>7
  <2> QED
    BY <1>1, <2>2, NoHeightIsMissing DEF LevelDbHoldsAChain
<1>2. DiskInv => LevelDbHoldsAChain
  BY <1>1
<1> QED
  BY <1>2, SpecDiskInv, PTL

(* close() returns with the longest chain on disk unless a write failed    *)
(* and left its change queued (149-155).                                   *)
THEOREM CloseSaves ==
  ASSUME FixedInvalid
  PROVE  Spec => CloseSavesTheChain
<1>1. ASSUME IInv, DiskInv, FinishClose, unsavedChanges = <<>>
      PROVE  levelDb = ChainEntries
  <2>1. QueuedChanges = <<>> /\ status = "closing"
    BY <1>1 DEF FinishClose, QueuedChanges
  <2>2. TopOf(levelDb) = Tip
    BY <1>1, <2>1 DEF DiskInv, SavedInv, TopAfter
  <2> QED
    BY <1>1, <2>2, ChainEntriesAreTips DEF DiskInv, LevelDbInv
<1>2. IInv /\ DiskInv /\ [Next]_vars
        => [(FinishClose /\ unsavedChanges = <<>>) => levelDb = ChainEntries]_vars
  BY <1>1
<1> QED
  BY <1>2, SpecDiskInv, PTL DEF Spec, CloseSavesTheChain

(* Whatever has failed or is still queued, replaying the queue over what   *)
(* is on disk gives the longest chain (280-294).                           *)
THEOREM QueueReplays ==
  ASSUME FixedInvalid
  PROVE  Spec => []QueueReplaysToChain
<1>1. ASSUME IInv, DiskInv
      PROVE  QueueReplaysToChain
  <2> DEFINE Replay(f) == [n \in 0..Len(QueuedChanges) |->
                             IF n = 0 THEN levelDb
                             ELSE ApplyChange(f[n - 1], QueuedChanges[n])]
             tops   == [n \in 0..Len(QueuedChanges) |->
                          EntriesTo(TopAfter(levelDb, QueuedChanges, n))]
             replay == CHOOSE f : f = Replay(f)
  <2> SUFFICES ASSUME status \in {"open", "closing"}
               PROVE  replay[Len(QueuedChanges)] = ChainEntries
    BY Zenon DEF QueueReplaysToChain
  <2>1. Len(QueuedChanges) \in Nat
    BY <1>1, QueueType
  <2>2. /\ tops[0] = levelDb
        /\ \A n \in 1..Len(QueuedChanges) : tops[n] = ApplyChange(tops[n - 1], QueuedChanges[n])
    <3>1. tops[0] = levelDb
      BY <1>1, <2>1 DEF DiskInv, LevelDbInv, TopAfter
    <3>2. ASSUME NEW n \in 1..Len(QueuedChanges)
          PROVE  tops[n] = ApplyChange(tops[n - 1], QueuedChanges[n])
      <4>1. n \in 0..Len(QueuedChanges) /\ n - 1 \in 0..Len(QueuedChanges)
        BY <2>1
      <4> QED
        BY <1>1, <4>1 DEF DiskInv, Saves
    <3> QED
      BY <3>1, <3>2
  <2>3. tops = Replay(tops)
    <3>1. \A n \in 0..Len(QueuedChanges) : n = 0 \/ n \in 1..Len(QueuedChanges)
      BY <2>1
    <3> QED
      BY <2>2, <3>1
  <2>4. replay = Replay(replay)
    <3> HIDE DEF Replay, tops
    <3> QED
      BY <2>3
  <2>5. /\ replay[0] = levelDb
        /\ \A n \in 1..Len(QueuedChanges) : replay[n] = ApplyChange(replay[n - 1], QueuedChanges[n])
    <3>1. \A n \in 1..Len(QueuedChanges) : n \in 0..Len(QueuedChanges) /\ n # 0
      BY <2>1
    <3>2. 0 \in 0..Len(QueuedChanges)
      BY <2>1
    <3> HIDE DEF replay
    <3> QED
      BY <2>4, <3>1, <3>2
  <2>6. tops[Len(QueuedChanges)] = ChainEntries
    <3>1. TopAfter(levelDb, QueuedChanges, Len(QueuedChanges)) = Tip
      BY <1>1 DEF DiskInv, SavedInv
    <3> QED
      BY <1>1, <2>1, <3>1, ChainEntriesAreTips
  <2>7. replay[0] = tops[0]
    BY <2>2, <2>5
  <2> HIDE DEF replay, tops
  <2> DEFINE T == {n \in Nat : n <= Len(QueuedChanges) => replay[n] = tops[n]}
  <2>8. replay[Len(QueuedChanges)] = tops[Len(QueuedChanges)]
    <3>1. 0 \in T
      BY <2>7
    <3>2. ASSUME NEW n \in Nat, n \in T
          PROVE  n + 1 \in T
      <4> SUFFICES ASSUME n + 1 <= Len(QueuedChanges)
                   PROVE  replay[n + 1] = tops[n + 1]
        OBVIOUS
      <4>1. n + 1 \in 1..Len(QueuedChanges) /\ (n + 1) - 1 = n /\ replay[n] = tops[n]
        BY <2>1, <3>2
      <4> QED
        BY <2>2, <2>5, <4>1
    <3> HIDE DEF T
    <3>3. Len(QueuedChanges) \in T
      BY <2>1, <3>1, <3>2, Induction
    <3> QED
      BY <2>1, <3>3 DEF T
  <2> QED
    BY <2>6, <2>8
<1>2. IInv /\ DiskInv => QueueReplaysToChain
  BY <1>1
<1> QED
  BY <1>2, SpecDiskInv, PTL

----------------------------------------------------------------------------
(* The promise of HeaviestChain *)

(* The headers on disk are those of the chain there. *)
LEMMA HeadersOnDisk ==
  ASSUME DiskInv
  PROVE  {Genesis} \cup {entry[2] : entry \in levelDb} = Ancestors(TopOf(levelDb))
<1> DEFINE top == TopOf(levelDb)
<1>1. levelDb = {<<Depth[k], k>> : k \in Ancestors(top) \ {Genesis}} /\ Genesis \in Ancestors(top)
  BY DEF DiskInv, LevelDbInv, Sound, EntriesTo
<1> HIDE DEF top
<1>2. \A k \in Ancestors(top) \ {Genesis} : \E entry \in levelDb : k = entry[2]
  <2> SUFFICES ASSUME NEW k \in Ancestors(top) \ {Genesis}
               PROVE  \E entry \in levelDb : k = entry[2]
    OBVIOUS
  <2>1. <<Depth[k], k>> \in levelDb
    BY <1>1
  <2> QED
    BY <2>1
<1>3. \A entry \in levelDb : entry[2] \in Ancestors(top) \ {Genesis}
  BY <1>1
<1> QED
  BY <1>1, <1>2, <1>3 DEF top

(* The tips a queue of changes adopts, one after the other. *)
Tips(queue) == [i \in 1..Len(queue) |-> TopOf(queue[i].put)]

(* The tips follow the queue: one is put behind, the first is taken. *)
LEMMA TipsFollow ==
  ASSUME NEW queue \in Seq(Changes), NEW change \in Changes
  PROVE  /\ Tips(Append(queue, change)) = Append(Tips(queue), TopOf(change.put))
         /\ queue # <<>> => /\ Tips(queue) # <<>>
                            /\ Head(Tips(queue)) = TopOf(Head(queue).put)
                            /\ Tips(Tail(queue)) = Tail(Tips(queue))
         /\ Tips(<<>>) = <<>>
<1>1. Tips(queue) \in Seq({TopOf(queue[i].put) : i \in 1..Len(queue)}) /\ Len(Tips(queue)) = Len(queue)
  BY DEF Tips
<1>2. Tips(Append(queue, change)) = Append(Tips(queue), TopOf(change.put))
  BY DEF Tips
<1>3. ASSUME queue # <<>>
      PROVE  /\ Tips(queue) # <<>>
             /\ Head(Tips(queue)) = TopOf(Head(queue).put)
             /\ Tips(Tail(queue)) = Tail(Tips(queue))
  BY <1>3 DEF Tips
<1>4. Tips(<<>>) = <<>>
  BY DEF Tips
<1> QED
  BY <1>2, <1>3, <1>4

(* The chains and the work of the abstract store are those of the tree. *)
LEMMA SameTree ==
  /\ Abstract!ChainTo = ChainTo /\ Abstract!TotalWork = TotalWork
  /\ \A h : Abstract!Range(ChainTo[h]) = Ancestors(h)
<1>1. Abstract!ChainTo = ChainTo /\ Abstract!TotalWork = TotalWork
  BY DEF Abstract!ChainTo, ChainTo, Abstract!TotalWork, TotalWork
<1>2. \A h : Abstract!Range(ChainTo[h]) = Ancestors(h)
  BY DEF Abstract!Range, Range, Ancestors
<1> QED
  BY <1>1, <1>2

(* The constructor is the beginning of the abstract store. *)
LEMMA InitRefines == Init => Abstract!Init
<1> SUFFICES ASSUME Init
             PROVE  Abstract!Init
  OBVIOUS
<1>1. levelDb = {} /\ status = "down" /\ unsavedChanges = <<>> /\ saveTasks = <<>>
  BY DEF Init
<1>2. QueuedChanges = <<>> /\ TopOf(levelDb) = Genesis
  BY <1>1 DEF QueuedChanges, TopOf
<1> QED
  BY <1>1, <1>2 DEF Abstract!Init

(* What the abstract store knows, and its tip. *)
Loaded == status \in {"open", "closing"}
AbsKnown == IF Loaded THEN Known ELSE {Genesis} \cup {entry[2] : entry \in levelDb}
AbsTip == IF Loaded THEN Tip ELSE TopOf(levelDb)

(* A step that the abstract store does not see. *)
LEMMA Stutters ==
  ASSUME AbsKnown' = AbsKnown, AbsTip' = AbsTip, UNCHANGED <<QueuedChanges, levelDb>>
  PROVE  UNCHANGED Abstract!vars
BY DEF Abstract!vars, AbsKnown, AbsTip, Loaded, TopOf

(* The steps that it does see.  A header is learned. *)
LEMMA Learns ==
  ASSUME NEW h \in Header, h \notin AbsKnown, Parent[h] \in AbsKnown,
         AbsKnown' = AbsKnown \cup {h}, AbsTip' = AbsTip, UNCHANGED <<QueuedChanges, levelDb>>
  PROVE  Abstract!Next
<1>1. TopOf(levelDb)' = TopOf(levelDb)
  OBVIOUS
<1>2. QueuedChanges' = QueuedChanges
  OBVIOUS
<1>3. Abstract!Learn(h)
  BY <1>1, <1>2 DEF Abstract!Learn, AbsKnown, AbsTip, Loaded
<1> QED
  BY <1>3 DEF Abstract!Next

(* The tip moves to the heaviest header. *)
LEMMA Adopts ==
  ASSUME NEW h \in AbsKnown, TotalWork[h] > TotalWork[AbsTip],
         \A k \in AbsKnown : TotalWork[k] <= TotalWork[h],
         AbsTip' = h, Tips(QueuedChanges)' = Append(Tips(QueuedChanges), h),
         AbsKnown' = AbsKnown, levelDb' = levelDb
  PROVE  Abstract!Next
<1>1. TopOf(levelDb)' = TopOf(levelDb)
  OBVIOUS
<1>2. Abstract!Adopt(h)
  BY <1>1, SameTree DEF Abstract!Adopt, AbsKnown, AbsTip, Loaded, Tips
<1> QED
  BY <1>2 DEF Abstract!Next, AbsKnown, Loaded

(* Side branches are dropped. *)
LEMMA Forgets ==
  ASSUME AbsKnown' = Ancestors(AbsTip), AbsTip' = AbsTip, UNCHANGED <<QueuedChanges, levelDb>>
  PROVE  Abstract!Next
<1>1. TopOf(levelDb)' = TopOf(levelDb)
  OBVIOUS
<1>2. QueuedChanges' = QueuedChanges
  OBVIOUS
<1>3. Abstract!Forget
  BY <1>1, <1>2, SameTree DEF Abstract!Forget, AbsKnown, AbsTip, Loaded
<1> QED
  BY <1>3 DEF Abstract!Next

(* The oldest pending tip reaches the disk. *)
LEMMA SavesOne ==
  ASSUME Tips(QueuedChanges) # <<>>, TopOf(levelDb') = Head(Tips(QueuedChanges)),
         Tips(QueuedChanges)' = Tail(Tips(QueuedChanges)),
         AbsKnown' = AbsKnown, AbsTip' = AbsTip
  PROVE  Abstract!Next
BY DEF Abstract!Next, Abstract!Save, AbsKnown, AbsTip, Loaded, Tips

(* The session ends: the chain on disk is what is left. *)
LEMMA Crashes ==
  ASSUME AbsKnown' = Ancestors(TopOf(levelDb)), AbsTip' = TopOf(levelDb),
         QueuedChanges' = <<>>, levelDb' = levelDb
  PROVE  Abstract!Next
<1>1. TopOf(levelDb)' = TopOf(levelDb)
  OBVIOUS
<1>2. Tips(QueuedChanges)' = <<>>
  BY DEF Tips
<1>3. Abstract!Crash
  BY <1>1, <1>2, SameTree DEF Abstract!Crash, AbsKnown, AbsTip, Loaded, Tips
<1> QED
  BY <1>3 DEF Abstract!Next

(* A start that is not over stands for the chain on disk, and so does the  *)
(* session when its headers have all been inserted.                        *)
LEMMA LoadingRefines ==
  ASSUME FixedInvalid, IInv, DiskInv, DiskInv', status \in {"down", "loading"},
         FromDatabase \/ CallStep
  PROVE  UNCHANGED Abstract!vars
<1>1. levelDb' = levelDb /\ unsavedChanges' = unsavedChanges
  BY DEF FromDatabase, CallStep, InsertHeader, BrokenChain, InvalidHeader, KeepTip, ChooseTip,
         CollectHeader, SpliceChain, WalkStaleBranch, DropStaleHeaders, saveVars
<1>2. saveTasks' = saveTasks
  BY DEF FromDatabase, CallStep, InsertHeader, BrokenChain, InvalidHeader, KeepTip, ChooseTip,
         CollectHeader, SpliceChain, WalkStaleBranch, DropStaleHeaders, saveVars
<1>3. QueuedChanges' = QueuedChanges
  BY <1>1, <1>2 DEF QueuedChanges
<1>4. status = "loading" => phase \in {"insert", "collect"}
  BY DEF IInv, SessionInv
<1>5. status = "down" => phase = "idle"
  BY DEF IInv, SessionInv
<1>6. CASE KeepTip
  <2>1. status = "loading" /\ status' = "open" /\ newHeaders = <<>>
        /\ allHeaders' = allHeaders /\ sortedHeaders' = sortedHeaders
    BY <1>5, <1>6 DEF KeepTip, ReturnFromInsert, headerVars, chainVars
  <2>2. Known = Ancestors(TopOf(levelDb)) /\ Tip = TopOf(levelDb)
    BY <1>6, <2>1, KeepTipLoaded, AllLoaded
  <2>3. Known' = Known /\ Tip' = Tip
    BY <2>1 DEF Known, Tip
  <2>4. AbsKnown' = AbsKnown /\ AbsTip' = AbsTip
    BY <2>1, <2>2, <2>3, HeadersOnDisk DEF AbsKnown, AbsTip, Loaded
  <2> QED
    BY <1>1, <1>3, <2>4, Stutters
<1>7. CASE SpliceChain
  <2>1. status = "loading" /\ status' = "open" /\ phase = "collect"
        /\ allHeaders' = allHeaders
    BY <1>5, <1>7 DEF SpliceChain, ReturnFromInsert, headerVars
  <2>2. Tip' = TopOf(levelDb) /\ newHeaders = <<>>
    BY <1>7, <2>1, SplicedTip DEF DiskInv, LoadInv
  <2>3. Known = Ancestors(TopOf(levelDb)) /\ Known' = Known
    BY <2>1, <2>2, AllLoaded DEF Known
  <2>4. AbsKnown' = AbsKnown /\ AbsTip' = AbsTip
    BY <2>1, <2>2, <2>3, HeadersOnDisk DEF AbsKnown, AbsTip, Loaded
  <2> QED
    BY <1>1, <1>3, <2>4, Stutters
<1>8. CASE ~ KeepTip /\ ~ SpliceChain
  <2>1. status' = "loading"
    BY <1>4, <1>5, <1>8
       DEF FromDatabase, CallStep, InsertHeader, BrokenChain, InvalidHeader, ChooseTip,
           CollectHeader, WalkStaleBranch, DropStaleHeaders
  <2>2. AbsKnown' = AbsKnown /\ AbsTip' = AbsTip
    BY <1>1, <2>1 DEF AbsKnown, AbsTip, Loaded
  <2> QED
    BY <1>1, <1>3, <2>2, Stutters
<1> QED
  BY <1>6, <1>7, <1>8

(* The heaviest leaf, when it becomes the tip: the walk back has met the   *)
(* longest chain, and the change that saves it is queued.                  *)
LEMMA SpliceRefines ==
  ASSUME IInv, DiskInv, status = "open", SpliceChain
  PROVE  Abstract!Next
<1>1. /\ phase = "collect" /\ status' = "open" /\ currentHeader \in OnChain
      /\ levelDb' = levelDb /\ unsavedChanges' = unsavedChanges /\ allHeaders' = allHeaders
  BY DEF SpliceChain, ReturnFromInsert, headerVars
<1>2. IInv' /\ DiskInv' /\ WorkTotal(Genesis) = Work[Genesis]
  BY SpliceChainStep, SpliceChainDisk DEF DiskInv
<1>3. Known' = Known /\ Tip' = NewTip /\ Tip' \in Known /\ Tip \in Known
  <2>1. Known' = Known
    BY <1>1 DEF Known
  <2>2. headersToAdd # <<>>
    BY <1>1, <1>2, CollectedSome
  <2>3. Len(headersToAdd) \in DOMAIN headersToAdd
    BY <2>2 DEF IInv, TypeOK
  <2>4. NewTip \in Known
    BY <1>1, <2>2, <2>3 DEF IInv, CollectInv, NewTip
  <2> QED
    BY <2>1, <2>4, SplicedTip, TipOnChain
<1>4. /\ TotalWork[Tip'] > TotalWork[Tip]
      /\ \A k \in Known : TotalWork[k] <= TotalWork[Tip']
  <2>1. /\ WorkTotal(Tip) < WorkTotal(NewTip)
        /\ \A k \in Known : WorkTotal(k) <= WorkTotal(NewTip)
    BY <1>1 DEF IInv, CollectInv
  <2>2. \A k \in Known : WorkTotal(k) = TotalWork[k] /\ WorkTotal(k) \in Nat
    BY <1>2, KnownWork DEF IInv, TypeOK, WorkTotal
  <2> QED
    BY <1>3, <2>1, <2>2
<1>5. Tips(QueuedChanges)' = Append(Tips(QueuedChanges), Tip')
  <2> DEFINE change == Change(SubSeq(sortedHeaders, HeightOf(currentHeader) + 2, Len(sortedHeaders)),
                              headersToAdd)
  <2>1. /\ change \in Changes /\ TopOf(change.put) = Tip'
        /\ QueuedChanges' = Append(QueuedChanges, change)
    BY <1>2, SplicedEntries
  <2> HIDE DEF change
  <2>4. Tips(QueuedChanges)' = Tips(QueuedChanges')
    OBVIOUS
  <2> QED
    BY <2>1, <2>4, QueueType, TipsFollow
<1>6. /\ AbsKnown = Known /\ AbsKnown' = Known /\ AbsTip = Tip /\ AbsTip' = Tip'
  BY <1>1, <1>3 DEF AbsKnown, AbsTip, Loaded
<1> QED
  BY <1>1, <1>3, <1>4, <1>5, <1>6, Adopts

(* A step of a session that is open or closing. *)
LEMMA SessionRefines ==
  ASSUME IInv, DiskInv, Loaded,
         \/ \E headers \in Batches : AddHeaders(headers)
         \/ PruneBranches
         \/ CallStep
         \/ SaveStep
         \/ Close
         \/ UNCHANGED vars
  PROVE  Abstract!Next \/ UNCHANGED Abstract!vars
<1>1. status # "loading" /\ AbsKnown = Known /\ AbsTip = Tip
      /\ (phase # "idle" => status = "open")
  BY DEF Loaded, AbsKnown, AbsTip, IInv, SessionInv, TypeOK
<1>2. CASE InsertHeader
  <2>1. UNCHANGED <<levelDb, QueuedChanges, Tip>> /\ Loaded'
    BY <1>1, <1>2, QuietSteps DEF Loaded
  <2>2. PICK header \in Header : header = Head(newHeaders) /\ header = newHeaders[1]
                                  /\ 1 \in DOMAIN newHeaders
    BY <1>2 DEF InsertHeader, IInv, TypeOK
  <2>3. /\ Parent[header] \in Known /\ phase = "insert"
        /\ Known' = Known \cup {header}
    BY <1>2, <2>2 DEF InsertHeader, LinkHeader, Known
  <2>4. AbsKnown' = Known \cup {header} /\ AbsTip' = Tip
    BY <2>1, <2>3 DEF AbsKnown, AbsTip
  <2>5. CASE header \notin Known
    BY <1>1, <2>1, <2>3, <2>4, <2>5, Learns
  <2>6. CASE header \in Known
    BY <1>1, <2>1, <2>4, <2>6, Stutters
  <2> QED
    BY <2>5, <2>6
<1>3. CASE SpliceChain
  BY <1>1, <1>3, SpliceRefines DEF SpliceChain
<1>4. CASE DropStaleHeaders
  <2>1. UNCHANGED <<levelDb, QueuedChanges, Tip>> /\ Loaded'
    BY <1>1, <1>4, QuietSteps DEF Loaded
  <2>2. Known' = Known \ staleHeaderHashes
    BY <1>4 DEF DropStaleHeaders, Known, Restrict
  <2>3. Known' = Ancestors(Tip)
    BY <1>4, <2>2, StaleIsRest, ChainIsAncestors DEF DropStaleHeaders
  <2>4. AbsKnown' = Ancestors(Tip) /\ AbsTip' = Tip
    BY <2>1, <2>3 DEF AbsKnown, AbsTip
  <2>5. Abstract!Next
    BY <1>1, <2>1, <2>4, Forgets
  <2> QED
    BY <2>5
<1>5. CASE BatchWritten
  <2>1. /\ TopOf(levelDb') = TopOf(Head(QueuedChanges).put)
        /\ QueuedChanges' = Tail(QueuedChanges) /\ QueuedChanges # <<>>
    BY <1>5, BatchWrittenDisk
  <2>2. /\ status' = status /\ allHeaders' = allHeaders /\ sortedHeaders' = sortedHeaders
    BY <1>5 DEF BatchWritten, memoryVars, headerVars, chainVars
  <2>3. AbsKnown' = AbsKnown /\ AbsTip' = AbsTip
    <3>1. Known' = Known /\ Tip' = Tip
      BY <2>2 DEF Known, Tip
    <3> QED
      BY <2>2, <3>1 DEF AbsKnown, AbsTip, Loaded
  <2>4. /\ Tips(QueuedChanges) # <<>>
        /\ TopOf(levelDb') = Head(Tips(QueuedChanges))
        /\ Tips(QueuedChanges)' = Tail(Tips(QueuedChanges))
    <3>1. Head(QueuedChanges) \in Changes
      BY <2>1, QueueType
    <3>2. Tips(QueuedChanges)' = Tips(QueuedChanges')
      OBVIOUS
    <3> QED
      BY <2>1, <3>1, <3>2, QueueType, TipsFollow
  <2>5. Abstract!Next
    BY <2>3, <2>4, SavesOne
  <2> QED
    BY <2>5
<1>6. CASE ~ InsertHeader /\ ~ SpliceChain /\ ~ DropStaleHeaders /\ ~ BatchWritten
  <2>1. UNCHANGED <<levelDb, QueuedChanges, Tip>> /\ Loaded'
    BY <1>1, <1>6, QuietSteps DEF Loaded, CallStep, SaveStep
  <2>2. allHeaders' = allHeaders
    BY <1>6
       DEF AddHeaders, PruneBranches, CallStep, BrokenChain, InvalidHeader, KeepTip, ChooseTip,
           CollectHeader, WalkStaleBranch, SaveStep, StartSaveTask, BatchFailed, Close,
           vars, memoryVars, headerVars
  <2>3. AbsKnown' = AbsKnown /\ AbsTip' = AbsTip
    <3>1. Known' = Known
      BY <2>2 DEF Known
    <3> QED
      BY <1>1, <2>1, <3>1 DEF AbsKnown, AbsTip
  <2>4. UNCHANGED Abstract!vars
    BY <2>1, <2>3, Stutters
  <2> QED
    BY <2>4
<1> QED
  BY <1>2, <1>3, <1>4, <1>5, <1>6

(* Every step is a step of the abstract store or one it does not see. *)
LEMMA StepRefines ==
  ASSUME FixedInvalid, IInv, DiskInv, [Next]_vars
  PROVE  Abstract!Next \/ UNCHANGED Abstract!vars
<1>1. DiskInv'
  BY DiskInductive
<1>2. CASE Loaded /\ ~ FinishClose /\ ~ Crash
  <2>1. ~ FromDatabase /\ ~ MissingHeader
    BY <1>2 DEF FromDatabase, MissingHeader, Loaded
  <2> QED
    BY <1>2, <2>1, SessionRefines DEF Next
<1>3. CASE FinishClose \/ Crash
  <2>1. /\ status' = "down" /\ levelDb' = levelDb
        /\ unsavedChanges' = <<>> /\ saveTasks' = <<>>
    BY <1>3 DEF FinishClose, Crash, FreshMemory
  <2>2. QueuedChanges' = <<>>
    BY <2>1 DEF QueuedChanges
  <2>3. AbsKnown' = Ancestors(TopOf(levelDb)) /\ AbsTip' = TopOf(levelDb)
    BY <2>1, HeadersOnDisk DEF AbsKnown, AbsTip, Loaded
  <2>4. Abstract!Next
    BY <2>1, <2>2, <2>3, Crashes
  <2> QED
    BY <2>4
<1>4. CASE ~ Loaded /\ (FromDatabase \/ CallStep)
  <2>1. status \in {"down", "loading"}
    BY <1>4 DEF Loaded, DiskInv, IInv, TypeOK
  <2> QED
    BY <1>1, <1>4, <2>1, LoadingRefines
<1>5. CASE MissingHeader
  BY <1>5, NoHeightIsMissing DEF MissingHeader
<1>6. CASE ~ Loaded /\ ((\E headers \in Batches : AddHeaders(headers)) \/ PruneBranches \/ Close)
  BY <1>6 DEF Loaded, AddHeaders, PruneBranches, Close
<1>7. CASE ~ Loaded /\ SaveStep
  <2>1. QueuedChanges = <<>>
    BY <1>7 DEF Loaded, DiskInv, SavedInv
  <2>2. saveTasks = <<>> /\ ~ saving
    <3>1. unsavedChanges \in Seq(Changes) /\ saveTasks \in Seq(Changes)
      BY DEF IInv, TypeOK
    <3>2. unsavedChanges = <<>> /\ saveTasks = <<>>
      BY <2>1, <3>1 DEF QueuedChanges
    <3> QED
      BY <3>2 DEF IInv, TypeOK
  <2> QED
    BY <1>7, <2>2 DEF SaveStep, StartSaveTask, BatchWritten, BatchFailed
<1>8. CASE ~ Loaded /\ UNCHANGED vars
  <2>1. /\ status' = status /\ levelDb' = levelDb
        /\ unsavedChanges' = unsavedChanges /\ saveTasks' = saveTasks
    BY <1>8 DEF vars, saveVars
  <2>2. AbsKnown' = AbsKnown /\ AbsTip' = AbsTip /\ QueuedChanges' = QueuedChanges
    BY <1>8, <2>1 DEF AbsKnown, AbsTip, Loaded, QueuedChanges
  <2> QED
    BY <2>1, <2>2, Stutters
<1> QED
  BY <1>2, <1>3, <1>4, <1>5, <1>6, <1>7, <1>8 DEF Next

(* The database implements the abstract store: a header is known once its  *)
(* parent is, the tip moves to the heaviest header only and the tips reach *)
(* the disk in the order they were adopted; a crash recovers the chain on  *)
(* disk and nothing else (106-343).                                        *)
THEOREM RefinesHeaviestChain ==
  ASSUME FixedInvalid
  PROVE  Spec => ImplementsHeaviestChain
<1>1. Init => Abstract!Init
  BY InitRefines
<1>2. IInv /\ DiskInv /\ [Next]_vars => [Abstract!Next]_(Abstract!vars)
  BY StepRefines
<1> QED
  BY <1>1, <1>2, SpecDiskInv, PTL DEF Spec, ImplementsHeaviestChain, Abstract!Spec

=============================================================================

------------------------- MODULE SyncHeaders_proofs -------------------------
(***************************************************************************)
(* Proofs about SyncHeaders, for every tree of headers, every set of       *)
(* nodes, whatever chains they follow, and every size of a reply.          *)
(***************************************************************************)
EXTENDS SyncHeaders, SequenceTheorems, InductionLemmas

----------------------------------------------------------------------------
(* The tree of headers *)

(* The walk along prevHash from a header goes down in height. *)
LEMMA DepthIsRanking == IsRanking(Depth, Parent, Header)
BY DepthAssumption DEF IsRanking

(* ChainTo is what its recursive definition says. *)
LEMMA ChainToIsChain == IsChain(ChainTo, Header, Parent)
<1>1. ChainTo = CHOOSE c : c = [h \in Header |-> IF Parent[h] \in Header
                                                THEN Append(c[Parent[h]], h) ELSE <<h>>]
  BY DEF ChainTo
<1> QED
  BY <1>1, DepthIsRanking, ChainIsDefined

(* TotalWork is what its recursive definition says; no header has less than  *)
(* its parent.                                                             *)
LEMMA WorkGrows ==
  \A h \in Header : /\ TotalWork[h] \in Nat
                    /\ Parent[h] \in Header => TotalWork[Parent[h]] <= TotalWork[h]
<1>1. TotalWork = CHOOSE f : f = [h \in Header |-> Work[h] + (IF Parent[h] \in Header
                                                            THEN f[Parent[h]] ELSE 0)]
  BY DEF TotalWork
<1>2. Work \in [Header -> Nat] /\ \A h \in Header : Work[h] \in Nat
  BY HeaderAssumption
<1>3. \A h \in Header :
        /\ TotalWork[h] \in Nat
        /\ TotalWork[h] = Work[h] + (IF Parent[h] \in Header THEN TotalWork[Parent[h]] ELSE 0)
  BY <1>1, <1>2, DepthIsRanking, SumIsDefined
<1> QED
  BY <1>2, <1>3

(* To prove that every header is in T, prove it from its parent being in T. *)
LEMMA HeaderInduction ==
  ASSUME NEW T, \A h \in Header : (Parent[h] \in Header => Parent[h] \in T) => h \in T
  PROVE  Header \subseteq T
BY DepthIsRanking, InductionOnParents

(* The headers of a chain: those of its parent's chain, and its tip. *)
LEMMA ChainOfEquation ==
  ASSUME NEW h \in Header
  PROVE  ChainOf(h) = (IF Parent[h] \in Header THEN ChainOf(Parent[h]) ELSE {}) \cup {h}
<1>1. \A k \in Header : ChainOf(k) = Range(ChainTo[k])
  BY DEF ChainOf, ToSet, Range
<1> QED
  BY <1>1, ChainToIsChain, ChainElements

(* Each header of s is the parent of the next. *)
IsLinkedSeq(s) == \A i \in 1..(Len(s) - 1) : Parent[s[i + 1]] = s[i]

(* A chain is linked and ends in its tip.  From genesis on its length is   *)
(* one more than its height, and it begins with genesis.                   *)
LEMMA ChainShape ==
  ASSUME NEW h \in Header
  PROVE  /\ ChainTo[h] \in Seq(Header) /\ Len(ChainTo[h]) > 0
         /\ ChainTo[h][Len(ChainTo[h])] = h
         /\ IsLinkedSeq(ChainTo[h])
         /\ Genesis \in ChainOf(h) => Len(ChainTo[h]) = Depth[h] + 1 /\ ChainTo[h][1] = Genesis
<1> DEFINE P(c, x) == /\ c \in Seq(Header) /\ Len(c) > 0 /\ c[Len(c)] = x /\ IsLinkedSeq(c)
                      /\ Genesis \in ChainOf(x) => Len(c) = Depth[x] + 1 /\ c[1] = Genesis
           T == {x \in Header : P(ChainTo[x], x)}
<1>1. ASSUME NEW x \in Header, Parent[x] \in Header => Parent[x] \in T
      PROVE  x \in T
  <2>1. CASE Parent[x] \in Header
    <3> DEFINE p == ChainTo[Parent[x]]
               c == Append(p, x)
    <3>1. P(p, Parent[x])
      BY <1>1, <2>1
    <3>2. ChainTo[x] = c
      BY <2>1, ChainToIsChain DEF IsChain
    <3>3. p \in Seq(Header) /\ Len(p) \in Nat \ {0} /\ IsLinkedSeq(p) /\ p[Len(p)] = Parent[x]
      BY <3>1
    <3> HIDE DEF p
    <3>4. /\ c \in Seq(Header) /\ Len(c) = Len(p) + 1 /\ c[Len(p) + 1] = x
          /\ \A i \in 1..Len(p) : c[i] = p[i]
      BY <3>3
    <3> HIDE DEF c
    <3>5. IsLinkedSeq(c)
      <4> SUFFICES ASSUME NEW i \in 1..(Len(c) - 1)
                   PROVE  Parent[c[i + 1]] = c[i]
        BY DEF IsLinkedSeq
      <4>1. CASE i = Len(p)
        BY <3>3, <3>4, <4>1
      <4>2. CASE i # Len(p)
        <5>1. i \in 1..(Len(p) - 1) /\ i \in 1..Len(p) /\ i + 1 \in 1..Len(p)
          BY <3>3, <3>4, <4>2
        <5> QED
          BY <3>3, <3>4, <5>1 DEF IsLinkedSeq
      <4> QED
        BY <4>1, <4>2
    <3>6. ASSUME Genesis \in ChainOf(x)
          PROVE  Len(c) = Depth[x] + 1 /\ c[1] = Genesis
      <4>1. Genesis \in ChainOf(Parent[x])
        BY <2>1, <3>6, ChainOfEquation, HeaderAssumption
      <4>2. Len(p) = Depth[Parent[x]] + 1 /\ p[1] = Genesis
        BY <3>1, <4>1 DEF p
      <4>3. c[1] = p[1] /\ Len(c) = (Depth[Parent[x]] + 1) + 1
        BY <3>3, <3>4, <4>2
      <4>4. Depth[x] = Depth[Parent[x]] + 1
        BY <2>1, DepthAssumption
      <4> QED
        BY <4>2, <4>3, <4>4
    <3>7. P(c, x)
      BY <3>3, <3>4, <3>5, <3>6
    <3> QED
      BY <3>2, <3>7
  <2>2. CASE Parent[x] \notin Header
    <3>1. ChainTo[x] = <<x>>
      BY <2>2, ChainToIsChain DEF IsChain
    <3>2. Genesis \in ChainOf(x) => x = Genesis
      BY <2>2, ChainOfEquation
    <3>3. P(<<x>>, x)
      BY <3>2, DepthAssumption DEF IsLinkedSeq
    <3> HIDE DEF P
    <3> QED
      BY <3>1, <3>3
  <2> QED
    BY <2>1, <2>2
<1>2. Header \subseteq T
  <2> HIDE DEF T
  <2> QED
    BY <1>1, HeaderInduction
<1> QED
  BY <1>2

(* A set of headers that has the parent of each, but for genesis, has the  *)
(* chains of all of them, and they begin with genesis.                     *)
LEMMA ClosedUnderParent ==
  ASSUME NEW K, K \subseteq Header, \A h \in K \ {Genesis} : Parent[h] \in K,
         NEW h \in K
  PROVE  ChainOf(h) \subseteq K /\ Genesis \in ChainOf(h)
<1> DEFINE T == {x \in Header : x \in K => ChainOf(x) \subseteq K /\ Genesis \in ChainOf(x)}
<1>1. ASSUME NEW x \in Header, Parent[x] \in Header => Parent[x] \in T
      PROVE  x \in T
  <2>1. CASE x = Genesis
    BY <2>1, ChainOfEquation, HeaderAssumption
  <2>2. CASE x # Genesis
    BY <1>1, <2>2, ChainOfEquation
  <2> QED
    BY <2>1, <2>2
<1> HIDE DEF T
<1>2. Header \subseteq T
  BY <1>1, HeaderInduction
<1> QED
  BY <1>2 DEF T

(* The chain to a header is closed, if it begins with genesis. *)
LEMMA ChainIsClosed ==
  ASSUME NEW h \in Header, Genesis \in ChainOf(h)
  PROVE  /\ ChainOf(h) \subseteq Header /\ h \in ChainOf(h)
         /\ \A k \in ChainOf(h) \ {Genesis} : Parent[k] \in ChainOf(h)
<1> DEFINE P(x) == /\ ChainOf(x) \subseteq Header
                   /\ Genesis \in ChainOf(x) =>
                        \A k \in ChainOf(x) \ {Genesis} : Parent[k] \in ChainOf(x)
           T == {x \in Header : P(x)}
<1>1. ASSUME NEW x \in Header, Parent[x] \in Header => P(Parent[x])
      PROVE  P(x)
  <2>1. CASE Parent[x] \in Header
    <3>1. ChainOf(x) = ChainOf(Parent[x]) \cup {x} /\ Parent[x] \in ChainOf(Parent[x])
      BY <2>1, ChainOfEquation
    <3>2. x # Genesis
      BY <2>1, HeaderAssumption
    <3> QED
      BY <1>1, <2>1, <3>1, <3>2
  <2>2. CASE Parent[x] \notin Header
    <3>1. ChainOf(x) = {x}
      BY <2>2, ChainOfEquation
    <3> QED
      BY <3>1
  <2> QED
    BY <2>1, <2>2
<1> HIDE DEF P
<1>2. \A x \in Header : (Parent[x] \in Header => Parent[x] \in T) => x \in T
  BY <1>1
<1>3. Header \subseteq T
  <2> HIDE DEF T
  <2> QED
    BY <1>2, HeaderInduction
<1>4. P(h)
  BY <1>3
<1>5. h \in ChainOf(h)
  BY ChainOfEquation
<1> QED
  BY <1>4, <1>5 DEF P

(* Along linked headers the work never falls. *)
LEMMA LinkedIsHeavier ==
  ASSUME NEW s \in Seq(Header), IsLinkedSeq(s),
         NEW i \in 1..Len(s), NEW j \in 1..Len(s), i <= j
  PROVE  TotalWork[s[i]] <= TotalWork[s[j]]
<1> DEFINE T == {d \in Nat : i + d <= Len(s) => TotalWork[s[i]] <= TotalWork[s[i + d]]}
<1>1. Len(s) \in Nat /\ \A k \in 1..Len(s) : s[k] \in Header /\ TotalWork[s[k]] \in Nat
  BY WorkGrows
<1>2. 0 \in T
  BY <1>1
<1>3. ASSUME NEW d \in Nat, d \in T
      PROVE  d + 1 \in T
  <2> SUFFICES ASSUME i + (d + 1) <= Len(s)
               PROVE  TotalWork[s[i]] <= TotalWork[s[i + (d + 1)]]
    OBVIOUS
  <2>1. /\ i + d \in 1..(Len(s) - 1) /\ i + d \in 1..Len(s) /\ (i + d) + 1 \in 1..Len(s)
        /\ i + (d + 1) = (i + d) + 1
    BY <1>1
  <2>2. Parent[s[(i + d) + 1]] = s[i + d]
    BY <2>1 DEF IsLinkedSeq
  <2>3. TotalWork[s[i + d]] <= TotalWork[s[(i + d) + 1]]
    BY <1>1, <2>1, <2>2, WorkGrows
  <2>4. TotalWork[s[i]] <= TotalWork[s[i + d]]
    BY <1>3, <2>1
  <2> HIDE DEF T
  <2> QED
    BY <1>1, <2>1, <2>3, <2>4
<1> HIDE DEF T
<1>4. Nat \subseteq T
  BY <1>2, <1>3, Induction
<1>5. j - i \in Nat /\ i + (j - i) = j /\ j <= Len(s)
  BY <1>1
<1> QED
  BY <1>4, <1>5 DEF T

----------------------------------------------------------------------------
(* The locator *)

(* A number at least is computed for each position. *)
LEMMA NatIsRanked == IsRanking([k \in Nat |-> k], [k \in Nat |-> k - 1], Nat)
BY DEF IsRanking

(* The distances between the hashes of a locator are numbers. *)
LEMMA StepIsDefined == \A k \in Nat : Step[k] \in Nat
<1> DEFINE prev == [k \in Nat |-> k - 1]
           root == [k \in Nat |-> 1]
           step == [x \in Nat \X Nat |-> IF x[1] <= LocatorTop THEN 1 ELSE 2 * x[2]]
           F(f) == [k \in Nat |-> IF k <= LocatorTop THEN 1 ELSE 2 * f[k - 1]]
<1>1. LocatorTop \in Nat
  BY SyncAssumption
<1>2. root \in [Nat -> Nat] /\ step \in [Nat \X Nat -> Nat]
  BY <1>1
<1>3. PICK f \in [Nat -> Nat] : IsRecursive(f, Nat, prev, root, step)
  <2> HIDE DEF root, step
  <2> QED
    BY <1>2, NatIsRanked, RecursionOnParents
<1>4. ASSUME NEW k \in Nat
      PROVE  f[k] = IF k <= LocatorTop THEN 1 ELSE 2 * f[k - 1]
  <2>1. CASE k = 0
    <3>1. prev[k] \notin Nat /\ root[k] = 1
      BY <2>1
    <3>2. f[k] = root[k]
      BY <1>3, <3>1 DEF IsRecursive
    <3> HIDE DEF root
    <3> QED
      BY <1>1, <2>1, <3>1, <3>2
  <2>2. CASE k # 0
    <3>1. k - 1 \in Nat /\ prev[k] = k - 1 /\ f[k - 1] \in Nat
      BY <1>3, <2>2
    <3>2. step[<<k, f[k - 1]>>] = IF k <= LocatorTop THEN 1 ELSE 2 * f[k - 1]
      BY <3>1
    <3> HIDE DEF prev, root, step
    <3> QED
      BY <1>3, <3>1, <3>2 DEF IsRecursive
  <2> QED
    BY <2>1, <2>2
<1>5. f = F(f)
  BY <1>4
<1>6. Step = CHOOSE g : g = F(g)
  BY DEF Step
<1>7. Step = F(Step)
  <2> HIDE DEF F
  <2> QED
    BY <1>5, <1>6
<1>8. \A k \in Nat : Step[k] = IF k <= LocatorTop THEN 1 ELSE 2 * Step[k - 1]
  BY <1>7
<1> DEFINE T == {k \in Nat : Step[k] \in Nat}
<1>9. 0 \in T
  BY <1>1, <1>8
<1>10. \A k \in Nat : k \in T => k + 1 \in T
  BY <1>8
<1> HIDE DEF T
<1>11. Nat \subseteq T
  BY <1>9, <1>10, Induction
<1> QED
  BY <1>11 DEF T

(* And so are those to the tip. *)
LEMMA OffsetIsDefined == \A k \in Nat : Offset[k] \in Nat
<1> DEFINE prev == [k \in Nat |-> k - 1]
           root == [k \in Nat |-> 0]
           step == [x \in Nat \X Nat |-> IF x[1] <= 1 THEN 0 ELSE x[2] + Step[x[1] - 1]]
           F(f) == [k \in Nat |-> IF k <= 1 THEN 0 ELSE f[k - 1] + Step[k - 1]]
<1>1. \A k \in Nat : Step[k] \in Nat
  BY StepIsDefined
<1>2. root \in [Nat -> Nat] /\ step \in [Nat \X Nat -> Nat]
  BY <1>1
<1>3. PICK f \in [Nat -> Nat] : IsRecursive(f, Nat, prev, root, step)
  <2> HIDE DEF root, step
  <2> QED
    BY <1>2, NatIsRanked, RecursionOnParents
<1>4. ASSUME NEW k \in Nat
      PROVE  f[k] = IF k <= 1 THEN 0 ELSE f[k - 1] + Step[k - 1]
  <2>1. CASE k = 0
    <3>1. prev[k] \notin Nat /\ root[k] = 0
      BY <2>1
    <3>2. f[k] = root[k]
      BY <1>3, <3>1 DEF IsRecursive
    <3> HIDE DEF root
    <3> QED
      BY <2>1, <3>1, <3>2
  <2>2. CASE k # 0
    <3>1. k - 1 \in Nat /\ prev[k] = k - 1 /\ f[k - 1] \in Nat
      BY <1>3, <2>2
    <3>2. step[<<k, f[k - 1]>>] = IF k <= 1 THEN 0 ELSE f[k - 1] + Step[k - 1]
      BY <3>1
    <3> HIDE DEF prev, root, step
    <3> QED
      BY <1>3, <3>1, <3>2 DEF IsRecursive
  <2> QED
    BY <2>1, <2>2
<1>5. f = F(f)
  BY <1>4
<1>6. Offset = CHOOSE g : g = F(g)
  BY DEF Offset
<1>7. Offset = F(Offset)
  <2> HIDE DEF F
  <2> QED
    BY <1>5, <1>6
<1>8. \A k \in Nat : Offset[k] = IF k <= 1 THEN 0 ELSE Offset[k - 1] + Step[k - 1]
  BY <1>7
<1> DEFINE T == {k \in Nat : Offset[k] \in Nat}
<1>9. 0 \in T
  BY <1>8
<1>10. \A k \in Nat : k \in T => k + 1 \in T
  BY <1>1, <1>8
<1> HIDE DEF T
<1>11. Nat \subseteq T
  BY <1>9, <1>10, Induction
<1> QED
  BY <1>11 DEF T

(* A locator names headers of the chain (BlockHeadersDatabase.ts 361-375). *)
LEMMA LocatorIsOnChain ==
  ASSUME NEW t \in Header, Genesis \in ChainOf(t)
  PROVE  Locator(t) \subseteq ChainOf(t)
<1>1. Len(ChainTo[t]) = Depth[t] + 1 /\ ChainTo[t] \in Seq(Header) /\ Depth[t] \in Nat
  BY ChainShape, DepthAssumption
<1>2. ASSUME NEW k \in 1..(Depth[t] + 1), Offset[k] < Depth[t]
      PROVE  ChainTo[t][Depth[t] + 1 - Offset[k]] \in ChainOf(t)
  <2>1. Offset[k] \in Nat
    BY <1>1, OffsetIsDefined
  <2>2. Depth[t] + 1 - Offset[k] \in 1..(Depth[t] + 1)
    BY <1>1, <1>2, <2>1
  <2>3. Depth[t] + 1 - Offset[k] \in DOMAIN ChainTo[t]
    BY <1>1, <2>2
  <2> QED
    BY <2>3 DEF ChainOf, ToSet
<1> QED
  BY <1>2 DEF Locator

----------------------------------------------------------------------------
(* What the database does with a reply *)

(* No header of the chain to h is an invalid block. *)
IsValid(h) == ChainOf(h) \cap InvalidBlocks = {}

(* What is in memory: valid headers whose chains begin with genesis, of    *)
(* which none is heavier than the tip.                                     *)
StoreInv(K, t) ==
  /\ K \subseteq Header /\ {Genesis, t} \subseteq K
  /\ \A h \in K \ {Genesis} : Parent[h] \in K
  /\ K \cap InvalidBlocks = {}
  /\ \A h \in K : TotalWork[h] <= TotalWork[t]

(* Headers in memory are on valid chains from genesis, no heavier than the *)
(* longest.                                                                *)
LEMMA InMemory ==
  ASSUME NEW K, NEW t, StoreInv(K, t), NEW h \in K
  PROVE  /\ h \in Header /\ ChainOf(h) \subseteq K /\ Genesis \in ChainOf(h)
         /\ IsValid(h) /\ TotalWork[h] <= TotalWork[t]
<1>1. K \subseteq Header /\ \A k \in K \ {Genesis} : Parent[k] \in K
  BY DEF StoreInv
<1>2. ChainOf(h) \subseteq K /\ Genesis \in ChainOf(h)
  BY <1>1, ClosedUnderParent
<1> QED
  BY <1>2 DEF StoreInv, IsValid

(* Pruning leaves such headers (BlockHeadersDatabase.ts pruneBranches).    *)
LEMMA PruneKeepsStore ==
  ASSUME NEW K, NEW t, StoreInv(K, t)
  PROVE  StoreInv(ChainOf(t), t)
<1>1. t \in K
  BY DEF StoreInv
<1>2. t \in Header /\ ChainOf(t) \subseteq K /\ Genesis \in ChainOf(t)
  BY <1>1, InMemory
<1>3. /\ ChainOf(t) \subseteq Header /\ t \in ChainOf(t)
      /\ \A k \in ChainOf(t) \ {Genesis} : Parent[k] \in ChainOf(t)
  BY <1>2, ChainIsClosed
<1> QED
  BY <1>2, <1>3 DEF StoreInv

(* The headers of a reply are filtered one after another.                  *)
LEMMA UnknownInOrder ==
  ASSUME NEW headers \in Seq(Header)
  PROVE  \E r : /\ r[0] = <<>> /\ Unknown(headers) = r[Len(headers)]
                /\ \A i \in 1..Len(headers) :
                     r[i] = IF headers[i] \in known THEN r[i - 1] ELSE Append(r[i - 1], headers[i])
<1> DEFINE Fresh(s, h) == IF h \in known THEN s ELSE Append(s, h)
           step == [x \in Seq(Header) \X Header |-> Fresh(x[1], x[2])]
           IsValue(f) == f = [S \in SUBSET DOMAIN headers |->
                                IF S = {} THEN <<>>
                                ELSE Fresh(f[S \ {Max(S)}], headers[Max(S)])]
<1>1. step \in [Seq(Header) \X Header -> Seq(Header)] /\ <<>> \in Seq(Header)
        /\ \A s \in Seq(Header), h \in Header : step[<<s, h>>] = Fresh(s, h)
  <2>1. \A s \in Seq(Header), h \in Header : Fresh(s, h) \in Seq(Header)
    OBVIOUS
  <2> HIDE DEF Fresh
  <2> QED
    BY <2>1
<1> HIDE DEF step, Fresh
<1>2. PICK f \in [SUBSET DOMAIN headers -> Seq(Header)] : IsFold(f, headers, <<>>, step)
  BY <1>1, FoldExists
<1>3. IsValue(f)
  <2> SUFFICES ASSUME NEW S \in SUBSET DOMAIN headers
               PROVE  f[S] = IF S = {} THEN <<>> ELSE Fresh(f[S \ {Max(S)}], headers[Max(S)])
    BY <1>2
  <2>1. CASE S = {}
    BY <1>2, <2>1 DEF IsFold
  <2>2. CASE S # {}
    <3>1. Max(S) \in DOMAIN headers
      BY <2>2, LastPosition
    <3>2. f[S \ {Max(S)}] \in Seq(Header) /\ headers[Max(S)] \in Header
      BY <1>2, <3>1
    <3> QED
      BY <1>1, <1>2, <2>2, <3>2 DEF IsFold
  <2> QED
    BY <2>1, <2>2
<1> DEFINE g == CHOOSE f_ : IsValue(f_)
<1>4. IsValue(g)
  <2> HIDE DEF IsValue
  <2> QED
    BY <1>3
<1>5. Unknown(headers) = g[DOMAIN headers]
  BY DEF Unknown, FoldLeft, MapThenFoldSet, Fresh
<1> HIDE DEF g
<1> DEFINE r == [i \in 0..Len(headers) |-> g[1..i]]
<1>6. \A S \in SUBSET DOMAIN headers :
        g[S] = IF S = {} THEN <<>> ELSE Fresh(g[S \ {Max(S)}], headers[Max(S)])
  BY <1>4
<1>7. r[0] = <<>>
  <2>1. 1..0 = {} /\ {} \in SUBSET DOMAIN headers /\ Len(headers) \in Nat
    BY PositionsUpTo
  <2>2. g[{}] = <<>>
    BY <1>6, <2>1
  <2>3. r[0] = g[1..0]
    BY <2>1
  <2> QED
    BY <2>1, <2>2, <2>3
<1>8. ASSUME NEW i \in 1..Len(headers)
      PROVE  r[i] = Fresh(r[i - 1], headers[i])
  <2>1. /\ 1..i \in SUBSET DOMAIN headers /\ 1..i # {}
        /\ Max(1..i) = i /\ (1..i) \ {i} = 1..(i - 1)
    BY PositionsUpTo
  <2>2. g[1..i] = Fresh(g[1..(i - 1)], headers[i])
    BY <1>6, <2>1
  <2> QED
    BY <2>2
<1>9. r[Len(headers)] = g[DOMAIN headers]
  BY PositionsUpTo
<1> HIDE DEF r
<1> QED
  BY <1>5, <1>7, <1>8, <1>9 DEF Fresh

(* What is unknown of a reply is its end: linked headers up to its last,   *)
(* and none if that is known.                                              *)
LEMMA UnknownIsLinked ==
  ASSUME StoreInv(known, tip), NEW headers \in Seq(Header), IsLinkedSeq(headers)
  PROVE  /\ Unknown(headers) \in Seq(Header) /\ IsLinkedSeq(Unknown(headers))
         /\ Unknown(headers) # <<>> =>
              /\ headers # <<>> /\ headers[Len(headers)] \notin known
              /\ Unknown(headers)[Len(Unknown(headers))] = headers[Len(headers)]
<1> DEFINE P(s, i) == /\ s \in Seq(Header) /\ IsLinkedSeq(s)
                      /\ s # <<>> => i > 0 /\ s[Len(s)] = headers[i] /\ headers[i] \notin known
<1>1. PICK r : /\ r[0] = <<>> /\ Unknown(headers) = r[Len(headers)]
               /\ \A i \in 1..Len(headers) :
                    r[i] = IF headers[i] \in known THEN r[i - 1] ELSE Append(r[i - 1], headers[i])
  BY UnknownInOrder
<1> DEFINE T == {i \in Nat : i <= Len(headers) => P(r[i], i)}
<1>2. 0 \in T
  <2>1. P(<<>>, 0)
    BY DEF IsLinkedSeq
  <2> HIDE DEF P
  <2> QED
    BY <1>1, <2>1
<1>3. ASSUME NEW i \in Nat, i \in T
      PROVE  i + 1 \in T
  <2> SUFFICES ASSUME i + 1 <= Len(headers)
               PROVE  P(r[i + 1], i + 1)
    OBVIOUS
  <2> DEFINE s == r[i]
             h == headers[i + 1]
  <2>1. P(s, i) /\ i + 1 \in 1..Len(headers) /\ h \in Header /\ (i + 1) - 1 = i /\ i + 1 > 0
    BY <1>3
  <2>2. r[i + 1] = IF h \in known THEN s ELSE Append(s, h)
    BY <1>1, <2>1
  <2>3. s # <<>> => Parent[h] = headers[i] /\ headers[i] \in Header /\ headers[i] \notin known
    <3> SUFFICES ASSUME s # <<>>
                 PROVE  Parent[h] = headers[i] /\ headers[i] \in Header /\ headers[i] \notin known
      OBVIOUS
    <3>1. i > 0 /\ headers[i] \notin known
      BY <2>1
    <3>2. i \in 1..(Len(headers) - 1) /\ i \in 1..Len(headers)
      BY <2>1, <3>1
    <3> QED
      BY <3>1, <3>2 DEF IsLinkedSeq
  <2>4. s # <<>> => h \notin known
    BY <2>1, <2>3, HeaderAssumption DEF StoreInv
  <2>5. CASE h \in known
    <3>1. r[i + 1] = s /\ s = <<>>
      BY <2>2, <2>4, <2>5
    <3>2. P(<<>>, i + 1)
      BY DEF IsLinkedSeq
    <3> HIDE DEF P
    <3> QED
      BY <3>1, <3>2
  <2>6. CASE h \notin known
    <3> DEFINE c == Append(s, h)
    <3>1. /\ s \in Seq(Header) /\ Len(s) \in Nat /\ IsLinkedSeq(s)
          /\ s # <<>> => s[Len(s)] = headers[i]
      BY <2>1
    <3> HIDE DEF s, h
    <3>2. /\ c \in Seq(Header) /\ Len(c) = Len(s) + 1 /\ c[Len(s) + 1] = h
          /\ \A j \in 1..Len(s) : c[j] = s[j]
      BY <2>1, <3>1
    <3> HIDE DEF c
    <3>3. IsLinkedSeq(c)
      <4> SUFFICES ASSUME NEW j \in 1..(Len(c) - 1)
                   PROVE  Parent[c[j + 1]] = c[j]
        BY DEF IsLinkedSeq
      <4>1. CASE j = Len(s)
        <5>1. s # <<>> /\ c[j + 1] = h /\ c[j] = s[Len(s)]
          BY <3>1, <3>2, <4>1
        <5> QED
          BY <2>3, <3>1, <5>1
      <4>2. CASE j # Len(s)
        <5>1. j \in 1..(Len(s) - 1) /\ j \in 1..Len(s) /\ j + 1 \in 1..Len(s)
          BY <3>1, <3>2, <4>2
        <5> QED
          BY <3>1, <3>2, <5>1 DEF IsLinkedSeq
      <4> QED
        BY <4>1, <4>2
    <3>4. r[i + 1] = c
      BY <2>2, <2>6 DEF c
    <3>5. c[Len(c)] = headers[i + 1] /\ headers[i + 1] \notin known
      BY <2>6, <3>2 DEF h
    <3> QED
      BY <2>1, <3>2, <3>3, <3>4, <3>5
  <2> QED
    BY <2>5, <2>6
<1> HIDE DEF T, P
<1>4. Nat \subseteq T
  BY <1>2, <1>3, Induction
<1>5. P(r[Len(headers)], Len(headers))
  BY <1>4 DEF T
<1>6. Len(headers) > 0 => headers # <<>>
  OBVIOUS
<1> QED
  BY <1>1, <1>5, <1>6 DEF P

(* The position of the first invalid block. *)
LEMMA FirstInvalidIsFirst ==
  ASSUME NEW s \in Seq(Header)
  PROVE  \/ FirstInvalid(s) = 0 /\ \A i \in 1..Len(s) : s[i] \notin InvalidBlocks
         \/ /\ FirstInvalid(s) \in 1..Len(s)
            /\ \A i \in 1..(FirstInvalid(s) - 1) : s[i] \notin InvalidBlocks
<1> DEFINE I == {i \in 1..Len(s) : s[i] \in InvalidBlocks}
<1>1. FirstInvalid(s) = IF I # {} THEN Min(I) ELSE 0
  BY DEF FirstInvalid, SelectInSeq
<1>2. CASE I = {}
  BY <1>1, <1>2
<1>3. CASE I # {}
  <2>1. I \subseteq Nat
    OBVIOUS
  <2>2. PICK m \in I : \A k \in I : m <= k
    BY <1>3, <2>1, LeastNumber
  <2>3. Min(I) \in I /\ \A k \in I : Min(I) <= k
    <3> HIDE DEF I
    <3> QED
      BY <2>2 DEF Min
  <2>4. FirstInvalid(s) \in I /\ \A k \in I : FirstInvalid(s) <= k
    BY <1>1, <1>3, <2>3
  <2>5. FirstInvalid(s) \in 1..Len(s) /\ Len(s) \in Nat
    BY <2>4
  <2>6. \A i \in 1..(FirstInvalid(s) - 1) : i \in 1..Len(s) /\ ~ (FirstInvalid(s) <= i)
    BY <2>5
  <2> QED
    BY <2>4, <2>5, <2>6
<1> QED
  BY <1>2, <1>3

(* What is inserted of a reply is valid, linked, and hangs on what is      *)
(* known (BlockHeadersDatabase.ts _insert).                                *)
LEMMA AcceptedHeaders ==
  ASSUME StoreInv(known, tip), NEW headers \in Seq(Header), IsLinkedSeq(headers)
  PROVE  /\ Accepted(headers) \in Seq(Header) /\ IsLinkedSeq(Accepted(headers))
         /\ \A i \in 1..Len(Accepted(headers)) : Accepted(headers)[i] \notin InvalidBlocks
         /\ Accepted(headers) # <<>> => Parent[Accepted(headers)[1]] \in known
<1> DEFINE fresh == Unknown(headers)
           a == Accepted(headers)
           k == FirstInvalid(fresh)
<1>1. fresh \in Seq(Header) /\ IsLinkedSeq(fresh) /\ Len(fresh) \in Nat
  BY UnknownIsLinked
<1>2. a = IF ~ IsLinked(fresh) THEN <<>>
          ELSE IF k = 0 THEN fresh ELSE SubSeq(fresh, 1, k - 1)
  BY DEF Accepted
<1>3. \/ k = 0 /\ \A i \in 1..Len(fresh) : fresh[i] \notin InvalidBlocks
      \/ k \in 1..Len(fresh) /\ \A i \in 1..(k - 1) : fresh[i] \notin InvalidBlocks
  BY <1>1, FirstInvalidIsFirst
<1>4. IsLinked(fresh) /\ fresh # <<>> => Parent[fresh[1]] \in known
  BY <1>1 DEF IsLinked
<1> HIDE DEF fresh, a, k
<1>5. CASE ~ IsLinked(fresh)
  <2>1. a = <<>>
    BY <1>2, <1>5
  <2> QED
    BY <2>1 DEF IsLinkedSeq, a
<1>6. CASE IsLinked(fresh) /\ k = 0
  <2>1. a = fresh
    BY <1>2, <1>6
  <2> QED
    BY <1>1, <1>3, <1>4, <1>6, <2>1 DEF a
<1>7. CASE IsLinked(fresh) /\ k # 0
  <2>1. k \in 1..Len(fresh) /\ \A i \in 1..(k - 1) : fresh[i] \notin InvalidBlocks
    BY <1>3, <1>7
  <2>2. \A i \in 1..(k - 1) : i \in 1..Len(fresh) /\ fresh[i] \in Header
    BY <1>1, <2>1
  <2>3. a = SubSeq(fresh, 1, k - 1)
    BY <1>2, <1>7
  <2>4. /\ a \in Seq(Header) /\ Len(a) = k - 1
        /\ \A i \in 1..(k - 1) : a[i] = fresh[i]
    <3>1. /\ SubSeq(fresh, 1, k - 1) \in Seq(Header)
          /\ Len(SubSeq(fresh, 1, k - 1)) = IF 1 <= k - 1 THEN (k - 1) - 1 + 1 ELSE 0
          /\ \A i \in 1..((k - 1) - 1 + 1) : SubSeq(fresh, 1, k - 1)[i] = fresh[1 + i - 1]
      <4>1. 1 \in Int /\ k - 1 \in Int
        BY <2>1
      <4> QED
        BY <2>2, <4>1, SubSeqProperties
    <3>2. \A i \in 1..(k - 1) : i \in 1..((k - 1) - 1 + 1) /\ 1 + i - 1 = i
      BY <2>1
    <3> QED
      BY <2>1, <2>3, <3>1, <3>2
  <2>5. IsLinkedSeq(a)
    <3> SUFFICES ASSUME NEW i \in 1..(Len(a) - 1)
                 PROVE  Parent[a[i + 1]] = a[i]
      BY DEF IsLinkedSeq
    <3>1. i \in 1..(k - 1) /\ i + 1 \in 1..(k - 1) /\ i \in 1..(Len(fresh) - 1)
      BY <1>1, <2>1, <2>4
    <3> QED
      BY <1>1, <2>4, <3>1 DEF IsLinkedSeq
  <2>6. a # <<>> => Parent[a[1]] \in known
    <3> SUFFICES ASSUME a # <<>>
                 PROVE  Parent[a[1]] \in known
      OBVIOUS
    <3>1. 1 \in 1..(k - 1) /\ fresh # <<>>
      BY <1>1, <2>1, <2>4
    <3> QED
      BY <1>4, <1>7, <2>4, <3>1
  <2> QED
    BY <2>1, <2>4, <2>5, <2>6 DEF a
<1> QED
  BY <1>5, <1>6, <1>7

(* Adding a reply leaves what is in memory as it ought to be, and the tip  *)
(* no lighter.                                                             *)
LEMMA AddKeepsStore ==
  ASSUME StoreInv(known, tip), NEW headers \in Seq(Header), IsLinkedSeq(headers)
  PROVE  /\ StoreInv(KnownWith(headers), TipWith(headers))
         /\ TotalWork[tip] <= TotalWork[TipWith(headers)]
<1> DEFINE a == Accepted(headers)
           K == known \cup ToSet(a)
           t == TipWith(headers)
<1>1. /\ a \in Seq(Header) /\ IsLinkedSeq(a)
      /\ \A i \in 1..Len(a) : a[i] \notin InvalidBlocks
      /\ a # <<>> => Parent[a[1]] \in known
  BY AcceptedHeaders
<1>2. KnownWith(headers) = K
  BY DEF KnownWith
<1>3. t = IF a # <<>> /\ TotalWork[a[Len(a)]] > TotalWork[tip] THEN a[Len(a)] ELSE tip
  BY DEF TipWith, Last
<1> HIDE DEF a, t
<1>4. /\ Len(a) \in Nat /\ a # <<>> => Len(a) \in 1..Len(a)
      /\ \A h : h \in ToSet(a) <=> \E i \in 1..Len(a) : h = a[i]
  BY <1>1 DEF ToSet
<1>5. ToSet(a) \subseteq Header /\ ToSet(a) \cap InvalidBlocks = {}
  BY <1>1, <1>4
<1>6. \A h \in ToSet(a) : Parent[h] \in K
  <2> SUFFICES ASSUME NEW i \in 1..Len(a)
               PROVE  Parent[a[i]] \in K
    BY <1>4
  <2>1. CASE i = 1
    BY <1>1, <2>1
  <2>2. CASE i # 1
    <3>1. i - 1 \in 1..(Len(a) - 1) /\ i - 1 \in 1..Len(a) /\ (i - 1) + 1 = i
      BY <1>4, <2>2
    <3>2. Parent[a[i]] = a[i - 1]
      BY <1>1, <3>1 DEF IsLinkedSeq
    <3> QED
      BY <1>4, <3>1, <3>2
  <2> QED
    BY <2>1, <2>2
<1>7. \A h \in K : h \in Header /\ TotalWork[h] \in Nat
  BY <1>5, WorkGrows DEF StoreInv
<1>8. tip \in K /\ \A h \in known : TotalWork[h] <= TotalWork[tip]
  BY DEF StoreInv
<1>9. \A h \in ToSet(a) : /\ a # <<>> /\ a[Len(a)] \in K
                          /\ TotalWork[h] <= TotalWork[a[Len(a)]]
  <2> SUFFICES ASSUME NEW i \in 1..Len(a)
               PROVE  /\ a # <<>> /\ a[Len(a)] \in K
                      /\ TotalWork[a[i]] <= TotalWork[a[Len(a)]]
    BY <1>4
  <2>1. Len(a) \in 1..Len(a) /\ i <= Len(a) /\ a # <<>>
    BY <1>4
  <2>2. TotalWork[a[i]] <= TotalWork[a[Len(a)]]
    BY <1>1, <2>1, LinkedIsHeavier
  <2> QED
    BY <1>4, <2>1, <2>2
<1>10. t \in K /\ TotalWork[tip] <= TotalWork[t]
  BY <1>3, <1>4, <1>7, <1>8
<1>11. \A h \in K : TotalWork[h] <= TotalWork[t]
  <2> SUFFICES ASSUME NEW h \in K
               PROVE  TotalWork[h] <= TotalWork[t]
    OBVIOUS
  <2>1. TotalWork[h] \in Nat /\ TotalWork[tip] \in Nat /\ TotalWork[t] \in Nat
    BY <1>7, <1>8, <1>10
  <2>2. CASE h \in known
    BY <1>8, <1>10, <2>1, <2>2
  <2>3. CASE h \in ToSet(a)
    <3>1. a # <<>> /\ a[Len(a)] \in K /\ TotalWork[h] <= TotalWork[a[Len(a)]]
      BY <1>9, <2>3
    <3>2. TotalWork[a[Len(a)]] \in Nat
      BY <1>7, <3>1
    <3> QED
      BY <1>3, <2>1, <3>1, <3>2
  <2> QED
    BY <2>2, <2>3
<1>12. StoreInv(K, t)
  BY <1>5, <1>6, <1>10, <1>11 DEF StoreInv
<1> HIDE DEF K
<1> QED
  BY <1>2, <1>10, <1>12 DEF t

----------------------------------------------------------------------------
(* The invariant *)

(* Our chain is as heavy as that to h, which is valid. *)
NoBetter(h) == IsValid(h) /\ TotalWork[h] <= TotalWork[tip]

(* The node has nothing better for us, or what it announced after its i-th *)
(* message that we have yet to handle is its tip.                          *)
Covered(n, i) ==
  \/ NoBetter(remoteTip[n])
  \/ \E j \in 1..Len(inbox[n]) :
       j > i /\ inbox[n][j].command = "inv" /\ inbox[n][j].tip = remoteTip[n]

(* The pass that runs for n and the one that is queued. *)
PassOK(n) ==
  /\ passes[n] \in Seq(SUBSET Caller) /\ Len(passes[n]) <= 2
  /\ pc[n] \in {"idle", "asked", "sleeping"}
  /\ pc[n] = "idle" <=> passes[n] = <<>>
  /\ from[n] \subseteq Header /\ tipHash[n] \in Header
  /\ waited[n] \in BOOLEAN /\ outcome[n] \in Outcome
  /\ outcome[n] # "none" => passes[n] = <<>>

(* Nothing is left of a connection that is gone, but a pass that sleeps. *)
ConnectionOK(n) ==
  /\ status[n] \in {"none", "testing", "open", "lost"}
  /\ connected[n] \in {"none", "live", "dead"}
  /\ status[n] \notin {"testing", "open"} =>
       /\ pc[n] # "asked" /\ request[n] = {} /\ inbox[n] = <<>>
       /\ outcome[n] # "done" /\ connected[n] # "live"

(* We ask for what follows headers that are no better than our tip.  So a  *)
(* reply with nothing in it, and a pass that it ended, come from a node    *)
(* that has nothing better, unless it announced it later.                  *)
RemoteOK(n) ==
  /\ remoteTip[n] \in Header /\ Genesis \in ChainOf(remoteTip[n])
  /\ request[n] \subseteq Header /\ \A h \in request[n] : NoBetter(h)
  /\ inbox[n] \in Seq(Message)
  /\ outcome[n] = "done" => Covered(n, 0)
  /\ \A i \in 1..Len(inbox[n]) : inbox[n][i].command = "headers" =>
       /\ IsLinkedSeq(inbox[n][i].headers)
       /\ inbox[n][i].headers = <<>> => Covered(n, i)

(* There is one of each for every node. *)
AreFunctions ==
  /\ status = [n \in Node |-> status[n]]
  /\ connected = [n \in Node |-> connected[n]]
  /\ passes = [n \in Node |-> passes[n]]
  /\ pc = [n \in Node |-> pc[n]]
  /\ from = [n \in Node |-> from[n]]
  /\ tipHash = [n \in Node |-> tipHash[n]]
  /\ waited = [n \in Node |-> waited[n]]
  /\ outcome = [n \in Node |-> outcome[n]]
  /\ remoteTip = [n \in Node |-> remoteTip[n]]
  /\ request = [n \in Node |-> request[n]]
  /\ inbox = [n \in Node |-> inbox[n]]

(* What holds in every state. *)
SyncInv ==
  /\ AreFunctions
  /\ StoreInv(known, tip)
  /\ tipExtended \in BOOLEAN /\ nodesSyncingHeaders \subseteq Node
  /\ \A n \in Node : PassOK(n) /\ ConnectionOK(n) /\ RemoteOK(n)

(* The tip is no worse than before. *)
TipKept == StoreInv(known', tip') /\ TotalWork[tip] <= TotalWork[tip']

(* A step that concerns one node. *)
ChangesOnly(n) ==
  /\ status' = [status EXCEPT ![n] = status'[n]]
  /\ connected' = [connected EXCEPT ![n] = connected'[n]]
  /\ passes' = [passes EXCEPT ![n] = passes'[n]]
  /\ pc' = [pc EXCEPT ![n] = pc'[n]]
  /\ from' = [from EXCEPT ![n] = from'[n]]
  /\ tipHash' = [tipHash EXCEPT ![n] = tipHash'[n]]
  /\ waited' = [waited EXCEPT ![n] = waited'[n]]
  /\ outcome' = [outcome EXCEPT ![n] = outcome'[n]]
  /\ remoteTip' = [remoteTip EXCEPT ![n] = remoteTip'[n]]
  /\ request' = [request EXCEPT ![n] = request'[n]]
  /\ inbox' = [inbox EXCEPT ![n] = inbox'[n]]

(* What is no better than the tip stays so. *)
LEMMA NoBetterStays ==
  ASSUME StoreInv(known, tip), TipKept, NEW h \in Header, NoBetter(h)
  PROVE  NoBetter(h)'
<1>1. TotalWork[h] \in Nat /\ TotalWork[tip] \in Nat /\ TotalWork[tip'] \in Nat
  BY WorkGrows DEF StoreInv, TipKept
<1> QED
  BY <1>1 DEF NoBetter, TipKept, IsValid

(* So does the tip of a node.                                              *)
LEMMA RemoteTipStays ==
  ASSUME SyncInv, TipKept, NEW n \in Node, remoteTip'[n] = remoteTip[n]
  PROVE  NoBetter(remoteTip[n]) => NoBetter(remoteTip[n])'
<1>1. \A h \in Header : NoBetter(h) => NoBetter(h)'
  BY NoBetterStays DEF SyncInv
<1>2. remoteTip[n] \in Header
  BY DEF SyncInv, RemoteOK
<1>3. NoBetter(remoteTip[n])' <=> /\ IsValid(remoteTip[n])
                                  /\ TotalWork[remoteTip[n]] <= TotalWork[tip']
  BY DEF NoBetter, IsValid
<1> QED
  BY <1>1, <1>2, <1>3 DEF NoBetter, IsValid

(* A node that the step does not concern is as before. *)
LEMMA OtherNode ==
  ASSUME SyncInv, TipKept, NEW n \in Node,
         status'[n] = status[n], connected'[n] = connected[n], passes'[n] = passes[n],
         pc'[n] = pc[n], from'[n] = from[n], tipHash'[n] = tipHash[n], waited'[n] = waited[n],
         outcome'[n] = outcome[n], remoteTip'[n] = remoteTip[n], request'[n] = request[n],
         inbox'[n] = inbox[n]
  PROVE  PassOK(n)' /\ ConnectionOK(n)' /\ RemoteOK(n)'
<1>1. PassOK(n)' /\ ConnectionOK(n)'
  BY DEF SyncInv, PassOK, ConnectionOK
<1>2. RemoteOK(n)
  BY DEF SyncInv
<1>3. \A h \in Header : NoBetter(h) => NoBetter(h)'
  BY NoBetterStays DEF SyncInv
<1>4. NoBetter(remoteTip[n]) => NoBetter(remoteTip[n])'
  BY RemoteTipStays
<1>5. \A i \in Nat : Covered(n, i) => Covered(n, i)'
  BY <1>4 DEF Covered
<1>6. \A h \in request'[n] : NoBetter(h)'
  BY <1>2, <1>3 DEF RemoteOK
<1>7. outcome'[n] = "done" => Covered(n, 0)'
  BY <1>2, <1>5 DEF RemoteOK
<1>8. \A i \in 1..Len(inbox[n]) : inbox[n][i].command = "headers" =>
        /\ IsLinkedSeq(inbox[n][i].headers)
        /\ inbox[n][i].headers = <<>> => Covered(n, i)'
  BY <1>2, <1>5 DEF RemoteOK
<1>9. RemoteOK(n)'
  BY <1>2, <1>6, <1>7, <1>8 DEF RemoteOK
<1> QED
  BY <1>1, <1>9

(* A step that concerns one node keeps the invariant if that node is right *)
(* after it.                                                               *)
LEMMA NodeStep ==
  ASSUME SyncInv, NEW n \in Node, ChangesOnly(n), TipKept,
         tipExtended' \in BOOLEAN, nodesSyncingHeaders' \subseteq Node,
         PassOK(n)', ConnectionOK(n)', RemoteOK(n)'
  PROVE  SyncInv'
<1>1. AreFunctions
  BY DEF SyncInv
<1>2. AreFunctions'
  BY <1>1 DEF AreFunctions, ChangesOnly
<1>3. ASSUME NEW m \in Node
      PROVE  PassOK(m)' /\ ConnectionOK(m)' /\ RemoteOK(m)'
  <2>1. CASE m = n
    BY <2>1
  <2>2. CASE m # n
    <3>1. /\ status'[m] = status[m] /\ connected'[m] = connected[m] /\ passes'[m] = passes[m]
          /\ pc'[m] = pc[m] /\ from'[m] = from[m] /\ tipHash'[m] = tipHash[m]
          /\ waited'[m] = waited[m] /\ outcome'[m] = outcome[m]
          /\ remoteTip'[m] = remoteTip[m] /\ request'[m] = request[m] /\ inbox'[m] = inbox[m]
      BY <1>1, <2>2 DEF AreFunctions, ChangesOnly
    <3> QED
      BY <3>1, OtherNode
  <2> QED
    BY <2>1, <2>2
<1> QED
  BY <1>2, <1>3 DEF SyncInv, TipKept

----------------------------------------------------------------------------
(* Messages and passes *)

(* What is known of one node. *)
LEMMA OfNode ==
  ASSUME SyncInv, NEW n \in Node
  PROVE  PassOK(n) /\ ConnectionOK(n) /\ RemoteOK(n)
BY DEF SyncInv

(* Headers in memory are no better than the tip. *)
LEMMA KnownIsNoBetter ==
  ASSUME StoreInv(known, tip)
  PROVE  /\ tip \in known /\ Genesis \in known
         /\ \A h \in known : h \in Header /\ NoBetter(h)
<1>1. \A h \in known : h \in Header /\ NoBetter(h)
  BY InMemory DEF NoBetter
<1> QED
  BY <1>1 DEF StoreInv

(* We ask for what follows headers that are in memory. *)
LEMMA LocatorIsNoBetter ==
  ASSUME StoreInv(known, tip)
  PROVE  Locator(tip) \subseteq Header /\ \A h \in Locator(tip) : NoBetter(h)
<1>1. tip \in known /\ tip \in Header
  BY KnownIsNoBetter
<1>2. ChainOf(tip) \subseteq known /\ Genesis \in ChainOf(tip)
  BY <1>1, InMemory
<1>3. Locator(tip) \subseteq known
  BY <1>1, <1>2, LocatorIsOnChain
<1> QED
  BY <1>3, KnownIsNoBetter

(* A node answers with linked headers, and with none only if it has        *)
(* nothing better than what was asked for.                                 *)
LEMMA ReplyIsLinked ==
  ASSUME SyncInv, NEW n \in Node
  PROVE  /\ Reply(n) \in Seq(Header) /\ IsLinkedSeq(Reply(n))
         /\ Reply(n) = <<>> => NoBetter(remoteTip[n])
<1> DEFINE chain == ChainTo[remoteTip[n]]
           forks == {i \in DOMAIN chain : chain[i] \in request[n]}
           fork == IF forks = {} THEN 1 ELSE CHOOSE i \in forks : \A j \in forks : j <= i
           end == IF fork + ChunkSize <= Len(chain) THEN fork + ChunkSize ELSE Len(chain)
<1>1. remoteTip[n] \in Header /\ Genesis \in ChainOf(remoteTip[n])
      /\ \A h \in request[n] : NoBetter(h)
  BY OfNode DEF RemoteOK
<1>2. /\ chain \in Seq(Header) /\ Len(chain) \in Nat \ {0} /\ IsLinkedSeq(chain)
      /\ chain[Len(chain)] = remoteTip[n] /\ chain[1] = Genesis
      /\ DOMAIN chain = 1..Len(chain)
  BY <1>1, ChainShape
<1>3. Reply(n) = SubSeq(chain, fork + 1, end)
  BY DEF Reply
<1> HIDE DEF chain
<1>4. \/ fork = 1 /\ forks = {}
      \/ fork \in forks
  <2>1. IsFiniteSet(forks) /\ forks \subseteq Int
    <3>1. IsFiniteSet(1..Len(chain))
      BY <1>2, FS_Interval
    <3> QED
      BY <1>2, <3>1, FS_Subset
  <2>2. forks # {} => \E i \in forks : \A j \in forks : j <= i
    <3> HIDE DEF forks
    <3> QED
      BY <2>1, GreatestNumber
  <2> HIDE DEF forks
  <2> QED
    BY <2>2
<1>5. fork \in 1..Len(chain) /\ (fork = 1 \/ chain[fork] \in request[n])
  BY <1>2, <1>4
<1> HIDE DEF fork
<1>6. ChunkSize \in Nat \ {0}
  BY SyncAssumption
<1>7. end \in fork..Len(chain) /\ (end = fork => fork = Len(chain))
  <2>1. /\ fork \in Nat /\ fork <= Len(chain) /\ Len(chain) \in Nat
        /\ ChunkSize \in Nat /\ ChunkSize > 0
    BY <1>2, <1>5, <1>6
  <2>2. CASE fork + ChunkSize <= Len(chain)
    <3>1. end = fork + ChunkSize
      BY <2>2
    <3> QED
      BY <2>1, <2>2, <3>1
  <2>3. CASE ~ (fork + ChunkSize <= Len(chain))
    <3>1. end = Len(chain)
      BY <2>3
    <3> QED
      BY <2>1, <3>1
  <2> QED
    BY <2>2, <2>3
<1> HIDE DEF end
<1>8. /\ fork + 1 \in Int /\ end \in Int
      /\ \A i \in (fork + 1)..end : i \in 1..Len(chain) /\ chain[i] \in Header
  <2>1. fork \in Nat /\ end \in Nat /\ fork >= 1 /\ end <= Len(chain)
    <3>1. fork \in Nat /\ fork >= 1 /\ Len(chain) \in Nat
      BY <1>2, <1>5
    <3>2. end \in fork..Len(chain)
      BY <1>7
    <3> QED
      BY <3>1, <3>2
  <2>2. \A i \in (fork + 1)..end : i \in 1..Len(chain)
    BY <1>2, <2>1
  <2> QED
    BY <1>2, <2>1, <2>2
<1> DEFINE s == SubSeq(chain, fork + 1, end)
<1>9. /\ s \in Seq(Header)
      /\ Len(s) = IF fork + 1 <= end THEN end - (fork + 1) + 1 ELSE 0
      /\ \A i \in 1..(end - (fork + 1) + 1) : s[i] = chain[(fork + 1) + i - 1]
  BY <1>8, SubSeqProperties
<1> HIDE DEF s
<1>10. Len(s) = end - fork /\ \A i \in 1..(end - fork) : s[i] = chain[fork + i]
  <2>1. end - (fork + 1) + 1 = end - fork
    BY <1>5, <1>7
  <2>2. \A i \in 1..(end - fork) : (fork + 1) + i - 1 = fork + i
    BY <1>5, <1>7
  <2>3. Len(s) = end - fork
    BY <1>5, <1>7, <1>9
  <2> QED
    BY <1>9, <2>1, <2>2, <2>3
<1>11. IsLinkedSeq(s)
  <2> SUFFICES ASSUME NEW i \in 1..(Len(s) - 1)
               PROVE  Parent[s[i + 1]] = s[i]
    BY DEF IsLinkedSeq
  <2>1. /\ i \in 1..(end - fork) /\ i + 1 \in 1..(end - fork)
        /\ fork + i \in 1..(Len(chain) - 1) /\ fork + (i + 1) = (fork + i) + 1
    BY <1>5, <1>7, <1>10
  <2> QED
    BY <1>2, <1>10, <2>1 DEF IsLinkedSeq
<1>12. ASSUME s = <<>>
       PROVE  NoBetter(remoteTip[n])
  <2>1. fork = Len(chain)
    BY <1>5, <1>7, <1>10, <1>12
  <2>2. CASE chain[fork] \in request[n]
    BY <1>1, <1>2, <2>1, <2>2
  <2>3. CASE fork = 1
    <3>1. remoteTip[n] = Genesis
      BY <1>2, <2>1, <2>3
    <3> QED
      BY <3>1, KnownIsNoBetter DEF SyncInv
  <2> QED
    BY <1>5, <2>2, <2>3
<1> QED
  BY <1>3, <1>9, <1>11, <1>12 DEF s

(* A message is taken off the inbox. *)
LEMMA MessageHandled ==
  ASSUME SyncInv, TipKept, NEW n \in Node, inbox[n] # <<>>,
         inbox'[n] = Tail(inbox[n]), remoteTip'[n] = remoteTip[n]
  PROVE  /\ inbox'[n] \in Seq(Message)
         /\ \A i \in Nat : Covered(n, i + 1) => Covered(n, i)'
         /\ \A i \in 1..Len(inbox'[n]) : inbox'[n][i].command = "headers" =>
              /\ IsLinkedSeq(inbox'[n][i].headers)
              /\ inbox'[n][i].headers = <<>> => Covered(n, i)'
<1>1. /\ inbox[n] \in Seq(Message) /\ remoteTip[n] \in Header
      /\ \A i \in 1..Len(inbox[n]) : inbox[n][i].command = "headers" =>
           /\ IsLinkedSeq(inbox[n][i].headers)
           /\ inbox[n][i].headers = <<>> => Covered(n, i)
  BY OfNode DEF RemoteOK
<1>2. /\ inbox'[n] \in Seq(Message) /\ Len(inbox[n]) \in Nat \ {0}
      /\ Len(inbox'[n]) = Len(inbox[n]) - 1
      /\ \A i \in 1..Len(inbox'[n]) : inbox'[n][i] = inbox[n][i + 1] /\ i + 1 \in 1..Len(inbox[n])
  BY <1>1
<1>3. NoBetter(remoteTip[n]) => NoBetter(remoteTip[n])'
  BY RemoteTipStays
<1>4. ASSUME NEW i \in Nat, Covered(n, i + 1)
      PROVE  Covered(n, i)'
  <2>1. CASE NoBetter(remoteTip[n])
    BY <1>3, <2>1 DEF Covered
  <2>2. ASSUME NEW j \in 1..Len(inbox[n]), j > i + 1, inbox[n][j].command = "inv",
               inbox[n][j].tip = remoteTip[n]
        PROVE  Covered(n, i)'
    <3>1. j - 1 \in 1..Len(inbox'[n]) /\ j - 1 > i /\ (j - 1) + 1 = j
      BY <1>2, <2>2
    <3>2. inbox'[n][j - 1] = inbox[n][j]
      BY <1>2, <3>1
    <3> QED
      BY <2>2, <3>1, <3>2 DEF Covered
  <2> QED
    BY <1>4, <2>1, <2>2 DEF Covered
<1>5. ASSUME NEW i \in 1..Len(inbox'[n]), inbox'[n][i].command = "headers"
      PROVE  /\ IsLinkedSeq(inbox'[n][i].headers)
             /\ inbox'[n][i].headers = <<>> => Covered(n, i)'
  BY <1>1, <1>2, <1>4, <1>5
<1> QED
  BY <1>2, <1>4, <1>5

----------------------------------------------------------------------------
(* What the calls and the ends of passes change *)

(* The functions are as they were but for one node. *)
LEMMA SameFunctions ==
  ASSUME SyncInv, NEW n \in Node
  PROVE  /\ status = [status EXCEPT ![n] = status[n]]
         /\ connected = [connected EXCEPT ![n] = connected[n]]
         /\ passes = [passes EXCEPT ![n] = passes[n]]
         /\ pc = [pc EXCEPT ![n] = pc[n]]
         /\ from = [from EXCEPT ![n] = from[n]]
         /\ tipHash = [tipHash EXCEPT ![n] = tipHash[n]]
         /\ waited = [waited EXCEPT ![n] = waited[n]]
         /\ outcome = [outcome EXCEPT ![n] = outcome[n]]
         /\ remoteTip = [remoteTip EXCEPT ![n] = remoteTip[n]]
         /\ request = [request EXCEPT ![n] = request[n]]
         /\ inbox = [inbox EXCEPT ![n] = inbox[n]]
BY DEF SyncInv, AreFunctions

(* And the value for that node is the new one. *)
LEMMA NewValues ==
  ASSUME SyncInv, NEW n \in Node, NEW v
  PROVE  /\ [status EXCEPT ![n] = v][n] = v /\ [connected EXCEPT ![n] = v][n] = v
         /\ [passes EXCEPT ![n] = v][n] = v /\ [pc EXCEPT ![n] = v][n] = v
         /\ [from EXCEPT ![n] = v][n] = v /\ [tipHash EXCEPT ![n] = v][n] = v
         /\ [waited EXCEPT ![n] = v][n] = v /\ [outcome EXCEPT ![n] = v][n] = v
         /\ [remoteTip EXCEPT ![n] = v][n] = v /\ [request EXCEPT ![n] = v][n] = v
         /\ [inbox EXCEPT ![n] = v][n] = v
BY DEF SyncInv, AreFunctions

(* A step that leaves the database alone. *)
LEMMA SameDatabase ==
  ASSUME SyncInv, UNCHANGED <<known, tip>>
  PROVE  TipKept
<1>1. TotalWork[tip] \in Nat
  BY WorkGrows DEF SyncInv, StoreInv
<1> QED
  BY <1>1 DEF SyncInv, StoreInv, TipKept

(* A call joins the pass that is queued, or queues one. *)
LEMMA QueueHasAPass ==
  ASSUME NEW queue \in Seq(SUBSET Caller), Len(queue) <= 2, NEW caller \in Caller
  PROVE  /\ QueueWith(queue, caller) \in Seq(SUBSET Caller)
         /\ Len(QueueWith(queue, caller)) <= 2 /\ QueueWith(queue, caller) # <<>>
<1>1. {caller} \in SUBSET Caller /\ Len(queue) \in Nat
  OBVIOUS
<1>2. CASE Len(queue) = 2
  <2> DEFINE first == queue[1]
             second == queue[2] \cup {caller}
  <2>1. first \in SUBSET Caller /\ second \in SUBSET Caller
    BY <1>2
  <2>2. QueueWith(queue, caller) = <<first, second>>
    BY <1>2 DEF QueueWith
  <2> HIDE DEF first, second
  <2>3. /\ <<first, second>> \in Seq(SUBSET Caller) /\ Len(<<first, second>>) = 2
        /\ <<first, second>> # <<>>
    BY <2>1
  <2> QED
    BY <2>2, <2>3
<1>3. CASE Len(queue) # 2
  <2> DEFINE longer == Append(queue, {caller})
             k == Len(queue)
             l == Len(longer)
  <2>1. QueueWith(queue, caller) = longer
    BY <1>3 DEF QueueWith
  <2>2. longer \in Seq(SUBSET Caller) /\ l = k + 1
    BY <1>1
  <2>3. k \in Nat /\ k <= 2 /\ k # 2
    BY <1>1, <1>3
  <2> HIDE DEF longer
  <2>4. longer = <<>> => l = 0
    OBVIOUS
  <2> HIDE DEF k, l
  <2>5. l <= 2 /\ l # 0
    BY <2>2, <2>3
  <2> QED
    BY <2>1, <2>2, <2>4, <2>5 DEF l
<1> QED
  BY <1>2, <1>3

(* syncHeaders leaves its connection with a pass, which has asked for what *)
(* follows headers of ours.                                                *)
LEMMA CallEffect ==
  ASSUME SyncInv, NEW n \in Node, NEW caller \in Caller, SyncHeaders(n, caller),
         tipHash' = tipHash
  PROVE  /\ PassOK(n)' /\ passes'[n] # <<>> /\ outcome'[n] = "none"
         /\ request'[n] \subseteq Header /\ \A h \in request'[n] : NoBetter(h)
         /\ nodesSyncingHeaders' \subseteq Node
         /\ passes' = [passes EXCEPT ![n] = passes'[n]] /\ pc' = [pc EXCEPT ![n] = pc'[n]]
         /\ from' = [from EXCEPT ![n] = from'[n]] /\ waited' = [waited EXCEPT ![n] = waited'[n]]
         /\ tipHash' = [tipHash EXCEPT ![n] = tipHash'[n]]
         /\ outcome' = [outcome EXCEPT ![n] = outcome'[n]]
         /\ request' = [request EXCEPT ![n] = request'[n]]
<1>1. PassOK(n) /\ RemoteOK(n) /\ StoreInv(known, tip) /\ nodesSyncingHeaders \subseteq Node
  BY DEF SyncInv
<1> DEFINE queue == QueueWith(passes[n], caller)
<1>2. queue \in Seq(SUBSET Caller) /\ Len(queue) <= 2 /\ queue # <<>>
  BY <1>1, QueueHasAPass DEF PassOK
<1>3. passes' = [passes EXCEPT ![n] = queue] /\ nodesSyncingHeaders' \subseteq Node
  BY <1>1 DEF SyncHeaders
<1> HIDE DEF queue
<1>4. passes'[n] = queue /\ passes' = [passes EXCEPT ![n] = passes'[n]]
  BY <1>3, NewValues
<1>5. tipHash' = [tipHash EXCEPT ![n] = tipHash'[n]] /\ tipHash'[n] \in Header
  BY <1>1, SameFunctions DEF PassOK
<1>6. CASE passes[n] = <<>>
  <2>1. /\ pc' = [pc EXCEPT ![n] = "asked"] /\ from' = [from EXCEPT ![n] = Locator(tip)]
        /\ request' = [request EXCEPT ![n] = Locator(tip)]
        /\ waited' = [waited EXCEPT ![n] = FALSE] /\ outcome' = [outcome EXCEPT ![n] = "none"]
    BY <1>6 DEF SyncHeaders, Begin, AskFor
  <2>2. /\ pc'[n] = "asked" /\ from'[n] = Locator(tip) /\ request'[n] = Locator(tip)
        /\ waited'[n] = FALSE /\ outcome'[n] = "none"
    BY <2>1, NewValues
  <2>3. Locator(tip) \subseteq Header /\ \A h \in Locator(tip) : NoBetter(h)
    BY <1>1, LocatorIsNoBetter
  <2>4. PassOK(n)'
    BY <1>2, <1>4, <1>5, <2>2, <2>3 DEF PassOK, Outcome
  <2> QED
    BY <1>2, <1>3, <1>4, <1>5, <2>1, <2>2, <2>3, <2>4
<1>7. CASE passes[n] # <<>>
  <2>1. UNCHANGED <<pc, from, request, waited, outcome>>
    BY <1>7 DEF SyncHeaders
  <2>2. outcome[n] = "none"
    BY <1>1, <1>7 DEF PassOK
  <2>3. PassOK(n)'
    BY <1>1, <1>2, <1>4, <1>5, <1>7, <2>1, <2>2 DEF PassOK
  <2> QED
    BY <1>1, <1>2, <1>3, <1>4, <1>5, <2>1, <2>2, <2>3, SameFunctions DEF RemoteOK
<1> QED
  BY <1>6, <1>7

(* When callers go on, branches may be pruned, and the tip stays.          *)
LEMMA ResumeKeepsStore ==
  ASSUME SyncInv, NEW n \in Node, NEW callers, NEW K, NEW t, StoreInv(K, t),
         Resume(n, callers, K, t), TotalWork[tip] <= TotalWork[t]
  PROVE  TipKept /\ nodesSyncingHeaders' \subseteq Node
<1>1. StoreInv(ChainOf(t), t)
  BY PruneKeepsStore
<1>2. tip' = t /\ (known' = ChainOf(t) \/ known' = K)
  BY DEF Resume
<1>3. nodesSyncingHeaders' \subseteq Node
  BY DEF Resume, SyncInv
<1> QED
  BY <1>1, <1>2, <1>3 DEF TipKept

(* What is left of the queue when the running pass ends.                   *)
LEMMA RestOfQueue ==
  ASSUME NEW S, NEW queue \in Seq(S), queue # <<>>, Len(queue) <= 2
  PROVE  /\ Tail(queue) \in Seq(S) /\ Len(Tail(queue)) <= 2
         /\ \/ Len(queue) = 1 /\ Tail(queue) = <<>>
            \/ Len(queue) = 2 /\ Tail(queue) # <<>>
<1> DEFINE rest == Tail(queue)
           k == Len(queue)
           l == Len(rest)
<1>1. rest \in Seq(S) /\ k \in Nat /\ k # 0 /\ l = k - 1 /\ k <= 2
  OBVIOUS
<1> HIDE DEF rest
<1>2. (rest = <<>> => l = 0) /\ (l = 0 => rest = <<>>)
  BY <1>1
<1> HIDE DEF k, l
<1>3. (k = 1 /\ l = 0) \/ (k = 2 /\ l = 1)
  BY <1>1
<1>4. l <= 2
  BY <1>3
<1> QED
  BY <1>1, <1>2, <1>3, <1>4 DEF rest, k, l

(* A pass that ends on a connection that stays (LegacyNodeConnection.ts    *)
(* syncHeaders): if it ends with an empty reply, the node has nothing      *)
(* better, or has announced it.                                            *)
LEMMA EndPassKeepsInv ==
  ASSUME SyncInv, NEW n \in Node, passes[n] # <<>>, inbox[n] # <<>>,
         NEW result \in Outcome \ {"none"}, NEW passed \in BOOLEAN,
         NEW K, StoreInv(K, tip), EndPass(n, result, passed, K),
         tipHash' = [tipHash EXCEPT ![n] = tipHash'[n]], tipHash'[n] \in Header,
         result = "done" => Covered(n, 1)
  PROVE  SyncInv'
<1>1. /\ PassOK(n) /\ ConnectionOK(n) /\ RemoteOK(n) /\ StoreInv(known, tip)
      /\ tipExtended \in BOOLEAN
  BY DEF SyncInv
<1>2. TotalWork[tip] <= TotalWork[tip]
  <2>1. TotalWork[tip] \in Nat
    BY <1>1, WorkGrows DEF StoreInv
  <2> QED
    BY <2>1
<1>3. TipKept /\ nodesSyncingHeaders' \subseteq Node
  BY <1>2, ResumeKeepsStore DEF EndPass
<1> DEFINE entry == IF passed /\ IsTested(n) THEN "live" ELSE connected[n]
           rest == Tail(passes[n])
<1>4. /\ connected' = [connected EXCEPT ![n] = entry]
      /\ passes' = [passes EXCEPT ![n] = rest]
      /\ inbox' = [inbox EXCEPT ![n] = Tail(inbox[n])]
      /\ UNCHANGED <<tipExtended, status, remoteTip>>
  BY DEF EndPass
<1>5. entry \in {"none", "live", "dead"}
  BY <1>1 DEF ConnectionOK
<1>6. /\ rest \in Seq(SUBSET Caller) /\ Len(rest) <= 2
      /\ \/ Len(passes[n]) = 1 /\ rest = <<>>
         \/ Len(passes[n]) = 2 /\ rest # <<>>
  BY <1>1, RestOfQueue DEF PassOK
<1> HIDE DEF entry, rest
<1>7. connected'[n] = entry /\ passes'[n] = rest /\ inbox'[n] = Tail(inbox[n])
      /\ status'[n] = status[n] /\ remoteTip'[n] = remoteTip[n]
  BY <1>4, NewValues
<1>8. /\ status' = [status EXCEPT ![n] = status'[n]]
      /\ connected' = [connected EXCEPT ![n] = connected'[n]]
      /\ passes' = [passes EXCEPT ![n] = passes'[n]]
      /\ inbox' = [inbox EXCEPT ![n] = inbox'[n]]
      /\ remoteTip' = [remoteTip EXCEPT ![n] = remoteTip'[n]]
  BY <1>4, <1>7, SameFunctions
<1>9. /\ pc' = [pc EXCEPT ![n] = pc'[n]] /\ from' = [from EXCEPT ![n] = from'[n]]
      /\ waited' = [waited EXCEPT ![n] = waited'[n]]
      /\ outcome' = [outcome EXCEPT ![n] = outcome'[n]]
      /\ request' = [request EXCEPT ![n] = request'[n]]
      /\ from'[n] \subseteq Header /\ waited'[n] = FALSE
      /\ \/ Len(passes[n]) = 2 /\ pc'[n] = "asked" /\ outcome'[n] = "none"
         \/ Len(passes[n]) = 1 /\ pc'[n] = "idle" /\ outcome'[n] = result
      /\ request'[n] \subseteq Header /\ \A h \in request'[n] : NoBetter(h)
  <2>1. CASE Len(passes[n]) = 2
    <3>1. /\ pc' = [pc EXCEPT ![n] = "asked"] /\ from' = [from EXCEPT ![n] = Locator(tip)]
          /\ request' = [request EXCEPT ![n] = Locator(tip)]
          /\ waited' = [waited EXCEPT ![n] = FALSE] /\ outcome' = [outcome EXCEPT ![n] = "none"]
      BY <2>1 DEF EndPass, Begin, AskFor
    <3>2. /\ pc'[n] = "asked" /\ from'[n] = Locator(tip) /\ request'[n] = Locator(tip)
          /\ waited'[n] = FALSE /\ outcome'[n] = "none"
      <4>1. pc'[n] = "asked" /\ from'[n] = Locator(tip)
        BY <3>1, NewValues
      <4>2. request'[n] = Locator(tip)
        BY <3>1, NewValues
      <4>3. waited'[n] = FALSE /\ outcome'[n] = "none"
        BY <3>1, NewValues
      <4> QED
        BY <4>1, <4>2, <4>3
    <3>3. Locator(tip) \subseteq Header /\ \A h \in Locator(tip) : NoBetter(h)
      BY <1>1, LocatorIsNoBetter
    <3> QED
      BY <2>1, <3>1, <3>2, <3>3
  <2>2. CASE Len(passes[n]) # 2
    <3>1. /\ pc' = [pc EXCEPT ![n] = "idle"] /\ from' = [from EXCEPT ![n] = {}]
          /\ waited' = [waited EXCEPT ![n] = FALSE] /\ outcome' = [outcome EXCEPT ![n] = result]
          /\ UNCHANGED request
      BY <2>2 DEF EndPass, NoPass
    <3>2. /\ pc'[n] = "idle" /\ from'[n] = {} /\ waited'[n] = FALSE /\ outcome'[n] = result
      <4>1. pc'[n] = "idle" /\ from'[n] = {}
        BY <3>1, NewValues
      <4>2. waited'[n] = FALSE /\ outcome'[n] = result
        BY <3>1, NewValues
      <4> QED
        BY <4>1, <4>2
    <3> QED
      BY <1>1, <1>6, <2>2, <3>1, <3>2, SameFunctions DEF RemoteOK
  <2> QED
    BY <2>1, <2>2
<1>10. PassOK(n)'
  <2>1. outcome'[n] \in Outcome
    BY <1>9 DEF Outcome
  <2>2. /\ pc'[n] \in {"idle", "asked", "sleeping"}
        /\ pc'[n] = "idle" <=> passes'[n] = <<>>
        /\ outcome'[n] # "none" => passes'[n] = <<>>
    <3>1. \/ Len(passes[n]) = 1 /\ rest = <<>> /\ pc'[n] = "idle"
          \/ /\ Len(passes[n]) = 2 /\ rest # <<>>
             /\ pc'[n] = "asked" /\ outcome'[n] = "none"
      <4>1. CASE Len(passes[n]) = 1
        BY <1>6, <1>9, <4>1
      <4>2. CASE Len(passes[n]) = 2
        BY <1>6, <1>9, <4>2
      <4> QED
        BY <1>6, <4>1, <4>2
    <3> QED
      BY <1>7, <3>1
  <2> QED
    BY <1>6, <1>7, <1>9, <2>1, <2>2 DEF PassOK
<1>11. ConnectionOK(n)'
  BY <1>1, <1>5, <1>7 DEF ConnectionOK
<1>12. RemoteOK(n)'
  <2>1. /\ inbox'[n] \in Seq(Message)
        /\ \A i \in Nat : Covered(n, i + 1) => Covered(n, i)'
        /\ \A i \in 1..Len(inbox'[n]) : inbox'[n][i].command = "headers" =>
             /\ IsLinkedSeq(inbox'[n][i].headers)
             /\ inbox'[n][i].headers = <<>> => Covered(n, i)'
    BY <1>3, <1>7, MessageHandled
  <2>2. outcome'[n] = "done" => Covered(n, 0)'
    <3>1. Covered(n, 0 + 1) => Covered(n, 0)'
      BY <2>1
    <3>2. outcome'[n] = "done" => Covered(n, 0 + 1)
      BY <1>9
    <3> QED
      BY <3>1, <3>2
  <2>3. \A h \in Header : NoBetter(h) => NoBetter(h)'
    BY <1>1, <1>3, NoBetterStays
  <2>4. \A h \in request'[n] : NoBetter(h)'
    BY <1>9, <2>3
  <2>5. remoteTip'[n] \in Header /\ Genesis \in ChainOf(remoteTip'[n])
    BY <1>1, <1>7 DEF RemoteOK
  <2>6. (Genesis \in ChainOf(remoteTip[n]))' <=> Genesis \in ChainOf(remoteTip'[n])
    BY DEF ChainOf
  <2> QED
    BY <1>9, <2>1, <2>2, <2>4, <2>5, <2>6 DEF RemoteOK
<1>13. ChangesOnly(n)
  BY <1>8, <1>9 DEF ChangesOnly
<1> QED
  BY <1>1, <1>3, <1>4, <1>10, <1>11, <1>12, <1>13, NodeStep

(* Nothing is left of a connection that goes.                              *)
LEMMA EndConnectionKeepsInv ==
  ASSUME SyncInv, NEW n \in Node, NEW newStatus \in {"none", "lost"},
         NEW entry \in {"none", "dead"}, NEW result \in Outcome \ {"none", "done"},
         NEW K, NEW t, StoreInv(K, t), TotalWork[tip] <= TotalWork[t],
         EndConnection(n, newStatus, entry, result, K, t), tipExtended' \in BOOLEAN
  PROVE  SyncInv'
<1>1. PassOK(n) /\ RemoteOK(n) /\ nodesSyncingHeaders \subseteq Node
  BY DEF SyncInv
<1>2. TipKept /\ nodesSyncingHeaders' \subseteq Node
  <2>1. CASE passes[n] = <<>>
    BY <1>1, <2>1 DEF EndConnection, TipKept
  <2>2. CASE passes[n] # <<>>
    <3>1. Resume(n, UNION ToSet(passes[n]), K, t)
      BY <2>2 DEF EndConnection
    <3> QED
      BY <3>1, ResumeKeepsStore
  <2> QED
    BY <2>1, <2>2
<1>3. /\ status' = [status EXCEPT ![n] = newStatus]
      /\ connected' = [connected EXCEPT ![n] = entry]
      /\ pc' = [pc EXCEPT ![n] = "idle"]
      /\ from' = [from EXCEPT ![n] = {}]
      /\ waited' = [waited EXCEPT ![n] = FALSE]
      /\ tipHash' = tipHash \/ tipHash' = [tipHash EXCEPT ![n] = Genesis]
      /\ outcome' = [outcome EXCEPT ![n] = result]
      /\ passes' = [passes EXCEPT ![n] = <<>>]
      /\ request' = [request EXCEPT ![n] = {}]
      /\ inbox' = [inbox EXCEPT ![n] = <<>>]
      /\ UNCHANGED remoteTip
  BY DEF EndConnection, NoPass
<1>4. /\ status'[n] = newStatus /\ connected'[n] = entry /\ pc'[n] = "idle"
      /\ from'[n] = {} /\ waited'[n] = FALSE /\ outcome'[n] = result
      /\ passes'[n] = <<>> /\ request'[n] = {} /\ inbox'[n] = <<>>
      /\ remoteTip'[n] = remoteTip[n]
  <2>1. status'[n] = newStatus /\ connected'[n] = entry /\ pc'[n] = "idle"
    BY <1>3, NewValues
  <2>2. from'[n] = {} /\ waited'[n] = FALSE /\ outcome'[n] = result
    BY <1>3, NewValues
  <2>3. passes'[n] = <<>> /\ request'[n] = {} /\ inbox'[n] = <<>>
    BY <1>3, NewValues
  <2> QED
    BY <1>3, <2>1, <2>2, <2>3
<1>5. tipHash' = [tipHash EXCEPT ![n] = tipHash'[n]] /\ tipHash'[n] \in Header
  <2>1. CASE tipHash' = tipHash
    BY <1>1, <2>1, SameFunctions DEF PassOK
  <2>2. CASE tipHash' = [tipHash EXCEPT ![n] = Genesis]
    <3>1. tipHash'[n] = Genesis
      BY <2>2, NewValues
    <3> QED
      BY <2>2, <3>1, HeaderAssumption
  <2> QED
    BY <1>3, <2>1, <2>2
<1>6. ChangesOnly(n)
  BY <1>3, <1>4, <1>5, SameFunctions DEF ChangesOnly
<1>7. PassOK(n)'
  <2>1. passes'[n] \in Seq(SUBSET Caller) /\ Len(passes'[n]) <= 2
    BY <1>4
  <2> QED
    BY <1>4, <1>5, <2>1 DEF PassOK
<1>8. ConnectionOK(n)'
  BY <1>4 DEF ConnectionOK
<1>9. RemoteOK(n)'
  <2>1. remoteTip'[n] \in Header /\ Genesis \in ChainOf(remoteTip'[n])
    BY <1>1, <1>4 DEF RemoteOK
  <2>2. (Genesis \in ChainOf(remoteTip[n]))' <=> Genesis \in ChainOf(remoteTip'[n])
    BY DEF ChainOf
  <2>3. inbox'[n] \in Seq(Message) /\ Len(inbox'[n]) = 0
    BY <1>4
  <2>4. request'[n] \subseteq Header /\ \A h \in request'[n] : NoBetter(h)'
    BY <1>4
  <2>5. outcome'[n] # "done"
    BY <1>4
  <2> QED
    BY <2>1, <2>2, <2>3, <2>4, <2>5 DEF RemoteOK
<1> QED
  BY <1>2, <1>6, <1>7, <1>8, <1>9, NodeStep

----------------------------------------------------------------------------
(* The replies *)

(* The reply that is handed to the running pass.                           *)
LEMMA HeadReply ==
  ASSUME SyncInv, NEW n \in Node, Receives(n)
  PROVE  /\ inbox[n] # <<>> /\ passes[n] # <<>> /\ outcome[n] = "none"
         /\ HeadersAt(n) \in Seq(Header) /\ IsLinkedSeq(HeadersAt(n))
         /\ HeadersAt(n) = <<>> => Covered(n, 1)
<1>1. PassOK(n) /\ RemoteOK(n)
  BY DEF SyncInv
<1>2. inbox[n] # <<>> /\ pc[n] = "asked"
  BY DEF Receives
<1>3. passes[n] # <<>> /\ outcome[n] = "none"
  BY <1>1, <1>2 DEF PassOK
<1>4. 1 \in 1..Len(inbox[n]) /\ Head(inbox[n]) = inbox[n][1] /\ inbox[n][1] \in Message
  BY <1>1, <1>2 DEF RemoteOK
<1>5. inbox[n][1].command = "headers" /\ HeadersAt(n) = inbox[n][1].headers
  BY <1>4 DEF Receives, HeadersAt
<1>6. HeadersAt(n) \in Seq(Header)
  BY <1>4, <1>5 DEF Message
<1> QED
  BY <1>1, <1>2, <1>3, <1>4, <1>5, <1>6 DEF RemoteOK

(* The chain to the tip is in memory, and the tip is as heavy as itself.   *)
LEMMA TipIsKnown ==
  ASSUME SyncInv
  PROVE  /\ StoreInv(known, tip) /\ tip \in Header /\ Depth[tip] \in Nat
         /\ TotalWork[tip] \in Nat /\ TotalWork[tip] <= TotalWork[tip]
         /\ ChainOf(tip) \subseteq known /\ Genesis \in ChainOf(tip)
<1>1. StoreInv(known, tip) /\ tip \in known
  BY DEF SyncInv, StoreInv
<1>2. tip \in Header /\ ChainOf(tip) \subseteq known /\ Genesis \in ChainOf(tip)
  BY <1>1, InMemory
<1>3. TotalWork[tip] \in Nat /\ Depth[tip] \in Nat
  BY <1>2, WorkGrows, DepthAssumption
<1> QED
  BY <1>1, <1>2, <1>3

(* A connection that a listener destroys in the middle of a pass.          *)
LEMMA DestroyedKeepsInv ==
  ASSUME SyncInv, NEW n \in Node, NEW result \in Outcome \ {"none", "done"},
         NEW K, NEW t, StoreInv(K, t), TotalWork[tip] <= TotalWork[t],
         Destroyed(n, result, K, t), tipExtended' \in BOOLEAN
  PROVE  SyncInv'
<1>1. PICK entry \in {"none", "dead"} : EndConnection(n, "none", entry, result, K, t)
  BY DEF Destroyed
<1> QED
  BY <1>1, EndConnectionKeepsInv

(* A pass that throws.                                                     *)
LEMMA ThrowKeepsInv ==
  ASSUME SyncInv, NEW n \in Node, Receives(n), NEW result \in Outcome \ {"none", "done"},
         NEW K, StoreInv(K, tip), Throw(n, result, K)
  PROVE  SyncInv'
<1>1. inbox[n] # <<>> /\ passes[n] # <<>>
  BY HeadReply
<1>2. CASE "reconnect" \in passes[n][1]
  <2>1. EndConnection(n, "none", "none", result, K, tip) /\ tipExtended' = tipExtended
    BY <1>2 DEF Throw
  <2>2. tipExtended' \in BOOLEAN
    BY <2>1 DEF SyncInv
  <2> QED
    BY <2>1, <2>2, TipIsKnown, EndConnectionKeepsInv
<1>3. CASE ~ ("reconnect" \in passes[n][1])
  <2>1. EndPass(n, result, FALSE, K) /\ tipHash' = [tipHash EXCEPT ![n] = Genesis]
    BY <1>3 DEF Throw
  <2>2. tipHash'[n] = Genesis /\ Genesis \in Header
    BY <2>1, NewValues, HeaderAssumption
  <2>3. tipHash' = [tipHash EXCEPT ![n] = tipHash'[n]]
    BY <2>1, <2>2
  <2> QED
    BY <1>1, <2>1, <2>2, <2>3, EndPassKeepsInv
<1> QED
  BY <1>2, <1>3

(* If none of a reply is invalid, all that is new of it is added, up to    *)
(* its last header.                                                        *)
LEMMA AddedUpToLast ==
  ASSUME StoreInv(known, tip), NEW headers \in Seq(Header), IsLinkedSeq(headers),
         ~ HasInvalid(headers)
  PROVE  /\ Accepted(headers) # <<>> => Last(headers) \notin known
         /\ TipWith(headers) \in {tip, Last(headers)}
         /\ Last(headers) \in known => KnownWith(headers) = known /\ TipWith(headers) = tip
<1> DEFINE a == Accepted(headers)
<1>1. a = <<>> \/ a = Unknown(headers)
  BY DEF Accepted, HasInvalid
<1>2. a # <<>> => /\ headers[Len(headers)] \notin known
                  /\ a[Len(a)] = headers[Len(headers)]
  BY <1>1, UnknownIsLinked
<1>3. TipWith(headers) = IF a # <<>> /\ TotalWork[a[Len(a)]] > TotalWork[tip]
                         THEN a[Len(a)] ELSE tip
  BY DEF TipWith, Last
<1>4. KnownWith(headers) = known \cup ToSet(a)
  BY DEF KnownWith
<1> HIDE DEF a
<1>5. a = <<>> => ToSet(a) = {}
  BY DEF ToSet
<1>6. Last(headers) = headers[Len(headers)]
  BY DEF Last
<1>7. TipWith(headers) \in {tip, Last(headers)}
  BY <1>2, <1>3, <1>6
<1>8. ASSUME Last(headers) \in known
      PROVE  KnownWith(headers) = known /\ TipWith(headers) = tip
  <2>1. a = <<>>
    BY <1>2, <1>6, <1>8
  <2> QED
    BY <1>3, <1>4, <1>5, <2>1
<1> QED
  BY <1>2, <1>6, <1>7, <1>8 DEF a

(* An empty reply.                                                         *)
LEMMA NothingKeepsInv ==
  ASSUME SyncInv, NEW n \in Node, ReceiveNothing(n)
  PROVE  SyncInv'
<1>1. Receives(n) /\ HeadersAt(n) = <<>> /\ EndPass(n, "done", TRUE, known) /\ tipHash' = tipHash
  BY DEF ReceiveNothing
<1>2. inbox[n] # <<>> /\ passes[n] # <<>> /\ Covered(n, 1)
  BY <1>1, HeadReply
<1>3. StoreInv(known, tip) /\ tipHash[n] \in Header
  BY DEF SyncInv, PassOK
<1>4. "done" \in Outcome \ {"none"} /\ TRUE \in BOOLEAN
  BY DEF Outcome
<1>5. tipHash' = [tipHash EXCEPT ![n] = tipHash'[n]] /\ tipHash'[n] \in Header
  BY <1>1, <1>3, SameFunctions
<1> QED
  BY <1>1, <1>2, <1>3, <1>4, <1>5, EndPassKeepsInv

(* A node that is out of sync, or sends an invalid block.                  *)
LEMMA DropKeepsInv ==
  ASSUME SyncInv, NEW n \in Node, ReceiveOutOfSync(n) \/ ReceiveInvalid(n)
  PROVE  SyncInv'
<1>1. StoreInv(known, tip) /\ TotalWork[tip] <= TotalWork[tip] /\ tipExtended \in BOOLEAN
  BY TipIsKnown DEF SyncInv
<1>2. {"out_of_sync", "invalid_blocks"} \subseteq Outcome \ {"none", "done"}
  BY DEF Outcome
<1>3. CASE ReceiveOutOfSync(n)
  <2>1. Destroyed(n, "out_of_sync", known, tip) /\ tipExtended' \in BOOLEAN
    BY <1>1, <1>3 DEF ReceiveOutOfSync
  <2> QED
    BY <1>1, <1>2, <2>1, DestroyedKeepsInv
<1>4. CASE ReceiveInvalid(n)
  <2> DEFINE K == KnownWith(HeadersAt(n))
             t == TipWith(HeadersAt(n))
  <2>1. /\ Receives(n) /\ Destroyed(n, "invalid_blocks", K, t)
        /\ tipExtended' = (tipExtended \/ tip' # tip)
    BY <1>4 DEF ReceiveInvalid
  <2>2. HeadersAt(n) \in Seq(Header) /\ IsLinkedSeq(HeadersAt(n))
    BY <2>1, HeadReply
  <2>3. StoreInv(K, t) /\ TotalWork[tip] <= TotalWork[t]
    BY <1>1, <2>2, AddKeepsStore
  <2>4. tipExtended' \in BOOLEAN
    BY <2>1
  <2> HIDE DEF K, t
  <2> QED
    BY <1>2, <2>1, <2>3, <2>4, DestroyedKeepsInv
<1> QED
  BY <1>3, <1>4

(* A reply that does not link.                                             *)
LEMMA OutOfOrderKeepsInv ==
  ASSUME SyncInv, NEW n \in Node, ReceiveOutOfOrder(n)
  PROVE  SyncInv'
<1>1. Receives(n) /\ Throw(n, "out_of_order", known)
  BY DEF ReceiveOutOfOrder
<1>2. "out_of_order" \in Outcome \ {"none", "done"}
  BY DEF Outcome
<1> QED
  BY <1>1, <1>2, TipIsKnown, ThrowKeepsInv

(* What an added reply leaves in memory.                                   *)
LEMMA AddsKeepsStore ==
  ASSUME SyncInv, NEW n \in Node, Adds(n)
  PROVE  /\ Receives(n) /\ HeadersAt(n) # <<>> /\ Last(HeadersAt(n)) \in Header
         /\ StoreInv(KnownWith(HeadersAt(n)), TipWith(HeadersAt(n)))
         /\ TotalWork[tip] <= TotalWork[TipWith(HeadersAt(n))]
         /\ TipWith(HeadersAt(n)) \in {tip, Last(HeadersAt(n))}
         /\ Last(HeadersAt(n)) \in known =>
              KnownWith(HeadersAt(n)) = known /\ TipWith(HeadersAt(n)) = tip
<1> DEFINE headers == HeadersAt(n)
<1>1. Receives(n) /\ headers # <<>> /\ ~ HasInvalid(headers)
  BY DEF Adds
<1>2. headers \in Seq(Header) /\ IsLinkedSeq(headers)
  BY <1>1, HeadReply
<1> HIDE DEF headers
<1>3. Last(headers) \in Header
  BY <1>1, <1>2 DEF Last
<1>4. StoreInv(known, tip)
  BY DEF SyncInv
<1>5. /\ StoreInv(KnownWith(headers), TipWith(headers))
      /\ TotalWork[tip] <= TotalWork[TipWith(headers)]
  BY <1>2, <1>4, AddKeepsStore
<1>6. /\ TipWith(headers) \in {tip, Last(headers)}
      /\ Last(headers) \in known => KnownWith(headers) = known /\ TipWith(headers) = tip
  BY <1>1, <1>2, <1>4, AddedUpToLast
<1> QED
  BY <1>1, <1>3, <1>5, <1>6 DEF headers

(* A reply that ends higher up than the longest chain leaves the tip.      *)
LEMMA AboveTipKeepsInv ==
  ASSUME SyncInv, NEW n \in Node, ReceiveAboveTip(n)
  PROVE  SyncInv'
<1> DEFINE headers == HeadersAt(n)
           K == KnownWith(headers)
           t == TipWith(headers)
           last == Last(headers)
<1>1. Adds(n) /\ ~ HasHeight(t, Depth[last]) /\ Throw(n, "undefined", K)
  BY DEF ReceiveAboveTip
<1>2. Receives(n) /\ last \in Header /\ StoreInv(K, t) /\ t \in {tip, last}
  BY <1>1, AddsKeepsStore
<1> HIDE DEF headers, K, t, last
<1>3. t = tip
  <2>1. Depth[last] \in Nat
    BY <1>2, DepthAssumption
  <2> QED
    BY <1>1, <1>2, <2>1 DEF HasHeight
<1>4. "undefined" \in Outcome \ {"none", "done"}
  BY DEF Outcome
<1> QED
  BY <1>1, <1>2, <1>3, <1>4, ThrowKeepsInv

(* A reply that added nothing leaves the tip.                              *)
LEMMA DuplicateKeepsInv ==
  ASSUME SyncInv, NEW n \in Node, ReceiveDuplicate(n)
  PROVE  SyncInv'
<1> DEFINE headers == HeadersAt(n)
           K == KnownWith(headers)
<1>1. /\ Adds(n) /\ TipWith(headers) = tip /\ EndPass(n, "duplicates", TRUE, K)
      /\ tipHash' = tipHash
  BY DEF ReceiveDuplicate, IsDuplicate
<1>2. Receives(n) /\ StoreInv(K, TipWith(headers))
  BY <1>1, AddsKeepsStore
<1> HIDE DEF headers, K
<1>3. inbox[n] # <<>> /\ passes[n] # <<>> /\ StoreInv(K, tip)
  BY <1>1, <1>2, HeadReply
<1>4. "duplicates" \in Outcome \ {"none"} /\ "duplicates" # "done" /\ TRUE \in BOOLEAN
  BY DEF Outcome
<1>5. tipHash' = [tipHash EXCEPT ![n] = tipHash'[n]] /\ tipHash'[n] \in Header
  BY <1>1, SameFunctions DEF SyncInv, PassOK
<1> QED
  BY <1>1, <1>3, <1>4, <1>5, EndPassKeepsInv

(* Nothing comes from the node: what holds of it stays.                    *)
LEMMA RemoteStays ==
  ASSUME SyncInv, TipKept, NEW n \in Node, inbox'[n] = inbox[n], remoteTip'[n] = remoteTip[n],
         request'[n] \subseteq Header, \A h \in request'[n] : NoBetter(h),
         outcome'[n] = "done" => outcome[n] = "done"
  PROVE  RemoteOK(n)'
<1>1. RemoteOK(n)
  BY DEF SyncInv
<1>2. \A h \in Header : NoBetter(h) => NoBetter(h)'
  BY NoBetterStays DEF SyncInv
<1>3. NoBetter(remoteTip[n]) => NoBetter(remoteTip[n])'
  BY RemoteTipStays
<1>4. \A i \in Nat : Covered(n, i) => Covered(n, i)'
  BY <1>3 DEF Covered
<1>5. \A h \in request'[n] : NoBetter(h)'
  BY <1>2
<1>6. outcome'[n] = "done" => Covered(n, 0)'
  BY <1>1, <1>4 DEF RemoteOK
<1>7. \A i \in 1..Len(inbox[n]) : inbox[n][i].command = "headers" =>
        /\ IsLinkedSeq(inbox[n][i].headers)
        /\ inbox[n][i].headers = <<>> => Covered(n, i)'
  BY <1>1, <1>4 DEF RemoteOK
<1>8. (Genesis \in ChainOf(remoteTip[n]))' <=> Genesis \in ChainOf(remoteTip'[n])
  BY DEF ChainOf
<1> QED
  BY <1>1, <1>5, <1>6, <1>7, <1>8 DEF RemoteOK

(* A message of the node is handled.                                       *)
LEMMA RemoteIsHandled ==
  ASSUME SyncInv, TipKept, NEW n \in Node, inbox[n] # <<>>,
         inbox'[n] = Tail(inbox[n]), remoteTip'[n] = remoteTip[n],
         request'[n] \subseteq Header, \A h \in request'[n] : NoBetter(h)',
         outcome'[n] = "done" => Covered(n, 0)'
  PROVE  RemoteOK(n)'
<1>1. remoteTip[n] \in Header /\ Genesis \in ChainOf(remoteTip[n])
  BY DEF SyncInv, RemoteOK
<1>2. (Genesis \in ChainOf(remoteTip[n]))' <=> Genesis \in ChainOf(remoteTip'[n])
  BY DEF ChainOf
<1>3. /\ inbox'[n] \in Seq(Message)
      /\ \A i \in 1..Len(inbox'[n]) : inbox'[n][i].command = "headers" =>
           /\ IsLinkedSeq(inbox'[n][i].headers)
           /\ inbox'[n][i].headers = <<>> => Covered(n, i)'
  BY MessageHandled
<1> QED
  BY <1>1, <1>2, <1>3 DEF RemoteOK

(* A connection on which something runs or is on its way is there.         *)
LEMMA HasSocket ==
  ASSUME SyncInv, NEW n \in Node,
         pc[n] = "asked" \/ request[n] # {} \/ inbox[n] # <<>> \/ connected[n] = "live"
  PROVE  status[n] \in {"testing", "open"}
BY DEF SyncInv, ConnectionOK

(* A reply that is added and asked on from.                                *)
LEMMA HeadersKeepInv ==
  ASSUME SyncInv, NEW n \in Node, ReceiveHeaders(n)
  PROVE  SyncInv'
<1> DEFINE K == KnownWith(HeadersAt(n))
           t == TipWith(HeadersAt(n))
           last == Last(HeadersAt(n))
<1>1. /\ Adds(n) /\ last \in K /\ known' = K /\ tip' = t
      /\ tipExtended' = (tipExtended \/ tip' # tip)
      /\ tipHash' = [tipHash EXCEPT ![n] = last]
      /\ AskFor(n, {last}) /\ Consume(n)
      /\ UNCHANGED <<clientVars, passes, waited, outcome, remoteTip>>
  BY DEF ReceiveHeaders, Adds
<1>2. /\ Receives(n) /\ last \in Header /\ StoreInv(K, t) /\ TotalWork[tip] <= TotalWork[t]
  BY <1>1, AddsKeepsStore
<1> HIDE DEF K, t, last
<1>3. inbox[n] # <<>> /\ passes[n] # <<>> /\ outcome[n] = "none"
  BY <1>2, HeadReply
<1>4. TipKept /\ tipExtended' \in BOOLEAN /\ nodesSyncingHeaders' \subseteq Node
  BY <1>1, <1>2 DEF TipKept, clientVars, SyncInv
<1>5. /\ pc' = [pc EXCEPT ![n] = "asked"] /\ from' = [from EXCEPT ![n] = {last}]
      /\ request' = [request EXCEPT ![n] = {last}]
      /\ inbox' = [inbox EXCEPT ![n] = Tail(inbox[n])]
      /\ status' = status /\ connected' = connected /\ passes' = passes
      /\ waited' = waited /\ outcome' = outcome /\ remoteTip' = remoteTip
  BY <1>1 DEF AskFor, Consume, clientVars
<1>6. /\ pc'[n] = "asked" /\ from'[n] = {last} /\ request'[n] = {last}
      /\ inbox'[n] = Tail(inbox[n]) /\ tipHash'[n] = last
  <2>1. pc'[n] = "asked" /\ from'[n] = {last}
    BY <1>5, NewValues
  <2>2. request'[n] = {last}
    BY <1>5, NewValues
  <2>3. inbox'[n] = Tail(inbox[n])
    BY <1>1, <1>5, NewValues
  <2>4. tipHash'[n] = last
    BY <1>1, <1>5, NewValues
  <2> QED
    BY <2>1, <2>2, <2>3, <2>4
<1>7. ChangesOnly(n)
  BY <1>1, <1>5, <1>6, SameFunctions DEF ChangesOnly
<1>8. PassOK(n) /\ ConnectionOK(n) /\ status[n] \in {"testing", "open"}
  BY <1>3, HasSocket DEF SyncInv
<1>9. PassOK(n)'
  BY <1>2, <1>3, <1>5, <1>6, <1>8 DEF PassOK
<1>10. ConnectionOK(n)'
  BY <1>5, <1>8 DEF ConnectionOK
<1>11. \A h \in request'[n] : NoBetter(h)'
  <2>1. (StoreInv(known, tip) => \A h \in known : h \in Header /\ NoBetter(h))'
    BY KnownIsNoBetter, PTL
  <2>2. StoreInv(known, tip)' /\ request'[n] \subseteq known'
    BY <1>1, <1>2, <1>6 DEF StoreInv
  <2> QED
    BY <2>1, <2>2
<1>12. RemoteOK(n)'
  BY <1>2, <1>3, <1>4, <1>5, <1>6, <1>11, RemoteIsHandled
<1> QED
  BY <1>4, <1>7, <1>9, <1>10, <1>12, NodeStep

(* A pass that stands back has added nothing: the reply is on our chain.   *)
LEMMA BehindKeepsInv ==
  ASSUME SyncInv, NEW n \in Node, ReceiveBehind(n)
  PROVE  SyncInv'
<1> DEFINE K == KnownWith(HeadersAt(n))
           last == Last(HeadersAt(n))
<1>1. /\ Adds(n) /\ OnChainOf(tip, last) /\ known' = K
      /\ tipHash' = [tipHash EXCEPT ![n] = last]
      /\ pc' = [pc EXCEPT ![n] = "sleeping"]
      /\ inbox' = [inbox EXCEPT ![n] = Tail(inbox[n])]
      /\ UNCHANGED <<tip, tipExtended, clientVars, passes, from, waited, outcome,
                     remoteTip, request>>
  BY DEF ReceiveBehind, IsBehind, Consume
<1>2. Receives(n) /\ last \in Header /\ (last \in known => K = known)
  BY <1>1, AddsKeepsStore
<1> HIDE DEF K, last
<1>3. inbox[n] # <<>> /\ passes[n] # <<>> /\ outcome[n] = "none"
  BY <1>2, HeadReply
<1>4. known' = known
  <2>1. /\ Depth[last] \in Nat /\ Depth[tip] \in Nat /\ Depth[last] <= Depth[tip]
        /\ ChainTo[tip][Depth[last] + 1] = last
    BY <1>1, <1>2, TipIsKnown, DepthAssumption DEF OnChainOf, HasHeight
  <2>2. ChainTo[tip] \in Seq(Header) /\ Len(ChainTo[tip]) = Depth[tip] + 1
    BY TipIsKnown, ChainShape
  <2>3. Depth[last] + 1 \in DOMAIN ChainTo[tip]
    BY <2>1, <2>2
  <2>4. last \in ChainOf(tip)
    BY <2>1, <2>3 DEF ChainOf, ToSet
  <2> QED
    BY <1>1, <1>2, <2>4, TipIsKnown
<1>5. TipKept /\ tipExtended' \in BOOLEAN /\ nodesSyncingHeaders' \subseteq Node
  BY <1>1, <1>4, SameDatabase DEF clientVars, SyncInv
<1>6. /\ tipHash'[n] = last /\ pc'[n] = "sleeping" /\ inbox'[n] = Tail(inbox[n])
      /\ status' = status /\ connected' = connected /\ passes' = passes /\ from' = from
      /\ waited' = waited /\ outcome' = outcome /\ remoteTip' = remoteTip
      /\ request' = request
  <2>1. tipHash'[n] = last
    BY <1>1, NewValues
  <2>2. pc'[n] = "sleeping" /\ inbox'[n] = Tail(inbox[n])
    BY <1>1, NewValues
  <2>3. /\ status' = status /\ connected' = connected /\ passes' = passes /\ from' = from
        /\ waited' = waited /\ outcome' = outcome /\ remoteTip' = remoteTip
        /\ request' = request
    BY <1>1 DEF clientVars
  <2> QED
    BY <2>1, <2>2, <2>3
<1>7. ChangesOnly(n)
  BY <1>1, <1>6, SameFunctions DEF ChangesOnly
<1>8. PassOK(n) /\ ConnectionOK(n) /\ RemoteOK(n) /\ status[n] \in {"testing", "open"}
  BY <1>3, HasSocket DEF SyncInv
<1>9. PassOK(n)'
  BY <1>2, <1>3, <1>6, <1>8 DEF PassOK
<1>10. ConnectionOK(n)'
  BY <1>6, <1>8 DEF ConnectionOK
<1>11. \A h \in request'[n] : NoBetter(h)'
  <2>1. \A h \in Header : NoBetter(h) => NoBetter(h)'
    BY <1>5, NoBetterStays DEF SyncInv
  <2> QED
    BY <1>6, <1>8, <2>1 DEF RemoteOK
<1>12. RemoteOK(n)'
  <2>1. request'[n] \subseteq Header
    BY <1>6, <1>8 DEF RemoteOK
  <2> QED
    BY <1>3, <1>5, <1>6, <1>11, <2>1, RemoteIsHandled
<1> QED
  BY <1>5, <1>7, <1>9, <1>10, <1>12, NodeStep

(* A pass that wakes up.                                                   *)
LEMMA WakeUpKeepsInv ==
  ASSUME SyncInv, NEW n \in Node, WakeUp(n)
  PROVE  SyncInv'
<1>1. /\ pc[n] = "sleeping"
      /\ pc' = [pc EXCEPT ![n] = "asked"] /\ from' = [from EXCEPT ![n] = Locator(tip)]
      /\ request' = [request EXCEPT ![n] = Locator(tip)]
      /\ waited' = [waited EXCEPT ![n] = TRUE]
      /\ tipHash' = [tipHash EXCEPT ![n] = Genesis]
      /\ UNCHANGED <<databaseVars, clientVars, passes, outcome, remoteTip, inbox>>
      /\ status[n] \in {"testing", "open"}
  BY DEF WakeUp, AskFor, IsThere
<1>2. /\ pc'[n] = "asked" /\ from'[n] = Locator(tip) /\ request'[n] = Locator(tip)
      /\ waited'[n] = TRUE /\ tipHash'[n] = Genesis
      /\ status' = status /\ connected' = connected /\ passes' = passes
      /\ outcome' = outcome /\ remoteTip' = remoteTip /\ inbox' = inbox
  <2>1. pc'[n] = "asked" /\ from'[n] = Locator(tip)
    BY <1>1, NewValues
  <2>2. request'[n] = Locator(tip)
    BY <1>1, NewValues
  <2>3. waited'[n] = TRUE /\ tipHash'[n] = Genesis
    BY <1>1, NewValues
  <2>4. /\ status' = status /\ connected' = connected /\ passes' = passes
        /\ outcome' = outcome /\ remoteTip' = remoteTip /\ inbox' = inbox
    BY <1>1 DEF clientVars
  <2> QED
    BY <2>1, <2>2, <2>3, <2>4
<1>3. TipKept /\ tipExtended' \in BOOLEAN /\ nodesSyncingHeaders' \subseteq Node
  BY <1>1, SameDatabase DEF databaseVars, clientVars, SyncInv
<1>4. ChangesOnly(n)
  BY <1>1, <1>2, SameFunctions DEF ChangesOnly
<1>5. PassOK(n) /\ ConnectionOK(n) /\ StoreInv(known, tip)
  BY DEF SyncInv
<1>6. Locator(tip) \subseteq Header /\ \A h \in Locator(tip) : NoBetter(h)
  BY <1>5, LocatorIsNoBetter
<1>7. PassOK(n)'
  BY <1>1, <1>2, <1>5, <1>6, HeaderAssumption DEF PassOK
<1>8. ConnectionOK(n)'
  BY <1>1, <1>2, <1>5 DEF ConnectionOK
<1>9. RemoteOK(n)'
  BY <1>2, <1>3, <1>6, RemoteStays
<1> QED
  BY <1>3, <1>4, <1>7, <1>8, <1>9, NodeStep

(* An announcement of a tip that is ours already covers nothing.           *)
LEMMA NewsOfOurTip ==
  ASSUME SyncInv, NEW n \in Node, IsNews(n), Head(inbox[n]).tip = tip, Covered(n, 0)
  PROVE  Covered(n, 1)
<1>1. inbox[n] \in Seq(Message) /\ inbox[n] # <<>> /\ inbox[n][1].tip = tip
  BY DEF SyncInv, RemoteOK, IsNews
<1>2. CASE NoBetter(remoteTip[n])
  BY <1>2 DEF Covered
<1>3. ASSUME NEW j \in 1..Len(inbox[n]), inbox[n][j].command = "inv",
             inbox[n][j].tip = remoteTip[n]
      PROVE  Covered(n, 1)
  <2>1. CASE j = 1
    <3>1. remoteTip[n] = tip
      BY <1>1, <1>3, <2>1
    <3>2. NoBetter(tip)
      BY KnownIsNoBetter DEF SyncInv
    <3> QED
      BY <3>1, <3>2 DEF Covered
  <2>2. CASE j # 1
    <3>1. j > 1
      BY <2>2
    <3> QED
      BY <1>3, <3>1 DEF Covered
  <2> QED
    BY <2>1, <2>2
<1> QED
  BY <1>2, <1>3 DEF Covered

(* A block_hashes event (BlockHeadersClient.ts): news of a tip that is not *)
(* ours is asked for.                                                      *)
LEMMA BlockHashesKeepsInv ==
  ASSUME SyncInv, NEW n \in Node, BlockHashes(n)
  PROVE  SyncInv'
<1>1. /\ IsNews(n) /\ inbox[n] # <<>> /\ inbox' = [inbox EXCEPT ![n] = Tail(inbox[n])]
      /\ UNCHANGED <<databaseVars, status, connected, tipHash, remoteTip>>
  BY DEF BlockHashes, Consume, IsNews
<1>2. inbox'[n] = Tail(inbox[n])
  BY <1>1, NewValues
<1>3. TipKept /\ tipExtended' \in BOOLEAN
  BY <1>1, SameDatabase DEF databaseVars, SyncInv
<1>4. /\ PassOK(n) /\ ConnectionOK(n) /\ RemoteOK(n) /\ StoreInv(known, tip)
      /\ status[n] \in {"testing", "open"}
  BY <1>1, HasSocket DEF SyncInv
<1>5. \A h \in Header : NoBetter(h) => NoBetter(h)'
  BY <1>3, <1>4, NoBetterStays
<1>6. /\ PassOK(n)' /\ nodesSyncingHeaders' \subseteq Node
      /\ request'[n] \subseteq Header /\ \A h \in request'[n] : NoBetter(h)
      /\ outcome'[n] = "done" => Covered(n, 1)
      /\ passes' = [passes EXCEPT ![n] = passes'[n]] /\ pc' = [pc EXCEPT ![n] = pc'[n]]
      /\ from' = [from EXCEPT ![n] = from'[n]] /\ waited' = [waited EXCEPT ![n] = waited'[n]]
      /\ tipHash' = [tipHash EXCEPT ![n] = tipHash'[n]]
      /\ outcome' = [outcome EXCEPT ![n] = outcome'[n]]
      /\ request' = [request EXCEPT ![n] = request'[n]]
  <2>1. CASE Head(inbox[n]).tip = tip
    <3>1. UNCHANGED <<nodesSyncingHeaders, passes, pc, from, request, waited, outcome>>
      BY <2>1 DEF BlockHashes
    <3>2. PassOK(n)'
      BY <1>1, <1>4, <3>1 DEF PassOK
    <3>3. outcome'[n] = "done" => Covered(n, 1)
      BY <1>1, <1>4, <2>1, <3>1, NewsOfOurTip DEF RemoteOK
    <3>4. nodesSyncingHeaders' \subseteq Node
      BY <3>1 DEF SyncInv
    <3> QED
      BY <1>1, <1>4, <3>1, <3>2, <3>3, <3>4, SameFunctions DEF RemoteOK
  <2>2. CASE Head(inbox[n]).tip # tip
    <3>1. SyncHeaders(n, "block_hashes") /\ "block_hashes" \in Caller /\ tipHash' = tipHash
      BY <1>1, <2>2 DEF BlockHashes, Caller
    <3> QED
      BY <3>1, CallEffect
  <2> QED
    BY <2>1, <2>2
<1>7. ChangesOnly(n)
  BY <1>1, <1>2, <1>6, SameFunctions DEF ChangesOnly
<1>8. ConnectionOK(n)'
  BY <1>1, <1>4 DEF ConnectionOK
<1>9. RemoteOK(n)'
  <2>1. Covered(n, 0 + 1) => Covered(n, 0)'
    BY <1>1, <1>2, <1>3, MessageHandled
  <2>2. outcome'[n] = "done" => Covered(n, 0)'
    BY <1>6, <2>1
  <2>3. \A h \in request'[n] : NoBetter(h)'
    BY <1>5, <1>6
  <2> QED
    BY <1>1, <1>2, <1>3, <1>6, <2>2, <2>3, RemoteIsHandled
<1> QED
  BY <1>3, <1>6, <1>7, <1>8, <1>9, NodeStep

(* A block_hashes event whose pass fails at once.                          *)
LEMMA BlockHashesThrowKeepsInv ==
  ASSUME SyncInv, NEW n \in Node, BlockHashesThrow(n)
  PROVE  SyncInv'
<1>1. /\ inbox[n] # <<>> /\ passes[n] = <<>> /\ Resume(n, {"block_hashes"}, known, tip)
      /\ tipHash' = [tipHash EXCEPT ![n] = Genesis]
      /\ outcome' = [outcome EXCEPT ![n] = "busy"]
      /\ inbox' = [inbox EXCEPT ![n] = Tail(inbox[n])]
      /\ UNCHANGED <<tipExtended, status, connected, passes, pc, from,
                     waited, remoteTip, request>>
  BY DEF BlockHashesThrow, Consume, IsNews
<1>2. tipHash'[n] = Genesis /\ outcome'[n] = "busy" /\ inbox'[n] = Tail(inbox[n])
  BY <1>1, NewValues
<1>3. TipKept /\ nodesSyncingHeaders' \subseteq Node /\ tipExtended' \in BOOLEAN
  BY <1>1, TipIsKnown, ResumeKeepsStore DEF SyncInv
<1>4. /\ PassOK(n) /\ ConnectionOK(n) /\ RemoteOK(n) /\ StoreInv(known, tip)
      /\ status[n] \in {"testing", "open"}
  BY <1>1, HasSocket DEF SyncInv
<1>5. ChangesOnly(n)
  BY <1>1, <1>2, SameFunctions DEF ChangesOnly
<1>6. PassOK(n)'
  <2>1. "busy" \in Outcome
    BY DEF Outcome
  <2> QED
    BY <1>1, <1>2, <1>4, <2>1, HeaderAssumption DEF PassOK
<1>7. ConnectionOK(n)'
  BY <1>1, <1>4 DEF ConnectionOK
<1>8. RemoteOK(n)'
  <2>1. \A h \in Header : NoBetter(h) => NoBetter(h)'
    BY <1>3, <1>4, NoBetterStays
  <2>2. request'[n] \subseteq Header /\ \A h \in request'[n] : NoBetter(h)'
    BY <1>1, <1>4, <2>1 DEF RemoteOK
  <2> QED
    BY <1>1, <1>2, <1>3, <2>2, RemoteIsHandled
<1> QED
  BY <1>3, <1>5, <1>6, <1>7, <1>8, NodeStep

----------------------------------------------------------------------------
(* Connections that come and go *)

(* A call on a connection that is there.                                   *)
LEMMA CallKeepsInv ==
  ASSUME SyncInv, NEW n \in Node, NEW caller \in Caller, SyncHeaders(n, caller),
         UNCHANGED <<databaseVars, connected, tipHash, remoteTip, inbox>>,
         status' = [status EXCEPT ![n] = "open"]
  PROVE  SyncInv'
<1>1. /\ PassOK(n)' /\ passes'[n] # <<>> /\ outcome'[n] = "none"
      /\ request'[n] \subseteq Header /\ \A h \in request'[n] : NoBetter(h)
      /\ nodesSyncingHeaders' \subseteq Node
      /\ passes' = [passes EXCEPT ![n] = passes'[n]] /\ pc' = [pc EXCEPT ![n] = pc'[n]]
      /\ from' = [from EXCEPT ![n] = from'[n]] /\ waited' = [waited EXCEPT ![n] = waited'[n]]
      /\ tipHash' = [tipHash EXCEPT ![n] = tipHash'[n]]
      /\ outcome' = [outcome EXCEPT ![n] = outcome'[n]]
      /\ request' = [request EXCEPT ![n] = request'[n]]
  BY CallEffect
<1>2. status'[n] = "open" /\ status' = [status EXCEPT ![n] = status'[n]]
  BY NewValues
<1>3. TipKept /\ tipExtended' \in BOOLEAN
  BY SameDatabase DEF databaseVars, SyncInv
<1>4. ChangesOnly(n)
  BY <1>1, <1>2, SameFunctions DEF ChangesOnly
<1>5. ConnectionOK(n)'
  BY <1>2 DEF ConnectionOK, SyncInv
<1>6. RemoteOK(n)'
  BY <1>1, <1>3, RemoteStays
<1> QED
  BY <1>1, <1>3, <1>4, <1>5, <1>6, NodeStep

(* Only the state of the connection changes.                               *)
LEMMA StatusKeepsInv ==
  ASSUME SyncInv, NEW n \in Node,
         UNCHANGED <<databaseVars, nodesSyncingHeaders, passes, pc, from, waited, outcome,
                     remoteTip, request, inbox>>,
         ChangesOnly(n), tipHash'[n] \in Header, ConnectionOK(n)'
  PROVE  SyncInv'
<1>1. PassOK(n) /\ RemoteOK(n) /\ nodesSyncingHeaders' \subseteq Node
  BY DEF SyncInv
<1>2. TipKept /\ tipExtended' \in BOOLEAN
  BY SameDatabase DEF databaseVars, SyncInv
<1>3. PassOK(n)'
  BY <1>1 DEF PassOK
<1>4. RemoteOK(n)'
  BY <1>1, <1>2, RemoteStays DEF RemoteOK
<1> QED
  BY <1>1, <1>2, <1>3, <1>4, NodeStep

(* A worker connects, or leaves a connection that it has tested.           *)
LEMMA ConnectKeepsInv ==
  ASSUME SyncInv, NEW n \in Node, Connect(n) \/ LeaveNewNode(n)
  PROVE  SyncInv'
<1>1. PICK new \in {"testing", "open"} : status' = [status EXCEPT ![n] = new]
  BY DEF Connect, LeaveNewNode
<1>2. UNCHANGED <<databaseVars, nodesSyncingHeaders, connected, passVars, remoteVars>>
  BY DEF Connect, LeaveNewNode
<1>3. status'[n] = new
  BY <1>1, NewValues
<1>4. ChangesOnly(n)
  BY <1>1, <1>2, <1>3, SameFunctions DEF ChangesOnly, passVars, remoteVars
<1>5. ConnectionOK(n)'
  BY <1>2, <1>3 DEF ConnectionOK, SyncInv
<1>6. tipHash'[n] \in Header
  BY <1>2 DEF passVars, SyncInv, PassOK
<1> QED
  BY <1>2, <1>4, <1>5, <1>6, StatusKeepsInv DEF passVars, remoteVars

(* A lost connection is given up.                                          *)
LEMMA GiveUpKeepsInv ==
  ASSUME SyncInv, NEW n \in Node, GiveUp(n)
  PROVE  SyncInv'
<1>1. /\ status[n] = "lost"
      /\ status' = [status EXCEPT ![n] = "none"]
      /\ connected' = [connected EXCEPT ![n] = "none"]
      /\ tipHash' = [tipHash EXCEPT ![n] = Genesis]
      /\ UNCHANGED <<databaseVars, nodesSyncingHeaders, passes, pc, from, waited, outcome,
                     remoteTip, request, inbox>>
  BY DEF GiveUp, remoteVars
<1>2. status'[n] = "none" /\ connected'[n] = "none" /\ tipHash'[n] = Genesis
  BY <1>1, NewValues
<1>3. ChangesOnly(n)
  BY <1>1, <1>2, SameFunctions DEF ChangesOnly
<1>4. ConnectionOK(n)'
  BY <1>1, <1>2 DEF ConnectionOK, SyncInv
<1> QED
  BY <1>1, <1>2, <1>3, <1>4, StatusKeepsInv, HeaderAssumption

(* A lost connection is taken up again.                                    *)
LEMMA ReconnectKeepsInv ==
  ASSUME SyncInv, NEW n \in Node, Reconnect(n)
  PROVE  SyncInv'
<1>1. /\ status' = [status EXCEPT ![n] = "open"]
      /\ UNCHANGED <<databaseVars, tipHash, remoteTip, inbox>>
  BY DEF Reconnect
<1>2. CASE tip # Genesis
  <2>1. SyncHeaders(n, "reconnect") /\ connected' = connected /\ "reconnect" \in Caller
    BY <1>2 DEF Reconnect, Caller
  <2> QED
    BY <1>1, <2>1, CallKeepsInv
<1>3. CASE tip = Genesis
  <2>1. /\ connected' = [connected EXCEPT ![n] = "live"]
        /\ UNCHANGED <<nodesSyncingHeaders, passes, pc, from, request, waited, outcome>>
    BY <1>3 DEF Reconnect
  <2>2. status'[n] = "open" /\ connected'[n] = "live"
    BY <1>1, <2>1, NewValues
  <2>3. ChangesOnly(n)
    BY <1>1, <2>1, <2>2, SameFunctions DEF ChangesOnly
  <2>4. ConnectionOK(n)'
    BY <2>2 DEF ConnectionOK
  <2>5. tipHash'[n] \in Header
    BY <1>1 DEF SyncInv, PassOK
  <2> QED
    BY <1>1, <2>1, <2>3, <2>4, <2>5, StatusKeepsInv
<1> QED
  BY <1>2, <1>3

(* A new node syncs for the first time.                                    *)
LEMMA SyncNewNodeKeepsInv ==
  ASSUME SyncInv, NEW n \in Node, SyncNewNode(n)
  PROVE  SyncInv'
<1>1. /\ status' = [status EXCEPT ![n] = "open"]
      /\ SyncHeaders(n, "test") /\ "test" \in Caller
      /\ UNCHANGED <<databaseVars, connected, tipHash, remoteTip, inbox>>
  BY DEF SyncNewNode, Caller
<1> QED
  BY <1>1, CallKeepsInv

(* A connection goes while its pass sleeps.                                *)
LEMMA LosesSleeperKeepsInv ==
  ASSUME SyncInv, NEW n \in Node, NEW newStatus \in {"none", "lost"},
         LosesSleeper(n, newStatus)
  PROVE  SyncInv'
<1>1. /\ pc[n] = "sleeping"
      /\ status' = [status EXCEPT ![n] = newStatus]
      /\ connected' = [connected EXCEPT ![n] = "none"]
      /\ request' = [request EXCEPT ![n] = {}]
      /\ inbox' = [inbox EXCEPT ![n] = <<>>]
      /\ UNCHANGED <<databaseVars, nodesSyncingHeaders, passes, pc, from, tipHash, waited,
                     outcome, remoteTip>>
  BY DEF LosesSleeper, passVars
<1>2. /\ status'[n] = newStatus /\ connected'[n] = "none"
      /\ request'[n] = {} /\ inbox'[n] = <<>>
  <2>1. status'[n] = newStatus /\ connected'[n] = "none"
    BY <1>1, NewValues
  <2>2. request'[n] = {} /\ inbox'[n] = <<>>
    BY <1>1, NewValues
  <2> QED
    BY <2>1, <2>2
<1>3. ChangesOnly(n)
  BY <1>1, <1>2, SameFunctions DEF ChangesOnly
<1>4. PassOK(n) /\ ConnectionOK(n) /\ RemoteOK(n) /\ nodesSyncingHeaders' \subseteq Node
  BY <1>1 DEF SyncInv
<1>5. TipKept /\ tipExtended' \in BOOLEAN
  BY <1>1, SameDatabase DEF databaseVars, SyncInv
<1>6. PassOK(n)'
  BY <1>1, <1>4 DEF PassOK
<1>7. outcome[n] = "none"
  BY <1>1, <1>4 DEF PassOK
<1>8. ConnectionOK(n)'
  BY <1>1, <1>2, <1>7 DEF ConnectionOK
<1>9. RemoteOK(n)'
  <2>1. inbox'[n] \in Seq(Message) /\ Len(inbox'[n]) = 0
    BY <1>2
  <2>2. (Genesis \in ChainOf(remoteTip[n]))' <=> Genesis \in ChainOf(remoteTip'[n])
    BY DEF ChainOf
  <2> QED
    BY <1>1, <1>2, <1>4, <1>7, <2>1, <2>2 DEF RemoteOK
<1> QED
  BY <1>3, <1>4, <1>5, <1>6, <1>8, <1>9, NodeStep

(* A connection goes.                                                      *)
LEMMA LosesSocketKeepsInv ==
  ASSUME SyncInv, NEW n \in Node, NEW newStatus \in {"none", "lost"},
         NEW result \in Outcome \ {"none", "done"}, LosesSocket(n, newStatus, result)
  PROVE  SyncInv'
<1>1. CASE LosesSleeper(n, newStatus)
  BY <1>1, LosesSleeperKeepsInv
<1>2. CASE EndConnection(n, newStatus, "none", result, known, tip) /\ UNCHANGED tipExtended
  <2>1. StoreInv(known, tip) /\ TotalWork[tip] <= TotalWork[tip]
    BY TipIsKnown
  <2>2. tipExtended' \in BOOLEAN /\ "none" \in {"none", "dead"}
    BY <1>2 DEF SyncInv
  <2> QED
    BY <1>2, <2>1, <2>2, EndConnectionKeepsInv
<1> QED
  BY <1>1, <1>2 DEF LosesSocket

(* A sleeping pass notices that its connection has gone.                   *)
LEMMA NoticeLossKeepsInv ==
  ASSUME SyncInv, NEW n \in Node, NoticeLoss(n)
  PROVE  SyncInv'
<1>1. /\ EndConnection(n, status[n], "none", "disconnected", known, tip)
      /\ UNCHANGED tipExtended /\ status[n] \in {"none", "lost"}
  BY DEF NoticeLoss, IsThere, SyncInv, ConnectionOK
<1>2. StoreInv(known, tip) /\ TotalWork[tip] <= TotalWork[tip]
  BY TipIsKnown
<1>3. tipExtended' \in BOOLEAN /\ "none" \in {"none", "dead"}
  BY <1>1 DEF SyncInv
<1>4. "disconnected" \in Outcome \ {"none", "done"}
  BY DEF Outcome
<1> QED
  BY <1>1, <1>2, <1>3, <1>4, EndConnectionKeepsInv

(* A node on a chain with an invalid block is left, and connections fail.  *)
LEMMA CloseKeepsInv ==
  ASSUME SyncInv, NEW n \in Node, RejectNewNode(n) \/ Disconnect(n)
  PROVE  SyncInv'
<1>1. {"invalid_blocks", "disconnected"} \subseteq Outcome \ {"none", "done"}
  BY DEF Outcome
<1>2. CASE RejectNewNode(n)
  BY <1>1, <1>2, LosesSocketKeepsInv DEF RejectNewNode
<1>3. CASE Disconnect(n)
  <2>1. PICK new \in {"none", "lost"} : LosesSocket(n, new, "disconnected")
    BY <1>3 DEF Disconnect
  <2> QED
    BY <1>1, <2>1, LosesSocketKeepsInv
<1> QED
  BY <1>2, <1>3

----------------------------------------------------------------------------
(* The remote nodes, and the monitor *)

(* The node sends a message.                                               *)
LEMMA MessageSent ==
  ASSUME NEW queue \in Seq(Message), NEW m \in Message
  PROVE  /\ Append(queue, m) \in Seq(Message) /\ Len(queue) \in Nat
         /\ Len(Append(queue, m)) = Len(queue) + 1 /\ Append(queue, m)[Len(queue) + 1] = m
         /\ \A i \in 1..Len(queue) : Append(queue, m)[i] = queue[i]
OBVIOUS

(* A node that has adopted a heavier chain announces it after all that it  *)
(* has sent, if it is connected.                                           *)
LEMMA RemoteTipMovesKeepsInv ==
  ASSUME SyncInv, NEW n \in Node, RemoteTipMoves(n)
  PROVE  SyncInv'
<1>1. PICK t \in RemoteTips[n] :
        /\ remoteTip' = [remoteTip EXCEPT ![n] = t]
        /\ inbox' = IF status[n] \in {"testing", "open"}
                    THEN [inbox EXCEPT ![n] = Append(inbox[n], [command |-> "inv", tip |-> t])]
                    ELSE inbox
        /\ UNCHANGED <<databaseVars, clientVars, passVars, request>>
  BY DEF RemoteTipMoves, IsThere
<1>2. /\ status' = status /\ connected' = connected /\ passes' = passes /\ pc' = pc
      /\ from' = from /\ tipHash' = tipHash /\ waited' = waited /\ outcome' = outcome
      /\ request' = request /\ nodesSyncingHeaders' = nodesSyncingHeaders
      /\ known' = known /\ tip' = tip /\ tipExtended' = tipExtended
  BY <1>1 DEF databaseVars, clientVars, passVars
<1>3. PassOK(n) /\ ConnectionOK(n) /\ RemoteOK(n) /\ StoreInv(known, tip)
  BY DEF SyncInv
<1>4. TipKept /\ tipExtended' \in BOOLEAN /\ nodesSyncingHeaders' \subseteq Node
  BY <1>2, SameDatabase DEF SyncInv
<1>5. t \in Header /\ Genesis \in ChainOf(t)
  <2>1. t \in Header /\ ChainTo[t][1] = Genesis
    BY SyncAssumption
  <2>2. ChainTo[t] \in Seq(Header) /\ Len(ChainTo[t]) > 0
    BY <2>1, ChainShape
  <2>3. 1 \in DOMAIN ChainTo[t]
    BY <2>2
  <2> QED
    BY <2>1, <2>3 DEF ChainOf, ToSet
<1>6. remoteTip'[n] = t
  BY <1>1, NewValues
<1>7. (Genesis \in ChainOf(remoteTip[n]))' <=> Genesis \in ChainOf(remoteTip'[n])
  BY DEF ChainOf
<1>8. \A h \in request'[n] : NoBetter(h)'
  <2>1. \A h \in Header : NoBetter(h) => NoBetter(h)'
    BY <1>3, <1>4, NoBetterStays
  <2> QED
    BY <1>2, <1>3, <2>1 DEF RemoteOK
<1>9. PassOK(n)'
  BY <1>2, <1>3 DEF PassOK
<1>10. CASE status[n] \in {"testing", "open"}
  <2> DEFINE m == [command |-> "inv", tip |-> t]
             queue == inbox[n]
             sent == Append(queue, m)
  <2>1. m \in Message /\ m.command = "inv" /\ m.tip = t
    BY <1>5 DEF Message
  <2>2. queue \in Seq(Message)
    BY <1>3 DEF RemoteOK
  <2>3. /\ sent \in Seq(Message) /\ Len(queue) \in Nat
        /\ Len(sent) = Len(queue) + 1 /\ sent[Len(queue) + 1] = m
        /\ \A i \in 1..Len(queue) : sent[i] = queue[i]
    BY <2>1, <2>2, MessageSent
  <2>4. inbox' = [inbox EXCEPT ![n] = sent]
    BY <1>1, <1>10
  <2> HIDE DEF sent, m
  <2>5. inbox'[n] = sent /\ inbox' = [inbox EXCEPT ![n] = inbox'[n]]
    BY <2>4, NewValues
  <2>6. ChangesOnly(n)
    BY <1>1, <1>2, <1>6, <2>5, SameFunctions DEF ChangesOnly
  <2>7. ConnectionOK(n)'
    BY <1>2, <1>3, <1>10 DEF ConnectionOK
  <2>8. \A i \in 0..Len(queue) : Covered(n, i)'
    <3>1. Len(queue) + 1 \in 1..Len(sent)
      BY <2>3
    <3>2. \A i \in 0..Len(queue) : Len(queue) + 1 > i
      BY <2>3
    <3> QED
      BY <1>6, <2>1, <2>3, <2>5, <3>1, <3>2 DEF Covered
  <2>9. ASSUME NEW i \in 1..Len(inbox'[n]), inbox'[n][i].command = "headers"
        PROVE  /\ IsLinkedSeq(inbox'[n][i].headers)
               /\ inbox'[n][i].headers = <<>> => Covered(n, i)'
    <3>1. i \in 1..Len(queue)
      BY <2>1, <2>3, <2>5, <2>9
    <3>2. inbox'[n][i] = queue[i] /\ i \in 0..Len(queue)
      BY <2>3, <2>5, <3>1
    <3>3. IsLinkedSeq(queue[i].headers)
      BY <1>3, <2>9, <3>1, <3>2 DEF RemoteOK
    <3> QED
      BY <2>8, <3>2, <3>3
  <2>10. Covered(n, 0)'
    BY <2>3, <2>8
  <2>11. RemoteOK(n)'
    BY <1>2, <1>3, <1>5, <1>6, <1>7, <1>8, <2>3, <2>5, <2>9, <2>10 DEF RemoteOK
  <2> QED
    BY <1>4, <1>9, <2>6, <2>7, <2>11, NodeStep
<1>11. CASE ~ (status[n] \in {"testing", "open"})
  <2>1. inbox' = inbox /\ inbox[n] = <<>> /\ outcome[n] # "done"
    BY <1>1, <1>3, <1>11 DEF ConnectionOK
  <2>2. ChangesOnly(n)
    BY <1>1, <1>2, <1>6, <2>1, SameFunctions DEF ChangesOnly
  <2>3. ConnectionOK(n)'
    BY <1>2, <1>3, <2>1 DEF ConnectionOK
  <2>4. Len(inbox'[n]) = 0 /\ inbox'[n] \in Seq(Message)
    BY <2>1
  <2>5. RemoteOK(n)'
    BY <1>2, <1>3, <1>5, <1>6, <1>7, <1>8, <2>1, <2>4 DEF RemoteOK
  <2> QED
    BY <1>4, <1>9, <2>2, <2>3, <2>5, NodeStep
<1> QED
  BY <1>10, <1>11

(* A node that answers.                                                    *)
LEMMA RemoteRepliesKeepsInv ==
  ASSUME SyncInv, NEW n \in Node, RemoteReplies(n)
  PROVE  SyncInv'
<1> DEFINE m == [command |-> "headers", headers |-> Reply(n)]
           queue == inbox[n]
           sent == Append(queue, m)
<1>1. /\ request[n] # {} /\ request' = [request EXCEPT ![n] = {}]
      /\ inbox' = [inbox EXCEPT ![n] = sent]
      /\ UNCHANGED <<databaseVars, clientVars, passVars, remoteTip>>
  BY DEF RemoteReplies
<1>2. /\ status' = status /\ connected' = connected /\ passes' = passes /\ pc' = pc
      /\ from' = from /\ tipHash' = tipHash /\ waited' = waited /\ outcome' = outcome
      /\ remoteTip' = remoteTip /\ nodesSyncingHeaders' = nodesSyncingHeaders
      /\ known' = known /\ tip' = tip /\ tipExtended' = tipExtended
  BY <1>1 DEF databaseVars, clientVars, passVars
<1>3. /\ PassOK(n) /\ ConnectionOK(n) /\ RemoteOK(n) /\ StoreInv(known, tip)
      /\ status[n] \in {"testing", "open"}
  BY <1>1, HasSocket DEF SyncInv
<1>4. TipKept /\ tipExtended' \in BOOLEAN /\ nodesSyncingHeaders' \subseteq Node
  BY <1>2, SameDatabase DEF SyncInv
<1>5. /\ Reply(n) \in Seq(Header) /\ IsLinkedSeq(Reply(n))
      /\ Reply(n) = <<>> => NoBetter(remoteTip[n])
  BY ReplyIsLinked
<1>6. m \in Message /\ m.command = "headers" /\ m.headers = Reply(n)
  BY <1>5 DEF Message
<1>7. queue \in Seq(Message)
  BY <1>3 DEF RemoteOK
<1>8. /\ sent \in Seq(Message) /\ Len(queue) \in Nat
      /\ Len(sent) = Len(queue) + 1 /\ sent[Len(queue) + 1] = m
      /\ \A i \in 1..Len(queue) : sent[i] = queue[i]
  BY <1>6, <1>7, MessageSent
<1> HIDE DEF sent, m
<1>9. request'[n] = {} /\ inbox'[n] = sent
  BY <1>1, NewValues
<1>10. ChangesOnly(n)
  BY <1>1, <1>2, <1>9, SameFunctions DEF ChangesOnly
<1>11. PassOK(n)'
  BY <1>2, <1>3 DEF PassOK
<1>12. ConnectionOK(n)'
  BY <1>2, <1>3 DEF ConnectionOK
<1>13. NoBetter(remoteTip[n]) => NoBetter(remoteTip[n])'
  BY <1>2 DEF NoBetter, IsValid, ChainOf
<1>14. ASSUME NEW i \in 0..Len(queue), Covered(n, i)
       PROVE  Covered(n, i)'
  <2>1. CASE NoBetter(remoteTip[n])
    BY <1>13, <2>1 DEF Covered
  <2>2. ASSUME NEW j \in 1..Len(queue), j > i, queue[j].command = "inv",
               queue[j].tip = remoteTip[n]
        PROVE  Covered(n, i)'
    <3>1. j \in 1..Len(sent) /\ sent[j] = queue[j]
      BY <1>8
    <3> QED
      BY <1>2, <1>9, <2>2, <3>1 DEF Covered
  <2> QED
    BY <1>14, <2>1, <2>2 DEF Covered
<1>15. ASSUME NEW i \in 1..Len(sent), sent[i].command = "headers"
       PROVE  IsLinkedSeq(sent[i].headers) /\ (sent[i].headers = <<>> => Covered(n, i)')
  <2>1. CASE i = Len(queue) + 1
    <3>1. sent[i].headers = Reply(n)
      BY <1>6, <1>8, <2>1
    <3>2. Reply(n) = <<>> => Covered(n, i)'
      BY <1>5, <1>13 DEF Covered
    <3> QED
      BY <1>5, <3>1, <3>2
  <2>2. CASE i # Len(queue) + 1
    <3>1. i \in 1..Len(queue) /\ i \in 0..Len(queue) /\ sent[i] = queue[i]
      BY <1>8, <2>2
    <3>2. IsLinkedSeq(queue[i].headers) /\ (queue[i].headers = <<>> => Covered(n, i))
      BY <1>3, <1>15, <3>1 DEF RemoteOK
    <3> QED
      BY <1>14, <3>1, <3>2
  <2> QED
    BY <2>1, <2>2
<1>16. RemoteOK(n)'
  <2>1. outcome'[n] = "done" => Covered(n, 0)'
    <3>1. 0 \in 0..Len(queue)
      BY <1>8
    <3> QED
      BY <1>2, <1>3, <1>14, <3>1 DEF RemoteOK
  <2>2. request'[n] \subseteq Header /\ \A h \in request'[n] : NoBetter(h)'
    BY <1>9
  <2>3. (Genesis \in ChainOf(remoteTip[n]))' <=> Genesis \in ChainOf(remoteTip'[n])
    BY DEF ChainOf
  <2>4. remoteTip'[n] \in Header /\ Genesis \in ChainOf(remoteTip'[n])
    BY <1>2, <1>3 DEF RemoteOK
  <2>5. inbox'[n] \in Seq(Message)
    BY <1>8, <1>9
  <2>6. \A i \in 1..Len(inbox'[n]) : inbox'[n][i].command = "headers" =>
          /\ IsLinkedSeq(inbox'[n][i].headers)
          /\ inbox'[n][i].headers = <<>> => Covered(n, i)'
    BY <1>9, <1>15
  <2> QED
    BY <2>1, <2>2, <2>3, <2>4, <2>5, <2>6 DEF RemoteOK
<1> QED
  BY <1>4, <1>10, <1>11, <1>12, <1>16, NodeStep

(* The health monitor calls all that are connected.                        *)
LEMMA MonitorSyncKeepsInv ==
  ASSUME SyncInv, MonitorSync
  PROVE  SyncInv'
<1> DEFINE live == {n \in Node : connected[n] = "live"}
           dead == {n \in Node : connected[n] = "dead"}
           idle == {n \in live : passes[n] = <<>>}
<1>1. /\ nodesSyncingHeaders' = (nodesSyncingHeaders \cup live) \ dead
      /\ known' = (IF nodesSyncingHeaders' = {} THEN ChainOf(tip) ELSE known)
      /\ passes' = [n \in Node |->
                      IF n \in live THEN QueueWith(passes[n], "monitor") ELSE passes[n]]
      /\ pc' = [n \in Node |-> IF n \in idle THEN "asked" ELSE pc[n]]
      /\ from' = [n \in Node |-> IF n \in idle THEN Locator(tip) ELSE from[n]]
      /\ request' = [n \in Node |-> IF n \in idle THEN Locator(tip) ELSE request[n]]
      /\ outcome' = [n \in Node |-> IF n \in idle THEN "none" ELSE outcome[n]]
      /\ UNCHANGED <<tip, tipExtended, status, connected, tipHash, waited,
                     remoteTip, inbox>>
  BY DEF MonitorSync
<1>2. live \subseteq Node /\ idle \subseteq live
  OBVIOUS
<1>3. \A n \in Node : n \in live <=> connected[n] = "live"
  OBVIOUS
<1>4. \A n \in live : n \in idle <=> passes[n] = <<>>
  OBVIOUS
<1> HIDE DEF live, idle, dead
<1>5. StoreInv(known, tip) /\ nodesSyncingHeaders' \subseteq Node /\ tipExtended' \in BOOLEAN
  BY <1>1, <1>2 DEF SyncInv
<1>6. TipKept
  <2>1. known' = ChainOf(tip) \/ known' = known
    BY <1>1
  <2> QED
    BY <1>1, <1>5, <2>1, PruneKeepsStore, TipIsKnown DEF TipKept
<1>7. AreFunctions'
  BY <1>1 DEF SyncInv, AreFunctions
<1>8. Locator(tip) \subseteq Header /\ \A h \in Locator(tip) : NoBetter(h)
  BY <1>5, LocatorIsNoBetter
<1>9. ASSUME NEW n \in Node
      PROVE  PassOK(n)' /\ ConnectionOK(n)' /\ RemoteOK(n)'
  <2>1. PassOK(n) /\ ConnectionOK(n) /\ RemoteOK(n)
    BY DEF SyncInv
  <2>2. /\ status'[n] = status[n] /\ connected'[n] = connected[n] /\ tipHash'[n] = tipHash[n]
        /\ waited'[n] = waited[n] /\ remoteTip'[n] = remoteTip[n] /\ inbox'[n] = inbox[n]
    BY <1>1
  <2>3. CASE n \notin live
    <3>1. /\ passes'[n] = passes[n] /\ pc'[n] = pc[n] /\ from'[n] = from[n]
          /\ outcome'[n] = outcome[n] /\ request'[n] = request[n]
      BY <1>1, <1>2, <2>3
    <3> QED
      BY <1>6, <2>2, <3>1, OtherNode
  <2>4. CASE n \in live
    <3> DEFINE queue == QueueWith(passes[n], "monitor")
    <3>1. "monitor" \in Caller
      BY DEF Caller
    <3>2. queue \in Seq(SUBSET Caller) /\ Len(queue) <= 2 /\ queue # <<>>
      BY <2>1, <3>1, QueueHasAPass DEF PassOK
    <3>3. passes'[n] = queue
      BY <1>1, <2>4
    <3> HIDE DEF queue
    <3>4. status[n] \in {"testing", "open"}
      BY <1>3, <2>4, HasSocket
    <3>5. ConnectionOK(n)'
      BY <2>1, <2>2, <3>4 DEF ConnectionOK
    <3>6. CASE n \in idle
      <4>1. /\ pc'[n] = "asked" /\ from'[n] = Locator(tip)
            /\ outcome'[n] = "none" /\ request'[n] = Locator(tip)
        BY <1>1, <3>6
      <4>2. PassOK(n)'
        BY <1>8, <2>1, <2>2, <3>2, <3>3, <4>1 DEF PassOK, Outcome
      <4>3. RemoteOK(n)'
        BY <1>6, <1>8, <2>2, <4>1, RemoteStays
      <4> QED
        BY <3>5, <4>2, <4>3
    <3>7. CASE n \notin idle
      <4>1. /\ pc'[n] = pc[n] /\ from'[n] = from[n]
            /\ outcome'[n] = outcome[n] /\ request'[n] = request[n]
        BY <1>1, <3>7
      <4>2. passes[n] # <<>> /\ outcome[n] = "none"
        BY <1>4, <2>1, <2>4, <3>7 DEF PassOK
      <4>3. PassOK(n)'
        BY <2>1, <2>2, <3>2, <3>3, <4>1, <4>2 DEF PassOK
      <4>4. RemoteOK(n)'
        BY <1>6, <2>1, <2>2, <4>1, <4>2, RemoteStays DEF RemoteOK
      <4> QED
        BY <3>5, <4>3, <4>4
    <3> QED
      BY <3>6, <3>7
  <2> QED
    BY <2>3, <2>4
<1> QED
  BY <1>5, <1>6, <1>7, <1>9 DEF SyncInv, TipKept

----------------------------------------------------------------------------
(* The invariant holds *)

(* What is loaded from disk is a valid chain from genesis.                 *)
LEMMA InitSync == Init => SyncInv
<1> SUFFICES ASSUME Init
             PROVE  SyncInv
  OBVIOUS
<1> USE DEF Init
<1>1. tip \in StartTips /\ known = ChainOf(tip)
  OBVIOUS
<1>2. tip \in Header /\ ChainOf(tip) \cap InvalidBlocks = {} /\ ChainTo[tip][1] = Genesis
  BY <1>1, SyncAssumption DEF ChainOf
<1>3. StoreInv(known, tip)
  <2>1. /\ ChainTo[tip] \in Seq(Header) /\ Len(ChainTo[tip]) > 0
        /\ ChainTo[tip][Len(ChainTo[tip])] = tip /\ IsLinkedSeq(ChainTo[tip])
    BY <1>2, ChainShape
  <2>2. Genesis \in ChainOf(tip)
    <3>1. 1 \in DOMAIN ChainTo[tip]
      BY <2>1
    <3> QED
      BY <1>2, <3>1 DEF ChainOf, ToSet
  <2>3. /\ ChainOf(tip) \subseteq Header /\ tip \in ChainOf(tip)
        /\ \A k \in ChainOf(tip) \ {Genesis} : Parent[k] \in ChainOf(tip)
    BY <1>2, <2>2, ChainIsClosed
  <2>4. \A h \in ChainOf(tip) : TotalWork[h] <= TotalWork[tip]
    <3>1. \A h \in ChainOf(tip) : \E i \in 1..Len(ChainTo[tip]) : h = ChainTo[tip][i]
      BY <2>1 DEF ChainOf, ToSet
    <3>2. /\ Len(ChainTo[tip]) \in 1..Len(ChainTo[tip])
          /\ \A i \in 1..Len(ChainTo[tip]) : i <= Len(ChainTo[tip])
      BY <2>1
    <3>3. \A i \in 1..Len(ChainTo[tip]) :
            TotalWork[ChainTo[tip][i]] <= TotalWork[ChainTo[tip][Len(ChainTo[tip])]]
      BY <2>1, <3>2, LinkedIsHeavier
    <3> QED
      BY <2>1, <3>1, <3>3
  <2> QED
    BY <1>1, <1>2, <2>2, <2>3, <2>4 DEF StoreInv
<1>4. Genesis \in Header /\ Genesis \in ChainOf(Genesis)
  BY ChainOfEquation, HeaderAssumption
<1>5. AreFunctions
  BY DEF AreFunctions
<1>6. ASSUME NEW n \in Node
      PROVE  PassOK(n) /\ ConnectionOK(n) /\ RemoteOK(n)
  <2>1. PassOK(n)
    BY <1>4 DEF PassOK, Outcome
  <2>2. ConnectionOK(n)
    BY DEF ConnectionOK
  <2>3. RemoteOK(n)
    BY <1>4 DEF RemoteOK
  <2> QED
    BY <2>1, <2>2, <2>3
<1> QED
  BY <1>3, <1>5, <1>6 DEF SyncInv

(* Every step keeps the invariant.                                         *)
LEMMA NextKeepsInv ==
  ASSUME SyncInv, [Next]_vars
  PROVE  SyncInv'
<1>1. CASE UNCHANGED vars
  <2>1. /\ UNCHANGED <<known, tip, tipExtended, nodesSyncingHeaders>>
        /\ UNCHANGED <<status, connected, passes, pc, from, tipHash, waited, outcome>>
        /\ UNCHANGED <<remoteTip, request, inbox>>
    BY <1>1 DEF vars, databaseVars, clientVars, passVars, remoteVars
  <2>2. TipKept
    BY <2>1, TipIsKnown DEF TipKept
  <2>3. \A n \in Node : PassOK(n)' /\ ConnectionOK(n)' /\ RemoteOK(n)'
    BY <2>1, <2>2, OtherNode
  <2>4. AreFunctions'
    BY <2>1 DEF SyncInv, AreFunctions
  <2> QED
    BY <2>1, <2>2, <2>3, <2>4 DEF SyncInv, TipKept
<1>2. CASE MonitorSync
  BY <1>2, MonitorSyncKeepsInv
<1>3. ASSUME NEW n \in Node, PassStep(n)
      PROVE  SyncInv'
  <2>1. CASE ReceiveReply(n)
    BY <2>1, NothingKeepsInv, DropKeepsInv, OutOfOrderKeepsInv, AboveTipKeepsInv,
       DuplicateKeepsInv, HeadersKeepInv, BehindKeepsInv DEF ReceiveReply
  <2> QED
    BY <1>3, <2>1, RemoteRepliesKeepsInv, BlockHashesKeepsInv, WakeUpKeepsInv,
       NoticeLossKeepsInv DEF PassStep
<1>4. ASSUME NEW n \in Node, ConnectionStep(n)
      PROVE  SyncInv'
  BY <1>4, ConnectKeepsInv, SyncNewNodeKeepsInv, CloseKeepsInv, BlockHashesThrowKeepsInv,
     ReconnectKeepsInv, GiveUpKeepsInv DEF ConnectionStep
<1>5. ASSUME NEW n \in Node, RemoteTipMoves(n)
      PROVE  SyncInv'
  BY <1>5, RemoteTipMovesKeepsInv
<1> QED
  BY <1>1, <1>2, <1>3, <1>4, <1>5 DEF Next

----------------------------------------------------------------------------
(* The theorems *)

(* In every state memory holds valid chains from genesis of which none is  *)
(* heavier than the tip, a connection has its passes in order, and a node  *)
(* that has answered with nothing has nothing better, or has announced it  *)
(* since (LegacyNodeConnection.ts syncHeaders and _syncHeaders).           *)
THEOREM SyncInvHolds == Spec => []SyncInv
<1>1. SyncInv /\ [Next]_vars => SyncInv'
  BY NextKeepsInv
<1> QED
  BY <1>1, InitSync, PTL DEF Spec

(* The types: among them that a connection never has more than the pass    *)
(* that runs and the one that is queued, and one that runs has its caller. *)
THEOREM SyncTypes == Spec => []TypeOK
<1>1. ASSUME SyncInv
      PROVE  TypeOK
  <2>1. AreFunctions /\ StoreInv(known, tip)
        /\ \A n \in Node : PassOK(n) /\ ConnectionOK(n) /\ RemoteOK(n)
    BY <1>1 DEF SyncInv
  <2>2. /\ status \in [Node -> {"none", "testing", "open", "lost"}]
        /\ connected \in [Node -> {"none", "live", "dead"}]
    BY <2>1 DEF AreFunctions, ConnectionOK
  <2>3. /\ passes \in [Node -> Seq(SUBSET Caller)]
        /\ pc \in [Node -> {"idle", "asked", "sleeping"}]
        /\ from \in [Node -> SUBSET Header]
        /\ tipHash \in [Node -> Header]
        /\ waited \in [Node -> BOOLEAN]
        /\ outcome \in [Node -> Outcome]
    BY <2>1 DEF AreFunctions, PassOK
  <2>4. /\ remoteTip \in [Node -> Header]
        /\ request \in [Node -> SUBSET Header]
        /\ inbox \in [Node -> Seq(Message)]
    BY <2>1 DEF AreFunctions, RemoteOK
  <2>5. \A n \in Node : Len(passes[n]) <= 2 /\ (pc[n] = "idle" <=> passes[n] = <<>>)
    BY <2>1 DEF PassOK
  <2>6. known \subseteq Header /\ {tip} \subseteq known
    BY <2>1 DEF StoreInv
  <2> QED
    BY <1>1, <2>2, <2>3, <2>4, <2>5, <2>6 DEF SyncInv, TypeOK
<1> QED
  BY <1>1, SyncInvHolds, PTL

(* A pass that a node ended with an empty reply has caught up with it,     *)
(* whatever the node adopted, and whatever was pruned, meanwhile.          *)
THEOREM SyncCatchesUp == Spec => []CatchesUp
<1>1. ASSUME SyncInv
      PROVE  CatchesUp
  <2> SUFFICES ASSUME NEW n \in Node, Quiet(n), outcome[n] = "done"
               PROVE  TotalWork[remoteTip[n]] <= TotalWork[tip]
    BY DEF CatchesUp
  <2>1. Covered(n, 0) /\ inbox[n] = <<>>
    BY <1>1 DEF SyncInv, RemoteOK, Quiet
  <2> QED
    BY <2>1 DEF Covered, NoBetter
<1> QED
  BY <1>1, SyncInvHolds, PTL

(* And no node that it has caught up with is on a chain with an invalid    *)
(* block.                                                                  *)
THEOREM SyncLeavesInvalidChains == Spec => []InvalidChainsAreLeft
<1>1. ASSUME SyncInv
      PROVE  InvalidChainsAreLeft
  <2> SUFFICES ASSUME NEW n \in Node, Quiet(n), outcome[n] = "done"
               PROVE  ChainOf(remoteTip[n]) \cap InvalidBlocks = {}
    BY DEF InvalidChainsAreLeft
  <2>1. Covered(n, 0) /\ inbox[n] = <<>>
    BY <1>1 DEF SyncInv, RemoteOK, Quiet
  <2> QED
    BY <2>1 DEF Covered, NoBetter, IsValid
<1> QED
  BY <1>1, SyncInvHolds, PTL

(* How a pass ends is noted for its node, and only an empty reply ends one *)
(* as out of sync.                                                         *)
EndsAs(n) ==
  \E result \in Outcome :
    /\ outcome' = [outcome EXCEPT ![n] = result]
    /\ result = "out_of_sync" => ReceiveOutOfSync(n)

(* A pass that throws, and one whose connection is destroyed, end as said. *)
LEMMA EndedAs ==
  ASSUME NEW n \in Node, NEW result \in Outcome \ {"out_of_sync"}, NEW K, NEW t, NEW passed,
         \/ EndPass(n, result, passed, K)
         \/ Throw(n, result, K)
         \/ Destroyed(n, result, K, t)
  PROVE  EndsAs(n)
<1>1. outcome' = [outcome EXCEPT ![n] = result] \/ outcome' = [outcome EXCEPT ![n] = "none"]
  BY DEF EndPass, Throw, Destroyed, EndConnection, Begin
<1>2. "none" \in Outcome /\ "none" # "out_of_sync"
  BY DEF Outcome
<1> QED
  BY <1>1, <1>2 DEF EndsAs

(* So does every step that ends a pass.                                    *)
LEMMA OutcomeIsNoted ==
  ASSUME SyncInv, Next
  PROVE  \/ outcome' = outcome
         \/ \E n \in Node : EndsAs(n)
         \/ \A n \in Node : outcome'[n] \in {"none", outcome[n]}
<1> DEFINE Noted == \/ outcome' = outcome
                    \/ \E n \in Node : EndsAs(n)
                    \/ \A n \in Node : outcome'[n] \in {"none", outcome[n]}
<1>1. {"none", "done", "duplicates", "invalid_blocks", "out_of_order", "undefined", "busy",
       "disconnected"} \subseteq Outcome \ {"out_of_sync"}
  BY DEF Outcome
<1>2. \A n \in Node, result \in Outcome \ {"out_of_sync"} :
        outcome' = [outcome EXCEPT ![n] = result] => EndsAs(n)
  BY DEF EndsAs
<1>3. \A n \in Node, caller \in Caller :
        SyncHeaders(n, caller) => outcome' = outcome \/ EndsAs(n)
  <2>1. \A n \in Node, caller \in Caller :
          SyncHeaders(n, caller) => outcome' = outcome
                                    \/ outcome' = [outcome EXCEPT ![n] = "none"]
    BY DEF SyncHeaders, Begin
  <2> QED
    BY <1>1, <1>2, <2>1
<1>4. CASE MonitorSync
  <2>1. \A n \in Node : outcome'[n] \in {"none", outcome[n]}
    BY <1>4 DEF MonitorSync
  <2> QED
    BY <2>1
<1>5. ASSUME NEW n \in Node, ReceiveReply(n)
      PROVE  Noted
  <2>1. CASE ReceiveNothing(n)
    BY <1>1, <2>1, EndedAs DEF ReceiveNothing
  <2>2. CASE ReceiveOutOfSync(n)
    <3>1. outcome' = [outcome EXCEPT ![n] = "out_of_sync"]
      BY <2>2 DEF ReceiveOutOfSync, Destroyed, EndConnection
    <3>2. "out_of_sync" \in Outcome
      BY DEF Outcome
    <3> QED
      BY <2>2, <3>1, <3>2 DEF EndsAs
  <2>3. CASE ReceiveInvalid(n)
    BY <1>1, <2>3, EndedAs DEF ReceiveInvalid
  <2>4. CASE ReceiveOutOfOrder(n)
    BY <1>1, <2>4, EndedAs DEF ReceiveOutOfOrder
  <2>5. CASE ReceiveAboveTip(n)
    BY <1>1, <2>5, EndedAs DEF ReceiveAboveTip
  <2>6. CASE ReceiveDuplicate(n)
    BY <1>1, <2>6, EndedAs DEF ReceiveDuplicate
  <2>7. CASE ReceiveHeaders(n) \/ ReceiveBehind(n)
    BY <2>7 DEF ReceiveHeaders, ReceiveBehind
  <2> QED
    BY <1>5, <2>1, <2>2, <2>3, <2>4, <2>5, <2>6, <2>7 DEF ReceiveReply
<1>6. ASSUME NEW n \in Node, PassStep(n)
      PROVE  Noted
  <2>1. CASE ReceiveReply(n)
    BY <1>5, <2>1
  <2>2. CASE RemoteReplies(n) \/ WakeUp(n)
    BY <2>2 DEF RemoteReplies, WakeUp, passVars
  <2>3. CASE BlockHashes(n)
    <3>1. "block_hashes" \in Caller
      BY DEF Caller
    <3>2. outcome' = outcome \/ SyncHeaders(n, "block_hashes")
      BY <2>3 DEF BlockHashes
    <3> QED
      BY <1>3, <3>1, <3>2
  <2>4. CASE NoticeLoss(n)
    <3>1. outcome' = [outcome EXCEPT ![n] = "disconnected"]
      BY <2>4 DEF NoticeLoss, EndConnection
    <3> QED
      BY <1>1, <1>2, <3>1
  <2> QED
    BY <1>6, <2>1, <2>2, <2>3, <2>4 DEF PassStep
<1>7. ASSUME NEW n \in Node, ConnectionStep(n)
      PROVE  Noted
  <2>1. CASE Connect(n) \/ LeaveNewNode(n) \/ GiveUp(n)
    BY <2>1 DEF Connect, LeaveNewNode, GiveUp, passVars
  <2>2. CASE SyncNewNode(n) \/ Reconnect(n)
    <3>1. {"test", "reconnect"} \subseteq Caller
      BY DEF Caller
    <3>2. outcome' = outcome \/ SyncHeaders(n, "test") \/ SyncHeaders(n, "reconnect")
      BY <2>2 DEF SyncNewNode, Reconnect
    <3> QED
      BY <1>3, <3>1, <3>2
  <2>3. CASE RejectNewNode(n) \/ BlockHashesThrow(n) \/ Disconnect(n)
    <3>1. \/ outcome' = outcome
          \/ \E result \in {"invalid_blocks", "busy", "disconnected"} :
               outcome' = [outcome EXCEPT ![n] = result]
      BY <2>3 DEF RejectNewNode, BlockHashesThrow, Disconnect, LosesSocket, LosesSleeper,
                  EndConnection, passVars
    <3> QED
      BY <1>1, <1>2, <3>1
  <2> QED
    BY <1>7, <2>1, <2>2, <2>3 DEF ConnectionStep
<1>8. ASSUME NEW n \in Node, RemoteTipMoves(n)
      PROVE  Noted
  BY <1>8 DEF RemoteTipMoves, passVars
<1> QED
  BY <1>4, <1>6, <1>7, <1>8 DEF Next

(* A node that is dropped as out of sync has no heavier chain to give,     *)
(* unless it has just announced one.                                       *)
THEOREM SyncDropsNoBetterNodes == Spec => DroppedNodesHaveNoMore
<1> DEFINE Dropped == \A n \in Node :
             outcome'[n] = "out_of_sync" /\ outcome[n] # "out_of_sync" /\ ~ IsAnnounced(n)
               => TotalWork[remoteTip[n]] <= TotalWork[tip]
<1>1. ASSUME SyncInv, Next
      PROVE  Dropped
  <2> SUFFICES ASSUME NEW n \in Node, outcome'[n] = "out_of_sync",
                      outcome[n] # "out_of_sync", ~ IsAnnounced(n)
               PROVE  TotalWork[remoteTip[n]] <= TotalWork[tip]
    OBVIOUS
  <2>1. PICK m \in Node : EndsAs(m)
    BY <1>1, OutcomeIsNoted
  <2>2. PICK result \in Outcome : /\ outcome' = [outcome EXCEPT ![m] = result]
                                  /\ result = "out_of_sync" => ReceiveOutOfSync(m)
    BY <2>1 DEF EndsAs
  <2>3. outcome = [k \in Node |-> outcome[k]]
    BY <1>1 DEF SyncInv, AreFunctions
  <2>4. m = n /\ result = "out_of_sync"
    BY <2>2, <2>3
  <2>5. Receives(n) /\ HeadersAt(n) = <<>>
    BY <2>2, <2>4 DEF ReceiveOutOfSync
  <2>6. Covered(n, 1)
    BY <1>1, <2>5, HeadReply
  <2>7. \A j \in 1..Len(inbox[n]) : inbox[n][j].command # "inv"
    <3>1. DOMAIN inbox[n] = 1..Len(inbox[n])
      BY <1>1 DEF SyncInv, RemoteOK
    <3> QED
      BY <3>1 DEF IsAnnounced
  <2> QED
    BY <2>6, <2>7 DEF Covered, NoBetter
<1>2. ASSUME SyncInv, [Next]_vars
      PROVE  [Dropped]_vars
  BY <1>1, <1>2
<1> QED
  BY <1>2, SyncInvHolds, PTL DEF Spec, DroppedNodesHaveNoMore
=============================================================================

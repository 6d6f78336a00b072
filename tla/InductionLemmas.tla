-------------------------- MODULE InductionLemmas ---------------------------
(***************************************************************************)
(* Induction over numbers and finite sets, and recursion, for the proofs   *)
(* about what the code does with every element of a queue, a chain or a    *)
(* set.  The induction theorems of the library are about any formula; here *)
(* a formula is stood for by the set of the numbers it is true of, so that *)
(* the facts are first-order.                                              *)
(***************************************************************************)
EXTENDS Integers, Sequences, FiniteSetsExt, Functions, FiniteSetTheorems,
        WellFoundedInduction, TLAPS

(* A set of natural numbers has a least element. *)
LEMMA LeastNumber ==
  ASSUME NEW T, T \subseteq Nat, T # {}
  PROVE  \E m \in T : \A k \in T : m <= k
<1> DEFINE R == OpToRel(<, Nat)
<1>1. IsWellFoundedOn(R, Nat)
  BY NatLessThanWellFounded
<1>2. \A x, y \in Nat : <<x, y>> \in R <=> x < y
  BY DEF OpToRel
<1> HIDE DEF R
<1>3. PICK m \in T : \A k \in T : <<k, m>> \notin R
  BY <1>1, WFMin
<1>4. \A k \in T : k \in Nat /\ m \in Nat /\ ~ (k < m)
  BY <1>2, <1>3
<1> QED
  BY <1>4

(* A set of natural numbers that has zero and the next number of each of   *)
(* its numbers has them all.                                               *)
LEMMA Induction ==
  ASSUME NEW T, 0 \in T, \A n \in Nat : n \in T => n + 1 \in T
  PROVE  Nat \subseteq T
<1> SUFFICES ASSUME Nat \ T # {}
             PROVE  FALSE
  OBVIOUS
<1>1. PICK m \in Nat \ T : \A k \in Nat \ T : m <= k
  BY LeastNumber
<1>2. m - 1 \in Nat /\ m - 1 \in T
  <2>1. m # 0
    BY <1>1
  <2>2. m - 1 \in Nat /\ ~ (m <= m - 1)
    BY <2>1
  <2> QED
    BY <1>1, <2>2
<1>3. (m - 1) + 1 = m
  BY <1>1
<1> QED
  BY <1>1, <1>2, <1>3

(* A finite set of numbers has a greatest element, unless it is empty. *)
LEMMA GreatestNumber ==
  ASSUME NEW S, IsFiniteSet(S), S \subseteq Int, S # {}
  PROVE  \E m \in S : \A k \in S : k <= m
<1> DEFINE Image(f, n) == {f[i] : i \in 1..n}
           HasGreatest(U) == \E m \in U : \A k \in U : k <= m
           T == {n \in Nat :
                   \A f : (n > 0 /\ Image(f, n) \subseteq Int) => HasGreatest(Image(f, n))}
<1>1. 0 \in T
  OBVIOUS
<1>2. ASSUME NEW n \in Nat, n \in T
      PROVE  n + 1 \in T
  <2> SUFFICES ASSUME NEW f, Image(f, n + 1) \subseteq Int
               PROVE  HasGreatest(Image(f, n + 1))
    <3> HIDE DEF HasGreatest, Image
    <3> QED
      OBVIOUS
  <2> DEFINE last == f[n + 1]
  <2>1. Image(f, n + 1) = Image(f, n) \cup {last}
    BY <1>2
  <2> HIDE DEF Image, last
  <2>2. last \in Int /\ Image(f, n) \subseteq Int
    BY <2>1
  <2>3. CASE n = 0
    <3>1. Image(f, n) = {}
      BY <2>3 DEF Image
    <3> QED
      BY <2>1, <2>2, <3>1
  <2>4. CASE n > 0
    <3>1. PICK m \in Image(f, n) : \A k \in Image(f, n) : k <= m
      BY <1>2, <2>2, <2>4
    <3>2. CASE last <= m
      <4>1. m \in Image(f, n + 1) /\ \A k \in Image(f, n + 1) : k <= m
        BY <2>1, <3>1, <3>2
      <4> QED
        BY <4>1
    <3>3. CASE m < last
      <4>1. last \in Image(f, n + 1) /\ \A k \in Image(f, n + 1) : k <= last
        BY <2>1, <2>2, <3>1, <3>3
      <4> QED
        BY <4>1
    <3> QED
      BY <2>2, <3>1, <3>2, <3>3
  <2> QED
    BY <2>3, <2>4
<1> HIDE DEF T
<1>3. Nat \subseteq T
  BY <1>1, <1>2, Induction
<1>4. PICK n \in Nat : ExistsSurjection(1..n, S)
  BY FS_NatSurjection
<1>5. PICK f \in Surjection(1..n, S) : TRUE
  BY <1>4 DEF ExistsSurjection
<1>6. S = Image(f, n)
  BY <1>5 DEF Surjection
<1>7. n > 0
  BY <1>6
<1>8. n \in T
  BY <1>3
<1> QED
  BY <1>6, <1>7, <1>8 DEF T

(* depth counts down along parent, for as long as it stays in S. *)
IsRanking(depth, parent, S) ==
  /\ depth \in [S -> Nat]
  /\ \A h \in S : parent[h] \in S => depth[parent[h]] < depth[h]

(* f is computed from the value at the parent, where there is one. *)
IsRecursive(f, S, parent, root, step) ==
  \A h \in S : f[h] = IF parent[h] \in S THEN step[<<h, f[parent[h]]>>] ELSE root[h]

(* A function on the elements of S may be defined from its value at the    *)
(* parent of each, if a parent is always less deep.                        *)
LEMMA RecursionOnParents ==
  ASSUME NEW S, NEW parent, NEW depth, IsRanking(depth, parent, S),
         NEW V, NEW root \in [S -> V], NEW step \in [S \X V -> V]
  PROVE  \E f \in [S -> V] : IsRecursive(f, S, parent, root, step)
<1> USE DEF IsRanking, IsRecursive
<1> DEFINE Level(n) == {h \in S : depth[h] <= n}
           Value(f, h) == IF parent[h] \in S THEN step[<<h, f[parent[h]]>>] ELSE root[h]
           IsPart(f, n) == f \in [Level(n) -> V] /\ \A h \in Level(n) : f[h] = Value(f, h)
<1>1. \A n \in Nat : \A h \in Level(n) : parent[h] \in S => n # 0 /\ parent[h] \in Level(n - 1)
  OBVIOUS
<1>2. \A n \in Nat : \E f : IsPart(f, n)
  <2> DEFINE T == {n \in Nat : \E f : IsPart(f, n)}
  <2>1. 0 \in T
    <3> DEFINE f == [h \in Level(0) |-> root[h]]
    <3>1. f \in [Level(0) -> V]
      OBVIOUS
    <3>2. \A h \in Level(0) : parent[h] \notin S
      BY <1>1
    <3>3. \A h \in Level(0) : f[h] = Value(f, h)
      BY <3>2
    <3>4. IsPart(f, 0)
      BY <3>1, <3>3
    <3> HIDE DEF IsPart, f
    <3> QED
      BY <3>4
  <2>2. ASSUME NEW n \in Nat, n \in T
        PROVE  n + 1 \in T
    <3>1. PICK f : IsPart(f, n)
      BY <2>2
    <3> DEFINE g == [h \in Level(n + 1) |-> Value(f, h)]
    <3>2. \A h \in Level(n + 1) : parent[h] \in S => parent[h] \in Level(n)
      OBVIOUS
    <3>3. g \in [Level(n + 1) -> V]
      <4> SUFFICES ASSUME NEW h \in Level(n + 1)
                   PROVE  Value(f, h) \in V
        OBVIOUS
      <4>1. CASE parent[h] \in S
        <5>1. f[parent[h]] \in V
          BY <3>1, <3>2, <4>1
        <5>2. <<h, f[parent[h]]>> \in S \X V
          BY <5>1
        <5> QED
          BY <4>1, <5>2
      <4>2. CASE parent[h] \notin S
        BY <4>2
      <4> QED
        BY <4>1, <4>2
    <3>4. \A h \in Level(n) : h \in Level(n + 1) /\ g[h] = f[h]
      BY <3>1
    <3>5. \A h \in Level(n + 1) : g[h] = Value(g, h)
      BY <3>2, <3>4
    <3>6. IsPart(g, n + 1)
      BY <3>3, <3>5
    <3> HIDE DEF IsPart, g
    <3> QED
      BY <3>6
  <2> HIDE DEF T
  <2>3. Nat \subseteq T
    BY <2>1, <2>2, Induction
  <2> QED
    BY <2>3 DEF T
<1>3. ASSUME NEW f, NEW g, NEW n \in Nat, NEW k \in Nat, IsPart(f, n), IsPart(g, k),
             NEW h0 \in Level(n) \cap Level(k)
      PROVE  f[h0] = g[h0]
  <2> DEFINE Bad == {d \in Nat : \E h \in Level(n) \cap Level(k) : depth[h] = d /\ f[h] # g[h]}
  <2> SUFFICES ASSUME Bad # {}
               PROVE  FALSE
    OBVIOUS
  <2>1. PICK d \in Bad : \A e \in Bad : d <= e
    BY LeastNumber
  <2>2. PICK h \in Level(n) \cap Level(k) : depth[h] = d /\ f[h] # g[h]
    BY <2>1
  <2>3. f[h] = Value(f, h) /\ g[h] = Value(g, h)
    BY <1>3, <2>2
  <2>4. parent[h] \in S
    BY <2>2, <2>3
  <2>5. parent[h] \in Level(n) \cap Level(k) /\ depth[parent[h]] \in Nat
        /\ ~ (d <= depth[parent[h]])
    BY <2>2, <2>4
  <2>6. depth[parent[h]] \notin Bad
    BY <2>1, <2>5
  <2>7. f[parent[h]] = g[parent[h]]
    BY <2>5, <2>6
  <2> QED
    BY <2>2, <2>3, <2>7
<1> DEFINE part(n) == CHOOSE f : IsPart(f, n)
           whole == [h \in S |-> part(depth[h])[h]]
<1>4. \A n \in Nat : IsPart(part(n), n)
  <2> HIDE DEF IsPart
  <2> QED
    BY <1>2
<1> HIDE DEF part
<1>p. \A h \in S : /\ h \in Level(depth[h])
                  /\ part(depth[h]) \in [Level(depth[h]) -> V]
                  /\ part(depth[h])[h] = Value(part(depth[h]), h)
  <2> SUFFICES ASSUME NEW h \in S
               PROVE  /\ h \in Level(depth[h])
                      /\ part(depth[h]) \in [Level(depth[h]) -> V]
                      /\ part(depth[h])[h] = Value(part(depth[h]), h)
    OBVIOUS
  <2>1. depth[h] \in Nat /\ h \in Level(depth[h])
    OBVIOUS
  <2>2. IsPart(part(depth[h]), depth[h])
    BY <1>4, <2>1
  <2> HIDE DEF Level, Value
  <2> QED
    BY <2>1, <2>2
<1>5. whole \in [S -> V]
  <2> HIDE DEF Level, Value
  <2> QED
    BY <1>p
<1>6. ASSUME NEW h \in S
      PROVE  whole[h] = Value(whole, h)
  <2>1. whole[h] = Value(part(depth[h]), h)
    BY <1>p
  <2>2. ASSUME parent[h] \in S
        PROVE  part(depth[h])[parent[h]] = whole[parent[h]]
    <3> DEFINE p == parent[h]
    <3>1. p \in Level(depth[h]) \cap Level(depth[p]) /\ depth[h] \in Nat /\ depth[p] \in Nat
      BY <2>2
    <3>2. IsPart(part(depth[h]), depth[h]) /\ IsPart(part(depth[p]), depth[p])
      BY <1>4, <3>1
    <3> HIDE DEF IsPart, Level
    <3>3. part(depth[h])[p] = part(depth[p])[p]
      BY <1>3, <3>1, <3>2
    <3> QED
      BY <2>2, <3>3
  <2> HIDE DEF whole
  <2> QED
    BY <2>1, <2>2
<1> HIDE DEF whole
<1> QED
  BY <1>5, <1>6

(* To prove that every element of S is in T: none is the least deep one    *)
(* outside of it.                                                          *)
LEMMA InductionOnParents ==
  ASSUME NEW S, NEW parent, NEW depth, IsRanking(depth, parent, S),
         NEW T, \A h \in S : (parent[h] \in S => parent[h] \in T) => h \in T
  PROVE  S \subseteq T
<1> DEFINE Bad == {d \in Nat : \E h \in S : depth[h] = d /\ h \notin T}
<1> SUFFICES ASSUME Bad # {} PROVE FALSE
  BY DEF IsRanking
<1>1. PICK d \in Bad : \A e \in Bad : d <= e
  BY LeastNumber
<1>2. PICK h \in S : depth[h] = d /\ h \notin T
  BY <1>1
<1>3. parent[h] \in S /\ parent[h] \notin T
  BY <1>2
<1>4. depth[parent[h]] \in Bad /\ ~ (d <= depth[parent[h]])
  BY <1>2, <1>3 DEF IsRanking
<1> QED
  BY <1>1, <1>4

----------------------------------------------------------------------------
(* A tree of which each node knows its parent *)

(* chain[h] is the way from the root to h. *)
IsChain(chain, S, parent) ==
  /\ chain \in [S -> Seq(S)]
  /\ \A h \in S : chain[h] = IF parent[h] \in S THEN Append(chain[parent[h]], h) ELSE <<h>>

(* The recursive definition of such chains has the values it says. *)
LEMMA ChainIsDefined ==
  ASSUME NEW S, NEW parent, NEW depth, IsRanking(depth, parent, S), NEW chain,
         chain = CHOOSE c : c = [h \in S |-> IF parent[h] \in S
                                            THEN Append(c[parent[h]], h) ELSE <<h>>]
  PROVE  IsChain(chain, S, parent)
<1> DEFINE root == [h \in S |-> <<h>>]
           step == [p \in S \X Seq(S) |-> Append(p[2], p[1])]
           Chain(f) == [h \in S |-> IF parent[h] \in S THEN Append(f[parent[h]], h) ELSE <<h>>]
<1>1. root \in [S -> Seq(S)] /\ step \in [S \X Seq(S) -> Seq(S)]
  OBVIOUS
<1>2. PICK f \in [S -> Seq(S)] : IsRecursive(f, S, parent, root, step)
  <2> HIDE DEF root, step
  <2> QED
    BY <1>1, RecursionOnParents
<1>3. f = Chain(f)
  BY <1>2 DEF IsRecursive
<1>4. chain = CHOOSE c : c = Chain(c)
  OBVIOUS
<1>5. chain = Chain(chain)
  <2> HIDE DEF Chain
  <2> QED
    BY <1>3, <1>4
<1>6. \A h \in S :
        chain[h] = IF parent[h] \in S THEN Append(chain[parent[h]], h) ELSE <<h>>
  BY <1>5
<1> DEFINE T == {h \in S : chain[h] \in Seq(S)}
<1>7. \A h \in S : (parent[h] \in S => parent[h] \in T) => h \in T
  <2> SUFFICES ASSUME NEW h \in S, parent[h] \in S => chain[parent[h]] \in Seq(S)
               PROVE  chain[h] \in Seq(S)
    OBVIOUS
  <2>1. <<h>> \in Seq(S) /\ \A c \in Seq(S) : Append(c, h) \in Seq(S)
    OBVIOUS
  <2> QED
    BY <1>6, <2>1
<1>8. S \subseteq T
  <2> HIDE DEF T
  <2> QED
    BY <1>7, InductionOnParents
<1>9. DOMAIN chain = S /\ chain = [h \in S |-> chain[h]]
  BY <1>5
<1>10. chain \in [S -> Seq(S)]
  BY <1>8, <1>9
<1> HIDE DEF T, Chain, root, step
<1> QED
  BY <1>6, <1>10 DEF IsChain

(* What is on the way to h: what is on that to its parent, and h itself.   *)
LEMMA ChainElements ==
  ASSUME NEW S, NEW parent, NEW chain, IsChain(chain, S, parent), NEW h \in S
  PROVE  Range(chain[h]) = (IF parent[h] \in S THEN Range(chain[parent[h]]) ELSE {}) \cup {h}
<1>1. CASE parent[h] \in S
  <2>1. chain[h] = Append(chain[parent[h]], h) /\ chain[parent[h]] \in Seq(S)
    BY <1>1 DEF IsChain
  <2>2. ASSUME NEW s \in Seq(S)
        PROVE  Range(Append(s, h)) = Range(s) \cup {h}
    <3>1. /\ DOMAIN Append(s, h) = DOMAIN s \cup {Len(s) + 1}
          /\ Append(s, h)[Len(s) + 1] = h
          /\ \A i \in DOMAIN s : Append(s, h)[i] = s[i]
      OBVIOUS
    <3> QED
      BY <3>1 DEF Range
  <2> QED
    BY <1>1, <2>1, <2>2
<1>2. CASE parent[h] \notin S
  <2>1. chain[h] = <<h>>
    BY <1>2 DEF IsChain
  <2> QED
    BY <1>2, <2>1 DEF Range
<1> QED
  BY <1>1, <1>2

(* The sums along such chains have the values their recursive definition   *)
(* says.                                                                   *)
LEMMA SumIsDefined ==
  ASSUME NEW S, NEW parent, NEW depth, IsRanking(depth, parent, S),
         NEW weight \in [S -> Nat], NEW sum,
         sum = CHOOSE f : f = [h \in S |-> weight[h] + (IF parent[h] \in S
                                                       THEN f[parent[h]] ELSE 0)]
  PROVE  \A h \in S : /\ sum[h] \in Nat
                      /\ sum[h] = weight[h] + (IF parent[h] \in S THEN sum[parent[h]] ELSE 0)
<1> DEFINE root == [h \in S |-> weight[h]]
           step == [p \in S \X Nat |-> weight[p[1]] + p[2]]
           Sums(f) == [h \in S |-> weight[h] + (IF parent[h] \in S THEN f[parent[h]] ELSE 0)]
<1>1. root \in [S -> Nat] /\ step \in [S \X Nat -> Nat]
  OBVIOUS
<1>2. PICK f \in [S -> Nat] : IsRecursive(f, S, parent, root, step)
  <2> HIDE DEF root, step
  <2> QED
    BY <1>1, RecursionOnParents
<1>3. \A h \in S : f[h] = weight[h] + (IF parent[h] \in S THEN f[parent[h]] ELSE 0)
  <2> SUFFICES ASSUME NEW h \in S
               PROVE  f[h] = weight[h] + (IF parent[h] \in S THEN f[parent[h]] ELSE 0)
    OBVIOUS
  <2>1. CASE parent[h] \in S
    <3>1. step[<<h, f[parent[h]]>>] = weight[h] + f[parent[h]]
      BY <2>1
    <3> QED
      BY <1>2, <2>1, <3>1 DEF IsRecursive
  <2>2. CASE parent[h] \notin S
    <3>1. f[h] = root[h] /\ root[h] = weight[h]
      BY <1>2, <2>2 DEF IsRecursive
    <3> HIDE DEF root
    <3> QED
      BY <2>2, <3>1
  <2> QED
    BY <2>1, <2>2
<1>4. f = Sums(f)
  BY <1>3
<1>5. sum = CHOOSE g : g = Sums(g)
  OBVIOUS
<1>6. sum = Sums(sum)
  <2> HIDE DEF Sums
  <2> QED
    BY <1>4, <1>5
<1>7. \A h \in S : sum[h] = weight[h] + (IF parent[h] \in S THEN sum[parent[h]] ELSE 0)
  BY <1>6
<1> DEFINE T == {h \in S : sum[h] \in Nat}
<1>8. \A h \in S : (parent[h] \in S => parent[h] \in T) => h \in T
  BY <1>7
<1>9. S \subseteq T
  <2> HIDE DEF T
  <2> QED
    BY <1>8, InductionOnParents
<1> QED
  BY <1>7, <1>9

----------------------------------------------------------------------------
(* What is done with a sequence of messages, one after another *)

(* The greatest number of an interval from one on. *)
LEMMA MaxOfInterval ==
  ASSUME NEW n \in Nat \ {0}
  PROVE  Max(1..n) = n
<1>1. n \in 1..n /\ \A k \in 1..n : n >= k
  OBVIOUS
<1>2. \A m \in 1..n : (\A k \in 1..n : m >= k) => m = n
  BY <1>1
<1> QED
  BY <1>1, <1>2 DEF Max

(* The last of some positions of a sequence is one of them. *)
LEMMA LastPosition ==
  ASSUME NEW W, NEW seq \in Seq(W), NEW s \in SUBSET DOMAIN seq, s # {}
  PROVE  Max(s) \in s
<1>1. DOMAIN seq = 1..Len(seq) /\ Len(seq) \in Nat
  OBVIOUS
<1>2. IsFiniteSet(DOMAIN seq) /\ DOMAIN seq \subseteq Int
  BY <1>1, FS_Interval
<1>3. IsFiniteSet(s) /\ s \subseteq Int
  BY <1>2, FS_Subset
<1>4. PICK m \in s : \A k \in s : k <= m
  BY <1>3, GreatestNumber
<1>5. \A k \in s : m >= k
  BY <1>3, <1>4
<1> QED
  BY <1>5 DEF Max

(* The values of a fold over the sets of positions of a sequence. *)
IsFold(f, seq, base, step) ==
  \A s \in SUBSET DOMAIN seq :
    f[s] = IF s = {} THEN base ELSE step[<<f[s \ {Max(s)}], seq[Max(s)]>>]

(* A fold has such values. *)
LEMMA FoldExists ==
  ASSUME NEW V, NEW W, NEW base \in V, NEW seq \in Seq(W), NEW step \in [V \X W -> V]
  PROVE  \E f \in [SUBSET DOMAIN seq -> V] : IsFold(f, seq, base, step)
<1> DEFINE S == SUBSET DOMAIN seq
           parent == [s \in S |-> IF s = {} THEN {0} ELSE s \ {Max(s)}]
           depth == [s \in S |-> Cardinality(s)]
           root == [s \in S |-> base]
           next == [x \in S \X V |-> IF x[1] = {} THEN base ELSE step[<<x[2], seq[Max(x[1])]>>]]
<1>1. DOMAIN seq = 1..Len(seq) /\ Len(seq) \in Nat
  OBVIOUS
<1>2. IsFiniteSet(DOMAIN seq) /\ DOMAIN seq \subseteq Int
  BY <1>1, FS_Interval
<1>3. \A s \in S : IsFiniteSet(s) /\ Cardinality(s) \in Nat
  BY <1>2, FS_Subset, FS_CardinalityType
<1>4. \A s \in S : s # {} => Max(s) \in s
  BY LastPosition
<1>5. \A s \in S : s # {} => s \ {Max(s)} \in S /\ Cardinality(s \ {Max(s)}) = Cardinality(s) - 1
  BY <1>3, <1>4, FS_RemoveElement
<1>6. {0} \notin S /\ {} \in S
  BY <1>1
<1> HIDE DEF S
<1>7. \A s \in S : parent[s] = IF s = {} THEN {0} ELSE s \ {Max(s)}
  OBVIOUS
<1>8. \A s \in S : depth[s] = Cardinality(s)
  OBVIOUS
<1>9. \A s \in S : s # {} => \E k \in DOMAIN seq : k = Max(s)
  BY <1>4 DEF S
<1>10. root \in [S -> V] /\ \A s \in S : root[s] = base
  OBVIOUS
<1>11. \A s \in S, v \in V : next[<<s, v>>] = IF s = {} THEN base ELSE step[<<v, seq[Max(s)]>>]
  OBVIOUS
<1>12. next \in [S \X V -> V]
  <2>1. ASSUME NEW s \in S, NEW v \in V
        PROVE  (IF s = {} THEN base ELSE step[<<v, seq[Max(s)]>>]) \in V
    <3>1. CASE s = {}
      BY <3>1
    <3>2. CASE s # {}
      <4>1. seq[Max(s)] \in W
        BY <1>1, <1>9, <3>2
      <4>2. <<v, seq[Max(s)]>> \in V \X W
        BY <4>1
      <4> QED
        BY <3>2, <4>2
    <3> QED
      BY <3>1, <3>2
  <2> QED
    BY <2>1
<1>13. depth \in [S -> Nat]
  BY <1>3, <1>8
<1> HIDE DEF parent, depth, root, next
<1>14. IsRanking(depth, parent, S)
  <2> SUFFICES ASSUME NEW s \in S, parent[s] \in S
               PROVE  depth[parent[s]] < depth[s]
    BY <1>13 DEF IsRanking
  <2>1. s # {}
    BY <1>6, <1>7
  <2>2. depth[parent[s]] = Cardinality(s) - 1 /\ depth[s] = Cardinality(s)
    BY <1>5, <1>7, <1>8, <2>1
  <2>3. Cardinality(s) \in Nat
    BY <1>3
  <2> QED
    BY <2>2, <2>3
<1>15. PICK f \in [S -> V] : IsRecursive(f, S, parent, root, next)
  BY <1>10, <1>12, <1>14, RecursionOnParents
<1>16. ASSUME NEW s \in S
       PROVE  f[s] = IF s = {} THEN base ELSE step[<<f[s \ {Max(s)}], seq[Max(s)]>>]
  <2>1. f[s] = IF parent[s] \in S THEN next[<<s, f[parent[s]]>>] ELSE root[s]
    BY <1>15 DEF IsRecursive
  <2>2. CASE s = {}
    BY <1>6, <1>7, <1>10, <2>1, <2>2
  <2>3. CASE s # {}
    <3>1. parent[s] = s \ {Max(s)} /\ parent[s] \in S
      BY <1>5, <1>7, <2>3
    <3>2. f[parent[s]] \in V
      BY <3>1
    <3> QED
      BY <1>11, <2>1, <2>3, <3>1, <3>2
  <2> QED
    BY <2>2, <2>3
<1> QED
  BY <1>16 DEF IsFold, S

(* The sets of positions up to one of them. *)
LEMMA PositionsUpTo ==
  ASSUME NEW W, NEW seq \in Seq(W)
  PROVE  /\ DOMAIN seq = 1..Len(seq) /\ Len(seq) \in Nat
         /\ 1..0 = {} /\ {} \in SUBSET DOMAIN seq
         /\ \A i \in 1..Len(seq) : /\ 1..i \in SUBSET DOMAIN seq /\ 1..i # {}
                                  /\ Max(1..i) = i /\ (1..i) \ {i} = 1..(i - 1)
<1>1. DOMAIN seq = 1..Len(seq) /\ Len(seq) \in Nat
  OBVIOUS
<1>2. 1..0 = {}
  OBVIOUS
<1>3. ASSUME NEW i \in 1..Len(seq)
      PROVE  /\ 1..i \in SUBSET DOMAIN seq /\ 1..i # {}
             /\ Max(1..i) = i /\ (1..i) \ {i} = 1..(i - 1)
  <2>1. 1..i \in SUBSET DOMAIN seq /\ 1..i # {} /\ i \in Nat \ {0}
    <3>1. i \in Nat \ {0} /\ i \in 1..i /\ \A k \in 1..i : k \in 1..Len(seq)
      BY <1>1
    <3>2. 1..i \subseteq DOMAIN seq
      BY <1>1, <3>1
    <3> QED
      BY <3>1, <3>2
  <2>2. Max(1..i) = i
    BY <2>1, MaxOfInterval
  <2>3. (1..i) \ {i} = 1..(i - 1)
    BY <2>1
  <2> QED
    BY <2>1, <2>2, <2>3
<1> QED
  BY <1>1, <1>2, <1>3

=============================================================================

------------------------ MODULE NodesDatabase_proofs -------------------------
(***************************************************************************)
(* Proofs about NodesDatabase, for any nodes, midpoints, times and number  *)
(* of calls: the maps of the class stay in step, and the queue writes what *)
(* is in memory.                                                           *)
(*                                                                         *)
(* The lemmas of the first part are about indexes: what it does to an      *)
(* index, seen as a whole, that nodes leave and join its sets.  Those of   *)
(* the second are about types and times, and those of the third about what *)
(* a queue of writes makes of the disk, node by node.                      *)
(***************************************************************************)
EXTENDS NodesDatabase, InductionLemmas

(* The index of some keys has a set for each of them. *)
LEMMA IndexSets ==
  ASSUME NEW keys
  PROVE  IndexOf(keys) = [k \in Range(keys) |-> {n \in DOMAIN keys : keys[n] = k}]
<1>1. DOMAIN <<>> = {}
  OBVIOUS
<1> QED
  BY <1>1 DEF IndexOf, Indexed

(* It depends on nothing but the keys that nodes have. *)
LEMMA SameKeys ==
  ASSUME NEW f, NEW g, DOMAIN f = DOMAIN g, \A n \in DOMAIN f : f[n] = g[n]
  PROVE  IndexOf(f) = IndexOf(g)
<1>1. Range(f) = Range(g)
  BY DEF Range
<1> QED
  BY <1>1, IndexSets

(* The index of no keys is empty. *)
LEMMA EmptyIndex == IndexOf(SeenTimes(<<>>)) = <<>> /\ IndexOf(<<>>) = <<>>
<1>1. DOMAIN <<>> = {}
  OBVIOUS
<1>2. ASSUME NEW keys, DOMAIN keys = {}
      PROVE  IndexOf(keys) = <<>>
  <2>1. Range(keys) = {}
    BY <1>2 DEF Range
  <2>2. IndexOf(keys) = [k \in {} |-> {n \in DOMAIN keys : keys[n] = k}]
    BY <2>1, IndexSets
  <2> QED
    BY <2>2
<1>3. DOMAIN SeenTimes(<<>>) = {}
  BY <1>1 DEF SeenTimes
<1> QED
  BY <1>1, <1>2, <1>3

(* Nodes that leave it leave the index of the others. *)
LEMMA UnindexedIsIndex ==
  ASSUME NEW keys, NEW nodes
  PROVE  Unindexed(IndexOf(keys), keys, nodes) = IndexOf(Restrict(keys, DOMAIN keys \ nodes))
<1> DEFINE rest == Restrict(keys, DOMAIN keys \ nodes)
           left(k) == IndexOf(keys)[k] \ {n \in nodes \cap DOMAIN keys : keys[n] = k}
<1>1. DOMAIN rest = DOMAIN keys \ nodes /\ \A n \in DOMAIN rest : rest[n] = keys[n]
  BY DEF Restrict
<1>2. \A k \in Range(keys) : left(k) = {n \in DOMAIN rest : rest[n] = k}
  BY <1>1, IndexSets
<1>3. DOMAIN IndexOf(keys) = Range(keys)
  BY IndexSets
<1>4. {k \in Range(keys) : left(k) # {}} = Range(rest)
  <2>1. ASSUME NEW k \in Range(keys), left(k) # {}
        PROVE  k \in Range(rest)
    <3>1. PICK n \in DOMAIN rest : rest[n] = k
      BY <1>2, <2>1
    <3> QED
      BY <3>1 DEF Range
  <2>2. ASSUME NEW k \in Range(rest)
        PROVE  k \in Range(keys) /\ left(k) # {}
    <3>1. PICK n \in DOMAIN rest : rest[n] = k
      BY DEF Range
    <3>2. n \in DOMAIN keys /\ keys[n] = k
      BY <1>1, <3>1
    <3>3. k \in Range(keys)
      BY <3>2 DEF Range
    <3>4. left(k) = {m \in DOMAIN rest : rest[m] = k}
      BY <1>2, <3>3
    <3>5. n \in left(k)
      BY ONLY <3>1, <3>4
    <3> QED
      BY <3>3, <3>5
  <2> HIDE DEF rest, left
  <2> QED
    BY <2>1, <2>2
<1>5. Unindexed(IndexOf(keys), keys, nodes) = [k \in {l \in Range(keys) : left(l) # {}} |-> left(k)]
  BY <1>3 DEF Unindexed
<1>6. IndexOf(rest) = [k \in Range(rest) |-> {n \in DOMAIN rest : rest[n] = k}]
  BY IndexSets
<1> HIDE DEF rest, left
<1>7. \A k \in Range(rest) : left(k) = {n \in DOMAIN rest : rest[n] = k}
  BY <1>2, <1>4
<1>8. Unindexed(IndexOf(keys), keys, nodes) = IndexOf(rest)
  BY <1>4, <1>5, <1>6, <1>7
<1> QED
  BY <1>8 DEF rest

(* Nodes that join it make the index of all. *)
LEMMA IndexedIsIndex ==
  ASSUME NEW old, NEW new, DOMAIN old \cap DOMAIN new = {}
  PROVE  Indexed(IndexOf(old), new) = IndexOf(WithEntries(old, new))
<1> DEFINE all == WithEntries(old, new)
<1>1. /\ DOMAIN all = DOMAIN new \cup DOMAIN old
      /\ \A n \in DOMAIN new : all[n] = new[n]
      /\ \A n \in DOMAIN old : all[n] = old[n]
  BY DEF WithEntries
<1>2. Range(all) = Range(old) \cup Range(new)
  <2> HIDE DEF all
  <2> QED
    BY <1>1 DEF Range
<1>3. DOMAIN IndexOf(old) = Range(old)
      /\ \A k \in Range(old) : IndexOf(old)[k] = {n \in DOMAIN old : old[n] = k}
  BY IndexSets
<1>4. ASSUME NEW k \in Range(all)
      PROVE  {n \in DOMAIN all : all[n] = k} =
               (IF k \in Range(old) THEN {n \in DOMAIN old : old[n] = k} ELSE {})
                 \cup {n \in DOMAIN new : new[n] = k}
  <2>1. k \notin Range(old) => {n \in DOMAIN old : old[n] = k} = {}
    BY DEF Range
  <2> HIDE DEF all
  <2> QED
    BY <1>1, <2>1
<1>5. Indexed(IndexOf(old), new) =
        [k \in Range(old) \cup Range(new) |->
           (IF k \in Range(old) THEN {n \in DOMAIN old : old[n] = k} ELSE {})
              \cup {n \in DOMAIN new : new[n] = k}]
  BY <1>3 DEF Indexed
<1>6. IndexOf(all) = [k \in Range(all) |-> {n \in DOMAIN all : all[n] = k}]
  BY IndexSets
<1> HIDE DEF all
<1>7. Indexed(IndexOf(old), new) = IndexOf(all)
  BY <1>2, <1>4, <1>5, <1>6
<1> QED
  BY <1>7 DEF all

(* Nodes that move in it, from the keys they had to new ones. *)
LEMMA MovedInIndex ==
  ASSUME NEW old, NEW new
  PROVE  Indexed(Unindexed(IndexOf(old), old, DOMAIN new), new) = IndexOf(WithEntries(old, new))
<1> DEFINE rest == Restrict(old, DOMAIN old \ DOMAIN new)
<1>1. DOMAIN rest \cap DOMAIN new = {}
  BY DEF Restrict
<1>2. Indexed(IndexOf(rest), new) = IndexOf(WithEntries(rest, new))
  BY <1>1, IndexedIsIndex
<1>3. IndexOf(WithEntries(rest, new)) = IndexOf(WithEntries(old, new))
  <2>1. DOMAIN WithEntries(rest, new) = DOMAIN WithEntries(old, new)
        /\ \A n \in DOMAIN WithEntries(rest, new) :
             WithEntries(rest, new)[n] = WithEntries(old, new)[n]
    BY DEF WithEntries, Restrict
  <2> HIDE DEF rest
  <2> QED
    BY <2>1, SameKeys
<1> QED
  BY <1>2, <1>3, UnindexedIsIndex

----------------------------------------------------------------------------
(* A node nothing is known of is not blacklisted *)

(* The one penalty of default metrics is that of never having been pinged. *)
LEMMA DefaultRating ==
  ASSUME NEW t
  PROVE  Rating(DefaultMetrics(t), t) = -1
<1> DEFINE m == DefaultMetrics(t)
<1>1. PingPenalty(m) = 1
  BY DEF PingPenalty, DefaultMetrics
<1>2. BeforeConnectPenalty(m, t) = 0
  BY DEF BeforeConnectPenalty, DefaultMetrics
<1>3. AfterConnectPenalty(m, t) = 0
  <2>1. DOMAIN m.afterConnect = {}
    BY DEF DefaultMetrics
  <2>2. AfterConnectPenalty(m, t) = Max({0})
    BY <2>1 DEF AfterConnectPenalty
  <2> QED
    BY <2>2 DEF Max
<1>4. FadeSince(m.lastOutOfSync, t, OutOfSyncMidpoint) = 0
      /\ FadeSince(m.lastInvalid, t, InvalidMidpoint) = 0
  BY DEF FadeSince, DefaultMetrics
<1> HIDE DEF m
<1>5. Rating(m, t) = -1
  BY <1>1, <1>2, <1>3, <1>4 DEF Rating
<1> QED
  BY <1>5 DEF m

(* Every borderline node has one more penalty than that, or a greater one. *)
LEMMA BorderlineRating ==
  ASSUME NEW t \in Nat, t > OutOfSyncMidpoint, t > InvalidMidpoint,
         NEW m \in Borderline(t)
  PROVE  Rating(m, t) = -2
<1> DEFINE early == t - (DisconnectMidpoint - 1)
           default == DefaultMetrics(t)
<1>n. DisconnectMidpoint \in Int /\ OutOfSyncMidpoint \in Nat \ {0} /\ InvalidMidpoint \in Nat \ {0}
  BY NodeAssumption
<1>a. ASSUME NEW x, x.afterConnect = <<>>
      PROVE  AfterConnectPenalty(x, t) = 0
  <2>1. DOMAIN x.afterConnect = {}
    BY <1>a
  <2>2. AfterConnectPenalty(x, t) = Max({0})
    BY <2>1 DEF AfterConnectPenalty
  <2> QED
    BY <2>2 DEF Max
<1>1. CASE m = [DefaultMetrics(early) EXCEPT !.beforeConnect = <<early>>]
  <2>1. m.pings = <<>> /\ m.beforeConnect = <<early>> /\ m.afterConnect = <<>>
        /\ m.lastSeen = early /\ m.lastOutOfSync = 0 /\ m.lastInvalid = 0
    BY <1>1 DEF DefaultMetrics
  <2>2. PingPenalty(m) = 1
    BY <2>1 DEF PingPenalty
  <2>3. m.beforeConnect # <<>> /\ m.beforeConnect[Len(m.beforeConnect)] = early
    BY <2>1
  <2>4. BeforeConnectPenalty(m, t) = 1
    BY <1>n, <2>1, <2>3 DEF BeforeConnectPenalty, Fade, AtLeastZero
  <2> QED
    BY <1>a, <2>1, <2>2, <2>4 DEF Rating, FadeSince
<1>2. CASE m = [default EXCEPT !.afterConnect = <<t - 2, t - 1, t>>,
                               !.pings = <<[time |-> t, slow |-> FALSE]>>]
  <2>1. m.pings = <<[time |-> t, slow |-> FALSE]>> /\ m.beforeConnect = <<>>
        /\ m.afterConnect = <<t - 2, t - 1, t>> /\ m.lastOutOfSync = 0 /\ m.lastInvalid = 0
    BY <1>2 DEF DefaultMetrics
  <2>2. PingPenalty(m) = 0
    <3>1. {i \in DOMAIN m.pings : m.pings[i].slow} = {} /\ Len(m.pings) = 1 /\ m.pings # <<>>
      BY <2>1
    <3>2. PingPenalty(m) = (2 * 0) \div 1
      BY <3>1, FS_EmptySet DEF PingPenalty
    <3> QED
      BY <3>2
  <2>3. BeforeConnectPenalty(m, t) = 0
    BY <2>1 DEF BeforeConnectPenalty
  <2>4. AfterConnectPenalty(m, t) = 2
    <3> DEFINE times      == m.afterConnect
               cluster(i) == Cardinality({j \in DOMAIN times : times[j] = times[i]})
               faded(i)   == Fade(t - times[i], cluster(i) + 1)
    <3>1. DOMAIN times = 1..3 /\ times[1] = t - 2 /\ times[2] = t - 1 /\ times[3] = t
      BY <2>1
    <3>2. \A i \in 1..3 : {j \in DOMAIN times : times[j] = times[i]} = {i}
      BY <3>1
    <3>3. \A i \in 1..3 : cluster(i) = 1
      BY <3>2, FS_Singleton
    <3> HIDE DEF times, cluster
    <3>4. faded(1) = 0 /\ faded(2) = 1 /\ faded(3) = 2
      BY <3>1, <3>3 DEF Fade, AtLeastZero
    <3> HIDE DEF faded
    <3>5. {0} \cup {faded(i) : i \in DOMAIN times} = {0, 1, 2}
      BY <3>1, <3>4
    <3>6. Max({0, 1, 2}) = 2
      BY DEF Max
    <3>7. AfterConnectPenalty(m, t) = Max({0} \cup {faded(i) : i \in DOMAIN times})
      BY DEF AfterConnectPenalty, times, faded, cluster
    <3> QED
      BY <3>5, <3>6, <3>7
  <2> QED
    BY <2>1, <2>2, <2>3, <2>4 DEF Rating, FadeSince
<1>3. CASE m = [default EXCEPT !.lastOutOfSync = t - (OutOfSyncMidpoint - 1)]
  <2>1. m.pings = <<>> /\ m.beforeConnect = <<>> /\ m.afterConnect = <<>>
        /\ m.lastOutOfSync = t - (OutOfSyncMidpoint - 1) /\ m.lastInvalid = 0
    BY <1>3 DEF DefaultMetrics
  <2>2. PingPenalty(m) = 1 /\ BeforeConnectPenalty(m, t) = 0
    BY <2>1 DEF PingPenalty, BeforeConnectPenalty
  <2>3. FadeSince(m.lastOutOfSync, t, OutOfSyncMidpoint) = 1
    BY <1>n, <2>1 DEF FadeSince, Fade, AtLeastZero
  <2>4. FadeSince(m.lastInvalid, t, InvalidMidpoint) = 0
    BY <2>1 DEF FadeSince
  <2> QED
    BY <1>a, <2>1, <2>2, <2>3, <2>4 DEF Rating
<1>4. CASE m = [default EXCEPT !.pings = <<[time |-> t, slow |-> TRUE]>>]
  <2>1. m.pings = <<[time |-> t, slow |-> TRUE]>> /\ m.beforeConnect = <<>>
        /\ m.afterConnect = <<>> /\ m.lastOutOfSync = 0 /\ m.lastInvalid = 0
    BY <1>4 DEF DefaultMetrics
  <2>2. PingPenalty(m) = 2
    <3>1. {i \in DOMAIN m.pings : m.pings[i].slow} = {1} /\ Len(m.pings) = 1 /\ m.pings # <<>>
      BY <2>1
    <3>2. PingPenalty(m) = (2 * 1) \div 1
      BY <3>1, FS_Singleton DEF PingPenalty
    <3> QED
      BY <3>2
  <2>3. BeforeConnectPenalty(m, t) = 0
    BY <2>1 DEF BeforeConnectPenalty
  <2> QED
    BY <1>a, <2>1, <2>2, <2>3 DEF Rating, FadeSince
<1>5. CASE m = [default EXCEPT !.lastInvalid = t - (InvalidMidpoint - 1)]
  <2>1. m.pings = <<>> /\ m.beforeConnect = <<>> /\ m.afterConnect = <<>>
        /\ m.lastInvalid = t - (InvalidMidpoint - 1) /\ m.lastOutOfSync = 0
    BY <1>5 DEF DefaultMetrics
  <2>2. PingPenalty(m) = 1 /\ BeforeConnectPenalty(m, t) = 0
    BY <2>1 DEF PingPenalty, BeforeConnectPenalty
  <2>3. FadeSince(m.lastInvalid, t, InvalidMidpoint) = 1
    BY <1>n, <2>1 DEF FadeSince, Fade, AtLeastZero
  <2>4. FadeSince(m.lastOutOfSync, t, OutOfSyncMidpoint) = 0
    BY <2>1 DEF FadeSince
  <2> QED
    BY <1>a, <2>1, <2>2, <2>3, <2>4 DEF Rating
<1> QED
  BY <1>1, <1>2, <1>3, <1>4, <1>5 DEF Borderline

(* The threshold is their rating, which the default one is above. *)
LEMMA DefaultIsAcceptable ==
  ASSUME NEW t
  PROVE  IsAcceptable(Rating(DefaultMetrics(t), t))
<1> DEFINE u == DisconnectMidpoint + OutOfSyncMidpoint + InvalidMidpoint + 2
<1>1. u \in Nat /\ u > OutOfSyncMidpoint /\ u > InvalidMidpoint
  BY NodeAssumption
<1> HIDE DEF u
<1>2. \A m \in Borderline(u) : Rating(m, u) = -2
  BY <1>1, BorderlineRating
<1>3. Borderline(u) # {}
  BY DEF Borderline
<1>4. {Rating(m, u) : m \in Borderline(u)} = {-2}
  BY <1>2, <1>3
<1>5. Threshold = Max({-2})
  BY <1>4 DEF Threshold, u
<1>6. Threshold = -2
  BY <1>5 DEF Max
<1> QED
  BY <1>6, DefaultRating DEF IsAcceptable

----------------------------------------------------------------------------
(* The maps stay in step *)

(* What holds of the maps in memory between two calls. *)
MapsAgree == IndexesAgree /\ BlacklistAgrees /\ RecentRatingsAreRight

(* Metrics that are set: the nodes move in both indexes, and of those that *)
(* come in, none is held to be blacklisted.                                *)
LEMMA UpdateKeepsMaps ==
  ASSUME MapsAgree, NEW metrics, UpdateMetricsBatch(metrics),
         UNCHANGED <<ratingsAreRecent, now>>
  PROVE  MapsAgree'
<1> DEFINE new == Ratings(metrics)
<1>1. /\ ipPortToMetrics' = WithEntries(ipPortToMetrics, metrics)
      /\ ipPortToRating' = WithEntries(ipPortToRating, new)
      /\ ratingToIpPorts' = Indexed(Unindexed(ratingToIpPorts, ipPortToRating, DOMAIN metrics), new)
      /\ nonBlacklisted' =
           (nonBlacklisted \ {n \in DOMAIN metrics : IsAcceptable(RatingOf(n))}) \cup Acceptable(new)
      /\ seenTimeToIpPorts' =
           Indexed(Unindexed(seenTimeToIpPorts, SeenTimes(ipPortToMetrics), DOMAIN metrics),
                   SeenTimes(metrics))
  BY DEF UpdateMetricsBatch
<1>2. DOMAIN new = DOMAIN metrics /\ DOMAIN SeenTimes(metrics) = DOMAIN metrics
  BY DEF Ratings, SeenTimes
<1>3. /\ seenTimeToIpPorts = IndexOf(SeenTimes(ipPortToMetrics))
      /\ ratingToIpPorts = IndexOf(ipPortToRating)
      /\ DOMAIN ipPortToRating = Known
  BY DEF MapsAgree, IndexesAgree
<1>4. DOMAIN ipPortToRating' = Known' /\ Known' = Known \cup DOMAIN metrics
  BY <1>1, <1>2, <1>3 DEF Known, WithEntries
<1>5. ratingToIpPorts' = IndexOf(ipPortToRating')
  BY <1>1, <1>2, <1>3, MovedInIndex
<1>6. seenTimeToIpPorts' = IndexOf(SeenTimes(ipPortToMetrics'))
  <2>1. seenTimeToIpPorts' = IndexOf(WithEntries(SeenTimes(ipPortToMetrics), SeenTimes(metrics)))
    BY <1>1, <1>2, <1>3, MovedInIndex
  <2>2. WithEntries(SeenTimes(ipPortToMetrics), SeenTimes(metrics)) = SeenTimes(ipPortToMetrics')
    BY <1>1 DEF WithEntries, SeenTimes
  <2> QED
    BY <2>1, <2>2
<1>7. BlacklistAgrees'
  <2>1. \A n \in DOMAIN metrics : ipPortToRating'[n] = new[n]
    BY <1>1, <1>2 DEF WithEntries
  <2>2. \A n \in Known \ DOMAIN metrics : ipPortToRating'[n] = ipPortToRating[n]
    BY <1>1, <1>2, <1>3 DEF WithEntries
  <2>3. \A n \in Known : n \in nonBlacklisted <=> IsAcceptable(ipPortToRating[n])
    BY <1>3 DEF MapsAgree, BlacklistAgrees, Acceptable
  <2>4. \A n \in DOMAIN metrics : n \in nonBlacklisted' <=> IsAcceptable(new[n])
    <3> SUFFICES ASSUME NEW n \in DOMAIN metrics, n \in nonBlacklisted
                 PROVE  IsAcceptable(RatingOf(n))
      BY <1>1, <1>2 DEF Acceptable
    <3>1. CASE n \in Known
      BY <1>3, <2>3, <3>1 DEF RatingOf
    <3>2. CASE n \notin Known
      BY <1>3, <3>2, DefaultIsAcceptable DEF RatingOf, MetricsOf
    <3> QED
      BY <3>1, <3>2
  <2>5. \A n \in Known \ DOMAIN metrics : n \in nonBlacklisted' <=> n \in nonBlacklisted
    BY <1>1, <1>2 DEF Acceptable
  <2>6. \A n \in Known' : n \in nonBlacklisted' <=> IsAcceptable(ipPortToRating'[n])
    BY <1>4, <2>1, <2>2, <2>3, <2>4, <2>5
  <2> QED
    BY <1>4, <2>6 DEF BlacklistAgrees, Acceptable
<1>8. RecentRatingsAreRight'
  <2> SUFFICES ASSUME ratingsAreRecent
               PROVE  ipPortToRating' = Ratings(ipPortToMetrics)'
    BY DEF RecentRatingsAreRight
  <2>1. ipPortToRating = Ratings(ipPortToMetrics)
    BY DEF MapsAgree, RecentRatingsAreRight
  <2>2. WithEntries(Ratings(ipPortToMetrics), Ratings(metrics)) =
          [n \in DOMAIN ipPortToMetrics' |-> Rating(ipPortToMetrics'[n], now)]
    BY <1>1 DEF WithEntries, Ratings
  <2> QED
    BY <1>1, <2>1, <2>2 DEF Ratings
<1> QED
  BY <1>3, <1>4, <1>5, <1>6, <1>7, <1>8 DEF MapsAgree, IndexesAgree

(* Nodes that are forgotten: they leave both indexes, and whether they are *)
(* still held to be not blacklisted does not matter.                       *)
LEMMA RemovalKeepsMaps ==
  ASSUME MapsAgree, NEW nodes,
         ipPortToMetrics' = Restrict(ipPortToMetrics, Known \ nodes),
         ipPortToRating' = Restrict(ipPortToRating, DOMAIN ipPortToRating \ nodes),
         ratingToIpPorts' = Unindexed(ratingToIpPorts, ipPortToRating, nodes),
         seenTimeToIpPorts' = Unindexed(seenTimeToIpPorts, SeenTimes(ipPortToMetrics), nodes),
         nonBlacklisted' = nonBlacklisted \/ nonBlacklisted' = nonBlacklisted \ nodes,
         UNCHANGED <<ratingsAreRecent, now>>
  PROVE  MapsAgree'
<1>1. /\ seenTimeToIpPorts = IndexOf(SeenTimes(ipPortToMetrics))
      /\ ratingToIpPorts = IndexOf(ipPortToRating)
      /\ DOMAIN ipPortToRating = Known
  BY DEF MapsAgree, IndexesAgree
<1>2. DOMAIN ipPortToRating' = Known' /\ Known' = Known \ nodes
  BY <1>1 DEF Known, Restrict
<1>3. ratingToIpPorts' = IndexOf(ipPortToRating')
  BY <1>1, UnindexedIsIndex
<1>4. seenTimeToIpPorts' = IndexOf(SeenTimes(ipPortToMetrics'))
  <2> DEFINE seen == SeenTimes(ipPortToMetrics)
  <2>1. seenTimeToIpPorts' = IndexOf(Restrict(seen, DOMAIN seen \ nodes))
    BY <1>1, UnindexedIsIndex
  <2>2. Restrict(seen, DOMAIN seen \ nodes) = SeenTimes(ipPortToMetrics')
    BY DEF Restrict, SeenTimes, Known
  <2> QED
    BY <2>1, <2>2
<1>5. BlacklistAgrees'
  <2>1. \A n \in Known' : ipPortToRating'[n] = ipPortToRating[n]
    BY <1>1, <1>2 DEF Restrict
  <2> QED
    BY <1>1, <1>2, <2>1 DEF MapsAgree, BlacklistAgrees, Acceptable
<1>6. RecentRatingsAreRight'
  <2> SUFFICES ASSUME ratingsAreRecent
               PROVE  ipPortToRating' = Ratings(ipPortToMetrics)'
    BY DEF RecentRatingsAreRight
  <2>1. ipPortToRating = Ratings(ipPortToMetrics)
    BY DEF MapsAgree, RecentRatingsAreRight
  <2> QED
    BY <2>1 DEF Ratings, Restrict, Known
<1> QED
  BY <1>2, <1>3, <1>4, <1>5, <1>6 DEF MapsAgree, IndexesAgree

(* Maps of ratings that are built from nothing. *)
LEMMA RebuildKeepsMaps ==
  ASSUME NEW metrics, RebuildRatings(metrics), UNCHANGED now,
         ipPortToMetrics' = metrics, seenTimeToIpPorts' = IndexOf(SeenTimes(metrics))
  PROVE  MapsAgree'
<1>1. IndexesAgree'
  BY DEF IndexesAgree, RebuildRatings, Ratings, Known
<1>2. BlacklistAgrees'
  BY DEF BlacklistAgrees, RebuildRatings, Ratings, Acceptable, Known
<1>3. RecentRatingsAreRight'
  BY DEF RecentRatingsAreRight, RebuildRatings, Ratings
<1> QED
  BY <1>1, <1>2, <1>3 DEF MapsAgree

(* Maps that are emptied. *)
LEMMA ClearKeepsMaps ==
  ASSUME ClearMemory, ~ ratingsAreRecent'
  PROVE  MapsAgree'
<1>1. /\ ipPortToMetrics' = <<>> /\ ipPortToRating' = <<>> /\ nonBlacklisted' = {}
      /\ seenTimeToIpPorts' = <<>> /\ ratingToIpPorts' = <<>>
  BY DEF ClearMemory
<1>2. IndexOf(SeenTimes(<<>>)) = <<>> /\ IndexOf(<<>>) = <<>>
  BY EmptyIndex
<1>3. IndexesAgree'
  BY <1>1, <1>2 DEF IndexesAgree, Known
<1>4. BlacklistAgrees' /\ RecentRatingsAreRight'
  BY <1>1 DEF BlacklistAgrees, RecentRatingsAreRight, Acceptable
<1> QED
  BY <1>3, <1>4 DEF MapsAgree

(* One rating that is computed again: its node moves in the index. *)
LEMMA RecalculationKeepsMaps ==
  ASSUME MapsAgree, NEW n, RecalculateNodeRating(n)
  PROVE  MapsAgree'
<1> DEFINE old == ipPortToRating[n]
           new == Rating(ipPortToMetrics[n], now)
<1>1. /\ n \in Known /\ old # new
      /\ ipPortToRating' = [ipPortToRating EXCEPT ![n] = new]
      /\ ratingToIpPorts' = Indexed(Unindexed(ratingToIpPorts, ipPortToRating, {n}), Entry(n, new))
      /\ nonBlacklisted' = Relisted(n, old, new)
      /\ UNCHANGED <<ipPortToMetrics, seenTimeToIpPorts, ratingsAreRecent, now>>
  BY DEF RecalculateNodeRating
<1>2. /\ seenTimeToIpPorts = IndexOf(SeenTimes(ipPortToMetrics))
      /\ ratingToIpPorts = IndexOf(ipPortToRating)
      /\ DOMAIN ipPortToRating = Known
  BY DEF MapsAgree, IndexesAgree
<1>3. DOMAIN ipPortToRating' = Known /\ ipPortToRating'[n] = new
      /\ \A m \in Known \ {n} : ipPortToRating'[m] = ipPortToRating[m]
  BY <1>1, <1>2
<1> HIDE DEF new
<1>4. ratingToIpPorts' = IndexOf(ipPortToRating')
  <2>1. DOMAIN Entry(n, new) = {n} /\ Entry(n, new)[n] = new
    BY DEF Entry
  <2>2. ratingToIpPorts' = IndexOf(WithEntries(ipPortToRating, Entry(n, new)))
    BY <1>1, <1>2, <2>1, MovedInIndex
  <2>3. DOMAIN WithEntries(ipPortToRating, Entry(n, new)) = DOMAIN ipPortToRating'
        /\ \A m \in DOMAIN WithEntries(ipPortToRating, Entry(n, new)) :
             WithEntries(ipPortToRating, Entry(n, new))[m] = ipPortToRating'[m]
    BY <1>1, <1>2, <1>3, <2>1 DEF WithEntries
  <2> QED
    BY <2>2, <2>3, SameKeys
<1>5. BlacklistAgrees'
  <2>1. \A m \in Known : m \in nonBlacklisted <=> IsAcceptable(ipPortToRating[m])
    BY <1>2 DEF MapsAgree, BlacklistAgrees, Acceptable
  <2>2. n \in nonBlacklisted' <=> IsAcceptable(new)
    BY <1>1, <2>1 DEF Relisted
  <2>3. \A m \in Known \ {n} : m \in nonBlacklisted' <=> m \in nonBlacklisted
    BY <1>1 DEF Relisted
  <2>4. \A m \in Known : m \in nonBlacklisted' <=> IsAcceptable(ipPortToRating'[m])
    BY <1>3, <2>1, <2>2, <2>3
  <2> QED
    BY <1>1, <1>3, <2>4 DEF BlacklistAgrees, Acceptable, Known
<1>6. RecentRatingsAreRight'
  <2>1. ~ ratingsAreRecent
    BY <1>1, <1>2 DEF MapsAgree, RecentRatingsAreRight, Ratings, Known, new
  <2> QED
    BY <1>1, <2>1 DEF RecentRatingsAreRight
<1> QED
  BY <1>1, <1>2, <1>3, <1>4, <1>5, <1>6 DEF MapsAgree, IndexesAgree, Known

(* Calls that set metrics: whatever was set, the maps were updated. *)
LEMMA CallsThatUpdate ==
  ASSUME NEW n \in Node, UpdateNode(n), ~ DeleteNode(n)
  PROVE  Call /\ \E metrics : UpdateMetricsBatch(metrics)
<1>1. Call
  BY DEF UpdateNode, AddPingTimeMs, AddRecentUnintentionalDisconnectTimesMs, AddLastConnectTimeMs,
         AddLastConnectAndTestTimeMs, AddLastDataReceivedTimeMs, AddLastOutOfSyncTimeMs,
         AddLastInvalidChainDetectedTimeMs
<1>2. \E metrics : UpdateMetrics(n, metrics)
  <2>1. ASSUME NEW slow \in BOOLEAN, AddPingTimeMs(n, slow)
        PROVE  \E metrics : UpdateMetrics(n, metrics)
    BY <2>1 DEF AddPingTimeMs
  <2>2. CASE AddRecentUnintentionalDisconnectTimesMs(n)
    BY <2>2 DEF AddRecentUnintentionalDisconnectTimesMs
  <2>3. CASE AddLastConnectTimeMs(n)
    BY <2>3 DEF AddLastConnectTimeMs
  <2>4. CASE AddLastConnectAndTestTimeMs(n)
    BY <2>4 DEF AddLastConnectAndTestTimeMs
  <2>5. CASE AddLastDataReceivedTimeMs(n)
    BY <2>5 DEF AddLastDataReceivedTimeMs
  <2>6. CASE AddLastOutOfSyncTimeMs(n)
    BY <2>6 DEF AddLastOutOfSyncTimeMs
  <2>7. CASE AddLastInvalidChainDetectedTimeMs(n)
    BY <2>7 DEF AddLastInvalidChainDetectedTimeMs
  <2> QED
    BY <2>1, <2>2, <2>3, <2>4, <2>5, <2>6, <2>7 DEF UpdateNode
<1> QED
  BY <1>1, <1>2 DEF UpdateMetrics

(* Every step keeps the maps in step. *)
LEMMA NextKeepsMaps ==
  ASSUME MapsAgree, [Next]_vars
  PROVE  MapsAgree'
<1>s. ASSUME UNCHANGED memoryVars, ratingsAreRecent' => ratingsAreRecent /\ now' = now
      PROVE  MapsAgree'
  <2>1. UNCHANGED <<ipPortToMetrics, ipPortToRating, seenTimeToIpPorts, ratingToIpPorts,
                    nonBlacklisted>>
    BY <1>s DEF memoryVars
  <2> QED
    BY <1>s, <2>1 DEF MapsAgree, IndexesAgree, BlacklistAgrees, RecentRatingsAreRight, Acceptable,
                      Known, Ratings
<1>1. ASSUME NEW n \in Node, UpdateNode(n)
      PROVE  MapsAgree'
  <2>1. CASE DeleteNode(n)
    BY <2>1, RemovalKeepsMaps DEF DeleteNode, Call
  <2>2. CASE ~ DeleteNode(n)
    <3>1. Call /\ \E metrics : UpdateMetricsBatch(metrics)
      BY <1>1, <2>2, CallsThatUpdate
    <3> QED
      BY <3>1, UpdateKeepsMaps DEF Call
  <2> QED
    BY <2>1, <2>2
<1>2. ASSUME NEW n \in Node, RecalculateNodeRating(n)
      PROVE  MapsAgree'
  BY <1>2, RecalculationKeepsMaps
<1>3. CASE UpdateNodes
  <2>1. ASSUME NEW nodes, AddSeenBatch(nodes)
        PROVE  MapsAgree'
    BY <2>1, UpdateKeepsMaps DEF AddSeenBatch, Call
  <2>2. ASSUME NEW nodes, RemoveNodes(nodes), Call,
               nonBlacklisted' = nonBlacklisted \/ nonBlacklisted' = nonBlacklisted \ nodes
        PROVE  MapsAgree'
    BY <2>2, RemovalKeepsMaps DEF RemoveNodes, Call
  <2>3. ASSUME NEW amount, NEW excluded, ClearOld(amount, excluded)
        PROVE  MapsAgree'
    BY <2>2, <2>3 DEF ClearOld
  <2>4. ASSUME NEW amount, NEW excluded, ClearBlacklisted(amount, excluded)
        PROVE  MapsAgree'
    BY <2>2, <2>4 DEF ClearBlacklisted
  <2>5. ASSUME NEW excluded, DeleteNodes(excluded)
        PROVE  MapsAgree'
    BY <2>2, <2>5 DEF DeleteNodes
  <2>6. CASE Clear
    BY <2>6, ClearKeepsMaps DEF Clear
  <2> QED
    BY <1>3, <2>1, <2>3, <2>4, <2>5, <2>6 DEF UpdateNodes
<1>4. CASE BuildRatingsMapsFromMetrics
  <2>1. seenTimeToIpPorts = IndexOf(SeenTimes(ipPortToMetrics))
    BY DEF MapsAgree, IndexesAgree
  <2> QED
    BY <1>4, <2>1, RebuildKeepsMaps DEF BuildRatingsMapsFromMetrics
<1>5. CASE Create
  BY <1>5, RebuildKeepsMaps DEF Create
<1>6. CASE Crash
  BY <1>6, ClearKeepsMaps DEF Crash
<1>7. CASE WriteSucceeds
  BY <1>s, <1>7 DEF WriteSucceeds
<1>8. CASE WriteFails
  BY <1>s, <1>8 DEF WriteFails
<1>9. CASE Close \/ FinishClose \/ Open
  BY <1>s, <1>9 DEF Close, FinishClose, Open
<1>10. CASE TimePasses
  BY <1>s, <1>10 DEF TimePasses
<1>11. CASE UNCHANGED vars
  BY <1>s, <1>11 DEF vars
<1> QED
  BY <1>1, <1>2, <1>3, <1>4, <1>5, <1>6, <1>7, <1>8, <1>9, <1>10, <1>11 DEF Next

(* The maps are empty at first. *)
LEMMA InitHasMaps == Init => MapsAgree
<1> SUFFICES ASSUME Init
             PROVE  MapsAgree
  OBVIOUS
<1>1. /\ ipPortToMetrics = <<>> /\ ipPortToRating = <<>> /\ nonBlacklisted = {}
      /\ seenTimeToIpPorts = <<>> /\ ratingToIpPorts = <<>> /\ ~ ratingsAreRecent
  BY DEF Init
<1> QED
  BY <1>1, EmptyIndex DEF MapsAgree, IndexesAgree, BlacklistAgrees, RecentRatingsAreRight,
                          Acceptable, Known

----------------------------------------------------------------------------
(* Numbers and maps *)

(* What the bounds and midpoints are. *)
LEMMA Bounds ==
  /\ IsFiniteSet(Node)
  /\ MaxRecent \in Nat \ {0} /\ MaxTime \in Nat \ {0} /\ SeenBonus \in Nat
  /\ DisconnectMidpoint \in Nat \ {0} /\ OutOfSyncMidpoint \in Nat \ {0}
  /\ InvalidMidpoint \in Nat \ {0}
BY NodeAssumption

(* The greatest of some numbers is one of them, and none is greater. *)
LEMMA MaxIsGreatest ==
  ASSUME NEW S, IsFiniteSet(S), S \subseteq Int, S # {}
  PROVE  Max(S) \in S /\ \A k \in S : k <= Max(S)
<1>1. PICK m \in S : \A k \in S : k <= m
  BY GreatestNumber
<1>2. \A k \in S : m >= k
  BY <1>1
<1>3. \A k \in S : Max(S) >= k
  BY <1>1, <1>2 DEF Max
<1>4. Max(S) \in S
  BY <1>1, <1>2 DEF Max
<1> QED
  BY <1>3, <1>4

(* So it is with times, of which there are finitely many. *)
LEMMA MaxOfTimes ==
  ASSUME NEW S, S \subseteq Times, S # {}
  PROVE  Max(S) \in Times /\ Max(S) \in S /\ \A k \in S : k <= Max(S)
<1>1. IsFiniteSet(Times) /\ Times \subseteq Int
  BY Bounds, FS_Interval DEF Times
<1>2. IsFiniteSet(S) /\ S \subseteq Int
  BY <1>1, FS_Subset
<1> QED
  BY <1>2, MaxIsGreatest

(* Metrics as the calls make them: the node was seen, and no more than     *)
(* MaxRecent events of a kind are kept.                                    *)
GoodMetrics ==
  {m \in Metrics : /\ m.lastSeen > 0
                   /\ Len(m.pings) <= MaxRecent
                   /\ Len(m.beforeConnect) <= MaxRecent
                   /\ Len(m.afterConnect) <= MaxRecent}

MetricsMaps == UNION {[S -> GoodMetrics] : S \in SUBSET Node}

Writes == [put : MetricsMaps, del : SUBSET Node]

(* What it takes to be such a map. *)
LEMMA MapOfMetrics ==
  ASSUME NEW f
  PROVE  f \in MetricsMaps <=>
           /\ f = [n \in DOMAIN f |-> f[n]]
           /\ DOMAIN f \subseteq Node
           /\ \A n \in DOMAIN f : f[n] \in GoodMetrics
<1> HIDE DEF GoodMetrics
<1>1. ASSUME f \in MetricsMaps
      PROVE  /\ f = [n \in DOMAIN f |-> f[n]]
             /\ DOMAIN f \subseteq Node
             /\ \A n \in DOMAIN f : f[n] \in GoodMetrics
  <2>1. PICK S \in SUBSET Node : f \in [S -> GoodMetrics]
    BY <1>1 DEF MetricsMaps
  <2> QED
    BY <2>1
<1>2. ASSUME f = [n \in DOMAIN f |-> f[n]], DOMAIN f \subseteq Node,
             \A n \in DOMAIN f : f[n] \in GoodMetrics
      PROVE  f \in MetricsMaps
  <2>1. f \in [DOMAIN f -> GoodMetrics]
    BY <1>2
  <2> QED
    BY <1>2, <2>1 DEF MetricsMaps
<1> QED
  BY <1>1, <1>2

(* No metrics at all are such a map, and such maps may be put together or  *)
(* made smaller.                                                           *)
LEMMA MapsOfMetrics ==
  /\ <<>> \in MetricsMaps
  /\ \A f \in MetricsMaps, g \in MetricsMaps : WithEntries(f, g) \in MetricsMaps
  /\ \A f \in MetricsMaps : \A S \in SUBSET DOMAIN f : Restrict(f, S) \in MetricsMaps
<1>1. <<>> \in MetricsMaps
  <2>1. DOMAIN <<>> = {} /\ <<>> = [n \in {} |-> <<>>[n]]
    OBVIOUS
  <2> QED
    BY <2>1, MapOfMetrics
<1>2. ASSUME NEW f \in MetricsMaps, NEW g \in MetricsMaps
      PROVE  WithEntries(f, g) \in MetricsMaps
  <2> DEFINE h == WithEntries(f, g)
  <2>1. /\ DOMAIN h = DOMAIN f \cup DOMAIN g
        /\ h = [n \in DOMAIN h |-> h[n]]
        /\ \A n \in DOMAIN g : h[n] = g[n]
        /\ \A n \in DOMAIN f \ DOMAIN g : h[n] = f[n]
    BY DEF WithEntries
  <2>2. DOMAIN f \subseteq Node /\ DOMAIN g \subseteq Node
        /\ (\A n \in DOMAIN f : f[n] \in GoodMetrics) /\ \A n \in DOMAIN g : g[n] \in GoodMetrics
    BY MapOfMetrics
  <2> HIDE DEF h
  <2>3. h \in MetricsMaps
    BY <2>1, <2>2, MapOfMetrics
  <2> QED
    BY <2>3 DEF h
<1>3. ASSUME NEW f \in MetricsMaps, NEW S \in SUBSET DOMAIN f
      PROVE  Restrict(f, S) \in MetricsMaps
  <2> DEFINE h == Restrict(f, S)
  <2>1. DOMAIN h = S /\ h = [n \in DOMAIN h |-> h[n]] /\ \A n \in DOMAIN h : h[n] = f[n]
    BY DEF Restrict
  <2>2. DOMAIN f \subseteq Node /\ \A n \in DOMAIN f : f[n] \in GoodMetrics
    BY MapOfMetrics
  <2> HIDE DEF h
  <2>3. h \in MetricsMaps
    BY <2>1, <2>2, MapOfMetrics
  <2> QED
    BY <2>3 DEF h
<1> QED
  BY <1>1, <1>2, <1>3

----------------------------------------------------------------------------
(* Ratings and times *)

(* What is in a sequence. *)
LEMMA ElementsOfSeq ==
  ASSUME NEW V, NEW s \in Seq(V)
  PROVE  \A i \in DOMAIN s : s[i] \in V
OBVIOUS

(* The number of the indexes of a sequence at which something is so. *)
LEMMA CountedIndexes ==
  ASSUME NEW V, NEW s \in Seq(V), NEW T \in SUBSET DOMAIN s
  PROVE  Cardinality(T) \in Nat
<1>1. DOMAIN s = 1..Len(s) /\ Len(s) \in Nat
  OBVIOUS
<1>2. IsFiniteSet(1..Len(s))
  BY <1>1, FS_Interval
<1> QED
  BY <1>1, <1>2, FS_Subset, FS_CardinalityType

(* A rating is a number. *)
LEMMA RatingIsInt ==
  ASSUME NEW m \in Metrics, NEW t \in Int
  PROVE  Rating(m, t) \in Int
<1>1. ASSUME NEW age \in Int, NEW midpoint \in Int
      PROVE  Fade(age, midpoint) \in Int
  BY DEF Fade, AtLeastZero
<1>2. PingPenalty(m) \in Int
  <2>1. m.pings \in Seq([time : Times, slow : BOOLEAN])
    BY DEF Metrics
  <2>2. CASE m.pings = <<>>
    BY <2>2 DEF PingPenalty
  <2>3. CASE m.pings # <<>>
    <3>1. Len(m.pings) \in Nat \ {0}
      BY <2>1, <2>3
    <3>2. Cardinality({i \in DOMAIN m.pings : m.pings[i].slow}) \in Nat
      BY <2>1, CountedIndexes
    <3> QED
      BY <2>3, <3>1, <3>2 DEF PingPenalty
  <2> QED
    BY <2>2, <2>3
<1>3. BeforeConnectPenalty(m, t) \in Int
  <2> DEFINE last == m.beforeConnect[Len(m.beforeConnect)]
             bonus == IF last < m.lastSeen THEN SeenBonus ELSE 0
  <2>1. m.beforeConnect \in Seq(Times)
    BY DEF Metrics
  <2>2. CASE m.beforeConnect = <<>>
    BY <2>2 DEF BeforeConnectPenalty
  <2>3. CASE m.beforeConnect # <<>>
    <3>1. last \in Times
      BY <2>1, <2>3
    <3>2. last \in Int
      BY <3>1 DEF Times
    <3> HIDE DEF last
    <3>3. t - last + bonus \in Int /\ DisconnectMidpoint \in Int
      BY <3>2, Bounds
    <3>4. Fade(t - last + bonus, DisconnectMidpoint) \in Int
      BY <1>1, <3>3
    <3> QED
      BY <2>3, <3>4 DEF BeforeConnectPenalty, last
  <2> QED
    BY <2>2, <2>3
<1>4. AfterConnectPenalty(m, t) \in Int
  <2> DEFINE times == m.afterConnect
             cluster(i) == Cardinality({j \in DOMAIN times : times[j] = times[i]})
             penalty == [i \in DOMAIN times |-> Fade(t - times[i], cluster(i) + 1)]
  <2>1. times \in Seq(Times)
    BY DEF Metrics
  <2>2. ASSUME NEW i \in DOMAIN times
        PROVE  Fade(t - times[i], cluster(i) + 1) \in Int
    <3>1. cluster(i) \in Nat
      BY <2>1, CountedIndexes
    <3>2. times[i] \in Times
      <4> HIDE DEF times
      <4> QED
        BY <2>1
    <3>3. times[i] \in Int
      BY <3>2 DEF Times
    <3> HIDE DEF cluster, times
    <3> QED
      BY <1>1, <3>1, <3>3
  <2>3. IsFiniteSet(DOMAIN times)
    <3>1. DOMAIN times = 1..Len(times) /\ Len(times) \in Nat
      BY <2>1
    <3> QED
      BY <3>1, FS_Interval
  <2> HIDE DEF cluster, times
  <2>4. penalty \in Surjection(DOMAIN times, Range(penalty))
    BY DEF Surjection, Range
  <2>5. IsFiniteSet(Range(penalty))
    BY <2>3, <2>4, FS_Surjection
  <2>6. Range(penalty) = {Fade(t - times[i], cluster(i) + 1) : i \in DOMAIN times}
    BY DEF Range
  <2>7. Range(penalty) \subseteq Int
    BY <2>2, <2>6
  <2>8. IsFiniteSet({0} \cup Range(penalty))
    BY <2>5, FS_Union, FS_Singleton
  <2> HIDE DEF penalty
  <2>9. Max({0} \cup Range(penalty)) \in Int
    BY <2>7, <2>8, MaxIsGreatest
  <2> QED
    BY <2>6, <2>9 DEF AfterConnectPenalty, times, cluster
<1>5. /\ FadeSince(m.lastOutOfSync, t, OutOfSyncMidpoint) \in Int
      /\ FadeSince(m.lastInvalid, t, InvalidMidpoint) \in Int
  <2>1. m.lastOutOfSync \in Int /\ m.lastInvalid \in Int
    BY DEF Metrics, Times
  <2>2. ASSUME NEW time \in Int, NEW midpoint \in Int
        PROVE  FadeSince(time, t, midpoint) \in Int
    <3>1. Fade(t - time, midpoint) \in Int
      BY <1>1
    <3> QED
      BY <3>1 DEF FadeSince
  <2>3. OutOfSyncMidpoint \in Int /\ InvalidMidpoint \in Int
    BY Bounds
  <2> QED
    BY <2>1, <2>2, <2>3
<1> QED
  BY <1>2, <1>3, <1>4, <1>5 DEF Rating

(* The highest time of metrics of a node that was seen is a time. *)
LEMMA HighestTimeIsTime ==
  ASSUME NEW m \in GoodMetrics
  PROVE  HighestTime(m) \in Times /\ HighestTime(m) > 0
<1> DEFINE S == {m.lastSeen, m.lastConnect, m.lastOutOfSync, m.lastInvalid}
                  \cup {m.pings[i].time : i \in DOMAIN m.pings}
                  \cup Range(m.beforeConnect) \cup Range(m.afterConnect)
<1>1. /\ m.pings \in Seq([time : Times, slow : BOOLEAN])
      /\ m.beforeConnect \in Seq(Times) /\ m.afterConnect \in Seq(Times)
      /\ m.lastSeen \in Times /\ m.lastSeen > 0
      /\ {m.lastConnect, m.lastOutOfSync, m.lastInvalid} \subseteq Times
  BY DEF GoodMetrics, Metrics
<1>2. S \subseteq Times
  <2>1. \A i \in DOMAIN m.pings : m.pings[i].time \in Times
    <3>1. \A i \in DOMAIN m.pings : m.pings[i] \in [time : Times, slow : BOOLEAN]
      BY <1>1, ElementsOfSeq
    <3> QED
      BY <3>1
  <2>2. Range(m.beforeConnect) \subseteq Times /\ Range(m.afterConnect) \subseteq Times
    BY <1>1 DEF Range
  <2> QED
    BY <1>1, <2>1, <2>2
<1>3. m.lastSeen \in S
  OBVIOUS
<1> HIDE DEF S
<1>4. Max(S) \in Times /\ m.lastSeen <= Max(S)
  BY <1>2, <1>3, MaxOfTimes
<1>5. Max(S) > 0
  BY <1>1, <1>4, Bounds DEF Times
<1> QED
  BY <1>4, <1>5 DEF HighestTime, S

----------------------------------------------------------------------------
(* The types *)

(* The types of all that is kept, and that a node known was seen. *)
DataInv ==
  /\ ipPortToMetrics \in MetricsMaps
  /\ levelDbMetrics \in MetricsMaps
  /\ metricsSaveQueue \in Seq(Writes)
  /\ Range(ipPortToRating) \subseteq Int
  /\ nonBlacklisted \subseteq Node
  /\ {latestMetricsTime, now} \subseteq Times
  /\ now > 0
  /\ ratingsAreRecent \in BOOLEAN
  /\ status \in {"down", "open", "closing", "closed"}
  /\ lost \subseteq Node

(* Of a pushed event and those before it, no more than MaxRecent are kept. *)
LEMMA PushedKeepsRecent ==
  ASSUME NEW V, NEW recent \in Seq(V), Len(recent) <= MaxRecent, NEW entry \in V
  PROVE  Pushed(recent, entry) \in Seq(V) /\ Len(Pushed(recent, entry)) <= MaxRecent
<1>1. CASE Len(recent) = MaxRecent
  <2>1. recent # <<>>
    BY <1>1, Bounds
  <2>2. Tail(recent) \in Seq(V) /\ Len(Tail(recent)) = Len(recent) - 1
    BY <2>1
  <2> QED
    BY <1>1, <2>2, Bounds DEF Pushed
<1>2. CASE Len(recent) # MaxRecent
  BY <1>2, Bounds DEF Pushed
<1> QED
  BY <1>1, <1>2

(* The metrics a call starts from, those of a node just heard of included. *)
LEMMA MetricsOfIsGood ==
  ASSUME DataInv, NEW n \in Node
  PROVE  MetricsOf(n) \in GoodMetrics
<1>1. CASE n \in Known
  BY <1>1, MapOfMetrics DEF DataInv, MetricsOf, Known
<1>2. CASE n \notin Known
  <2>1. now \in Times /\ now > 0 /\ 0 \in Times
    BY Bounds DEF DataInv, Times
  <2>2. DefaultMetrics(now) \in Metrics
    BY <2>1 DEF DefaultMetrics, Metrics
  <2>3. Len(<<>>) <= MaxRecent
    BY Bounds
  <2> QED
    BY <1>2, <2>1, <2>2, <2>3 DEF MetricsOf, GoodMetrics, DefaultMetrics
<1> QED
  BY <1>1, <1>2

(* The metrics of one node are a map. *)
LEMMA EntryIsMap ==
  ASSUME NEW n \in Node, NEW m \in GoodMetrics
  PROVE  Entry(n, m) \in MetricsMaps
<1> HIDE DEF GoodMetrics
<1>1. Entry(n, m) \in [{n} -> GoodMetrics]
  BY DEF Entry
<1> QED
  BY <1>1 DEF MetricsMaps

(* What the calls make of the metrics of a node. *)
LEMMA ChangedMetrics ==
  ASSUME NEW m \in GoodMetrics, NEW t \in Times, t > 0
  PROVE  /\ \A slow \in BOOLEAN :
              [m EXCEPT !.pings = Pushed(@, [time |-> t, slow |-> slow]), !.lastSeen = t]
                \in GoodMetrics
         /\ [m EXCEPT !.afterConnect = Pushed(@, t)] \in GoodMetrics
         /\ [m EXCEPT !.beforeConnect = Pushed(@, t)] \in GoodMetrics
         /\ [m EXCEPT !.lastConnect = t, !.lastSeen = t] \in GoodMetrics
         /\ [m EXCEPT !.lastTested = t, !.lastSeen = t,
                      !.lastConnect = IF @ = 0 THEN t ELSE @] \in GoodMetrics
         /\ [m EXCEPT !.lastData = t, !.lastSeen = t] \in GoodMetrics
         /\ [m EXCEPT !.lastOutOfSync = t, !.lastSeen = t] \in GoodMetrics
         /\ [m EXCEPT !.lastInvalid = t, !.lastSeen = t] \in GoodMetrics
         /\ [m EXCEPT !.lastSeen = t] \in GoodMetrics
<1> DEFINE Ping == [time : Times, slow : BOOLEAN]
<1>1. /\ m \in Metrics /\ m.lastSeen > 0 /\ Len(m.pings) <= MaxRecent
      /\ Len(m.beforeConnect) <= MaxRecent /\ Len(m.afterConnect) <= MaxRecent
  BY DEF GoodMetrics
<1>2. m.pings \in Seq(Ping) /\ m.beforeConnect \in Seq(Times) /\ m.afterConnect \in Seq(Times)
  BY <1>1 DEF Metrics
<1>3. ASSUME NEW slow \in BOOLEAN
      PROVE  [m EXCEPT !.pings = Pushed(@, [time |-> t, slow |-> slow]), !.lastSeen = t]
                \in GoodMetrics
  <2> DEFINE pushed == Pushed(m.pings, [time |-> t, slow |-> slow])
  <2>1. [time |-> t, slow |-> slow] \in Ping
    OBVIOUS
  <2>2. pushed \in Seq(Ping) /\ Len(pushed) <= MaxRecent
    BY <1>1, <1>2, <2>1, PushedKeepsRecent
  <2> HIDE DEF pushed
  <2>3. [m EXCEPT !.pings = pushed, !.lastSeen = t] \in GoodMetrics
    BY <1>1, <2>2 DEF GoodMetrics, Metrics
  <2> QED
    BY <2>3 DEF pushed
<1>4. [m EXCEPT !.afterConnect = Pushed(@, t)] \in GoodMetrics
  <2> DEFINE pushed == Pushed(m.afterConnect, t)
  <2>1. pushed \in Seq(Times) /\ Len(pushed) <= MaxRecent
    BY <1>1, <1>2, PushedKeepsRecent
  <2> HIDE DEF pushed
  <2>2. [m EXCEPT !.afterConnect = pushed] \in GoodMetrics
    BY <1>1, <2>1 DEF GoodMetrics, Metrics
  <2> QED
    BY <2>2 DEF pushed
<1>5. [m EXCEPT !.beforeConnect = Pushed(@, t)] \in GoodMetrics
  <2> DEFINE pushed == Pushed(m.beforeConnect, t)
  <2>1. pushed \in Seq(Times) /\ Len(pushed) <= MaxRecent
    BY <1>1, <1>2, PushedKeepsRecent
  <2> HIDE DEF pushed
  <2>2. [m EXCEPT !.beforeConnect = pushed] \in GoodMetrics
    BY <1>1, <2>1 DEF GoodMetrics, Metrics
  <2> QED
    BY <2>2 DEF pushed
<1>6. [m EXCEPT !.lastConnect = t, !.lastSeen = t] \in GoodMetrics
  BY <1>1 DEF GoodMetrics, Metrics
<1>7. [m EXCEPT !.lastTested = t, !.lastSeen = t, !.lastConnect = IF @ = 0 THEN t ELSE @]
        \in GoodMetrics
  <2> DEFINE connect == IF m.lastConnect = 0 THEN t ELSE m.lastConnect
  <2>1. connect \in Times
    BY <1>1 DEF Metrics
  <2> HIDE DEF connect
  <2>2. [m EXCEPT !.lastTested = t, !.lastSeen = t, !.lastConnect = connect] \in GoodMetrics
    BY <1>1, <2>1 DEF GoodMetrics, Metrics
  <2> QED
    BY <2>2 DEF connect
<1>8. /\ [m EXCEPT !.lastData = t, !.lastSeen = t] \in GoodMetrics
      /\ [m EXCEPT !.lastOutOfSync = t, !.lastSeen = t] \in GoodMetrics
  BY <1>1 DEF GoodMetrics, Metrics
<1>9. /\ [m EXCEPT !.lastInvalid = t, !.lastSeen = t] \in GoodMetrics
      /\ [m EXCEPT !.lastSeen = t] \in GoodMetrics
  BY <1>1 DEF GoodMetrics, Metrics
<1> QED
  BY <1>3, <1>4, <1>5, <1>6, <1>7, <1>8, <1>9

(* Every call that sets metrics sets such metrics. *)
LEMMA CallsSetMetrics ==
  ASSUME DataInv, NEW n \in Node, UpdateNode(n), ~ DeleteNode(n)
  PROVE  Call /\ \E metrics \in MetricsMaps : UpdateMetricsBatch(metrics)
<1>1. Call
  BY CallsThatUpdate
<1>2. now \in Times /\ now > 0
  BY DEF DataInv
<1> DEFINE m == MetricsOf(n)
<1>3. m \in GoodMetrics
  BY MetricsOfIsGood
<1>4. \E new \in GoodMetrics : UpdateMetrics(n, new)
  <2> HIDE DEF m
  <2> USE <1>2, <1>3
  <2>1. ASSUME NEW slow \in BOOLEAN, AddPingTimeMs(n, slow)
        PROVE  \E new \in GoodMetrics : UpdateMetrics(n, new)
    BY <2>1, ChangedMetrics DEF AddPingTimeMs, m
  <2>2. CASE AddRecentUnintentionalDisconnectTimesMs(n)
    <3>1. UpdateMetrics(n, [m EXCEPT !.afterConnect = Pushed(@, now)])
          \/ UpdateMetrics(n, [m EXCEPT !.beforeConnect = Pushed(@, now)])
      BY <2>2 DEF AddRecentUnintentionalDisconnectTimesMs, m
    <3> QED
      BY <3>1, ChangedMetrics
  <2>3. CASE AddLastConnectTimeMs(n)
    BY <2>3, ChangedMetrics DEF AddLastConnectTimeMs, m
  <2>4. CASE AddLastConnectAndTestTimeMs(n)
    BY <2>4, ChangedMetrics DEF AddLastConnectAndTestTimeMs, m
  <2>5. CASE AddLastDataReceivedTimeMs(n)
    BY <2>5, ChangedMetrics DEF AddLastDataReceivedTimeMs, m
  <2>6. CASE AddLastOutOfSyncTimeMs(n)
    BY <2>6, ChangedMetrics DEF AddLastOutOfSyncTimeMs, m
  <2>7. CASE AddLastInvalidChainDetectedTimeMs(n)
    BY <2>7, ChangedMetrics DEF AddLastInvalidChainDetectedTimeMs, m
  <2> QED
    BY <2>1, <2>2, <2>3, <2>4, <2>5, <2>6, <2>7 DEF UpdateNode
<1> QED
  BY <1>1, <1>4, EntryIsMap DEF UpdateMetrics

(* So does the call that many nodes were seen. *)
LEMMA SeenSetsMetrics ==
  ASSUME DataInv, NEW nodes \in SUBSET Node, AddSeenBatch(nodes)
  PROVE  Call /\ \E metrics \in MetricsMaps : UpdateMetricsBatch(metrics)
<1> DEFINE metrics == [n \in nodes |-> [MetricsOf(n) EXCEPT !.lastSeen = now]]
<1>1. now \in Times /\ now > 0
  BY DEF DataInv
<1>2. ASSUME NEW n \in nodes
      PROVE  [MetricsOf(n) EXCEPT !.lastSeen = now] \in GoodMetrics
  BY <1>1, MetricsOfIsGood, ChangedMetrics
<1>3. metrics \in MetricsMaps
  <2> HIDE DEF GoodMetrics
  <2>1. metrics \in [nodes -> GoodMetrics]
    BY <1>2
  <2> QED
    BY <2>1 DEF MetricsMaps
<1> QED
  BY <1>3 DEF AddSeenBatch

(* The highest times of some metrics are times, and so is the latest. *)
LEMMA HighestTimesAreTimes ==
  ASSUME NEW metrics \in MetricsMaps
  PROVE  /\ HighestTimes(metrics) \subseteq Times
         /\ LatestOf(metrics) \in Times
         /\ \A n \in DOMAIN metrics :
              0 < HighestTime(metrics[n]) /\ HighestTime(metrics[n]) <= LatestOf(metrics)
<1>1. \A n \in DOMAIN metrics : metrics[n] \in GoodMetrics
  BY MapOfMetrics
<1>2. \A n \in DOMAIN metrics : HighestTime(metrics[n]) \in Times /\ HighestTime(metrics[n]) > 0
  BY <1>1, HighestTimeIsTime
<1>3. HighestTimes(metrics) \subseteq Times /\ {0} \subseteq Times
  BY <1>2, Bounds DEF HighestTimes, Times
<1>4. LatestOf(metrics) \in Times /\ \A k \in HighestTimes(metrics) : k <= LatestOf(metrics)
  <2>1. {0} \cup HighestTimes(metrics) \subseteq Times
    BY <1>3
  <2> QED
    BY <2>1, MaxOfTimes DEF LatestOf
<1>5. \A n \in DOMAIN metrics : 0 < HighestTime(metrics[n])
  BY <1>2, Bounds DEF Times
<1>6. \A n \in DOMAIN metrics : HighestTime(metrics[n]) <= LatestOf(metrics)
  BY <1>4 DEF HighestTimes
<1> QED
  BY <1>3, <1>4, <1>5, <1>6

(* The ratings of metrics are numbers. *)
LEMMA RatingsAreInts ==
  ASSUME NEW metrics \in MetricsMaps, now \in Times
  PROVE  Range(Ratings(metrics)) \subseteq Int
<1>1. now \in Int
  BY DEF Times
<1>2. \A n \in DOMAIN metrics : metrics[n] \in Metrics
  BY MapOfMetrics DEF GoodMetrics
<1>3. \A n \in DOMAIN metrics : Rating(metrics[n], now) \in Int
  BY <1>1, <1>2, RatingIsInt
<1> QED
  BY <1>3 DEF Ratings, Range

(* An update keeps the types. *)
LEMMA UpdateKeepsData ==
  ASSUME DataInv, LatestTimeIsLatest, Call, NEW metrics \in MetricsMaps,
         UpdateMetricsBatch(metrics)
  PROVE  DataInv' /\ LatestTimeIsLatest'
<1>1. /\ latestMetricsTime' = Max({latestMetricsTime} \cup HighestTimes(metrics))
      /\ ipPortToMetrics' = WithEntries(ipPortToMetrics, metrics)
      /\ ipPortToRating' = WithEntries(ipPortToRating, Ratings(metrics))
      /\ nonBlacklisted' \subseteq nonBlacklisted \cup DOMAIN metrics
      /\ metricsSaveQueue' = Append(metricsSaveQueue, [put |-> metrics, del |-> {}])
      /\ UNCHANGED <<ratingsAreRecent, levelDbMetrics, lost, status, now>>
  BY DEF Call, UpdateMetricsBatch, Write, Acceptable, Ratings
<1>2. ipPortToMetrics' \in MetricsMaps
  BY <1>1, MapsOfMetrics DEF DataInv
<1>3. metricsSaveQueue' \in Seq(Writes)
  <2>1. [put |-> metrics, del |-> {}] \in Writes
    BY DEF Writes
  <2> QED
    BY <1>1, <2>1 DEF DataInv
<1>4. Range(ipPortToRating') \subseteq Int
  <2>1. Range(Ratings(metrics)) \subseteq Int /\ Range(ipPortToRating) \subseteq Int
    BY RatingsAreInts DEF DataInv
  <2>2. Range(ipPortToRating') \subseteq Range(ipPortToRating) \cup Range(Ratings(metrics))
    BY <1>1 DEF WithEntries, Range
  <2> QED
    BY <2>1, <2>2
<1>5. nonBlacklisted' \subseteq Node
  BY <1>1, MapOfMetrics DEF DataInv
<1>6. /\ latestMetricsTime' \in Times /\ latestMetricsTime <= latestMetricsTime'
      /\ \A k \in HighestTimes(metrics) : k <= latestMetricsTime'
  <2>1. {latestMetricsTime} \cup HighestTimes(metrics) \subseteq Times
    BY HighestTimesAreTimes DEF DataInv
  <2> QED
    BY <1>1, <2>1, MaxOfTimes
<1>7. DataInv'
  BY <1>1, <1>2, <1>3, <1>4, <1>5, <1>6 DEF DataInv
<1>8. LatestTimeIsLatest'
  <2>1. ASSUME NEW n \in Known'
        PROVE  /\ HighestTime(ipPortToMetrics'[n]) \in Times
               /\ 0 < HighestTime(ipPortToMetrics'[n])
    BY <1>2, MapOfMetrics, HighestTimeIsTime DEF Known
  <2>2. ASSUME NEW n \in Known'
        PROVE  HighestTime(ipPortToMetrics'[n]) <= latestMetricsTime'
    <3>1. CASE n \in DOMAIN metrics
      <4>1. ipPortToMetrics'[n] = metrics[n]
        BY <1>1, <3>1 DEF WithEntries
      <4>2. HighestTime(metrics[n]) \in HighestTimes(metrics)
        BY <3>1 DEF HighestTimes
      <4> QED
        BY <1>6, <4>1, <4>2
    <3>2. CASE n \notin DOMAIN metrics
      <4>1. n \in Known /\ ipPortToMetrics'[n] = ipPortToMetrics[n]
        BY <1>1, <3>2 DEF WithEntries, Known
      <4>2. HighestTime(ipPortToMetrics[n]) <= latestMetricsTime
        BY <4>1 DEF LatestTimeIsLatest
      <4>3. HighestTime(ipPortToMetrics[n]) \in Times /\ latestMetricsTime \in Times
        BY <2>1, <4>1 DEF DataInv
      <4>4. \A a, b, c \in Times : a <= b /\ b <= c => a <= c
        BY Bounds DEF Times
      <4> QED
        BY <1>6, <4>1, <4>2, <4>3, <4>4
    <3> QED
      BY <3>1, <3>2
  <2>3. \A a, b \in Times : 0 < a /\ a <= b => 0 < b
    BY Bounds DEF Times
  <2> QED
    BY <1>6, <2>1, <2>2, <2>3 DEF LatestTimeIsLatest
<1> QED
  BY <1>7, <1>8

(* So do nodes that are forgotten: the latest time stays, or is found      *)
(* again among those left.                                                 *)
LEMMA RemovalKeepsData ==
  ASSUME DataInv, LatestTimeIsLatest, NEW nodes \in SUBSET Node,
         ipPortToMetrics' = Restrict(ipPortToMetrics, Known \ nodes),
         ipPortToRating' = Restrict(ipPortToRating, DOMAIN ipPortToRating \ nodes),
         nonBlacklisted' = nonBlacklisted \/ nonBlacklisted' = nonBlacklisted \ nodes,
         latestMetricsTime' = latestMetricsTime \/ latestMetricsTime' = LatestOf(ipPortToMetrics'),
         Write(<<>>, nodes),
         UNCHANGED <<ratingsAreRecent, levelDbMetrics, lost, status, now>>
  PROVE  DataInv' /\ LatestTimeIsLatest'
<1>1. ipPortToMetrics' \in MetricsMaps
  BY MapsOfMetrics DEF DataInv, Known
<1>2. metricsSaveQueue' \in Seq(Writes)
  <2>1. [put |-> <<>>, del |-> nodes] \in Writes
    BY MapsOfMetrics DEF Writes
  <2> QED
    BY <2>1 DEF DataInv, Write
<1>3. Range(ipPortToRating') \subseteq Int
  BY DEF DataInv, Restrict, Range
<1>4. latestMetricsTime' \in Times
  BY <1>1, HighestTimesAreTimes DEF DataInv
<1>5. DataInv'
  BY <1>1, <1>2, <1>3, <1>4 DEF DataInv
<1>6. LatestTimeIsLatest'
  <2>1. CASE latestMetricsTime' = latestMetricsTime
    <3>1. \A n \in Known' : n \in Known /\ ipPortToMetrics'[n] = ipPortToMetrics[n]
      BY DEF Known, Restrict
    <3> QED
      BY <2>1, <3>1 DEF LatestTimeIsLatest
  <2>2. CASE latestMetricsTime' = LatestOf(ipPortToMetrics')
    <3>1. \A n \in Known' : /\ HighestTime(ipPortToMetrics'[n]) \in Times
                            /\ 0 < HighestTime(ipPortToMetrics'[n])
                            /\ HighestTime(ipPortToMetrics'[n]) <= latestMetricsTime'
      BY <1>1, <2>2, HighestTimesAreTimes, MapOfMetrics, HighestTimeIsTime DEF Known
    <3>2. \A a, b \in Times : 0 < a /\ a <= b => 0 < b
      BY Bounds DEF Times
    <3> QED
      BY <1>4, <3>1, <3>2 DEF LatestTimeIsLatest
  <2> QED
    BY <2>1, <2>2
<1> QED
  BY <1>5, <1>6

(* Empty maps have no latest time to be wrong about. *)
LEMMA ClearKeepsData ==
  ASSUME DataInv, ClearMemory, ratingsAreRecent' = FALSE,
         metricsSaveQueue' \in Seq(Writes), lost' \subseteq Node,
         status' \in {"down", "open", "closing", "closed"},
         UNCHANGED <<levelDbMetrics, now>>
  PROVE  DataInv' /\ LatestTimeIsLatest'
<1>1. /\ ipPortToMetrics' = <<>> /\ ipPortToRating' = <<>>
      /\ nonBlacklisted' = {} /\ latestMetricsTime' = 0
  BY DEF ClearMemory
<1>2. DOMAIN <<>> = {}
  OBVIOUS
<1>3. Range(ipPortToRating') \subseteq Int /\ Known' = {}
  BY <1>1, <1>2 DEF Range, Known
<1>4. latestMetricsTime' \in Times
  BY <1>1, Bounds DEF Times
<1> QED
  BY <1>1, <1>3, <1>4, MapsOfMetrics DEF DataInv, LatestTimeIsLatest

(* Ratings that are computed again are numbers, of nodes. *)
LEMMA RebuildKeepsData ==
  ASSUME DataInv, NEW metrics \in MetricsMaps, RebuildRatings(metrics)
  PROVE  /\ Range(ipPortToRating') \subseteq Int
         /\ nonBlacklisted' \subseteq Node
         /\ ratingsAreRecent' \in BOOLEAN
<1>1. now \in Times
  BY DEF DataInv
<1>2. Range(Ratings(metrics)) \subseteq Int /\ DOMAIN metrics \subseteq Node
  BY <1>1, RatingsAreInts, MapOfMetrics
<1> QED
  BY <1>2 DEF RebuildRatings, Acceptable, Ratings

(* The indexes hold nodes, under numbers. *)
LEMMA IndexesHoldNodes ==
  ASSUME DataInv, IndexesAgree
  PROVE  /\ DOMAIN ipPortToRating \subseteq Node
         /\ DOMAIN ratingToIpPorts \subseteq Int /\ DOMAIN seenTimeToIpPorts \subseteq Times
         /\ \A k \in DOMAIN ratingToIpPorts : ratingToIpPorts[k] \subseteq Node
         /\ \A k \in DOMAIN seenTimeToIpPorts : seenTimeToIpPorts[k] \subseteq Node
<1>1. DOMAIN ipPortToRating = Known /\ Known \subseteq Node
      /\ \A n \in Known : ipPortToMetrics[n].lastSeen \in Times
  BY MapOfMetrics DEF IndexesAgree, DataInv, Known, GoodMetrics, Metrics
<1>2. DOMAIN ratingToIpPorts \subseteq Int
      /\ \A k \in DOMAIN ratingToIpPorts : ratingToIpPorts[k] \subseteq Node
  BY <1>1, IndexSets DEF IndexesAgree, DataInv
<1>3. DOMAIN seenTimeToIpPorts \subseteq Times
      /\ \A k \in DOMAIN seenTimeToIpPorts : seenTimeToIpPorts[k] \subseteq Node
  <2>1. Range(SeenTimes(ipPortToMetrics)) \subseteq Times
    BY <1>1 DEF SeenTimes, Range, Known
  <2>2. DOMAIN SeenTimes(ipPortToMetrics) \subseteq Node
    BY <1>1 DEF SeenTimes, Known
  <2> QED
    BY <2>1, <2>2, IndexSets DEF IndexesAgree
<1> QED
  BY <1>1, <1>2, <1>3

(* The nodes that clearOld and clearBlacklisted choose. *)
LEMMA ClearedNodes ==
  ASSUME DataInv, MapsAgree, NEW amount, NEW excluded,
         ClearOld(amount, excluded) \/ ClearBlacklisted(amount, excluded)
  PROVE  /\ Call
         /\ \E nodes \in SUBSET Node :
              /\ RemoveNodes(nodes)
              /\ nonBlacklisted' = nonBlacklisted \/ nonBlacklisted' = nonBlacklisted \ nodes
<1>1. ASSUME NEW index, \A k \in DOMAIN index : index[k] \subseteq Node,
             NEW nodes \in FirstOf(index, amount, excluded)
      PROVE  nodes \in SUBSET Node
  <2>1. UNION Range(index) \subseteq Node
    BY <1>1 DEF Range
  <2> QED
    BY <2>1 DEF FirstOf
<1>2. CASE ClearOld(amount, excluded)
  <2>1. PICK nodes \in FirstOf(seenTimeToIpPorts, amount, excluded) :
          RemoveNodes(nodes) /\ nonBlacklisted' = nonBlacklisted \ nodes
    BY <1>2 DEF ClearOld
  <2>2. nodes \in SUBSET Node
    BY <1>1, IndexesHoldNodes DEF MapsAgree
  <2> QED
    BY <1>2, <2>1, <2>2 DEF ClearOld
<1>3. CASE ClearBlacklisted(amount, excluded)
  <2> DEFINE index == Restrict(ratingToIpPorts,
                               {k \in DOMAIN ratingToIpPorts : ~ IsAcceptable(k)})
  <2>1. PICK nodes \in FirstOf(index, amount, excluded) : RemoveNodes(nodes)
    BY <1>3 DEF ClearBlacklisted
  <2>2. \A k \in DOMAIN index : index[k] \subseteq Node
    BY IndexesHoldNodes DEF MapsAgree, Restrict
  <2>3. nodes \in SUBSET Node
    <3> HIDE DEF index
    <3> QED
      BY <1>1, <2>1, <2>2
  <2> QED
    BY <1>3, <2>1, <2>3 DEF ClearBlacklisted
<1> QED
  BY <1>2, <1>3

(* Every step keeps the types, and the latest time the latest. *)
LEMMA NextKeepsData ==
  ASSUME DataInv, LatestTimeIsLatest, MapsAgree, [Next]_vars
  PROVE  DataInv' /\ LatestTimeIsLatest'
<1>s. ASSUME UNCHANGED <<ipPortToMetrics, latestMetricsTime>>
      PROVE  LatestTimeIsLatest'
  BY <1>s DEF LatestTimeIsLatest, Known
<1>1. ASSUME NEW n \in Node, UpdateNode(n)
      PROVE  DataInv' /\ LatestTimeIsLatest'
  <2>1. CASE DeleteNode(n)
    <3>1. {n} \in SUBSET Node
      OBVIOUS
    <3> QED
      BY <2>1, <3>1, RemovalKeepsData DEF DeleteNode, Call
  <2>2. CASE ~ DeleteNode(n)
    <3>1. Call /\ \E metrics \in MetricsMaps : UpdateMetricsBatch(metrics)
      BY <1>1, <2>2, CallsSetMetrics
    <3> QED
      BY <3>1, UpdateKeepsData
  <2> QED
    BY <2>1, <2>2
<1>2. ASSUME NEW n \in Node, RecalculateNodeRating(n)
      PROVE  DataInv' /\ LatestTimeIsLatest'
  <2> DEFINE new == Rating(ipPortToMetrics[n], now)
  <2>1. /\ n \in Known
        /\ ipPortToRating' = [ipPortToRating EXCEPT ![n] = new]
        /\ nonBlacklisted' = Relisted(n, ipPortToRating[n], new)
        /\ UNCHANGED <<ipPortToMetrics, latestMetricsTime, ratingsAreRecent, diskVars, status, now>>
    BY <1>2 DEF RecalculateNodeRating
  <2>2. new \in Int
    <3>1. ipPortToMetrics[n] \in Metrics
      BY <2>1, MapOfMetrics DEF DataInv, Known, GoodMetrics
    <3>2. now \in Int
      BY DEF DataInv, Times
    <3> QED
      BY <3>1, <3>2, RatingIsInt
  <2> HIDE DEF new
  <2>3. Range(ipPortToRating') \subseteq Range(ipPortToRating) \cup {new}
    BY <2>1 DEF Range
  <2>4. nonBlacklisted' \subseteq Node
    BY <2>1 DEF Relisted, DataInv
  <2> QED
    BY <1>s, <2>1, <2>2, <2>3, <2>4 DEF DataInv, diskVars
<1>3. CASE UpdateNodes
  <2>1. ASSUME NEW nodes \in SUBSET Node, AddSeenBatch(nodes)
        PROVE  DataInv' /\ LatestTimeIsLatest'
    <3>1. Call /\ \E metrics \in MetricsMaps : UpdateMetricsBatch(metrics)
      BY <2>1, SeenSetsMetrics
    <3> QED
      BY <3>1, UpdateKeepsData
  <2>2. ASSUME NEW nodes \in SUBSET Node, RemoveNodes(nodes), Call,
               nonBlacklisted' = nonBlacklisted \/ nonBlacklisted' = nonBlacklisted \ nodes
        PROVE  DataInv' /\ LatestTimeIsLatest'
    BY <2>2, RemovalKeepsData DEF RemoveNodes, Call
  <2>3. Known \subseteq Node
    BY MapOfMetrics DEF DataInv, Known
  <2>5. ASSUME NEW amount, NEW excluded,
               ClearOld(amount, excluded) \/ ClearBlacklisted(amount, excluded)
        PROVE  DataInv' /\ LatestTimeIsLatest'
    BY <2>2, <2>5, ClearedNodes
  <2>7. ASSUME NEW excluded, DeleteNodes(excluded)
        PROVE  DataInv' /\ LatestTimeIsLatest'
    BY <2>2, <2>3, <2>7 DEF DeleteNodes
  <2>8. CASE Clear
    <3>1. [put |-> <<>>, del |-> Node] \in Writes
      BY MapsOfMetrics DEF Writes
    <3>2. metricsSaveQueue' \in Seq(Writes)
      BY <2>8, <3>1 DEF Clear, Write, DataInv
    <3> QED
      BY <2>8, <3>2, ClearKeepsData DEF Clear, DataInv
  <2> QED
    BY <1>3, <2>1, <2>5, <2>7, <2>8 DEF UpdateNodes
<1>4. CASE BuildRatingsMapsFromMetrics
  <2>1. /\ RebuildRatings(ipPortToMetrics)
        /\ UNCHANGED <<ipPortToMetrics, latestMetricsTime, diskVars, status, now>>
    BY <1>4 DEF BuildRatingsMapsFromMetrics
  <2>2. ipPortToMetrics \in MetricsMaps
    BY DEF DataInv
  <2> QED
    BY <1>s, <2>1, <2>2, RebuildKeepsData DEF DataInv, diskVars
<1>5. CASE Create
  <2>1. /\ ipPortToMetrics' = levelDbMetrics /\ latestMetricsTime' = LatestOf(levelDbMetrics)
        /\ RebuildRatings(levelDbMetrics) /\ status' = "open"
        /\ UNCHANGED <<diskVars, now>>
    BY <1>5 DEF Create
  <2>2. levelDbMetrics \in MetricsMaps
    BY DEF DataInv
  <2>3. LatestOf(levelDbMetrics) \in Times
        /\ \A n \in DOMAIN levelDbMetrics :
             /\ HighestTime(levelDbMetrics[n]) \in Times
             /\ 0 < HighestTime(levelDbMetrics[n])
             /\ HighestTime(levelDbMetrics[n]) <= LatestOf(levelDbMetrics)
    BY <2>2, HighestTimesAreTimes, MapOfMetrics, HighestTimeIsTime
  <2>4. \A a, b \in Times : 0 < a /\ a <= b => 0 < b
    BY Bounds DEF Times
  <2>5. LatestTimeIsLatest'
    BY <2>1, <2>3, <2>4 DEF LatestTimeIsLatest, Known
  <2> QED
    BY <2>1, <2>2, <2>3, <2>5, RebuildKeepsData DEF DataInv, diskVars
<1>6. CASE Crash
  <2>1. <<>> \in Seq(Writes)
    OBVIOUS
  <2> QED
    BY <1>6, <2>1, ClearKeepsData DEF Crash
<1>7. CASE WriteSucceeds \/ WriteFails
  <2> DEFINE write == Head(metricsSaveQueue)
  <2>1. metricsSaveQueue \in Seq(Writes) /\ metricsSaveQueue # <<>>
    BY <1>7 DEF DataInv, WriteSucceeds, WriteFails
  <2>2. write \in Writes /\ Tail(metricsSaveQueue) \in Seq(Writes)
    BY <2>1
  <2> HIDE DEF write
  <2>3. write.put \in MetricsMaps /\ write.del \in SUBSET Node
    BY <2>2 DEF Writes
  <2>4. Touched(write) \subseteq Node
    BY <2>3, MapOfMetrics DEF Touched
  <2>5. Applied(levelDbMetrics, write) \in MetricsMaps
    BY <2>3, MapsOfMetrics DEF Applied, DataInv
  <2> QED
    BY <1>s, <1>7, <2>2, <2>4, <2>5 DEF WriteSucceeds, WriteFails, DataInv, memoryVars, write
<1>8. CASE Close \/ FinishClose \/ Open
  BY <1>s, <1>8 DEF Close, FinishClose, Open, DataInv, memoryVars, diskVars
<1>9. CASE TimePasses
  <2>1. now' \in Times /\ now' > 0
    BY <1>9, Bounds DEF TimePasses, DataInv, Times
  <2> QED
    BY <1>s, <1>9, <2>1 DEF TimePasses, DataInv, memoryVars, diskVars
<1>10. CASE UNCHANGED vars
  BY <1>s, <1>10 DEF vars, DataInv, memoryVars, diskVars
<1> QED
  BY <1>1, <1>2, <1>3, <1>4, <1>5, <1>6, <1>7, <1>8, <1>9, <1>10 DEF Next

(* It is so at first. *)
LEMMA InitHasData == Init => DataInv /\ LatestTimeIsLatest
<1> SUFFICES ASSUME Init
             PROVE  DataInv /\ LatestTimeIsLatest
  OBVIOUS
<1>1. /\ ipPortToMetrics = <<>> /\ ipPortToRating = <<>> /\ levelDbMetrics = <<>>
      /\ nonBlacklisted = {} /\ latestMetricsTime = 0 /\ now = 1
      /\ ratingsAreRecent = FALSE /\ metricsSaveQueue = <<>> /\ status = "down" /\ lost = {}
  BY DEF Init
<1>2. DOMAIN <<>> = {}
  OBVIOUS
<1>3. Range(ipPortToRating) \subseteq Int /\ Known = {}
  BY <1>1, <1>2 DEF Range, Known
<1>4. 0 \in Times /\ 1 \in Times
  BY Bounds DEF Times
<1>5. <<>> \in Seq(Writes)
  OBVIOUS
<1>6. /\ ipPortToMetrics \in MetricsMaps /\ levelDbMetrics \in MetricsMaps
      /\ metricsSaveQueue \in Seq(Writes)
  BY <1>1, <1>5, MapsOfMetrics
<1>7. {latestMetricsTime, now} \subseteq Times /\ now > 0
  BY <1>1, <1>4
<1>8. nonBlacklisted \subseteq Node /\ lost \subseteq Node
  BY <1>1
<1>9. ratingsAreRecent \in BOOLEAN /\ status \in {"down", "open", "closing", "closed"}
  BY <1>1, Zenon
<1>10. DataInv
  BY <1>3, <1>6, <1>7, <1>8, <1>9 DEF DataInv
<1> QED
  BY <1>3, <1>10 DEF LatestTimeIsLatest

(* The type invariant. *)
LEMMA DataHasTypes ==
  ASSUME DataInv, IndexesAgree
  PROVE  TypeOK
<1>1. ASSUME NEW f \in MetricsMaps
      PROVE  IsMetricsMap(f) /\ \A n \in DOMAIN f : f[n] \in GoodMetrics
  <2>1. DOMAIN f \subseteq Node /\ f = [n \in DOMAIN f |-> f[n]]
        /\ \A n \in DOMAIN f : f[n] \in GoodMetrics
    BY MapOfMetrics
  <2>2. \A n \in DOMAIN f : f[n] \in Metrics
    BY <2>1 DEF GoodMetrics
  <2> QED
    BY <2>1, <2>2 DEF IsMetricsMap
<1>2. IsMetricsMap(ipPortToMetrics) /\ IsMetricsMap(levelDbMetrics)
  BY <1>1 DEF DataInv
<1>3. \A n \in Known : /\ ipPortToMetrics[n].lastSeen \in Times
                       /\ Len(ipPortToMetrics[n].pings) <= MaxRecent
                       /\ Len(ipPortToMetrics[n].beforeConnect) <= MaxRecent
                       /\ Len(ipPortToMetrics[n].afterConnect) <= MaxRecent
  BY <1>1 DEF DataInv, Known, GoodMetrics, Metrics
<1>4. \A i \in DOMAIN metricsSaveQueue :
        IsMetricsMap(metricsSaveQueue[i].put) /\ metricsSaveQueue[i].del \subseteq Node
  <2>1. \A i \in DOMAIN metricsSaveQueue : metricsSaveQueue[i] \in Writes
    BY ElementsOfSeq DEF DataInv
  <2> QED
    BY <1>1, <2>1 DEF Writes
<1>5. UNION (Range(seenTimeToIpPorts) \cup Range(ratingToIpPorts)) \subseteq Node
  BY IndexesHoldNodes DEF Range
<1> QED
  BY <1>2, <1>3, <1>4, <1>5, IndexesHoldNodes DEF TypeOK, DataInv

----------------------------------------------------------------------------
(* The writes that are queued *)

(* r[i] is what some metrics on disk become by the first i writes. *)
IsReplay(r, db, queue) ==
  r = [i \in 0..Len(queue) |-> IF i = 0 THEN db ELSE Applied(r[i - 1], queue[i])]

(* What they become by all of them. *)
ReplayOf(db, queue) ==
  LET replay[i \in 0..Len(queue)] == IF i = 0 THEN db ELSE Applied(replay[i - 1], queue[i])
  IN  replay[Len(queue)]

(* There is a replay of any queue. *)
LEMMA ReplayExists ==
  ASSUME NEW V, NEW queue \in Seq(V), NEW db
  PROVE  \E r : IsReplay(r, db, queue) /\ ReplayOf(db, queue) = r[Len(queue)]
<1> DEFINE IsPart(r, n) == r = [i \in 0..n |-> IF i = 0 THEN db ELSE Applied(r[i - 1], queue[i])]
           T == {n \in Nat : \E r : IsPart(r, n)}
<1>1. 0 \in T
  <2> DEFINE r == [i \in 0..0 |-> db]
  <2>1. IsPart(r, 0)
    OBVIOUS
  <2> HIDE DEF IsPart, r
  <2> QED
    BY <2>1
<1>2. ASSUME NEW n \in Nat, n \in T
      PROVE  n + 1 \in T
  <2>1. PICK r : IsPart(r, n)
    BY <1>2
  <2> DEFINE next == [i \in 0..n + 1 |-> IF i <= n THEN r[i] ELSE Applied(r[n], queue[n + 1])]
  <2>2. \A i \in 0..n : r[i] = IF i = 0 THEN db ELSE Applied(r[i - 1], queue[i])
    <3> HIDE DEF next
    <3> QED
      BY <2>1
  <2>3. \A i \in 0..n + 1 : next[i] = IF i = 0 THEN db ELSE Applied(next[i - 1], queue[i])
    <3> SUFFICES ASSUME NEW i \in 0..n + 1
                 PROVE  next[i] = IF i = 0 THEN db ELSE Applied(next[i - 1], queue[i])
      OBVIOUS
    <3>1. CASE i = 0
      BY <2>2, <3>1
    <3>2. CASE i \in 1..n
      BY <2>2, <3>2
    <3>3. CASE i = n + 1
      <4>1. next[i] = Applied(r[n], queue[n + 1]) /\ next[i - 1] = r[n]
        BY <3>3
      <4> QED
        BY <3>3, <4>1
    <3> QED
      BY <3>1, <3>2, <3>3
  <2>4. next = [i \in 0..n + 1 |-> next[i]]
    OBVIOUS
  <2> HIDE DEF next
  <2>5. IsPart(next, n + 1)
    BY <2>3, <2>4
  <2> HIDE DEF IsPart
  <2> QED
    BY <2>5
<1> HIDE DEF T
<1>3. Nat \subseteq T
  BY <1>1, <1>2, Induction
<1>4. Len(queue) \in T
  BY <1>3
<1> DEFINE replay == CHOOSE r : IsReplay(r, db, queue)
<1>5. \E r : IsReplay(r, db, queue)
  BY <1>4 DEF IsReplay, T
<1>6. IsReplay(replay, db, queue)
  <2> HIDE DEF IsReplay
  <2> QED
    BY <1>5
<1>7. ReplayOf(db, queue) = replay[Len(queue)]
  BY DEF ReplayOf, IsReplay
<1> HIDE DEF replay
<1> QED
  BY <1>6, <1>7

(* The steps of a replay. *)
LEMMA ReplaySteps ==
  ASSUME NEW V, NEW queue \in Seq(V), NEW db, NEW r, IsReplay(r, db, queue)
  PROVE  /\ r[0] = db
         /\ \A i \in 1..Len(queue) : r[i] = Applied(r[i - 1], queue[i])
<1>1. \A i \in 0..Len(queue) : r[i] = IF i = 0 THEN db ELSE Applied(r[i - 1], queue[i])
  BY DEF IsReplay
<1>2. Len(queue) \in Nat
  OBVIOUS
<1> QED
  BY <1>1, <1>2

(* Nothing is changed by no writes, and a write that is queued is made     *)
(* after the others.                                                       *)
LEMMA ReplayOfMore ==
  ASSUME NEW V, NEW queue \in Seq(V), NEW db
  PROVE  /\ ReplayOf(db, <<>>) = db
         /\ \A write \in V :
              ReplayOf(db, Append(queue, write)) = Applied(ReplayOf(db, queue), write)
<1>1. ReplayOf(db, <<>>) = db
  <2>1. <<>> \in Seq(V) /\ Len(<<>>) = 0
    OBVIOUS
  <2>2. PICK r : IsReplay(r, db, <<>>) /\ ReplayOf(db, <<>>) = r[0]
    BY <2>1, ReplayExists
  <2>3. r[0] = db
    <3>1. 0 \in 0..Len(<<>>)
      BY <2>1
    <3> QED
      BY <2>2, <3>1 DEF IsReplay
  <2> QED
    BY <2>2, <2>3
<1>2. ASSUME NEW write \in V
      PROVE  ReplayOf(db, Append(queue, write)) = Applied(ReplayOf(db, queue), write)
  <2> DEFINE longer == Append(queue, write)
             len == Len(queue)
  <2>1. longer \in Seq(V) /\ Len(longer) = len + 1 /\ len \in Nat
        /\ longer[len + 1] = write /\ \A i \in 1..len : longer[i] = queue[i]
    OBVIOUS
  <2>2. PICK r : IsReplay(r, db, queue) /\ ReplayOf(db, queue) = r[len]
    BY ReplayExists
  <2> HIDE DEF longer
  <2>3. PICK s : IsReplay(s, db, longer) /\ ReplayOf(db, longer) = s[len + 1]
    BY <2>1, ReplayExists
  <2>4. r[0] = db /\ \A i \in 1..len : r[i] = Applied(r[i - 1], queue[i])
    BY <2>2, ReplaySteps
  <2>5. s[0] = db /\ \A i \in 1..len + 1 : s[i] = Applied(s[i - 1], longer[i])
    BY <2>1, <2>3, ReplaySteps
  <2> DEFINE T == {n \in Nat : n <= len => s[n] = r[n]}
  <2>6. 0 \in T
    BY <2>4, <2>5
  <2>7. ASSUME NEW n \in Nat, n \in T
        PROVE  n + 1 \in T
    <3> SUFFICES ASSUME n + 1 <= len
                 PROVE  s[n + 1] = r[n + 1]
      OBVIOUS
    <3>1. s[n] = r[n]
      BY <2>1, <2>7
    <3>2. n + 1 \in 1..len /\ n + 1 \in 1..len + 1 /\ (n + 1) - 1 = n
      BY <2>1
    <3>3. s[n + 1] = Applied(s[n], longer[n + 1]) /\ r[n + 1] = Applied(r[n], queue[n + 1])
      BY <2>4, <2>5, <3>2
    <3> QED
      BY <2>1, <3>1, <3>2, <3>3
  <2> HIDE DEF T
  <2>8. Nat \subseteq T
    BY <2>6, <2>7, Induction
  <2>9. s[len] = r[len]
    BY <2>1, <2>8 DEF T
  <2>10. s[len + 1] = Applied(s[len], write)
    <3>1. len + 1 \in 1..len + 1 /\ (len + 1) - 1 = len
      BY <2>1
    <3> QED
      BY <2>1, <2>5, <3>1
  <2> QED
    BY <2>2, <2>3, <2>9, <2>10 DEF longer
<1> QED
  BY <1>1, <1>2

(* It does not matter whether the first write was made already. *)
LEMMA ReplayOfRest ==
  ASSUME NEW V, NEW queue \in Seq(V), queue # <<>>, NEW db
  PROVE  ReplayOf(Applied(db, Head(queue)), Tail(queue)) = ReplayOf(db, queue)
<1> DEFINE rest == Tail(queue)
           len == Len(rest)
<1>1. /\ rest \in Seq(V) /\ Len(queue) = len + 1 /\ len \in Nat /\ Head(queue) = queue[1]
      /\ \A i \in 1..len : rest[i] = queue[i + 1]
  OBVIOUS
<1> HIDE DEF rest
<1>2. PICK r : IsReplay(r, db, queue) /\ ReplayOf(db, queue) = r[len + 1]
  BY <1>1, ReplayExists
<1>3. PICK s : IsReplay(s, Applied(db, queue[1]), rest)
               /\ ReplayOf(Applied(db, queue[1]), rest) = s[len]
  BY <1>1, ReplayExists
<1>4. r[0] = db /\ \A i \in 1..len + 1 : r[i] = Applied(r[i - 1], queue[i])
  BY <1>1, <1>2, ReplaySteps
<1>5. s[0] = Applied(db, queue[1]) /\ \A i \in 1..len : s[i] = Applied(s[i - 1], rest[i])
  BY <1>1, <1>3, ReplaySteps
<1> DEFINE T == {n \in Nat : n <= len => s[n] = r[n + 1]}
<1>6. 0 \in T
  <2>1. 1 \in 1..len + 1 /\ 1 - 1 = 0
    BY <1>1
  <2>2. r[1] = Applied(r[0], queue[1])
    BY <1>4, <2>1
  <2> QED
    BY <1>4, <1>5, <2>2
<1>7. ASSUME NEW n \in Nat, n \in T
      PROVE  n + 1 \in T
  <2> SUFFICES ASSUME n + 1 <= len
               PROVE  s[n + 1] = r[n + 2]
    OBVIOUS
  <2>1. s[n] = r[n + 1]
    BY <1>1, <1>7
  <2>2. n + 1 \in 1..len /\ n + 2 \in 1..len + 1 /\ (n + 1) - 1 = n /\ (n + 2) - 1 = n + 1
        /\ (n + 1) + 1 = n + 2
    BY <1>1
  <2>3. s[n + 1] = Applied(s[n], rest[n + 1])
    BY <1>5, <2>2
  <2>4. r[n + 2] = Applied(r[n + 1], queue[n + 2])
    BY <1>4, <2>2
  <2>5. rest[n + 1] = queue[n + 2]
    BY <1>1, <2>2
  <2> QED
    BY <2>1, <2>3, <2>4, <2>5
<1> HIDE DEF T
<1>8. Nat \subseteq T
  BY <1>6, <1>7, Induction
<1>9. s[len] = r[len + 1]
  BY <1>1, <1>8 DEF T
<1> QED
  BY <1>1, <1>2, <1>3, <1>9 DEF rest

(* Two maps hold the same for a node. *)
SameAt(f, g, n) ==
  /\ n \in DOMAIN f <=> n \in DOMAIN g
  /\ n \in DOMAIN f => f[n] = g[n]

(* A write keeps what two maps agree on. *)
LEMMA AppliedAgree ==
  ASSUME NEW f, NEW g, NEW n, SameAt(f, g, n), NEW write
  PROVE  SameAt(Applied(f, write), Applied(g, write), n)
BY DEF SameAt, Applied, WithEntries, Restrict

(* Nor does it touch other nodes than its own. *)
LEMMA AppliedElsewhere ==
  ASSUME NEW f, NEW write, NEW n, n \notin Touched(write)
  PROVE  SameAt(Applied(f, write), f, n)
BY DEF SameAt, Applied, WithEntries, Restrict, Touched

(* What a queue makes of two maps agrees where they do. *)
LEMMA ReplaysAgree ==
  ASSUME NEW V, NEW queue \in Seq(V), NEW f, NEW g, NEW n, SameAt(f, g, n)
  PROVE  SameAt(ReplayOf(f, queue), ReplayOf(g, queue), n)
<1> DEFINE len == Len(queue)
<1>1. PICK r : IsReplay(r, f, queue) /\ ReplayOf(f, queue) = r[len]
  BY ReplayExists
<1>2. PICK s : IsReplay(s, g, queue) /\ ReplayOf(g, queue) = s[len]
  BY ReplayExists
<1>3. /\ r[0] = f /\ \A i \in 1..len : r[i] = Applied(r[i - 1], queue[i])
      /\ s[0] = g /\ \A i \in 1..len : s[i] = Applied(s[i - 1], queue[i])
  BY <1>1, <1>2, ReplaySteps
<1>4. len \in Nat
  OBVIOUS
<1> DEFINE T == {k \in Nat : k <= len => SameAt(r[k], s[k], n)}
<1> HIDE DEF len
<1>5. 0 \in T
  BY <1>3
<1>6. ASSUME NEW k \in Nat, k \in T
      PROVE  k + 1 \in T
  <2> SUFFICES ASSUME k + 1 <= len
               PROVE  SameAt(r[k + 1], s[k + 1], n)
    OBVIOUS
  <2>1. SameAt(r[k], s[k], n)
    BY <1>4, <1>6
  <2>2. k + 1 \in 1..len /\ (k + 1) - 1 = k
    BY <1>4
  <2>3. r[k + 1] = Applied(r[k], queue[k + 1]) /\ s[k + 1] = Applied(s[k], queue[k + 1])
    BY <1>3, <2>2
  <2> QED
    BY <2>1, <2>3, AppliedAgree
<1> HIDE DEF T
<1>7. Nat \subseteq T
  BY <1>5, <1>6, Induction
<1>8. SameAt(r[len], s[len], n)
  BY <1>4, <1>7 DEF T
<1> QED
  BY <1>1, <1>2, <1>8

(* What it makes of metrics are metrics. *)
LEMMA ReplayIsMap ==
  ASSUME NEW queue \in Seq(Writes), NEW db \in MetricsMaps
  PROVE  ReplayOf(db, queue) \in MetricsMaps
<1> DEFINE len == Len(queue)
<1>1. PICK r : IsReplay(r, db, queue) /\ ReplayOf(db, queue) = r[len]
  BY ReplayExists
<1>2. r[0] = db /\ \A i \in 1..len : r[i] = Applied(r[i - 1], queue[i])
  BY <1>1, ReplaySteps
<1>3. len \in Nat /\ \A i \in 1..len : queue[i] \in Writes
  OBVIOUS
<1> DEFINE T == {k \in Nat : k <= len => r[k] \in MetricsMaps}
<1> HIDE DEF len
<1>4. 0 \in T
  BY <1>2
<1>5. ASSUME NEW k \in Nat, k \in T
      PROVE  k + 1 \in T
  <2> SUFFICES ASSUME k + 1 <= len
               PROVE  r[k + 1] \in MetricsMaps
    OBVIOUS
  <2>1. r[k] \in MetricsMaps
    BY <1>3, <1>5
  <2>2. k + 1 \in 1..len /\ (k + 1) - 1 = k
    BY <1>3
  <2>3. r[k + 1] = Applied(r[k], queue[k + 1]) /\ queue[k + 1] \in Writes
    BY <1>2, <1>3, <2>2
  <2> QED
    BY <2>1, <2>3, MapsOfMetrics DEF Applied, Writes
<1> HIDE DEF T
<1>6. Nat \subseteq T
  BY <1>4, <1>5, Induction
<1> QED
  BY <1>1, <1>3, <1>6 DEF T

(* What a write does to a node of its own does not depend on what was      *)
(* there.                                                                  *)
LEMMA AppliedThere ==
  ASSUME NEW f, NEW g, NEW write, NEW n \in Touched(write)
  PROVE  SameAt(Applied(f, write), Applied(g, write), n)
BY DEF SameAt, Applied, WithEntries, Restrict, Touched

(* So what a queue makes of any two maps agrees on the nodes it writes.    *)
LEMMA ReplaysMeet ==
  ASSUME NEW V, NEW queue \in Seq(V), NEW f, NEW g, NEW n,
         NEW j \in 1..Len(queue), n \in Touched(queue[j])
  PROVE  SameAt(ReplayOf(f, queue), ReplayOf(g, queue), n)
<1> DEFINE len == Len(queue)
<1>1. PICK r : IsReplay(r, f, queue) /\ ReplayOf(f, queue) = r[len]
  BY ReplayExists
<1>2. PICK s : IsReplay(s, g, queue) /\ ReplayOf(g, queue) = s[len]
  BY ReplayExists
<1>3. /\ \A i \in 1..len : r[i] = Applied(r[i - 1], queue[i])
      /\ \A i \in 1..len : s[i] = Applied(s[i - 1], queue[i])
  BY <1>1, <1>2, ReplaySteps
<1>4. len \in Nat /\ j \in 1..len
  OBVIOUS
<1> DEFINE T == {k \in Nat : j <= k /\ k <= len => SameAt(r[k], s[k], n)}
<1> HIDE DEF len
<1>5. 0 \in T
  BY <1>4
<1>6. ASSUME NEW k \in Nat, k \in T
      PROVE  k + 1 \in T
  <2> SUFFICES ASSUME j <= k + 1, k + 1 <= len
               PROVE  SameAt(r[k + 1], s[k + 1], n)
    OBVIOUS
  <2>1. k + 1 \in 1..len /\ (k + 1) - 1 = k
    BY <1>4
  <2>2. r[k + 1] = Applied(r[k], queue[k + 1]) /\ s[k + 1] = Applied(s[k], queue[k + 1])
    BY <1>3, <2>1
  <2>3. CASE j = k + 1
    BY <2>2, <2>3, AppliedThere
  <2>4. CASE j <= k
    <3>1. SameAt(r[k], s[k], n)
      BY <1>4, <1>6, <2>4
    <3> QED
      BY <2>2, <3>1, AppliedAgree
  <2> QED
    BY <1>4, <2>3, <2>4
<1> HIDE DEF T
<1>7. Nat \subseteq T
  BY <1>5, <1>6, Induction
<1>8. SameAt(r[len], s[len], n)
  BY <1>4, <1>7 DEF T
<1> QED
  BY <1>1, <1>2, <1>8

(* A write that touches the node is on its way. *)
IsQueued(n) == \E i \in DOMAIN metricsSaveQueue : n \in Touched(metricsSaveQueue[i])

(* The disk will hold what is in memory of every node, unless its last     *)
(* write failed and no other is queued.  Nothing is queued for a process   *)
(* that is not there, or when LevelDB is closed.                           *)
QueueInv ==
  /\ status = "down" => metricsSaveQueue = <<>> /\ lost = {}
  /\ status = "closed" => metricsSaveQueue = <<>>
  /\ status # "down" =>
       \A n \in Node : n \notin lost \/ IsQueued(n) => SameAt(Replayed, ipPortToMetrics, n)

(* It is the replay of the queue on what is on disk. *)
LEMMA ReplayedIsReplay ==
  /\ Replayed = ReplayOf(levelDbMetrics, metricsSaveQueue)
  /\ Replayed' = ReplayOf(levelDbMetrics', metricsSaveQueue')
BY DEF Replayed, ReplayOf

(* A call that does to the metrics what it queues for the disk. *)
LEMMA WriteKeepsQueue ==
  ASSUME DataInv, QueueInv, status = "open", NEW write \in Writes,
         metricsSaveQueue' = Append(metricsSaveQueue, write),
         \A n \in Node : SameAt(Applied(ipPortToMetrics, write), ipPortToMetrics', n),
         UNCHANGED <<levelDbMetrics, lost, status>>
  PROVE  QueueInv'
<1> DEFINE queue == metricsSaveQueue
<1>1. queue \in Seq(Writes)
  BY DEF DataInv
<1>2. Replayed' = Applied(Replayed, write)
  BY <1>1, ReplayOfMore, ReplayedIsReplay
<1>3. DOMAIN queue' = 1..Len(queue) + 1 /\ DOMAIN queue = 1..Len(queue) /\ Len(queue) \in Nat
      /\ queue'[Len(queue) + 1] = write /\ \A i \in 1..Len(queue) : queue'[i] = queue[i]
  BY <1>1
<1>4. ASSUME NEW n \in Node, n \notin lost \/ IsQueued(n)'
      PROVE  SameAt(Replayed', ipPortToMetrics', n)
  <2>1. SameAt(Applied(Replayed, write), Applied(ipPortToMetrics, write), n)
    <3>1. CASE n \in Touched(write)
      BY <3>1, AppliedThere
    <3>2. CASE n \notin Touched(write)
      <4>1. n \notin lost \/ IsQueued(n)
        <5>1. ASSUME NEW i \in DOMAIN queue', n \in Touched(queue'[i])
              PROVE  i \in DOMAIN queue /\ n \in Touched(queue[i])
          BY <1>3, <3>2, <5>1
        <5> QED
          BY <1>4, <5>1 DEF IsQueued
      <4>2. SameAt(Replayed, ipPortToMetrics, n)
        BY <4>1 DEF QueueInv
      <4> QED
        BY <4>2, AppliedAgree
    <3> QED
      BY <3>1, <3>2
  <2>2. SameAt(Applied(ipPortToMetrics, write), ipPortToMetrics', n)
    OBVIOUS
  <2> QED
    BY <1>2, <2>1, <2>2 DEF SameAt
<1> QED
  BY <1>4 DEF QueueInv

(* An update does. *)
LEMMA UpdateKeepsQueue ==
  ASSUME DataInv, QueueInv, Call, NEW metrics \in MetricsMaps, UpdateMetricsBatch(metrics)
  PROVE  QueueInv'
<1> DEFINE write == [put |-> metrics, del |-> {}]
<1>1. /\ ipPortToMetrics' = WithEntries(ipPortToMetrics, metrics)
      /\ metricsSaveQueue' = Append(metricsSaveQueue, write)
      /\ status = "open" /\ UNCHANGED <<levelDbMetrics, lost, status>>
  BY DEF UpdateMetricsBatch, Call, Write
<1>2. write \in Writes
  BY DEF Writes
<1>3. \A n \in Node : SameAt(Applied(ipPortToMetrics, write), ipPortToMetrics', n)
  BY <1>1 DEF SameAt, Applied, WithEntries, Restrict
<1> HIDE DEF write
<1> QED
  BY <1>1, <1>2, <1>3, WriteKeepsQueue

(* And so do the calls that forget nodes. *)
LEMMA RemovalKeepsQueue ==
  ASSUME DataInv, QueueInv, status = "open", NEW nodes \in SUBSET Node, Write(<<>>, nodes),
         ipPortToMetrics' = Restrict(ipPortToMetrics, Known \ nodes)
           \/ (ipPortToMetrics' = <<>> /\ nodes = Node),
         UNCHANGED <<levelDbMetrics, lost, status>>
  PROVE  QueueInv'
<1> DEFINE write == [put |-> <<>>, del |-> nodes]
<1>1. metricsSaveQueue' = Append(metricsSaveQueue, write)
  BY DEF Write
<1>2. write \in Writes
  BY MapsOfMetrics DEF Writes
<1>3. DOMAIN <<>> = {}
  OBVIOUS
<1>4. \A n \in Node : SameAt(Applied(ipPortToMetrics, write), ipPortToMetrics', n)
  BY <1>3 DEF SameAt, Applied, WithEntries, Restrict, Known
<1> HIDE DEF write
<1> QED
  BY <1>1, <1>2, <1>4, WriteKeepsQueue

(* A write that is made, or fails. *)
LEMMA SettlingKeepsQueue ==
  ASSUME DataInv, QueueInv, WriteSucceeds \/ WriteFails
  PROVE  QueueInv'
<1> DEFINE queue == metricsSaveQueue
           write == Head(queue)
           rest == Tail(queue)
<1>1. /\ queue \in Seq(Writes) /\ queue # <<>> /\ queue' = rest
      /\ UNCHANGED <<ipPortToMetrics, status>>
  BY DEF DataInv, WriteSucceeds, WriteFails, memoryVars
<1>2. /\ rest \in Seq(Writes) /\ Len(queue) = Len(rest) + 1 /\ Len(rest) \in Nat
      /\ DOMAIN rest = 1..Len(rest) /\ DOMAIN queue = 1..Len(queue)
      /\ \A i \in 1..Len(rest) : rest[i] = queue[i + 1]
      /\ write = queue[1]
  BY <1>1
<1>3. status \notin {"down", "closed"}
  BY <1>1 DEF QueueInv
<1>4. Replayed = ReplayOf(Applied(levelDbMetrics, write), rest)
  BY <1>1, ReplayOfRest, ReplayedIsReplay
<1>5. Replayed' = ReplayOf(levelDbMetrics', rest)
  BY <1>1, ReplayedIsReplay
<1>6. \A n \in Node : IsQueued(n)' => IsQueued(n)
  <2> SUFFICES ASSUME NEW n \in Node, NEW i \in DOMAIN rest, n \in Touched(rest[i])
               PROVE  IsQueued(n)
    BY <1>1 DEF IsQueued
  <2>1. i + 1 \in DOMAIN queue /\ n \in Touched(queue[i + 1])
    BY <1>2
  <2> QED
    BY <2>1 DEF IsQueued
<1>7. \A n \in Touched(write) : IsQueued(n)
  <2>1. 1 \in DOMAIN queue
    BY <1>2
  <2> QED
    BY <1>2, <2>1 DEF IsQueued
<1> HIDE DEF write, rest
<1>8. CASE WriteSucceeds
  <2>1. levelDbMetrics' = Applied(levelDbMetrics, write) /\ lost' = lost \ Touched(write)
    BY <1>8 DEF WriteSucceeds, write
  <2>2. Replayed' = Replayed
    BY <1>4, <1>5, <2>1
  <2>3. ASSUME NEW n \in Node, n \notin lost' \/ IsQueued(n)'
        PROVE  SameAt(Replayed, ipPortToMetrics, n)
    <3>1. n \notin lost \/ IsQueued(n)
      BY <1>6, <1>7, <2>1, <2>3
    <3> QED
      BY <1>3, <3>1 DEF QueueInv
  <2> QED
    BY <1>1, <1>3, <2>2, <2>3 DEF QueueInv
<1>9. CASE WriteFails
  <2>1. levelDbMetrics' = levelDbMetrics /\ lost' = lost \cup Touched(write)
    BY <1>9 DEF WriteFails, write
  <2>2. ASSUME NEW n \in Node, n \notin lost' \/ IsQueued(n)'
        PROVE  SameAt(Replayed', ipPortToMetrics, n)
    <3>1. SameAt(Replayed, ipPortToMetrics, n)
      BY <1>3, <1>6, <2>1, <2>2 DEF QueueInv
    <3>2. SameAt(ReplayOf(Applied(levelDbMetrics, write), rest), ReplayOf(levelDbMetrics, rest), n)
      <4>1. CASE IsQueued(n)'
        <5>1. PICK i \in DOMAIN rest : n \in Touched(rest[i])
          BY <1>1, <4>1 DEF IsQueued
        <5> QED
          BY <1>2, <5>1, ReplaysMeet
      <4>2. CASE n \notin lost'
        <5>1. n \notin Touched(write)
          BY <2>1, <4>2
        <5>2. SameAt(Applied(levelDbMetrics, write), levelDbMetrics, n)
          BY <5>1, AppliedElsewhere
        <5> QED
          BY <1>2, <5>2, ReplaysAgree
      <4> QED
        BY <2>2, <4>1, <4>2
    <3> QED
      BY <1>4, <1>5, <2>1, <3>1, <3>2 DEF SameAt
  <2> QED
    BY <1>1, <1>3, <2>2 DEF QueueInv
<1> QED
  BY <1>8, <1>9

(* Every step keeps the queue what it should be. *)
LEMMA NextKeepsQueue ==
  ASSUME DataInv, MapsAgree, QueueInv, [Next]_vars
  PROVE  QueueInv'
<1>s. ASSUME UNCHANGED <<ipPortToMetrics, metricsSaveQueue, levelDbMetrics, lost>>,
             status' = status \/ (status # "down" /\ status' # "down"
                                    /\ (status' = "closed" => metricsSaveQueue = <<>>))
      PROVE  QueueInv'
  BY <1>s DEF QueueInv, Replayed, IsQueued
<1>1. ASSUME NEW n \in Node, UpdateNode(n)
      PROVE  QueueInv'
  <2>1. CASE DeleteNode(n)
    <3>1. {n} \in SUBSET Node
      OBVIOUS
    <3> QED
      BY <2>1, <3>1, RemovalKeepsQueue DEF DeleteNode, Call
  <2>2. CASE ~ DeleteNode(n)
    <3>1. Call /\ \E metrics \in MetricsMaps : UpdateMetricsBatch(metrics)
      BY <1>1, <2>2, CallsSetMetrics
    <3> QED
      BY <3>1, UpdateKeepsQueue
  <2> QED
    BY <2>1, <2>2
<1>2. ASSUME NEW n \in Node, RecalculateNodeRating(n)
      PROVE  QueueInv'
  BY <1>s, <1>2 DEF RecalculateNodeRating, diskVars
<1>3. CASE UpdateNodes
  <2>1. ASSUME NEW nodes \in SUBSET Node, AddSeenBatch(nodes)
        PROVE  QueueInv'
    <3>1. Call /\ \E metrics \in MetricsMaps : UpdateMetricsBatch(metrics)
      BY <2>1, SeenSetsMetrics
    <3> QED
      BY <3>1, UpdateKeepsQueue
  <2>2. ASSUME NEW nodes \in SUBSET Node, RemoveNodes(nodes), Call
        PROVE  QueueInv'
    BY <2>2, RemovalKeepsQueue DEF RemoveNodes, Call
  <2>3. ASSUME NEW amount, NEW excluded,
               ClearOld(amount, excluded) \/ ClearBlacklisted(amount, excluded)
        PROVE  QueueInv'
    BY <2>2, <2>3, ClearedNodes
  <2>4. ASSUME NEW excluded, DeleteNodes(excluded)
        PROVE  QueueInv'
    <3>1. Known \ excluded \in SUBSET Node
      BY MapOfMetrics DEF DataInv, Known
    <3> QED
      BY <2>2, <2>4, <3>1 DEF DeleteNodes
  <2>5. CASE Clear
    <3>1. Node \in SUBSET Node
      OBVIOUS
    <3> QED
      BY <2>5, <3>1, RemovalKeepsQueue DEF Clear, ClearMemory
  <2> QED
    BY <1>3, <2>1, <2>3, <2>4, <2>5 DEF UpdateNodes
<1>4. CASE BuildRatingsMapsFromMetrics
  BY <1>s, <1>4 DEF BuildRatingsMapsFromMetrics, diskVars
<1>5. CASE Create
  <2>1. /\ ipPortToMetrics' = levelDbMetrics /\ status' = "open" /\ UNCHANGED diskVars
        /\ metricsSaveQueue = <<>>
    BY <1>5 DEF Create, QueueInv
  <2>2. <<>> \in Seq(Writes)
    OBVIOUS
  <2>3. ReplayOf(levelDbMetrics, <<>>) = levelDbMetrics
    BY <2>2, ReplayOfMore
  <2>4. Replayed' = levelDbMetrics
    BY <2>1, <2>3, ReplayedIsReplay DEF diskVars
  <2> QED
    BY <2>1, <2>4 DEF QueueInv, SameAt, diskVars
<1>6. CASE Crash
  BY <1>6 DEF Crash, QueueInv
<1>7. CASE WriteSucceeds \/ WriteFails
  BY <1>7, SettlingKeepsQueue
<1>8. CASE Close \/ FinishClose \/ Open
  BY <1>s, <1>8 DEF Close, FinishClose, Open, memoryVars, diskVars
<1>9. CASE TimePasses
  BY <1>s, <1>9 DEF TimePasses, memoryVars, diskVars
<1>10. CASE UNCHANGED vars
  BY <1>s, <1>10 DEF vars, memoryVars, diskVars
<1> QED
  BY <1>1, <1>2, <1>3, <1>4, <1>5, <1>6, <1>7, <1>8, <1>9, <1>10 DEF Next

(* Nothing is there to write at first. *)
LEMMA InitHasQueue == Init => QueueInv
BY DEF Init, QueueInv

(* Maps that hold the same for every node that was not lost. *)
LEMMA SameRest ==
  ASSUME NEW f, NEW g, NEW S, \A n \in DOMAIN f \cup DOMAIN g : n \notin S => SameAt(f, g, n)
  PROVE  Restrict(f, DOMAIN f \ S) = Restrict(g, DOMAIN g \ S)
<1>1. DOMAIN f \ S = DOMAIN g \ S /\ \A n \in DOMAIN f \ S : f[n] = g[n]
  BY DEF SameAt
<1> QED
  BY <1>1 DEF Restrict

(* What the queue makes of the disk is what is in memory. *)
LEMMA QueueWritesMemory ==
  ASSUME DataInv, QueueInv
  PROVE  WritesReplayToMetrics /\ ClosedIsSaved
<1>1. Replayed \in MetricsMaps
  BY ReplayIsMap, ReplayedIsReplay DEF DataInv
<1>2. DOMAIN Replayed \subseteq Node /\ Known \subseteq Node
  BY <1>1, MapOfMetrics DEF DataInv, Known
<1>3. status # "down" =>
        Restrict(Replayed, DOMAIN Replayed \ lost) = Restrict(ipPortToMetrics, Known \ lost)
  <2> SUFFICES ASSUME status # "down"
               PROVE  Restrict(Replayed, DOMAIN Replayed \ lost)
                        = Restrict(ipPortToMetrics, Known \ lost)
    OBVIOUS
  <2>1. \A n \in DOMAIN Replayed \cup Known : n \notin lost => SameAt(Replayed, ipPortToMetrics, n)
    BY <1>2 DEF QueueInv
  <2> QED
    BY <2>1, SameRest DEF Known
<1>4. ASSUME status = "closed"
      PROVE  Replayed = levelDbMetrics
  <2>1. metricsSaveQueue = <<>> /\ <<>> \in Seq(Writes)
    BY <1>4 DEF QueueInv
  <2> QED
    BY <2>1, ReplayOfMore, ReplayedIsReplay
<1> QED
  BY <1>3, <1>4 DEF WritesReplayToMetrics, ClosedIsSaved

----------------------------------------------------------------------------
(* The theorems *)

(* After any calls, restarts and failed writes, the index by rating and    *)
(* that by time are what they would be if built from the maps: a node that *)
(* getTopRatedNodes or clearOld finds is known, and under one key only.    *)
THEOREM IndexesAgreeWithMaps == Spec => []IndexesAgree
<1>1. MapsAgree /\ [Next]_vars => MapsAgree'
  BY NextKeepsMaps
<1>2. MapsAgree => IndexesAgree
  BY DEF MapsAgree
<1> QED
  BY <1>1, <1>2, InitHasMaps, PTL DEF Spec

(* The set getNumNodesNonBlacklisted counts differs from the nodes whose   *)
(* rating reaches the threshold only by nodes no longer known, and these   *)
(* do no harm when they come back: whatever the midpoints, the rating of   *)
(* default metrics is better than the threshold.                           *)
THEOREM BlacklistAgreesWithRatings == Spec => []BlacklistAgrees
<1>1. MapsAgree /\ [Next]_vars => MapsAgree'
  BY NextKeepsMaps
<1>2. MapsAgree => BlacklistAgrees
  BY DEF MapsAgree
<1> QED
  BY <1>1, <1>2, InitHasMaps, PTL DEF Spec

(* Ratings that are not computed again for ten seconds are right for all   *)
(* that was learned in them.                                               *)
THEOREM RatingsInUseAreRight == Spec => []RecentRatingsAreRight
<1>1. MapsAgree /\ [Next]_vars => MapsAgree'
  BY NextKeepsMaps
<1>2. MapsAgree => RecentRatingsAreRight
  BY DEF MapsAgree
<1> QED
  BY <1>1, <1>2, InitHasMaps, PTL DEF Spec

(* The parts of the inductive invariant together. *)
DatabaseInv == MapsAgree /\ DataInv /\ LatestTimeIsLatest /\ QueueInv

(* It is an invariant. *)
LEMMA DatabaseInvHolds == Spec => []DatabaseInv
<1>1. Init => DatabaseInv
  BY InitHasMaps, InitHasData, InitHasQueue DEF DatabaseInv
<1>2. DatabaseInv /\ [Next]_vars => DatabaseInv'
  BY NextKeepsMaps, NextKeepsData, NextKeepsQueue DEF DatabaseInv
<1> QED
  BY <1>1, <1>2, PTL DEF Spec

(* The types of all that is kept, whatever is written and read back; no    *)
(* more than MaxRecent events of a kind are ever kept of a node.           *)
THEOREM TypesAreRight == Spec => []TypeOK
<1>1. DatabaseInv => TypeOK
  BY DataHasTypes DEF DatabaseInv, MapsAgree
<1> QED
  BY <1>1, DatabaseInvHolds, PTL

(* No node known has a time later than the latest time, which is found     *)
(* again when nodes are forgotten in numbers and left as it is when one    *)
(* is: the assertion of _buildRatingsMapsFromMetrics never fails.          *)
THEOREM LatestTimeIsNeverPassed == Spec => []LatestTimeIsLatest
<1>1. DatabaseInv => LatestTimeIsLatest
  BY DEF DatabaseInv
<1> QED
  BY <1>1, DatabaseInvHolds, PTL

(* However the writes that are queued interleave with calls, and whichever *)
(* of them fail, the disk will hold what is in memory, but for the nodes   *)
(* whose last write failed.                                                *)
THEOREM QueueWritesMemoryInOrder == Spec => []WritesReplayToMetrics
<1>1. DatabaseInv => WritesReplayToMetrics
  BY QueueWritesMemory DEF DatabaseInv
<1> QED
  BY <1>1, DatabaseInvHolds, PTL

(* When LevelDB is closed the disk holds it: nothing is still queued.      *)
THEOREM ClosingSavesMemory == Spec => []ClosedIsSaved
<1>1. DatabaseInv => ClosedIsSaved
  BY QueueWritesMemory DEF DatabaseInv
<1> QED
  BY <1>1, DatabaseInvHolds, PTL

=============================================================================

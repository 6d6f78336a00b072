---------------------------- MODULE NodesDatabase ----------------------------
(***************************************************************************)
(* src/NodesDatabase.ts: what is remembered of each remote node, the       *)
(* rating computed from it, the indexes by rating and by the time a node   *)
(* was last seen, and the queue of changes written to LevelDB.             *)
(*                                                                         *)
(* Every method is synchronous up to its last line, which queues a write.  *)
(* A rating is a weighted product of scores that fade with time.  Here it  *)
(* is the logarithm of the product, a negated sum of penalties: a sigmoid  *)
(* below its midpoint is a slope, and above it nothing.  The score of the  *)
(* last connection, between 0.87 and 1, is too close to one to count.      *)
(* Times are in days and 0 is undefined, as in daysSince.                  *)
(***************************************************************************)
EXTENDS Integers, Sequences, FiniteSetsExt, Functions

CONSTANTS
    Node,                \* the remote nodes, by IP and port
    MaxRecent,           \* the pings and disconnects of each kind kept: 10
    DisconnectMidpoint,  \* the days a disconnect before connecting counts: 22
    SeenBonus,           \* the days it ages when the node is seen later: 10
    OutOfSyncMidpoint,   \* the days being out of sync counts: 3
    InvalidMidpoint,     \* the days being on an invalid chain counts: 70
    ConnectedFor,        \* how long a connect makes a disconnect one after it
    MaxTime,             \* bound: the days that go by
    MaxCalls             \* bound: the calls that change metrics

ASSUME NodeAssumption ==
    /\ IsFiniteSet(Node)
    /\ {MaxRecent, MaxTime} \subseteq Nat \ {0}
    /\ {DisconnectMidpoint, OutOfSyncMidpoint, InvalidMidpoint} \subseteq Nat \ {0}
    /\ {SeenBonus, ConnectedFor, MaxCalls} \subseteq Nat

VARIABLES
    ipPortToMetrics,    \* node -> its NodeConnectionMetrics
    ipPortToRating,     \* node -> the rating last computed for it
    seenTimeToIpPorts,  \* time -> the nodes last seen then, no set empty
    ratingToIpPorts,    \* rating -> the nodes rated so, no set empty
    nonBlacklisted,     \* _nonBlacklistedIpPortStrings
    latestMetricsTime,  \* _latestMetricsUpdateTimeMs
    ratingsAreRecent,   \* all ratings were computed in the last ten seconds
    metricsSaveQueue,   \* the writes queued and not settled, oldest first
    levelDbMetrics,     \* node -> the metrics on disk
    status,             \* "down", "open", "closing" or "closed"
    now,                \* the time
    calls,              \* the calls made, up to MaxCalls
    lost                \* history: the nodes whose last write failed

memoryVars == <<ipPortToMetrics, ipPortToRating, seenTimeToIpPorts, ratingToIpPorts,
                nonBlacklisted, latestMetricsTime>>
diskVars == <<metricsSaveQueue, levelDbMetrics, lost>>
vars == <<memoryVars, ratingsAreRecent, diskVars, status, now, calls>>

Known == DOMAIN ipPortToMetrics

----------------------------------------------------------------------------
(* calculateRating *)

(* createDefaultNodeConnectionMetrics *)
DefaultMetrics(time) ==
    [lastSeen |-> time, pings |-> <<>>, beforeConnect |-> <<>>, afterConnect |-> <<>>,
     lastConnect |-> 0, lastTested |-> 0, lastData |-> 0, lastOutOfSync |-> 0,
     lastInvalid |-> 0]

AtLeastZero(i) == IF i > 0 THEN i ELSE 0

(* What is left of the penalty for an event of the given age. *)
Fade(age, midpoint) == AtLeastZero(midpoint - age)

FadeSince(time, t, midpoint) == IF time = 0 THEN 0 ELSE Fade(t - time, midpoint)

(* The average over the pings; never pinged is better than ten seconds. *)
PingPenalty(m) ==
    IF m.pings = <<>> THEN 1
    ELSE (2 * Cardinality({i \in DOMAIN m.pings : m.pings[i].slow})) \div Len(m.pings)

(* A node seen after it disconnected is assumed to be the better for it. *)
BeforeConnectPenalty(m, t) ==
    IF m.beforeConnect = <<>> THEN 0
    ELSE LET last == m.beforeConnect[Len(m.beforeConnect)]
         IN  Fade(t - last + (IF last < m.lastSeen THEN SeenBonus ELSE 0), DisconnectMidpoint)

(* The worst of the disconnects, each amplified by those close to it. *)
AfterConnectPenalty(m, t) ==
    LET times      == m.afterConnect
        cluster(i) == Cardinality({j \in DOMAIN times : times[j] = times[i]})
    IN  Max({0} \cup {Fade(t - times[i], cluster(i) + 1) : i \in DOMAIN times})

Rating(m, t) ==
    - (PingPenalty(m) + BeforeConnectPenalty(m, t) + AfterConnectPenalty(m, t)
         + FadeSince(m.lastOutOfSync, t, OutOfSyncMidpoint)
         + FadeSince(m.lastInvalid, t, InvalidMidpoint))

(* getHighestMetricsTime *)
HighestTime(m) ==
    Max({m.lastSeen, m.lastConnect, m.lastOutOfSync, m.lastInvalid}
          \cup {m.pings[i].time : i \in DOMAIN m.pings}
          \cup Range(m.beforeConnect) \cup Range(m.afterConnect))

(* The nodes that are considered borderline acceptable. *)
Borderline(t) ==
    LET early == t - (DisconnectMidpoint - 1)
    IN  {[DefaultMetrics(early) EXCEPT !.beforeConnect = <<early>>],
         [DefaultMetrics(t) EXCEPT !.afterConnect = <<t - 2, t - 1, t>>,
                                   !.pings = <<[time |-> t, slow |-> FALSE]>>],
         [DefaultMetrics(t) EXCEPT !.lastOutOfSync = t - (OutOfSyncMidpoint - 1)],
         [DefaultMetrics(t) EXCEPT !.pings = <<[time |-> t, slow |-> TRUE]>>],
         [DefaultMetrics(t) EXCEPT !.lastInvalid = t - (InvalidMidpoint - 1)]}

(* createBlacklistedRatingThreshold: the best of them is not blacklisted. *)
Threshold ==
    LET t == DisconnectMidpoint + OutOfSyncMidpoint + InvalidMidpoint + 2
    IN  Max({Rating(m, t) : m \in Borderline(t)})

IsAcceptable(rating) == rating >= Threshold

----------------------------------------------------------------------------
(* Maps *)

Entry(key, value) == [k \in {key} |-> value]

(* A map in which entries are set: those of other keys stay. *)
WithEntries(map, entries) ==
    [k \in DOMAIN map \cup DOMAIN entries |-> IF k \in DOMAIN entries THEN entries[k] ELSE map[k]]

----------------------------------------------------------------------------
(* The indexes: functions from a key to the nodes that have it *)

(* Fault: a set left empty stays. *)
Unindexed_KeepsEmpty(index, keys, nodes) ==
    [k \in DOMAIN index |-> index[k] \ {n \in nodes \cap DOMAIN keys : keys[n] = k}]

(* Nodes leave the sets of the keys they had; a set left empty goes too. *)
Unindexed(index, keys, nodes) ==
    LET left(k) == index[k] \ {n \in nodes \cap DOMAIN keys : keys[n] = k}
    IN  [k \in {l \in DOMAIN index : left(l) # {}} |-> left(k)]

(* Nodes join the sets of their keys. *)
Indexed(index, keys) ==
    [k \in DOMAIN index \cup Range(keys) |->
        (IF k \in DOMAIN index THEN index[k] ELSE {}) \cup {n \in DOMAIN keys : keys[n] = k}]

(* The index of nothing but these keys. *)
IndexOf(keys) == Indexed(<<>>, keys)

SeenTimes(metrics) == [n \in DOMAIN metrics |-> metrics[n].lastSeen]

Ratings(metrics) == [n \in DOMAIN metrics |-> Rating(metrics[n], now)]

Acceptable(ratings) == {n \in DOMAIN ratings : IsAcceptable(ratings[n])}

HighestTimes(metrics) == {HighestTime(metrics[n]) : n \in DOMAIN metrics}

(* Fault: only the times nodes were seen are looked at. *)
LatestOf_Seen(metrics) == Max({0} \cup Range(SeenTimes(metrics)))

(* _latestMetricsUpdateTimeMs, found again. *)
LatestOf(metrics) == Max({0} \cup HighestTimes(metrics))

----------------------------------------------------------------------------
(* The writes to LevelDB *)

(* Fault: the writes are not chained, and one overtakes another. *)
Write_Overtakes(put, del) ==
    metricsSaveQueue' = <<[put |-> put, del |-> del]>> \o metricsSaveQueue

(* A write is chained to those before it. *)
Write(put, del) == metricsSaveQueue' = Append(metricsSaveQueue, [put |-> put, del |-> del])

Applied(db, write) == WithEntries(Restrict(db, DOMAIN db \ write.del), write.put)

Touched(write) == DOMAIN write.put \cup write.del

----------------------------------------------------------------------------
(* The calls *)

Call ==
    /\ status = "open"
    /\ calls < MaxCalls
    /\ calls' = calls + 1
    /\ UNCHANGED <<ratingsAreRecent, levelDbMetrics, lost, status, now>>

(* _getMetricsCopySetDefault: a node not known enters all the maps with    *)
(* default metrics.                                                        *)
MetricsOf(n) == IF n \in Known THEN ipPortToMetrics[n] ELSE DefaultMetrics(now)

RatingOf(n) == IF n \in DOMAIN ipPortToRating THEN ipPortToRating[n] ELSE Rating(MetricsOf(n), now)

(* _updateMetricsBatch: each node moves in the indexes from the rating and *)
(* the time it had to the new ones, and the metrics are written.           *)
UpdateMetricsBatch(metrics) ==
    LET nodes == DOMAIN metrics
    IN  /\ latestMetricsTime' = Max({latestMetricsTime} \cup HighestTimes(metrics))
        /\ ipPortToMetrics' = WithEntries(ipPortToMetrics, metrics)
        /\ ipPortToRating' = WithEntries(ipPortToRating, Ratings(metrics))
        /\ ratingToIpPorts' =
             Indexed(Unindexed(ratingToIpPorts, ipPortToRating, nodes), Ratings(metrics))
        /\ nonBlacklisted' =
             (nonBlacklisted \ {n \in nodes : IsAcceptable(RatingOf(n))})
                \cup Acceptable(Ratings(metrics))
        /\ seenTimeToIpPorts' =
             Indexed(Unindexed(seenTimeToIpPorts, SeenTimes(ipPortToMetrics), nodes),
                     SeenTimes(metrics))
        /\ Write(metrics, {})

UpdateMetrics(n, metrics) == UpdateMetricsBatch(Entry(n, metrics))

(* Fault: nothing is shifted out. *)
Pushed_NoShift(recent, entry) == Append(recent, entry)

(* push, and shift if there are too many. *)
Pushed(recent, entry) ==
    IF Len(recent) = MaxRecent THEN Append(Tail(recent), entry) ELSE Append(recent, entry)

AddPingTimeMs(n, slow) ==
    /\ Call
    /\ UpdateMetrics(n, [MetricsOf(n) EXCEPT !.pings = Pushed(@, [time |-> now, slow |-> slow]),
                                             !.lastSeen = now])

(* A disconnect counts as one after a connect if it is not long since the  *)
(* node last connected or answered a ping.  It does not count as seen.     *)
WasConnected(m) ==
    \E time \in {m.lastConnect} \cup {m.pings[i].time : i \in DOMAIN m.pings} :
        time # 0 /\ now < time + ConnectedFor

AddRecentUnintentionalDisconnectTimesMs(n) ==
    /\ Call
    /\ UpdateMetrics(n, IF WasConnected(MetricsOf(n))
                        THEN [MetricsOf(n) EXCEPT !.afterConnect = Pushed(@, now)]
                        ELSE [MetricsOf(n) EXCEPT !.beforeConnect = Pushed(@, now)])

AddLastConnectTimeMs(n) ==
    /\ Call
    /\ UpdateMetrics(n, [MetricsOf(n) EXCEPT !.lastConnect = now, !.lastSeen = now])

(* The metrics may have been deleted since the connect. *)
AddLastConnectAndTestTimeMs(n) ==
    /\ Call
    /\ UpdateMetrics(n, [MetricsOf(n) EXCEPT !.lastTested = now, !.lastSeen = now,
                                             !.lastConnect = IF @ = 0 THEN now ELSE @])

AddLastDataReceivedTimeMs(n) ==
    /\ Call
    /\ UpdateMetrics(n, [MetricsOf(n) EXCEPT !.lastData = now, !.lastSeen = now])

AddLastOutOfSyncTimeMs(n) ==
    /\ Call
    /\ UpdateMetrics(n, [MetricsOf(n) EXCEPT !.lastOutOfSync = now, !.lastSeen = now])

AddLastInvalidChainDetectedTimeMs(n) ==
    /\ Call
    /\ UpdateMetrics(n, [MetricsOf(n) EXCEPT !.lastInvalid = now, !.lastSeen = now])

(* addSeen, of one node, and addSeenBatch. *)
AddSeenBatch(nodes) ==
    /\ Call
    /\ UpdateMetricsBatch([n \in nodes |-> [MetricsOf(n) EXCEPT !.lastSeen = now]])

(* deleteNode: the node leaves the maps, but not the set of those that are *)
(* not blacklisted.                                                        *)
DeleteNode(n) ==
    /\ Call
    /\ ipPortToMetrics' = Restrict(ipPortToMetrics, Known \ {n})
    /\ ratingToIpPorts' = Unindexed(ratingToIpPorts, ipPortToRating, {n})
    /\ ipPortToRating' = Restrict(ipPortToRating, DOMAIN ipPortToRating \ {n})
    /\ seenTimeToIpPorts' = Unindexed(seenTimeToIpPorts, SeenTimes(ipPortToMetrics), {n})
    /\ Write(<<>>, {n})
    /\ UNCHANGED <<nonBlacklisted, latestMetricsTime>>

(* clearOld, clearBlacklisted and deleteNodes: the nodes chosen leave the  *)
(* maps, and the latest time is found again.                               *)
RemoveNodes(nodes) ==
    /\ nodes # {}
    /\ ipPortToMetrics' = Restrict(ipPortToMetrics, Known \ nodes)
    /\ ipPortToRating' = Restrict(ipPortToRating, DOMAIN ipPortToRating \ nodes)
    /\ ratingToIpPorts' = Unindexed(ratingToIpPorts, ipPortToRating, nodes)
    /\ seenTimeToIpPorts' = Unindexed(seenTimeToIpPorts, SeenTimes(ipPortToMetrics), nodes)
    /\ latestMetricsTime' = LatestOf(ipPortToMetrics')
    /\ Write(<<>>, nodes)

(* The nodes that an iteration over an index, lowest key first, collects   *)
(* until there are enough: within a key, any of them.                      *)
FirstOf(index, amount, excluded) ==
    LET candidates == UNION Range(index) \ excluded
    IN  {nodes \in SUBSET candidates :
           /\ Cardinality(nodes) = Min({amount, Cardinality(candidates)})
           /\ \A k, l \in DOMAIN index :
                k < l /\ nodes \cap index[l] # {} => index[k] \ excluded \subseteq nodes}

ClearOld(amount, excluded) ==
    /\ Call
    /\ \E nodes \in FirstOf(seenTimeToIpPorts, amount, excluded) :
         /\ RemoveNodes(nodes)
         /\ nonBlacklisted' = nonBlacklisted \ nodes

(* The ratings are those computed last, whenever that was. *)
ClearBlacklisted(amount, excluded) ==
    /\ Call
    /\ \E nodes \in FirstOf(Restrict(ratingToIpPorts,
                                     {k \in DOMAIN ratingToIpPorts : ~ IsAcceptable(k)}),
                            amount, excluded) :
         RemoveNodes(nodes)
    /\ UNCHANGED nonBlacklisted

DeleteNodes(excluded) ==
    /\ Call
    /\ RemoveNodes(Known \ excluded)
    /\ nonBlacklisted' = nonBlacklisted \ (Known \ excluded)

ClearMemory ==
    /\ ipPortToMetrics' = <<>>
    /\ ipPortToRating' = <<>>
    /\ seenTimeToIpPorts' = <<>>
    /\ ratingToIpPorts' = <<>>
    /\ nonBlacklisted' = {}
    /\ latestMetricsTime' = 0

Clear ==
    /\ status = "open"
    /\ calls < MaxCalls
    /\ calls' = calls + 1
    /\ ClearMemory
    /\ ratingsAreRecent' = FALSE
    /\ Write(<<>>, Node)
    /\ UNCHANGED <<levelDbMetrics, lost, status, now>>

----------------------------------------------------------------------------
(* The ratings, brought up to date *)

(* Fault: a node once blacklisted stays so. *)
Relisted_NeverLifted(n, old, new) ==
    IF IsAcceptable(old) /\ ~ IsAcceptable(new) THEN nonBlacklisted \ {n} ELSE nonBlacklisted

(* The set of those that are not blacklisted, when a rating changes. *)
Relisted(n, old, new) ==
    IF IsAcceptable(new) THEN nonBlacklisted \cup {n}
    ELSE IF IsAcceptable(old) THEN nonBlacklisted \ {n}
    ELSE nonBlacklisted

(* getNodeRating and isBlacklisted compute the rating of one node again. *)
RecalculateNodeRating(n) ==
    LET old == ipPortToRating[n]
        new == Rating(ipPortToMetrics[n], now)
    IN  /\ status = "open"
        /\ n \in Known
        /\ old # new
        /\ ipPortToRating' = [ipPortToRating EXCEPT ![n] = new]
        /\ ratingToIpPorts' =
             Indexed(Unindexed(ratingToIpPorts, ipPortToRating, {n}), Entry(n, new))
        /\ nonBlacklisted' = Relisted(n, old, new)
        /\ UNCHANGED <<ipPortToMetrics, seenTimeToIpPorts, latestMetricsTime,
                       ratingsAreRecent, diskVars, status, now, calls>>

(* Fault: nodes that have a rating keep it. *)
RebuildRatings_KeepsOld(metrics) ==
    LET ratings == WithEntries(Ratings(metrics),
                               Restrict(ipPortToRating, DOMAIN metrics \cap DOMAIN ipPortToRating))
    IN  /\ ipPortToRating' = ratings
        /\ ratingToIpPorts' = IndexOf(ratings)
        /\ nonBlacklisted' = Acceptable(ratings)
        /\ ratingsAreRecent' = TRUE

(* The maps of ratings, built from nothing. *)
RebuildRatings(metrics) ==
    /\ ipPortToRating' = Ratings(metrics)
    /\ ratingToIpPorts' = IndexOf(Ratings(metrics))
    /\ nonBlacklisted' = Acceptable(Ratings(metrics))
    /\ ratingsAreRecent' = TRUE

(* getTopRatedNodes, getMostRecentlySeenNodes and                          *)
(* getNumNodesNonBlacklisted compute all ratings again, unless as many     *)
(* nodes are rated as are known and it was done a moment ago.              *)
BuildRatingsMapsFromMetrics ==
    /\ status = "open"
    /\ Cardinality(DOMAIN ipPortToRating) = Cardinality(Known) => ~ ratingsAreRecent
    /\ RebuildRatings(ipPortToMetrics)
    /\ UNCHANGED <<ipPortToMetrics, seenTimeToIpPorts, latestMetricsTime, diskVars, status,
                   now, calls>>

----------------------------------------------------------------------------
(* Sessions, writes and time *)

Init ==
    /\ ipPortToMetrics = <<>>
    /\ ipPortToRating = <<>>
    /\ seenTimeToIpPorts = <<>>
    /\ ratingToIpPorts = <<>>
    /\ nonBlacklisted = {}
    /\ latestMetricsTime = 0
    /\ ratingsAreRecent = FALSE
    /\ metricsSaveQueue = <<>>
    /\ levelDbMetrics = <<>>
    /\ status = "down"
    /\ now = 1
    /\ calls = 0
    /\ lost = {}

(* create: a new process builds all maps from the metrics on disk. *)
Create ==
    /\ status = "down"
    /\ ipPortToMetrics' = levelDbMetrics
    /\ seenTimeToIpPorts' = IndexOf(SeenTimes(levelDbMetrics))
    /\ latestMetricsTime' = LatestOf(levelDbMetrics)
    /\ RebuildRatings(levelDbMetrics)
    /\ status' = "open"
    /\ UNCHANGED <<diskVars, now, calls>>

(* The first write of the queue succeeds, or fails and is given up. *)
WriteSucceeds ==
    /\ metricsSaveQueue # <<>>
    /\ levelDbMetrics' = Applied(levelDbMetrics, Head(metricsSaveQueue))
    /\ lost' = lost \ Touched(Head(metricsSaveQueue))
    /\ metricsSaveQueue' = Tail(metricsSaveQueue)
    /\ UNCHANGED <<memoryVars, ratingsAreRecent, status, now, calls>>

WriteFails ==
    /\ metricsSaveQueue # <<>>
    /\ lost' = lost \cup Touched(Head(metricsSaveQueue))
    /\ metricsSaveQueue' = Tail(metricsSaveQueue)
    /\ UNCHANGED <<memoryVars, ratingsAreRecent, levelDbMetrics, status, now, calls>>

(* close waits for the writes; the client makes no more calls. *)
Close ==
    /\ status = "open"
    /\ status' = "closing"
    /\ UNCHANGED <<memoryVars, ratingsAreRecent, diskVars, now, calls>>

(* Fault: LevelDB does not wait for pending writes. *)
FinishClose_NoWait ==
    /\ status = "closing"
    /\ status' = "closed"
    /\ UNCHANGED <<memoryVars, ratingsAreRecent, diskVars, now, calls>>

(* The queue has settled. *)
FinishClose ==
    /\ status = "closing"
    /\ metricsSaveQueue = <<>>
    /\ status' = "closed"
    /\ UNCHANGED <<memoryVars, ratingsAreRecent, diskVars, now, calls>>

(* open: the client starts again, with all that is in memory. *)
Open ==
    /\ status = "closed"
    /\ status' = "open"
    /\ UNCHANGED <<memoryVars, ratingsAreRecent, diskVars, now, calls>>

(* The process ends: the writes still queued are never made. *)
Crash ==
    /\ status # "down"
    /\ ClearMemory
    /\ ratingsAreRecent' = FALSE
    /\ metricsSaveQueue' = <<>>
    /\ lost' = {}
    /\ status' = "down"
    /\ UNCHANGED <<levelDbMetrics, now, calls>>

(* Ten seconds go by, or a day. *)
TimePasses ==
    /\ now' \in {now, now + 1}
    /\ now' <= MaxTime
    /\ ratingsAreRecent' = FALSE
    /\ UNCHANGED <<memoryVars, diskVars, status, calls>>

----------------------------------------------------------------------------

UpdateNode(n) ==
    \/ \E slow \in BOOLEAN : AddPingTimeMs(n, slow)
    \/ AddRecentUnintentionalDisconnectTimesMs(n)
    \/ AddLastConnectTimeMs(n)
    \/ AddLastConnectAndTestTimeMs(n)
    \/ AddLastDataReceivedTimeMs(n)
    \/ AddLastOutOfSyncTimeMs(n)
    \/ AddLastInvalidChainDetectedTimeMs(n)
    \/ DeleteNode(n)

UpdateNodes ==
    \/ \E nodes \in SUBSET Node \ {{}} : AddSeenBatch(nodes)
    \/ \E excluded \in SUBSET Node :
         \/ \E amount \in 1..Cardinality(Node) :
              ClearOld(amount, excluded) \/ ClearBlacklisted(amount, excluded)
         \/ DeleteNodes(excluded)
    \/ Clear

Next ==
    \/ \E n \in Node : UpdateNode(n) \/ RecalculateNodeRating(n)
    \/ UpdateNodes
    \/ BuildRatingsMapsFromMetrics
    \/ Create
    \/ WriteSucceeds
    \/ WriteFails
    \/ Close
    \/ FinishClose
    \/ Open
    \/ Crash
    \/ TimePasses

Spec == Init /\ [][Next]_vars

----------------------------------------------------------------------------
(* Properties *)

Times == 0..MaxTime

Metrics ==
    [lastSeen : Times, pings : Seq([time : Times, slow : BOOLEAN]),
     beforeConnect : Seq(Times), afterConnect : Seq(Times), lastConnect : Times,
     lastTested : Times, lastData : Times, lastOutOfSync : Times, lastInvalid : Times]

IsMetricsMap(f) == DOMAIN f \subseteq Node /\ f \in [DOMAIN f -> Metrics]

(* The type invariant; no more than MaxRecent events of a kind are kept. *)
TypeOK ==
    /\ IsMetricsMap(ipPortToMetrics) /\ IsMetricsMap(levelDbMetrics)
    /\ DOMAIN ipPortToRating \subseteq Node
    /\ Range(ipPortToRating) \subseteq Int
    /\ DOMAIN seenTimeToIpPorts \subseteq Times
    /\ DOMAIN ratingToIpPorts \subseteq Int
    /\ UNION (Range(seenTimeToIpPorts) \cup Range(ratingToIpPorts)) \subseteq Node
    /\ nonBlacklisted \subseteq Node
    /\ {latestMetricsTime, now} \subseteq Times
    /\ ratingsAreRecent \in BOOLEAN
    /\ \A i \in DOMAIN metricsSaveQueue :
         IsMetricsMap(metricsSaveQueue[i].put) /\ metricsSaveQueue[i].del \subseteq Node
    /\ status \in {"down", "open", "closing", "closed"}
    /\ lost \subseteq Node
    /\ \A n \in Known :
         /\ Len(ipPortToMetrics[n].pings) <= MaxRecent
         /\ Len(ipPortToMetrics[n].beforeConnect) <= MaxRecent
         /\ Len(ipPortToMetrics[n].afterConnect) <= MaxRecent

(* Each index holds every node known under the time it was last seen, or   *)
(* the rating it has, and under no other key, and has no empty set: after  *)
(* any updates, deletions, restarts and new computations of ratings (the   *)
(* sets are patched in eight places, with the key a node had before).      *)
IndexesAgree ==
    /\ seenTimeToIpPorts = IndexOf(SeenTimes(ipPortToMetrics))
    /\ ratingToIpPorts = IndexOf(ipPortToRating)
    /\ DOMAIN ipPortToRating = Known

(* A node known is in the set of those that are not blacklisted exactly if *)
(* its rating reaches the threshold, even if it was deleted and came back  *)
(* (_recalculateNodeRating and _updateMetricsBatch patch the set).         *)
BlacklistAgrees == nonBlacklisted \cap Known = Acceptable(ipPortToRating)

(* In the ten seconds in which ratings are not computed again, those that  *)
(* are handed out are right for the metrics of then (734-738).             *)
RecentRatingsAreRight == ratingsAreRecent => ipPortToRating = Ratings(ipPortToMetrics)

(* The assertion of _buildRatingsMapsFromMetrics, and what it is about: no *)
(* node known has a time later than the latest (748, 814-820).             *)
LatestTimeIsLatest ==
    \A n \in Known : 0 < latestMetricsTime /\ HighestTime(ipPortToMetrics[n]) <= latestMetricsTime

(* What the disk will hold once the queue is written. *)
Replayed ==
    LET replay[i \in 0..Len(metricsSaveQueue)] ==
          IF i = 0 THEN levelDbMetrics ELSE Applied(replay[i - 1], metricsSaveQueue[i])
    IN  replay[Len(metricsSaveQueue)]

(* The queue writes what is in memory, in the order it changed: a failed   *)
(* write loses the last change of its own nodes and of no other, and the   *)
(* next write of such a node makes up for it (883-899).                    *)
WritesReplayToMetrics ==
    status # "down" =>
        Restrict(Replayed, DOMAIN Replayed \ lost) = Restrict(ipPortToMetrics, Known \ lost)

(* Nothing is on its way when LevelDB is closed: a process that ends then  *)
(* has lost no more than failed writes (412-418).                          *)
ClosedIsSaved ==
    status = "closed" =>
        Restrict(levelDbMetrics, DOMAIN levelDbMetrics \ lost)
            = Restrict(ipPortToMetrics, Known \ lost)
=============================================================================

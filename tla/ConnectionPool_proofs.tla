----------------------- MODULE ConnectionPool_proofs ------------------------
(***************************************************************************)
(* Proofs about ConnectionPool, for any number of nodes, workers,          *)
(* connection objects, and any target.                                     *)
(*                                                                         *)
(* PoolInv is inductive.  The lemmas of the first part say what the        *)
(* operators that actions share do to the maps; then there is one lemma    *)
(* per action, with one step per conjunct of PoolInv.                      *)
(***************************************************************************)
EXTENDS ConnectionPool, TLAPS, FiniteSetTheorems

(* An object is registered under its own address. *)
Registered == \A n \in InUse : nodeConnections[n][1] = n

(* A connection that is not being tested, and is accounted for. *)
IsSettled(c) ==
    \/ nodeConnectionsConnected[c[1]] = c
    \/ c \in late
    \/ after[c] # "none"
    \/ c \in astray

IsTested(c) == \E w \in Runner : pc[w] \in {"testing", "dropped"} /\ holds[w] = c

(* A worker whose test has failed no longer accounts for its connection:   *)
(* the event of it does.                                                   *)
Accounted == \A n \in InUse : IsSettled(nodeConnections[n]) \/ IsTested(nodeConnections[n])

(* A worker that has not been launched yet is idle. *)
Unlaunched == \A w \in toLaunch : pc[w] = "idle"

PoolInv ==
    /\ TypeOK
    /\ Unlaunched
    /\ Registered
    /\ UsedNodesAreKnown
    /\ AtMostTarget
    /\ Accounted

----------------------------------------------------------------------------
(* The operators that actions share *)

(* The address of an object is that of a node, and an object is something. *)
LEMMA ConnAddress == \A c \in Conn : c[1] \in Node /\ c # None
  BY PoolAssumption DEF Conn

(* The number of nodes that count as connected is a number. *)
LEMMA ConnectedIsFinite == IsFiniteSet(Connected) /\ Cardinality(Connected) \in Nat
  BY PoolAssumption, FS_Subset, FS_CardinalityType DEF Connected

(* The target is not exceeded if no node comes to count as connected. *)
LEMMA NoneConnects ==
  ASSUME PoolInv, Connected' \subseteq Connected
  PROVE  AtMostTarget'
<1>1. Cardinality(Connected') <= Cardinality(Connected) /\ Cardinality(Connected') \in Nat
  BY ConnectedIsFinite, FS_Subset, FS_CardinalityType
<1>2. Cardinality(Connected) <= Target /\ Target \in Nat /\ Cardinality(Connected) \in Nat
  BY ConnectedIsFinite, PoolAssumption DEF PoolInv, AtMostTarget
<1> QED
  BY <1>1, <1>2 DEF AtMostTarget

(* Destroying keeps the types, and clears one address. *)
LEMMA DestroyEffect ==
  ASSUME PoolInv, NEW c \in Conn, Destroy(c)
  PROVE  /\ nodeConnections' \in [Node -> Conn \cup {None}]
         /\ nodeConnectionsConnected' \in [Node -> Conn \cup {None}]
         /\ socket' \in [Conn -> {"none", "connecting", "up"}]
         /\ astray' \subseteq Conn
         /\ InUse' = InUse \ {c[1]}
         /\ Connected' = Connected \ {c[1]}
         /\ Registered'
         /\ \A n \in InUse' : /\ nodeConnections'[n] = nodeConnections[n]
                              /\ nodeConnectionsConnected'[n] = nodeConnectionsConnected[n]
                              /\ nodeConnections[n] # c
                              /\ nodeConnections[n] \in astray => nodeConnections[n] \in astray'
<1> USE ConnAddress DEF PoolInv, TypeOK, Destroy
<1>1. /\ nodeConnections' \in [Node -> Conn \cup {None}]
      /\ nodeConnectionsConnected' \in [Node -> Conn \cup {None}]
      /\ socket' \in [Conn -> {"none", "connecting", "up"}]
      /\ astray' \subseteq Conn
  OBVIOUS
<1>2. InUse' = InUse \ {c[1]} /\ Connected' = Connected \ {c[1]}
  BY DEF InUse, Connected
<1>3. \A n \in InUse' : /\ nodeConnections'[n] = nodeConnections[n]
                        /\ nodeConnectionsConnected'[n] = nodeConnectionsConnected[n]
                        /\ nodeConnections[n] # c
                        /\ nodeConnections[n] \in astray => nodeConnections[n] \in astray'
  BY <1>2 DEF InUse, Registered
<1>4. Registered'
  BY <1>2, <1>3 DEF Registered
<1> QED
  BY <1>1, <1>2, <1>3, <1>4

(* When the node of an object comes to count as connected, the object is   *)
(* accounted for, and another one of its address is astray.                *)
LEMMA CountEffect ==
  ASSUME PoolInv, NEW c \in Conn, Count(c)
  PROVE  /\ nodeConnectionsConnected' \in [Node -> Conn \cup {None}]
         /\ astray' \subseteq Conn
         /\ astray \subseteq astray'
         /\ Connected' = Connected \cup {c[1]}
         /\ nodeConnectionsConnected'[c[1]] = c
         /\ \A n \in InUse :
               nodeConnectionsConnected[n] = nodeConnections[n] =>
                  \/ nodeConnectionsConnected'[n] = nodeConnections[n]
                  \/ nodeConnections[n] \in astray'
<1> USE ConnAddress DEF PoolInv, TypeOK, Count, ConnectedWith
<1>1. nodeConnectionsConnected' \in [Node -> Conn \cup {None}] /\ nodeConnectionsConnected'[c[1]] = c
  OBVIOUS
<1>2. astray' \subseteq Conn /\ astray \subseteq astray'
  BY DEF Other
<1>3. Connected' = Connected \cup {c[1]}
  BY DEF Connected
<1>4. ASSUME NEW n \in InUse, nodeConnectionsConnected[n] = nodeConnections[n]
      PROVE  \/ nodeConnectionsConnected'[n] = nodeConnections[n]
             \/ nodeConnections[n] \in astray'
  <2>1. CASE n # c[1]
    BY <1>4, <2>1 DEF InUse
  <2>2. CASE n = c[1]
    BY <1>1, <1>4, <2>2 DEF InUse, Other
  <2> QED
    BY <2>1, <2>2
<1> QED
  BY <1>1, <1>2, <1>3, <1>4

(* What a worker looks for, and what it leaves alone. *)
LoopResult(w, known) ==
    /\ nodeConnections' \in [Node -> Conn \cup {None}]
    /\ socket' \in [Conn -> {"none", "connecting", "up"}]
    /\ exited' \in BOOLEAN
    /\ pc' \in [Runner -> {"idle", "seeds", "testing", "dropped", "failed", "clearing"}]
    /\ holds' \in [Runner -> Conn \cup {None}]
    /\ priority' \in [Runner -> Node \cup {None}]
    /\ (holds'[w] # None) = (pc'[w] \in {"testing", "dropped", "failed"})
    /\ \A v \in Runner \ {w} : pc'[v] = pc[v] /\ holds'[v] = holds[v]
    /\ InUse' \subseteq InUse \cup known
    /\ InUse \subseteq InUse'
    /\ Registered'
    /\ \A n \in InUse' : \/ n \in InUse /\ nodeConnections'[n] = nodeConnections[n]
                         \/ pc'[w] = "testing" /\ holds'[w] = nodeConnections'[n]

(* A worker that creates a connection does so for a node that is known and *)
(* not in use, and holds it.                                               *)
LEMMA CreateEffect ==
  ASSUME PoolInv, NEW w \in Runner, NEW n \in Node, NEW known \in SUBSET Node,
         Create(w, n, known)
  PROVE  LoopResult(w, known)
<1> USE ConnAddress DEF PoolInv, TypeOK, LoopResult
<1>1. CASE n \notin known \/ n \in InUse
  <2>1. exited' = TRUE /\ UNCHANGED <<nodeConnections, socket, workerVars>>
    BY <1>1 DEF Create
  <2>2. InUse' = InUse
    BY <2>1 DEF InUse
  <2>3. Registered'
    BY <2>1, <2>2 DEF Registered
  <2> QED
    BY <2>1, <2>2, <2>3 DEF workerVars
<1>2. CASE n \in known /\ n \notin InUse
  <2>1. PICK c \in Conn :
          /\ c[1] = n
          /\ nodeConnections' = [nodeConnections EXCEPT ![n] = c]
          /\ socket' = [socket EXCEPT ![c] = "connecting"]
          /\ Put(w, "testing", c, None)
          /\ UNCHANGED exited
    BY <1>2 DEF Create
  <2>2. InUse' = InUse \cup {n}
    BY <2>1 DEF InUse
  <2>3. Registered'
    BY <2>1, <2>2 DEF Registered
  <2>4. /\ pc' \in [Runner -> {"idle", "seeds", "testing", "dropped", "failed", "clearing"}]
        /\ holds' \in [Runner -> Conn \cup {None}]
        /\ priority' \in [Runner -> Node \cup {None}]
        /\ pc'[w] = "testing" /\ holds'[w] = c
        /\ \A v \in Runner \ {w} : pc'[v] = pc[v] /\ holds'[v] = holds[v]
    BY <2>1 DEF Put
  <2>5. nodeConnections' \in [Node -> Conn \cup {None}]
        /\ socket' \in [Conn -> {"none", "connecting", "up"}]
    BY <2>1
  <2>6. \A m \in InUse' : \/ m \in InUse /\ nodeConnections'[m] = nodeConnections[m]
                          \/ holds'[w] = nodeConnections'[m]
    BY <2>1, <2>2, <2>4 DEF InUse
  <2> QED
    BY <1>2, <2>1, <2>2, <2>3, <2>4, <2>5, <2>6
<1> QED
  BY <1>1, <1>2

(* A worker that waits or returns holds nothing. *)
LEMMA PutEffect ==
  ASSUME PoolInv, NEW w \in Runner, NEW n \in Node \cup {None}, NEW known \in SUBSET Node,
         NEW state \in {"idle", "seeds", "clearing"},
         Put(w, state, None, n), UNCHANGED <<nodeConnections, socket, exited>>
  PROVE  LoopResult(w, known)
<1>1. InUse' = InUse
  BY DEF InUse
<1>2. Registered'
  BY <1>1 DEF Registered, PoolInv
<1> QED
  BY <1>1, <1>2 DEF PoolInv, TypeOK, LoopResult, Put

(* The head of the loop ends in one of the two. *)
LEMMA LoopEffect ==
  ASSUME PoolInv, NEW w \in Runner, NEW n \in Node \cup {None}, NEW known \in SUBSET Node,
         Loop(w, n, known)
  PROVE  LoopResult(w, known)
<1>1. CASE Return(w) /\ UNCHANGED <<nodeConnections, socket, exited>>
  BY <1>1, PutEffect DEF Return
<1>2. CASE Put(w, "seeds", None, n) /\ UNCHANGED <<nodeConnections, socket, exited>>
  BY <1>2, PutEffect
<1>3. CASE \E m \in Candidates(n, known) \cup Candidates(None, known) : Create(w, m, known)
  <2>1. Candidates(n, known) \cup Candidates(None, known) \subseteq Node
    BY DEF Candidates
  <2> QED
    BY <1>3, <2>1, CreateEffect
<1> QED
  BY <1>1, <1>2, <1>3 DEF Loop, Select

----------------------------------------------------------------------------
(* The actions *)

(* At first no node is in use. *)
LEMMA InitInv == Init => PoolInv
<1> SUFFICES ASSUME Init PROVE PoolInv
  OBVIOUS
<1> USE DEF Init
<1>1. TypeOK
  <2>1. /\ nodeConnections \in [Node -> Conn \cup {None}]
        /\ nodeConnectionsConnected \in [Node -> Conn \cup {None}]
        /\ socket \in [Conn -> {"none", "connecting", "up"}]
        /\ after \in [Conn -> {"none", "waiting", "reconnecting"}]
    OBVIOUS
  <2>2. /\ pc \in [Runner -> {"idle", "seeds", "testing", "dropped", "failed", "clearing"}]
        /\ holds \in [Runner -> Conn \cup {None}]
        /\ priority \in [Runner -> Node \cup {None}]
        /\ \A w \in Runner : (holds[w] # None) = (pc[w] \in {"testing", "dropped", "failed"})
    OBVIOUS
  <2>3. \A w \in Worker : pc[w] = "idle"
    BY DEF Runner
  <2>4. {targetReached, seedReAdd, monitoring, stopped, closed, exited} \subseteq BOOLEAN
    OBVIOUS
  <2> QED
    BY <2>1, <2>2, <2>3, <2>4 DEF TypeOK
<1>2. InUse = {} /\ Connected = {}
  BY DEF InUse, Connected
<1>3. Unlaunched /\ Registered /\ UsedNodesAreKnown /\ Accounted
  BY <1>2 DEF Unlaunched, Registered, UsedNodesAreKnown, Accounted
<1>4. AtMostTarget
  BY <1>2, FS_EmptySet, PoolAssumption DEF AtMostTarget
<1> QED
  BY <1>1, <1>3, <1>4 DEF PoolInv

(* If the maps, the tests and the listeners stay as they are, and no node  *)
(* is deleted that is in use, only types are at stake.                     *)
LEMMA MapsStay ==
  ASSUME PoolInv, UNCHANGED <<mapVars, listenerVars, pc, holds>>,
         astray \subseteq astray', InUse \subseteq nodes'
  PROVE  Registered' /\ UsedNodesAreKnown' /\ AtMostTarget' /\ Accounted'
<1> USE DEF PoolInv, mapVars, listenerVars
<1>1. InUse' = InUse /\ Connected' = Connected
  BY DEF InUse, Connected
<1>2. Registered' /\ UsedNodesAreKnown'
  BY <1>1 DEF Registered, UsedNodesAreKnown
<1>3. AtMostTarget'
  BY <1>1, NoneConnects
<1>4. \A c : IsSettled(c) => IsSettled(c)'
  BY DEF IsSettled
<1>5. \A c : IsTested(c) => IsTested(c)'
  BY DEF IsTested
<1>6. Accounted'
  BY <1>1, <1>4, <1>5 DEF Accounted
<1> QED
  BY <1>2, <1>3, <1>6

(* Launch *)
LEMMA LaunchInv ==
  ASSUME PoolInv, NEW w \in Worker, Launch(w)
  PROVE  PoolInv'
<1> DEFINE n == IF startPriority \in InUse THEN None ELSE startPriority
<1>1. w \in Runner /\ n \in Node \cup {None} /\ nodes \in SUBSET Node
  BY DEF Runner, PoolInv, TypeOK
<1>2. LoopResult(w, nodes)
  BY <1>1, LoopEffect DEF Launch
<1>3. TypeOK'
  BY <1>1, <1>2 DEF PoolInv, TypeOK, LoopResult, Launch, listenerVars, otherVars, Runner
<1>4. Registered' /\ UsedNodesAreKnown'
  BY <1>2 DEF LoopResult, Launch, UsedNodesAreKnown, PoolInv
<1>5. AtMostTarget'
  <2>1. Connected' = Connected
    BY DEF Launch, Connected
  <2> QED
    BY <2>1, NoneConnects
<1>6. Accounted'
  <2>1. pc[w] = "idle"
    BY DEF Launch, PoolInv, Unlaunched
  <2> QED
    BY <1>1, <1>2, <2>1 DEF Launch, PoolInv, LoopResult, Accounted, IsSettled, IsTested, listenerVars
<1>7. Unlaunched'
  BY <1>1, <1>2 DEF Launch, PoolInv, TypeOK, Unlaunched, LoopResult, Runner
<1> QED
  BY <1>3, <1>4, <1>5, <1>6, <1>7 DEF PoolInv

(* A worker takes up its loop, with nothing left to test. *)
LEMMA LoopInv ==
  ASSUME PoolInv, toLaunch = {},
         NEW w \in Runner, NEW n \in Node \cup {None}, Loop(w, n, nodes),
         pc[w] \notin {"testing", "dropped"},
         pc[w] = "idle" => w = Monitor,
         UNCHANGED <<nodes, nodeConnectionsConnected, astray, listenerVars, startVars, otherVars>>
  PROVE  PoolInv'
<1>1. LoopResult(w, nodes)
  BY LoopEffect DEF PoolInv, TypeOK
<1>2. TypeOK'
  BY <1>1, PoolAssumption
     DEF PoolInv, TypeOK, LoopResult, listenerVars, startVars, otherVars, Runner
<1>3. Registered' /\ UsedNodesAreKnown'
  BY <1>1 DEF LoopResult, UsedNodesAreKnown, PoolInv
<1>4. AtMostTarget'
  <2>1. Connected' = Connected
    BY DEF Connected
  <2> QED
    BY <2>1, NoneConnects
<1>5. Accounted'
  BY <1>1 DEF PoolInv, LoopResult, Accounted, IsSettled, IsTested, listenerVars
<1>6. Unlaunched'
  BY DEF Unlaunched, startVars
<1> QED
  BY <1>2, <1>3, <1>4, <1>5, <1>6 DEF PoolInv

(* SeedsArrive *)
LEMMA SeedsArriveInv ==
  ASSUME PoolInv, toLaunch = {}, NEW w \in Runner, SeedsArrive(w)
  PROVE  PoolInv'
<1>1. priority[w] \in Node \cup {None} /\ pc[w] = "seeds"
  BY DEF PoolInv, TypeOK, SeedsArrive
<1> QED
  BY <1>1, LoopInv DEF SeedsArrive

(* TestConnects *)
LEMMA TestConnectsInv ==
  ASSUME PoolInv, toLaunch = {}, NEW w \in Runner, TestConnects(w)
  PROVE  PoolInv'
<1>1. holds[w] \in Conn
  BY DEF PoolInv, TypeOK, TestConnects
<1>2. TypeOK'
  BY <1>1, ConnAddress
     DEF PoolInv, TypeOK, TestConnects, mapVars, listenerVars, workerVars, startVars, otherVars
<1>3. Registered' /\ UsedNodesAreKnown' /\ AtMostTarget' /\ Accounted'
  BY MapsStay DEF TestConnects, workerVars, PoolInv, UsedNodesAreKnown
<1>4. Unlaunched'
  BY DEF Unlaunched, TestConnects, startVars
<1> QED
  BY <1>2, <1>3, <1>4 DEF PoolInv

(* TestFails: a connection that is registered goes astray. *)
LEMMA TestFailsInv ==
  ASSUME PoolInv, toLaunch = {}, NEW w \in Runner, TestFails(w)
  PROVE  PoolInv'
<1> USE DEF PoolInv, TestFails, mapVars, listenerVars, startVars, otherVars
<1>1. holds[w] \in Conn /\ pc[w] = "testing"
  BY DEF TypeOK
<1>2. TypeOK'
  BY <1>1 DEF TypeOK, Runner
<1>3. InUse' = InUse /\ Connected' = Connected
  BY DEF InUse, Connected
<1>4. Registered' /\ UsedNodesAreKnown'
  BY <1>3 DEF Registered, UsedNodesAreKnown
<1>5. AtMostTarget'
  BY <1>3, NoneConnects
<1>6. Accounted'
  <2> SUFFICES ASSUME NEW n \in InUse
               PROVE  IsSettled(nodeConnections[n])' \/ IsTested(nodeConnections[n])'
    BY <1>3 DEF Accounted
  <2>1. CASE nodeConnections[n] = holds[w]
    <3>1. nodeConnections[n][1] = n
      BY DEF Registered
    <3> QED
      BY <2>1, <3>1 DEF IsSettled
  <2>2. CASE IsSettled(nodeConnections[n])
    BY <2>2 DEF IsSettled
  <2>3. CASE nodeConnections[n] # holds[w] /\ IsTested(nodeConnections[n])
    BY <2>3 DEF IsTested, TypeOK
  <2> QED
    BY <2>1, <2>2, <2>3 DEF Accounted
<1>7. Unlaunched'
  BY DEF Unlaunched
<1> QED
  BY <1>2, <1>4, <1>5, <1>6, <1>7

(* When an object is destroyed that some workers may have tested, all      *)
(* others are still accounted for.                                         *)
LEMMA DestroyInv ==
  ASSUME PoolInv, NEW c \in Conn, Destroy(c),
         nodes \subseteq nodes',
         late \ {c} \subseteq late',
         \A d \in Conn \ {c} : after'[d] = after[d],
         \A w \in Runner : IF holds[w] = c THEN TRUE
                           ELSE pc'[w] = pc[w] /\ holds'[w] = holds[w]
  PROVE  Registered' /\ UsedNodesAreKnown' /\ AtMostTarget' /\ Accounted'
<1>1. Registered' /\ UsedNodesAreKnown' /\ AtMostTarget'
  BY DestroyEffect, NoneConnects DEF PoolInv, UsedNodesAreKnown
<1>2. ASSUME NEW n \in InUse'
      PROVE  IsSettled(nodeConnections[n])' \/ IsTested(nodeConnections[n])'
  <2> DEFINE d == nodeConnections[n]
  <2>1. /\ n \in InUse /\ d \in Conn /\ d # c /\ d[1] = n
        /\ nodeConnections'[n] = d
        /\ nodeConnectionsConnected'[n] = nodeConnectionsConnected[n]
        /\ d \in astray => d \in astray'
    BY <1>2, DestroyEffect DEF PoolInv, TypeOK, Registered, InUse
  <2>2. CASE IsSettled(d)
    BY <2>1, <2>2 DEF IsSettled
  <2>3. CASE IsTested(d)
    BY <2>1, <2>3 DEF IsTested
  <2> QED
    BY <2>1, <2>2, <2>3 DEF PoolInv, Accounted
<1>3. Accounted'
  BY <1>2 DEF Accounted
<1> QED
  BY <1>1, <1>3

(* Nothing but the exit changes. *)
LEMMA ExitsInv ==
  ASSUME PoolInv, toLaunch = {}, Exits
  PROVE  PoolInv'
<1>1. TypeOK'
  BY DEF PoolInv, TypeOK, Exits, mapVars, connVars, listenerVars, workerVars, startVars, otherVars
<1>2. Registered' /\ UsedNodesAreKnown' /\ AtMostTarget' /\ Accounted'
  BY MapsStay DEF Exits, connVars, workerVars, PoolInv, UsedNodesAreKnown
<1>3. Unlaunched'
  BY DEF Unlaunched, Exits, startVars
<1> QED
  BY <1>1, <1>2, <1>3 DEF PoolInv

(* _start keeps the types, and workers run while a start does. *)
LEMMA CallStartEffect ==
  ASSUME PoolInv, toLaunch = {}, NEW n \in Node \cup {None}, CallStart(n)
  PROVE  /\ startQueue' \in {"none", "opening", "priority", "working"}
         /\ startPriority' \in Node \cup {None}
         /\ UNCHANGED <<targetReached, toLaunch>>
         /\ startQueue' \in {"none", "opening"} => \A w \in Worker : pc[w] = "idle"
  BY DEF CallStart, PoolInv, TypeOK

(* TestDrops *)
LEMMA TestDropsInv ==
  ASSUME PoolInv, toLaunch = {}, NEW w \in Runner, TestDrops(w)
  PROVE  PoolInv'
<1> DEFINE c == holds[w]
<1>1. c \in Conn /\ pc[w] = "testing"
  BY DEF PoolInv, TypeOK, TestDrops
<1>2. CASE Exits
  BY <1>2, ExitsInv
<1>3. CASE /\ Destroy(c)
           /\ CallStart(None)
           /\ \E state \in {"failed", "dropped"} : Put(w, state, c, None)
           /\ UNCHANGED <<nodes, listenerVars, otherVars, exited>>
  <2>1. PICK state \in {"failed", "dropped"} : Put(w, state, c, None)
    BY <1>3
  <2>2. \A v \in Runner : IF holds[v] = c THEN TRUE ELSE pc'[v] = pc[v] /\ holds'[v] = holds[v]
    BY <2>1 DEF Put, PoolInv, TypeOK
  <2>3. Registered' /\ UsedNodesAreKnown' /\ AtMostTarget' /\ Accounted'
    BY <1>1, <1>3, <2>2, DestroyInv DEF listenerVars
  <2>4. TypeOK'
    BY <1>1, <1>3, <2>1, DestroyEffect, CallStartEffect, ConnAddress
       DEF PoolInv, TypeOK, Put, listenerVars, otherVars, Runner
  <2>5. Unlaunched'
    BY <1>3, CallStartEffect DEF Unlaunched
  <2> QED
    BY <2>3, <2>4, <2>5 DEF PoolInv
<1> QED
  BY <1>2, <1>3 DEF TestDrops

(* WorkerAborts *)
LEMMA WorkerAbortsInv ==
  ASSUME PoolInv, toLaunch = {}, NEW w \in Runner, WorkerAborts(w)
  PROVE  PoolInv'
<1> DEFINE c == holds[w]
<1>1. c \in Conn /\ pc[w] # "idle"
  BY DEF PoolInv, TypeOK, WorkerAborts
<1>2. \A v \in Runner : IF holds[v] = c THEN TRUE ELSE pc'[v] = pc[v] /\ holds'[v] = holds[v]
  BY DEF WorkerAborts, Return, Put, PoolInv, TypeOK
<1>3. Registered' /\ UsedNodesAreKnown' /\ AtMostTarget' /\ Accounted'
  BY <1>1, <1>2, DestroyInv DEF WorkerAborts, listenerVars
<1>4. TypeOK'
  BY <1>1, DestroyEffect, PoolAssumption
     DEF WorkerAborts, PoolInv, TypeOK, Return, Put, listenerVars, startVars, otherVars, Runner
<1>5. Unlaunched'
  BY DEF Unlaunched, WorkerAborts, startVars
<1> QED
  BY <1>3, <1>4, <1>5 DEF PoolInv

(* A worker that has nothing to test goes to wait, or returns. *)
LEMMA RestInv ==
  ASSUME PoolInv, toLaunch = {}, NEW w \in Runner, NEW state \in {"idle", "seeds", "clearing"},
         pc[w] \notin {"idle", "testing", "dropped"},
         state = "clearing" => w = Monitor,
         Put(w, state, None, None),
         UNCHANGED <<mapVars, connVars, listenerVars, startVars, monitoring, stopped, closed,
                     exited>>,
         seedReAdd' \in BOOLEAN,
         InUse \subseteq nodes', nodes' \subseteq Node
  PROVE  PoolInv'
<1>1. LoopResult(w, nodes)
  BY PutEffect DEF PoolInv, TypeOK, mapVars, connVars
<1>2. TypeOK'
  BY <1>1, PoolAssumption
     DEF PoolInv, TypeOK, LoopResult, mapVars, connVars, listenerVars, startVars, Runner
<1>3. InUse' = InUse /\ Connected' = Connected
  BY DEF InUse, Connected, mapVars
<1>4. Registered' /\ UsedNodesAreKnown'
  BY <1>1, <1>3 DEF LoopResult, UsedNodesAreKnown, PoolInv
<1>5. AtMostTarget'
  BY <1>3, NoneConnects
<1>6. Accounted'
  BY <1>1 DEF PoolInv, LoopResult, Accounted, IsSettled, IsTested, mapVars, connVars, listenerVars
<1>7. Unlaunched'
  BY DEF Unlaunched, startVars
<1> QED
  BY <1>2, <1>4, <1>5, <1>6, <1>7 DEF PoolInv

(* TryNext *)
LEMMA TryNextInv ==
  ASSUME PoolInv, toLaunch = {}, NEW w \in Runner, TryNext(w)
  PROVE  PoolInv'
<1>1. CASE Return(w) /\ UNCHANGED <<nodeConnections, socket, exited>>
  <2>1. InUse \subseteq nodes' /\ nodes' \subseteq Node /\ seedReAdd' \in BOOLEAN
    BY DEF PoolInv, TypeOK, UsedNodesAreKnown, TryNext, otherVars
  <2> QED
    BY <1>1, <2>1, RestInv DEF TryNext, Return, otherVars, mapVars, connVars
<1>2. CASE Loop(w, None, nodes)
  BY <1>2, LoopInv DEF TryNext
<1> QED
  BY <1>1, <1>2 DEF TryNext

(* DetectStuck: the nodes in use are kept. *)
LEMMA DetectStuckInv ==
  ASSUME PoolInv, toLaunch = {}, NEW w \in Runner, DetectStuck(w)
  PROVE  PoolInv'
<1>1. InUse \subseteq nodes' /\ nodes' \subseteq Node
  BY DEF DetectStuck, Kept, PoolInv, TypeOK, UsedNodesAreKnown
<1> QED
  BY <1>1, RestInv DEF DetectStuck, Return

(* Passes: one more node may count as connected, if that is not too many.  *)
LEMMA PassesEffect ==
  ASSUME PoolInv, NEW c \in Conn, Passes(c)
  PROVE  AtMostTarget'
<1>1. CASE Cardinality(Connected \cup {c[1]}) > Target
  BY <1>1, DestroyEffect, NoneConnects DEF Passes
<1>2. CASE ~ (Cardinality(Connected \cup {c[1]}) > Target)
  <2>1. Connected' = Connected \cup {c[1]}
    BY <1>2, CountEffect DEF Passes
  <2>2. Cardinality(Connected \cup {c[1]}) \in Nat
    BY ConnectedIsFinite, FS_AddElement, FS_CardinalityType
  <2> QED
    BY <1>2, <2>1, <2>2, PoolAssumption DEF AtMostTarget
<1> QED
  BY <1>1, <1>2

(* Whoever else is accounted for remains so when a node comes to count as  *)
(* connected, and the tests of others go on.                               *)
LEMMA CountInv ==
  ASSUME PoolInv, NEW c \in Conn, Count(c), Registered',
         late' = late,
         \A d \in Conn \ {c} : after'[d] = after[d],
         \A w \in Runner : IF holds[w] = c THEN TRUE
                           ELSE pc'[w] = pc[w] /\ holds'[w] = holds[w],
         \A n \in InUse' : \/ n \in InUse /\ nodeConnections'[n] = nodeConnections[n]
                           \/ \E w \in Runner : pc'[w] = "testing" /\ holds'[w] = nodeConnections'[n]
  PROVE  Accounted'
<1>1. ASSUME NEW n \in InUse, nodeConnections'[n] = nodeConnections[n]
      PROVE  IsSettled(nodeConnections[n])' \/ IsTested(nodeConnections[n])'
  <2> DEFINE d == nodeConnections[n]
  <2>1. d \in Conn /\ d[1] = n
    BY DEF PoolInv, TypeOK, Registered, InUse
  <2>2. CASE d = c
    BY <1>1, <2>1, <2>2, CountEffect DEF IsSettled
  <2>3. CASE d # c /\ IsSettled(d)
    BY <1>1, <2>1, <2>3, CountEffect DEF IsSettled
  <2>4. CASE d # c /\ IsTested(d)
    BY <1>1, <2>4 DEF IsTested
  <2> QED
    BY <2>2, <2>3, <2>4 DEF PoolInv, Accounted
<1>2. ASSUME NEW n \in InUse',
             \E w \in Runner : pc'[w] = "testing" /\ holds'[w] = nodeConnections'[n]
      PROVE  IsTested(nodeConnections[n])'
  BY <1>2 DEF IsTested
<1> QED
  BY <1>1, <1>2 DEF Accounted

(* TestPasses *)
LEMMA TestPassesInv ==
  ASSUME PoolInv, toLaunch = {}, NEW w \in Runner, TestPasses(w)
  PROVE  PoolInv'
<1> DEFINE c == holds[w]
           size == Cardinality(Connected \cup {c[1]})
<1>1. c \in Conn /\ pc[w] \in {"testing", "dropped"}
  BY DEF PoolInv, TypeOK, TestPasses
<1>2. PICK seen \in SUBSET Node :
        /\ nodes' = nodes \cup {c[1]} \cup seen
        /\ \/ Passes(c) /\ Return(w) /\ UNCHANGED exited
           \/ /\ ~ (size >= Target)
              /\ Count(c)
              /\ Loop(w, None, nodes \cup {c[1]} \cup seen)
  BY DEF TestPasses
<1>3. nodes' \in SUBSET Node /\ nodes \subseteq nodes'
  BY <1>1, <1>2, ConnAddress DEF PoolInv, TypeOK
<1>4. UNCHANGED <<listenerVars, startQueue, startPriority, toLaunch, otherVars>>
      /\ targetReached' \in BOOLEAN
  BY DEF TestPasses, PoolInv, TypeOK
<1>5. Unlaunched'
  BY <1>4 DEF Unlaunched
<1>6. CASE Passes(c) /\ Return(w) /\ UNCHANGED exited
  <2>1. \A v \in Runner : IF holds[v] = c THEN TRUE ELSE pc'[v] = pc[v] /\ holds'[v] = holds[v]
    BY <1>6 DEF Return, Put, PoolInv, TypeOK
  <2>2. CASE Destroy(c)
    <3>1. Registered' /\ UsedNodesAreKnown' /\ AtMostTarget' /\ Accounted'
      BY <1>1, <1>3, <1>4, <2>1, <2>2, DestroyInv DEF listenerVars
    <3>2. TypeOK'
      BY <1>1, <1>3, <1>4, <1>6, <2>2, DestroyEffect, PoolAssumption
         DEF PoolInv, TypeOK, Return, Put, listenerVars, otherVars, Runner
    <3> QED
      BY <1>5, <3>1, <3>2 DEF PoolInv
  <2>3. CASE Count(c) /\ UNCHANGED <<nodeConnections, socket>>
    <3>1. InUse' = InUse
      BY <2>3 DEF InUse
    <3>2. Registered' /\ UsedNodesAreKnown'
      BY <1>3, <2>3, <3>1 DEF Registered, UsedNodesAreKnown, PoolInv
    <3>3. AtMostTarget'
      BY <1>1, <1>6, PassesEffect
    <3>4. Accounted'
      BY <1>1, <1>4, <2>1, <2>3, <3>1, <3>2, CountInv DEF listenerVars
    <3>5. TypeOK'
      BY <1>1, <1>3, <1>4, <1>6, <2>3, CountEffect, PoolAssumption
         DEF PoolInv, TypeOK, Return, Put, listenerVars, otherVars, Runner
    <3> QED
      BY <1>5, <3>2, <3>3, <3>4, <3>5 DEF PoolInv
  <2> QED
    BY <1>6, <2>2, <2>3 DEF Passes
<1>7. CASE ~ (size >= Target) /\ Count(c) /\ Loop(w, None, nodes')
  <2>1. LoopResult(w, nodes')
    BY <1>3, <1>7, LoopEffect
  <2>2. Registered' /\ UsedNodesAreKnown'
    BY <1>3, <2>1 DEF LoopResult, UsedNodesAreKnown, PoolInv
  <2>3. AtMostTarget'
    <3>1. Connected' = Connected \cup {c[1]}
      BY <1>1, <1>7, CountEffect
    <3>2. size \in Nat
      BY ConnectedIsFinite, FS_AddElement, FS_CardinalityType
    <3> QED
      BY <1>7, <3>1, <3>2, PoolAssumption DEF AtMostTarget
  <2>4. Accounted'
    <3>1. \A v \in Runner : IF holds[v] = c THEN TRUE ELSE pc'[v] = pc[v] /\ holds'[v] = holds[v]
      BY <2>1 DEF LoopResult
    <3>2. \A n \in InUse' :
            \/ n \in InUse /\ nodeConnections'[n] = nodeConnections[n]
            \/ \E v \in Runner : pc'[v] = "testing" /\ holds'[v] = nodeConnections'[n]
      BY <2>1 DEF LoopResult
    <3> QED
      BY <1>1, <1>4, <1>7, <2>2, <3>1, <3>2, CountInv DEF listenerVars
  <2>5. TypeOK'
    BY <1>1, <1>3, <1>4, <1>7, <2>1, CountEffect
       DEF PoolInv, TypeOK, LoopResult, listenerVars, otherVars, Runner
  <2> QED
    BY <1>5, <2>2, <2>3, <2>4, <2>5 DEF PoolInv
<1> QED
  BY <1>2, <1>6, <1>7

(* The actions of a worker *)
LEMMA WorkerStepInv ==
  ASSUME PoolInv, toLaunch = {}, NEW w \in Runner, WorkerStep(w)
  PROVE  PoolInv'
  BY SeedsArriveInv, TestConnectsInv, TestFailsInv, TestDropsInv, TestPassesInv,
     WorkerAbortsInv, TryNextInv, DetectStuckInv DEF WorkerStep

(* SeedReAddEnds *)
LEMMA SeedReAddEndsInv ==
  ASSUME PoolInv, SeedReAddEnds
  PROVE  PoolInv'
<1> USE DEF SeedReAddEnds, connVars, startVars, workerVars
<1>1. TypeOK'
  BY DEF PoolInv, TypeOK, mapVars, listenerVars
<1>2. Registered' /\ UsedNodesAreKnown' /\ AtMostTarget' /\ Accounted'
  BY MapsStay DEF PoolInv, UsedNodesAreKnown
<1>3. Unlaunched'
  BY DEF PoolInv, Unlaunched
<1> QED
  BY <1>1, <1>2, <1>3 DEF PoolInv

(* The steps of _start: workers are idle whenever they are launched.       *)
LEMMA StartInv ==
  ASSUME PoolInv, toLaunch = {}, \A w \in Worker : pc[w] = "idle",
         \/ LaunchWorkers
         \/ EndStart
         \/ /\ startQueue' = "working" /\ toLaunch' = Worker
            /\ UNCHANGED <<startPriority, targetReached, monitoring>>,
         nodes \subseteq nodes', nodes' \subseteq Node,
         UNCHANGED <<mapVars, connVars, listenerVars, workerVars, seedReAdd, stopped, closed,
                     exited>>
  PROVE  PoolInv'
<1> USE DEF connVars, workerVars
<1>1. /\ startQueue' \in {"none", "opening", "priority", "working"}
      /\ startPriority' \in Node \cup {None}
      /\ toLaunch' \subseteq Worker
      /\ {targetReached', monitoring'} \subseteq BOOLEAN
      /\ startQueue' \in {"none", "opening"} => toLaunch' = {}
  BY PoolAssumption DEF LaunchWorkers, EndStart, PoolInv, TypeOK
<1>2. TypeOK'
  BY <1>1 DEF PoolInv, TypeOK, mapVars, listenerVars
<1>3. Registered' /\ UsedNodesAreKnown' /\ AtMostTarget' /\ Accounted'
  BY MapsStay DEF PoolInv, UsedNodesAreKnown
<1>4. Unlaunched'
  BY <1>1 DEF Unlaunched
<1> QED
  BY <1>2, <1>3, <1>4 DEF PoolInv

(* Opened *)
LEMMA OpenedInv ==
  ASSUME PoolInv, toLaunch = {}, Opened
  PROVE  PoolInv'
<1>1. \A w \in Worker : pc[w] = "idle"
  BY DEF PoolInv, TypeOK, Opened
<1>2. nodes \subseteq nodes' /\ nodes' \subseteq Node
  BY DEF PoolInv, TypeOK, Opened
<1> QED
  BY <1>1, <1>2, StartInv DEF Opened

(* PriorityEnds, WorkersEnd *)
LEMMA WorkersReturnedInv ==
  ASSUME PoolInv, toLaunch = {}, PriorityEnds \/ WorkersEnd
  PROVE  PoolInv'
<1>1. \A w \in Worker : pc[w] = "idle"
  BY DEF PriorityEnds, WorkersEnd, WorkersReturned
<1>2. nodes \subseteq nodes' /\ nodes' \subseteq Node
  BY DEF PoolInv, TypeOK, PriorityEnds, WorkersEnd
<1> QED
  BY <1>1, <1>2, StartInv DEF PriorityEnds, WorkersEnd

(* MonitorBegins *)
LEMMA MonitorBeginsInv ==
  ASSUME PoolInv, toLaunch = {}, MonitorBegins
  PROVE  PoolInv'
<1>1. Monitor \in Runner
  BY DEF Runner
<1> QED
  BY <1>1, LoopInv DEF MonitorBegins

(* MonitorClears: the nodes in use are not among those it clears. *)
LEMMA MonitorClearsInv ==
  ASSUME PoolInv, toLaunch = {}, MonitorClears
  PROVE  PoolInv'
<1>1. Monitor \in Runner /\ pc[Monitor] = "clearing" /\ pc' = [pc EXCEPT ![Monitor] = "idle"]
  BY DEF Runner, MonitorClears
<1>2. PICK old \in SUBSET (nodes \ InUse) : nodes' = nodes \ old
  BY DEF MonitorClears
<1>3. UNCHANGED <<mapVars, connVars, listenerVars, holds, priority, startVars, otherVars, exited>>
  BY DEF MonitorClears
<1>4. TypeOK'
  BY <1>1, <1>2, <1>3, PoolAssumption
     DEF PoolInv, TypeOK, mapVars, connVars, listenerVars, startVars, otherVars, Runner
<1>5. InUse' = InUse /\ Connected' = Connected
  BY <1>3 DEF InUse, Connected, mapVars
<1>6. Registered' /\ UsedNodesAreKnown'
  BY <1>2, <1>3, <1>5 DEF Registered, UsedNodesAreKnown, PoolInv, mapVars
<1>7. AtMostTarget'
  BY <1>5, NoneConnects
<1>8. Accounted'
  <2>1. \A d : IsSettled(d) => IsSettled(d)'
    BY <1>3 DEF IsSettled, mapVars, connVars, listenerVars
  <2>2. \A d : IsTested(d) => IsTested(d)'
    BY <1>1, <1>3 DEF IsTested, PoolInv, TypeOK
  <2> QED
    BY <1>3, <1>5, <2>1, <2>2 DEF Accounted, PoolInv, mapVars
<1>9. Unlaunched'
  BY <1>3 DEF Unlaunched, startVars
<1> QED
  BY <1>4, <1>6, <1>7, <1>8, <1>9 DEF PoolInv

(* LoseSocket: a listener is there for the object that is lost, and        *)
(* another one of its address goes astray.                                 *)
LEMMA LoseSocketInv ==
  ASSUME PoolInv, toLaunch = {}, NEW c \in Conn, LoseSocket(c)
  PROVE  PoolInv'
<1>1. CASE c[1] \notin nodes
  BY <1>1, ExitsInv DEF LoseSocket
<1>2. CASE c[1] \in nodes
  <2>1. /\ \/ after' = [after EXCEPT ![c] = "waiting"] /\ UNCHANGED late
           \/ late' = late \cup {c} /\ UNCHANGED after
        /\ nodeConnectionsConnected' = [nodeConnectionsConnected EXCEPT ![c[1]] = None]
        /\ socket' = [socket EXCEPT ![c] = "none"]
        /\ astray' = (astray \cup Other(c)) \ {c}
        /\ pc' = [w \in Runner |-> IF w \in Tester(c) THEN "failed" ELSE pc[w]]
        /\ UNCHANGED <<nodes, nodeConnections, holds, priority, startVars, otherVars, exited>>
    BY <1>2 DEF LoseSocket
  <2>2. TypeOK'
    <3>1. /\ after' \in [Conn -> {"none", "waiting", "reconnecting"}]
          /\ late' \subseteq Conn
          /\ nodeConnectionsConnected' \in [Node -> Conn \cup {None}]
          /\ socket' \in [Conn -> {"none", "connecting", "up"}]
          /\ astray' \subseteq Conn
      BY <2>1, ConnAddress DEF PoolInv, TypeOK, Other
    <3>2. /\ pc' \in [Runner -> {"idle", "seeds", "testing", "dropped", "failed", "clearing"}]
          /\ \A w \in Runner : (holds'[w] # None) = (pc'[w] \in {"testing", "dropped", "failed"})
          /\ \A w \in Runner : pc[w] = "idle" => pc'[w] = "idle"
      BY <2>1 DEF PoolInv, TypeOK, Tester
    <3> QED
      BY <2>1, <3>1, <3>2 DEF PoolInv, TypeOK, startVars, otherVars, Runner
  <2>3. InUse' = InUse /\ Connected' \subseteq Connected
    BY <2>1, ConnAddress DEF InUse, Connected, PoolInv, TypeOK
  <2>4. Registered' /\ UsedNodesAreKnown' /\ AtMostTarget'
    BY <2>1, <2>3, NoneConnects DEF Registered, UsedNodesAreKnown, PoolInv
  <2>5. ASSUME NEW n \in InUse
        PROVE  IsSettled(nodeConnections[n])' \/ IsTested(nodeConnections[n])'
    <3> DEFINE d == nodeConnections[n]
    <3>1. d \in Conn /\ d[1] = n /\ nodeConnections'[n] = d
      BY <2>1, <2>5 DEF PoolInv, TypeOK, Registered, InUse
    <3>2. CASE d = c
      BY <2>1, <3>1, <3>2 DEF IsSettled, PoolInv, TypeOK
    <3>3. CASE d # c /\ IsSettled(d)
      <4>1. CASE nodeConnectionsConnected[n] = d /\ n = c[1]
        BY <2>1, <3>1, <3>3, <4>1, ConnAddress DEF IsSettled, Other
      <4>2. CASE nodeConnectionsConnected[n] = d /\ n # c[1]
        BY <2>1, <3>1, <4>2 DEF IsSettled, PoolInv, TypeOK
      <4>3. CASE d \in late \/ after[d] # "none" \/ d \in astray
        BY <2>1, <3>1, <3>3, <4>3 DEF IsSettled, PoolInv, TypeOK
      <4> QED
        BY <3>1, <3>3, <4>1, <4>2, <4>3 DEF IsSettled
    <3>4. CASE d # c /\ IsTested(d)
      BY <2>1, <3>1, <3>4 DEF IsTested, Tester
    <3> QED
      BY <3>2, <3>3, <3>4, <2>5 DEF PoolInv, Accounted
  <2>6. Accounted'
    BY <2>3, <2>5 DEF Accounted
  <2>7. Unlaunched'
    BY <2>1 DEF Unlaunched, startVars
  <2> QED
    BY <2>2, <2>4, <2>6, <2>7 DEF PoolInv
<1> QED
  BY <1>1, <1>2

(* An object is destroyed outside of a test. *)
LEMMA DestroyedInv ==
  ASSUME PoolInv, toLaunch = {}, NEW c \in Conn, Destroy(c),
         late \ {c} \subseteq late', late' \subseteq Conn,
         after' = after \/ after' = [after EXCEPT ![c] = "none"],
         UNCHANGED startVars \/ \E n \in Node \cup {None} : CallStart(n),
         UNCHANGED <<nodes, workerVars, otherVars, exited>>
  PROVE  PoolInv'
<1>1. /\ \A d \in Conn \ {c} : after'[d] = after[d]
      /\ after' \in [Conn -> {"none", "waiting", "reconnecting"}]
  BY DEF PoolInv, TypeOK
<1>2. Registered' /\ UsedNodesAreKnown' /\ AtMostTarget' /\ Accounted'
  BY <1>1, DestroyInv DEF workerVars
<1>3. /\ startQueue' \in {"none", "opening", "priority", "working"}
      /\ startPriority' \in Node \cup {None}
      /\ UNCHANGED <<targetReached, toLaunch>>
      /\ startQueue' \in {"none", "opening"} => \A w \in Worker : pc[w] = "idle"
  BY CallStartEffect DEF startVars, PoolInv, TypeOK
<1>4. TypeOK'
  BY <1>1, <1>3, DestroyEffect DEF PoolInv, TypeOK, workerVars, otherVars
<1>5. Unlaunched'
  BY <1>3 DEF Unlaunched
<1> QED
  BY <1>2, <1>4, <1>5 DEF PoolInv

(* DropNode *)
LEMMA DropNodeInv ==
  ASSUME PoolInv, toLaunch = {}, NEW c \in Conn, DropNode(c)
  PROVE  PoolInv'
<1>1. CASE Exits
  BY <1>1, ExitsInv
<1>2. CASE Destroy(c) /\ CallStart(None)
           /\ UNCHANGED <<nodes, listenerVars, workerVars, otherVars, exited>>
  BY <1>2, DestroyedInv DEF listenerVars, PoolInv, TypeOK
<1> QED
  BY <1>1, <1>2 DEF DropNode

(* LateDestroys, Replaces, AfterStops *)
LEMMA ListenerDestroysInv ==
  ASSUME PoolInv, toLaunch = {}, NEW c \in Conn,
         LateDestroys(c) \/ Replaces(c) \/ AfterStops(c)
  PROVE  PoolInv'
<1>1. late \subseteq Conn /\ c[1] \in Node
  BY ConnAddress DEF PoolInv, TypeOK
<1>2. CASE LateDestroys(c)
  BY <1>1, <1>2, DestroyedInv DEF LateDestroys
<1>3. CASE Replaces(c)
  BY <1>1, <1>3, DestroyedInv DEF Replaces
<1>4. CASE AfterStops(c)
  BY <1>1, <1>4, DestroyedInv DEF AfterStops
<1> QED
  BY <1>2, <1>3, <1>4

(* Reconnects: the listener still accounts for its object. *)
LEMMA ReconnectsInv ==
  ASSUME PoolInv, toLaunch = {}, NEW c \in Conn, Reconnects(c)
  PROVE  PoolInv'
<1> USE DEF Reconnects, mapVars, workerVars, startVars, otherVars
<1>1. TypeOK'
  BY DEF PoolInv, TypeOK
<1>2. InUse' = InUse /\ Connected' = Connected
  BY DEF InUse, Connected
<1>3. Registered' /\ UsedNodesAreKnown' /\ AtMostTarget'
  BY <1>2, NoneConnects DEF Registered, UsedNodesAreKnown, PoolInv
<1>4. Accounted'
  <2>1. \A d : IsSettled(d) => IsSettled(d)'
    BY DEF IsSettled, PoolInv, TypeOK
  <2>2. \A d : IsTested(d) => IsTested(d)'
    BY DEF IsTested
  <2> QED
    BY <1>2, <2>1, <2>2 DEF Accounted, PoolInv
<1>5. Unlaunched'
  BY DEF Unlaunched
<1> QED
  BY <1>1, <1>3, <1>4, <1>5 DEF PoolInv

(* ReconnectConnects *)
LEMMA ReconnectConnectsInv ==
  ASSUME PoolInv, toLaunch = {}, NEW c \in Conn, ReconnectConnects(c)
  PROVE  PoolInv'
<1> USE DEF ReconnectConnects, workerVars, startVars, otherVars
<1>1. TypeOK'
  BY DEF PoolInv, TypeOK, mapVars, listenerVars
<1>2. Registered' /\ UsedNodesAreKnown' /\ AtMostTarget' /\ Accounted'
  BY MapsStay DEF PoolInv, UsedNodesAreKnown
<1>3. Unlaunched'
  BY DEF Unlaunched
<1> QED
  BY <1>1, <1>2, <1>3 DEF PoolInv

(* ReconnectDrops: no object of the address is in use any more. *)
LEMMA ReconnectDropsInv ==
  ASSUME PoolInv, toLaunch = {}, NEW c \in Conn, ReconnectDrops(c)
  PROVE  PoolInv'
<1> USE ConnAddress DEF ReconnectDrops
<1>1. CASE Cardinality(Connected \cup {c[1]}) > Target
  <2>1. Destroy(c)
    BY <1>1 DEF Destroy
  <2> QED
    BY <2>1, DestroyedInv DEF PoolInv, TypeOK
<1>2. CASE ~ (Cardinality(Connected \cup {c[1]}) > Target)
  <2>1. nodeConnectionsConnected' = [nodeConnectionsConnected EXCEPT ![c[1]] = c]
    BY <1>2 DEF ConnectedWith
  <2>2. InUse' = InUse \ {c[1]} /\ Connected' = Connected \cup {c[1]}
    <3>1. nodeConnections \in [Node -> Conn \cup {None}]
          /\ nodeConnectionsConnected \in [Node -> Conn \cup {None}]
          /\ nodeConnections' = [nodeConnections EXCEPT ![c[1]] = None]
      BY DEF PoolInv, TypeOK
    <3>2. InUse' = InUse \ {c[1]}
      BY <3>1 DEF InUse
    <3>3. Connected' = Connected \cup {c[1]}
      BY <2>1, <3>1 DEF Connected
    <3> QED
      BY <3>2, <3>3
  <2>3. \A n \in InUse' : n \in InUse /\ nodeConnections'[n] = nodeConnections[n]
    BY <2>2 DEF InUse, PoolInv, TypeOK
  <2>4. Registered' /\ UsedNodesAreKnown'
    BY <2>2, <2>3 DEF Registered, UsedNodesAreKnown, PoolInv
  <2>5. AtMostTarget'
    <3>1. Cardinality(Connected \cup {c[1]}) \in Nat
      BY ConnectedIsFinite, FS_AddElement, FS_CardinalityType
    <3> QED
      BY <1>2, <2>2, <3>1, PoolAssumption DEF AtMostTarget
  <2>6. ASSUME NEW n \in InUse'
        PROVE  IsSettled(nodeConnections[n])' \/ IsTested(nodeConnections[n])'
    <3> DEFINE d == nodeConnections[n]
    <3>1. d \in Conn /\ d[1] = n /\ n # c[1] /\ nodeConnections'[n] = d
      BY <2>2, <2>3, <2>6 DEF PoolInv, TypeOK, Registered, InUse
    <3>2. CASE IsSettled(d)
      BY <2>1, <3>1, <3>2 DEF IsSettled, PoolInv, TypeOK
    <3>3. CASE IsTested(d)
      BY <3>1, <3>3 DEF IsTested, workerVars
    <3> QED
      BY <2>3, <2>6, <3>2, <3>3 DEF PoolInv, Accounted
  <2>7. Accounted'
    BY <2>6 DEF Accounted
  <2>8. TypeOK'
    BY <2>1, CallStartEffect DEF PoolInv, TypeOK, workerVars, otherVars
  <2>9. Unlaunched'
    BY CallStartEffect DEF Unlaunched
  <2> QED
    BY <2>4, <2>5, <2>7, <2>8, <2>9 DEF PoolInv
<1> QED
  BY <1>1, <1>2

(* ReconnectPasses *)
LEMMA ReconnectPassesInv ==
  ASSUME PoolInv, toLaunch = {}, NEW c \in Conn, ReconnectPasses(c)
  PROVE  PoolInv'
<1> USE DEF ReconnectPasses
<1>1. CASE Destroy(c)
  BY <1>1, DestroyedInv DEF PoolInv, TypeOK
<1>2. CASE Count(c) /\ UNCHANGED <<nodeConnections, socket>>
  <2>1. InUse' = InUse
    BY <1>2 DEF InUse
  <2>2. Registered' /\ UsedNodesAreKnown'
    BY <1>2, <2>1 DEF Registered, UsedNodesAreKnown, PoolInv
  <2>3. AtMostTarget'
    BY PassesEffect
  <2>4. Accounted'
    BY <1>2, <2>1, <2>2, CountInv DEF workerVars, PoolInv, TypeOK
  <2>5. TypeOK'
    BY <1>2, CountEffect DEF PoolInv, TypeOK, workerVars, startVars, otherVars
  <2>6. Unlaunched'
    BY DEF Unlaunched, startVars
  <2> QED
    BY <2>2, <2>3, <2>4, <2>5, <2>6 DEF PoolInv
<1> QED
  BY <1>1, <1>2 DEF Passes

(* The actions of listeners *)
LEMMA ListenerStepInv ==
  ASSUME PoolInv, toLaunch = {}, NEW c \in Conn, ListenerStep(c)
  PROVE  PoolInv'
<1>1. CASE ListenerAsserts(c)
  BY <1>1, ExitsInv DEF ListenerAsserts
<1> QED
  BY <1>1, ListenerDestroysInv, ReconnectsInv, ReconnectConnectsInv, ReconnectDropsInv,
     ReconnectPassesInv DEF ListenerStep

(* Stop *)
LEMMA StopInv ==
  ASSUME PoolInv, Stop
  PROVE  PoolInv'
<1> USE DEF Stop, connVars, workerVars, startVars
<1>1. TypeOK'
  BY DEF PoolInv, TypeOK, mapVars, listenerVars
<1>2. Registered' /\ UsedNodesAreKnown' /\ AtMostTarget' /\ Accounted'
  BY MapsStay DEF PoolInv, UsedNodesAreKnown
<1>3. Unlaunched'
  BY DEF PoolInv, Unlaunched
<1> QED
  BY <1>1, <1>2, <1>3 DEF PoolInv

(* CloseNodeConnections: no node is in use any more. *)
LEMMA CloseNodeConnectionsInv ==
  ASSUME PoolInv, CloseNodeConnections
  PROVE  PoolInv'
<1> USE DEF CloseNodeConnections, listenerVars, workerVars, startVars
<1>1. TypeOK'
  BY DEF PoolInv, TypeOK
<1>2. InUse' = {} /\ Connected' \subseteq Connected
  BY DEF InUse, Connected
<1>3. Registered' /\ UsedNodesAreKnown' /\ AtMostTarget' /\ Accounted'
  BY <1>2, NoneConnects DEF Registered, UsedNodesAreKnown, Accounted
<1>4. Unlaunched'
  BY DEF PoolInv, Unlaunched
<1> QED
  BY <1>1, <1>3, <1>4 DEF PoolInv

(* Nothing happens. *)
LEMMA StutterInv ==
  ASSUME PoolInv, UNCHANGED vars
  PROVE  PoolInv'
<1> USE DEF vars, connVars, workerVars, startVars, otherVars
<1>1. TypeOK'
  BY DEF PoolInv, TypeOK, mapVars, listenerVars
<1>2. Registered' /\ UsedNodesAreKnown' /\ AtMostTarget' /\ Accounted'
  BY MapsStay DEF PoolInv, UsedNodesAreKnown
<1>3. Unlaunched'
  BY DEF PoolInv, Unlaunched
<1> QED
  BY <1>1, <1>2, <1>3 DEF PoolInv

----------------------------------------------------------------------------
(* The theorems *)

(* Every step preserves the invariant. *)
LEMMA NextInv == PoolInv /\ [Next]_vars => PoolInv'
<1> SUFFICES ASSUME PoolInv, [Next]_vars
             PROVE  PoolInv'
  OBVIOUS
<1>1. CASE \E w \in Worker : Launch(w)
  BY <1>1, LaunchInv
<1>2. CASE Running /\ \E w \in Runner : WorkerStep(w)
  BY <1>2, WorkerStepInv DEF Running
<1>3. CASE Running /\ \E c \in Conn : LoseSocket(c)
  BY <1>3, LoseSocketInv DEF Running
<1>4. CASE Running /\ \E c \in Conn : DropNode(c)
  BY <1>4, DropNodeInv DEF Running
<1>5. CASE Running /\ \E c \in Conn : ListenerStep(c)
  BY <1>5, ListenerStepInv DEF Running
<1>6. CASE Running /\ (SeedReAddEnds \/ Opened \/ PriorityEnds \/ WorkersEnd)
  BY <1>6, SeedReAddEndsInv, OpenedInv, WorkersReturnedInv DEF Running
<1>7. CASE Running /\ (MonitorBegins \/ MonitorClears)
  BY <1>7, MonitorBeginsInv, MonitorClearsInv DEF Running
<1>8. CASE Running /\ (Stop \/ CloseNodeConnections)
  BY <1>8, StopInv, CloseNodeConnectionsInv
<1>9. CASE UNCHANGED vars
  BY <1>9, StutterInv
<1> QED
  BY <1>1, <1>2, <1>3, <1>4, <1>5, <1>6, <1>7, <1>8, <1>9 DEF Next, Done

(* However workers, listeners, stuck detection and the health monitor      *)
(* interleave, the maps, the promises and the tests agree (PoolInv).       *)
THEOREM PoolIsConsistent == Spec => []PoolInv
<1>1. Init => PoolInv
  BY InitInv
<1>2. PoolInv /\ [Next]_vars => PoolInv'
  BY NextInv
<1> QED
  BY <1>1, <1>2, PTL DEF Spec

(* Every variable keeps its type; workers run only while a start does, and *)
(* a worker tests the connection it holds.                                 *)
THEOREM PoolTypes == Spec => []TypeOK
<1>1. PoolInv => TypeOK
  BY DEF PoolInv
<1> QED
  BY <1>1, PoolIsConsistent, PTL

(* Neither stuck detection nor the health monitor ever deletes a node that *)
(* has a connection (deleteNodes and clearOld with _nodeConnections), so   *)
(* that its listeners find its record.                                     *)
THEOREM UsedNodesStayKnown == Spec => []UsedNodesAreKnown
<1>1. PoolInv => UsedNodesAreKnown
  BY DEF PoolInv
<1> QED
  BY <1>1, PoolIsConsistent, PTL

(* However many tests are passed at a time, by workers, the monitor and    *)
(* reconnecting listeners, no more nodes count as connected than           *)
(* TARGET_NUM_CONNECTIONS: the test before the awaits is repeated after.   *)
THEOREM TargetIsNeverExceeded == Spec => []AtMostTarget
<1>1. PoolInv => AtMostTarget
  BY DEF PoolInv
<1> QED
  BY <1>1, PoolIsConsistent, PTL

(* A registered connection counts as connected, is being tested, or will   *)
(* be dealt with by a listener, but for the two defects that astray        *)
(* records: no failure, abort or stop leaves an entry behind that would    *)
(* keep its node from being chosen again.                                  *)
THEOREM NoConnectionIsForgotten == Spec => []NoneIsForgotten
<1>1. PoolInv => NoneIsForgotten
  BY DEF PoolInv, Registered, Accounted, IsSettled, IsTested, NoneIsForgotten
<1> QED
  BY <1>1, PoolIsConsistent, PTL

=============================================================================

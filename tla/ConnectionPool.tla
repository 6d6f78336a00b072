-------------------------- MODULE ConnectionPool ---------------------------
(***************************************************************************)
(* The connections of a BlockHeadersClient: the workers that look for      *)
(* nodes to connect to, the listeners that deal with the nodes they lose,  *)
(* the health monitor, and the maps and promises they share, in one        *)
(* session of the client.                                                  *)
(*                                                                         *)
(* All run in one thread, and one step is the code between two awaits.     *)
(* The test of a connection is its connect(), and then whatever else it is *)
(* asked for; a node may fail it in each of the ways it can.  Ratings and  *)
(* the clock are left out: a node may be blacklisted, and a deadline have  *)
(* passed, whenever the code looks.                                        *)
(***************************************************************************)
EXTENDS FiniteSets, Integers

CONSTANTS
    Node,            \* the addresses of nodes
    Slot,            \* tells apart the objects that exist for a node at a time (bound)
    None,            \* no node, and no connection
    Worker,          \* the workers of _connectToNodes
    First,           \* the one that tries a priority node by itself
    Monitor,         \* the worker of the health monitor
    Target,          \* TARGET_NUM_CONNECTIONS
    MaxSavedNodes,   \* MAX_SAVED_NODES
    MaxConns         \* connection objects that exist at a time (bound)

ASSUME PoolAssumption ==
    /\ None \notin Node \cup (Node \X Slot)
    /\ IsFiniteSet(Worker) /\ IsFiniteSet(Node)
    /\ First \in Worker
    /\ Monitor \notin Worker
    /\ Target \in Nat \ {0}
    /\ {MaxSavedNodes, MaxConns} \subseteq Nat

VARIABLES
    nodes,           \* the nodes in the nodes database
    nodeConnections, \* _nodeConnections
    nodeConnectionsConnected, \* _nodeConnectionsConnected
    socket,          \* of a connection object: "none", "connecting" or "up"
    astray,          \* those whose test failed without an event, or that lost
                     \* an entry to another object of their address
    late,            \* those with a listener that will destroy them: of
                     \* disconnect_unintentional_before_connect, or of _after_connect
                     \* for one that had not passed its test
    after,           \* the listener of disconnect_unintentional_after_connect for
                     \* one that had: "none", "waiting", or "reconnecting"
    pc,              \* a worker: "idle", waiting for "seeds", "testing" ("dropped"
                     \* once a pass of the test has destroyed the connection), or
                     \* asking for the internet after a test has "failed"; the
                     \* health monitor is "clearing" when its worker has returned
    holds,           \* the connection a worker tests
    priority,        \* its priorityIpPort
    toLaunch,        \* the workers _connectToNodes is about to launch
    startQueue,      \* _startQueue: "none", "opening" until workers are launched,
                     \* "priority" for the first one, "working" for all
    startPriority,   \* its priorityIpPort
    targetReached,   \* its localAbortController is aborted
    seedReAdd,       \* _seedReAddPromise is set
    monitoring,      \* the health monitor has been launched
    stopped,         \* the signal of the session is aborted
    closed,          \* and stop() has closed the connections
    exited           \* an assertion has failed: process.exit

mapVars == <<nodeConnections, nodeConnectionsConnected>>
connVars == <<socket, astray>>
listenerVars == <<late, after>>
workerVars == <<pc, holds, priority>>
startVars == <<startQueue, startPriority, targetReached, toLaunch>>
otherVars == <<seedReAdd, monitoring, stopped, closed>>
vars == <<nodes, mapVars, connVars, listenerVars, workerVars, startVars, otherVars, exited>>

Runner == Worker \cup {Monitor}

(* NodeConnection objects; the first component is the address of its node. *)
Conn == Node \X Slot

(* Nodes with a connection object, and those that count as connected. *)
InUse == {n \in Node : nodeConnections[n] # None}
Connected == {n \in Node : nodeConnectionsConnected[n] # None}

Init ==
    /\ nodes = Node
    /\ nodeConnections = [n \in Node |-> None]
    /\ nodeConnectionsConnected = [n \in Node |-> None]
    /\ socket = [c \in Conn |-> "none"]
    /\ astray = {}
    /\ late = {}
    /\ after = [c \in Conn |-> "none"]
    /\ pc = [w \in Runner |-> "idle"]
    /\ holds = [w \in Runner |-> None]
    /\ priority = [w \in Runner |-> None]
    /\ toLaunch = {}
    /\ startQueue = "opening"
    /\ startPriority = None
    /\ targetReached = FALSE
    /\ seedReAdd = FALSE
    /\ monitoring = FALSE
    /\ stopped = FALSE
    /\ closed = FALSE
    /\ exited = FALSE

----------------------------------------------------------------------------
(* Connection objects *)

(* Nothing refers to the object any more. *)
IsFree(c) ==
    /\ socket[c] = "none"
    /\ c \notin late
    /\ after[c] = "none"
    /\ c \notin {nodeConnections[c[1]], nodeConnectionsConnected[c[1]]}
    /\ \A w \in Runner : holds[w] # c

(* _destroyNodeConnection: the entries of its address go, whichever object *)
(* they are for.                                                           *)
Destroy(c) ==
    /\ nodeConnections' = [nodeConnections EXCEPT ![c[1]] = None]
    /\ nodeConnectionsConnected' = [nodeConnectionsConnected EXCEPT ![c[1]] = None]
    /\ socket' = [socket EXCEPT ![c] = "none"]
    /\ astray' = {d \in astray : d[1] # c[1]}

(* Another object of its address that is registered as connected. *)
Other(c) ==
    ({nodeConnections[c[1]]} \cap {nodeConnectionsConnected[c[1]]}) \ {c, None}

(* Its node counts as connected, with this object and no other. *)
ConnectedWith(c) == [nodeConnectionsConnected EXCEPT ![c[1]] = c]

Count(c) ==
    /\ nodeConnectionsConnected' = ConnectedWith(c)
    /\ astray' = astray \cup Other(c)

(* A listener asserts that the database has its node. *)
Exits ==
    /\ exited' = TRUE
    /\ UNCHANGED <<nodes, mapVars, connVars, listenerVars, workerVars, startVars, otherVars>>

(* _start: a call while a start runs is lost. *)
CallStart(n) ==
    /\ IF startQueue = "none"
       THEN startQueue' = "opening" /\ startPriority' = n
       ELSE UNCHANGED <<startQueue, startPriority>>
    /\ UNCHANGED <<targetReached, toLaunch>>

----------------------------------------------------------------------------
(* A worker, _createConnectedNodeConnection *)

(* Its signal: the client stops, or _connectToNodes has reached its target. *)
Aborted(w) == stopped \/ (w # Monitor /\ targetReached)

Put(w, state, c, n) ==
    /\ pc' = [pc EXCEPT ![w] = state]
    /\ holds' = [holds EXCEPT ![w] = c]
    /\ priority' = [priority EXCEPT ![w] = n]

Return(w) == Put(w, IF w = Monitor THEN "clearing" ELSE "idle", None, None)

(* The nodes it may choose next, of those known: the priority node if it   *)
(* has one, which it does not look up.                                     *)
Candidates(n, known) == IF n # None THEN {n} ELSE known \ InUse

(* It creates a connection to one of them and connects.  The node has to   *)
(* be in the database, and to have no connection.                          *)
Create(w, n, known) ==
    IF n \notin known \/ n \in InUse
    THEN /\ exited' = TRUE
         /\ UNCHANGED <<nodeConnections, socket, workerVars>>
    ELSE \E c \in {d \in Conn : d[1] = n /\ IsFree(d)} :
            /\ Cardinality({d \in Conn : ~ IsFree(d)}) < MaxConns
            /\ nodeConnections' = [nodeConnections EXCEPT ![n] = c]
            /\ socket' = [socket EXCEPT ![c] = "connecting"]
            /\ Put(w, "testing", c, None)
            /\ UNCHANGED exited

(* It chooses a node, of those that are not blacklisted, or returns. *)
Select(w, n, known) ==
    \/ \E m \in Candidates(n, known) \cup Candidates(None, known) : Create(w, m, known)
    \/ Return(w) /\ UNCHANGED <<nodeConnections, socket, exited>>

(* The head of its loop. *)
Loop(w, n, known) ==
    IF Aborted(w)
    THEN Return(w) /\ UNCHANGED <<nodeConnections, socket, exited>>
    ELSE IF seedReAdd
    THEN Put(w, "seeds", None, n) /\ UNCHANGED <<nodeConnections, socket, exited>>
    ELSE Select(w, n, known)

(* Workers are launched one after the other; one that finds the priority   *)
(* node in use forgets of it.                                              *)
Launch(w) ==
    /\ ~ exited
    /\ w \in toLaunch
    /\ toLaunch' = toLaunch \ {w}
    /\ Loop(w, IF startPriority \in InUse THEN None ELSE startPriority, nodes)
    /\ UNCHANGED <<nodes, nodeConnectionsConnected, astray, listenerVars, startQueue,
                   startPriority, targetReached, otherVars>>

(* The seeds are there. *)
SeedsArrive(w) ==
    /\ pc[w] = "seeds"
    /\ ~ seedReAdd
    /\ Loop(w, priority[w], nodes)
    /\ UNCHANGED <<nodes, nodeConnectionsConnected, astray, listenerVars, startVars, otherVars>>

(* connect() resolves; its time is saved, in a new record if its node has   *)
(* none.                                                                   *)
TestConnects(w) ==
    /\ pc[w] = "testing"
    /\ ~ Aborted(w)
    /\ socket[holds[w]] = "connecting"
    /\ socket' = [socket EXCEPT ![holds[w]] = "up"]
    /\ nodes' = nodes \cup {holds[w][1]}
    /\ UNCHANGED <<mapVars, astray, listenerVars, workerVars, startVars,
                   otherVars, exited>>

(* A request is answered badly, or there is one of its kind already, and   *)
(* no event tells of it: the connection is left as it is.                  *)
TestFails(w) ==
    /\ pc[w] = "testing"
    /\ ~ Aborted(w)
    /\ socket[holds[w]] = "up"
    /\ pc' = [pc EXCEPT ![w] = "failed"]
    /\ astray' = astray \cup ({holds[w]} \cap {nodeConnections[holds[w][1]]})
    /\ UNCHANGED <<nodes, mapVars, socket, listenerVars, holds, priority, startVars,
                   otherVars, exited>>

(* invalid_blocks is emitted, or out_of_sync, and the listener destroys    *)
(* the connection.  The test fails; or it goes on, since the pass it was   *)
(* in returns as if all were well.                                         *)
TestDrops(w) ==
    LET c == holds[w]
    IN  /\ pc[w] = "testing"
        /\ ~ Aborted(w)
        /\ socket[c] = "up"
        /\ IF c[1] \notin nodes THEN Exits
           ELSE /\ Destroy(c)
                /\ CallStart(None)
                /\ \E state \in {"failed", "dropped"} : Put(w, state, c, None)
                /\ UNCHANGED <<nodes, listenerVars, otherVars, exited>>

(* Fault: a worker does not check what it has added. *)
Passes_NoCheck(c) == Count(c) /\ UNCHANGED <<nodeConnections, socket>>

(* The node counts as connected, unless that is one too many. *)
Passes(c) ==
    IF Cardinality(Connected \cup {c[1]}) > Target
    THEN Destroy(c)
    ELSE Count(c) /\ UNCHANGED <<nodeConnections, socket>>

(* The test is passed, and its node may have told of others.  The target   *)
(* may be reached: then other workers are aborted, and this one returns,   *)
(* as it does if one connection is all it was to make.  From the counting  *)
(* (442) to the look at the number (652) only microtasks pass, no timer    *)
(* and no socket: they are one step, within which one too many may count.  *)
TestPasses(w) ==
    LET c == holds[w]
        size == Cardinality(Connected \cup {c[1]})
        alone == w = Monitor \/ startQueue = "priority"
    IN  /\ pc[w] = "dropped" \/ (pc[w] = "testing" /\ socket[c] = "up")
        /\ ~ Aborted(w)
        /\ targetReached' = (targetReached \/ (w # Monitor /\ size >= Target))
        /\ \E seen \in SUBSET Node :
              /\ nodes' = nodes \cup {c[1]} \cup seen
              /\ IF size >= Target \/ alone
                 THEN Passes(c) /\ Return(w) /\ UNCHANGED exited
                 ELSE Count(c) /\ Loop(w, None, nodes \cup {c[1]} \cup seen)
        /\ UNCHANGED <<listenerVars, startQueue, startPriority, toLaunch, otherVars>>

(* Fault: an aborted worker leaves its connection to the listeners. *)
WorkerAborts_Leaves(w) ==
    /\ pc[w] \in {"testing", "dropped", "failed"}
    /\ Aborted(w)
    /\ Return(w)
    /\ UNCHANGED <<nodes, mapVars, connVars, listenerVars, startVars, otherVars, exited>>

(* Aborted in the middle of a test, or while it asks for the internet, the *)
(* worker destroys the connection and returns.                             *)
WorkerAborts(w) ==
    /\ pc[w] \in {"testing", "dropped", "failed"}
    /\ Aborted(w)
    /\ Destroy(holds[w])
    /\ Return(w)
    /\ UNCHANGED <<nodes, listenerVars, startVars, otherVars, exited>>

(* The only attempt of the worker of a priority node. *)
WasOnly(w) == w # Monitor /\ startQueue = "priority"

(* The worker goes on to another node. *)
TryNext(w) ==
    /\ pc[w] = "failed"
    /\ ~ Aborted(w)
    /\ IF WasOnly(w)
       THEN Return(w) /\ UNCHANGED <<nodeConnections, socket, exited>>
       ELSE Loop(w, None, nodes)
    /\ UNCHANGED <<nodes, nodeConnectionsConnected, astray, listenerVars, startVars, otherVars>>

(* Fault: the nodes that count as connected are kept, and no others. *)
Kept_Connected == nodes \cap Connected

(* The nodes that stuck detection does not delete. *)
Kept == nodes \cap InUse

(* No node has connected for long, though there is internet: all nodes are *)
(* deleted that have no connection, and seeds are re-added.  The call that *)
(* triggers it goes on, and awaits the seeds like the others.              *)
DetectStuck(w) ==
    /\ pc[w] = "failed"
    /\ w # Monitor
    /\ ~ Aborted(w)
    /\ Cardinality(Connected) < Target
    /\ ~ seedReAdd
    /\ seedReAdd' = TRUE
    /\ \E seeds \in SUBSET Node : nodes' = Kept \cup seeds
    /\ IF WasOnly(w) THEN Return(w) ELSE Put(w, "seeds", None, None)
    /\ UNCHANGED <<mapVars, connVars, listenerVars, startVars, monitoring, stopped,
                   closed, exited>>

(* Nodes of the external API, and of getAddr, have been added. *)
SeedReAddEnds ==
    /\ seedReAdd
    /\ seedReAdd' = FALSE
    /\ \E seen \in SUBSET Node : nodes' = nodes \cup seen
    /\ UNCHANGED <<mapVars, connVars, listenerVars, workerVars, startVars, monitoring, stopped,
                   closed, exited>>

WorkerStep(w) ==
    \/ SeedsArrive(w)
    \/ TestConnects(w)
    \/ TestFails(w)
    \/ TestDrops(w)
    \/ TestPasses(w)
    \/ WorkerAborts(w)
    \/ TryNext(w)
    \/ DetectStuck(w)

----------------------------------------------------------------------------
(* _start and _connectToNodes *)

IsMissing(n) == n # None /\ n \notin Connected

(* _connectToNodes begins: with the worker of a priority node if that one  *)
(* is all that is missing, and otherwise with all workers.                 *)
LaunchWorkers ==
    /\ targetReached' = FALSE
    /\ IF IsMissing(startPriority) /\ Cardinality(Connected) + 1 = Target
       THEN startQueue' = "priority" /\ toLaunch' = {First}
       ELSE startQueue' = "working" /\ toLaunch' = Worker
    /\ UNCHANGED <<startPriority, monitoring>>

(* The start is over.  The health monitor is launched if it does not run.  *)
EndStart ==
    /\ startQueue' = "none"
    /\ startPriority' = None
    /\ targetReached' = FALSE
    /\ monitoring' = (monitoring \/ ~ stopped)
    /\ UNCHANGED toLaunch

(* All is open.  Seeds may be added: if there are few nodes that are not   *)
(* blacklisted, and they have not been added before.                       *)
Opened ==
    /\ startQueue = "opening"
    /\ \E seeds \in SUBSET Node : (seeds = {} \/ ~ stopped) /\ nodes' = nodes \cup seeds
    /\ IF stopped \/ Cardinality(Connected) >= Target THEN EndStart ELSE LaunchWorkers
    /\ UNCHANGED <<mapVars, connVars, listenerVars, workerVars, seedReAdd, stopped, closed, exited>>

(* Fault: _connectToNodes goes on when one worker has returned. *)
WorkersReturned_One == toLaunch = {} /\ \E w \in Worker : pc[w] = "idle"

WorkersReturned == toLaunch = {} /\ \A w \in Worker : pc[w] = "idle"

(* The priority node was not connected to: all workers are launched. *)
PriorityEnds ==
    /\ startQueue = "priority"
    /\ WorkersReturned
    /\ IF Cardinality(Connected) < Target /\ ~ stopped /\ ~ targetReached
       THEN /\ startQueue' = "working"
            /\ toLaunch' = Worker
            /\ UNCHANGED <<startPriority, targetReached, monitoring>>
       ELSE EndStart
    /\ UNCHANGED <<nodes, mapVars, connVars, listenerVars, workerVars, seedReAdd,
                   stopped, closed, exited>>

WorkersEnd ==
    /\ startQueue = "working"
    /\ WorkersReturned
    /\ EndStart
    /\ UNCHANGED <<nodes, mapVars, connVars, listenerVars, workerVars, seedReAdd,
                   stopped, closed, exited>>

----------------------------------------------------------------------------
(* The health monitor *)

(* An iteration looks for a node to connect to and ask for addresses. *)
MonitorBegins ==
    /\ monitoring
    /\ ~ stopped
    /\ pc[Monitor] = "idle"
    /\ Loop(Monitor, None, nodes)
    /\ UNCHANGED <<nodes, nodeConnectionsConnected, astray, listenerVars, startVars, otherVars>>

(* Then the nodes last seen the longest ago are cleared, if they are too   *)
(* many; nodes with a connection are not.                                  *)
MonitorClears ==
    LET idle == nodes \ InUse
        most == Cardinality(nodes) - MaxSavedNodes
        many == CASE most < 0 -> 0
                  [] most > Cardinality(idle) -> Cardinality(idle)
                  [] OTHER -> most
    IN  /\ pc[Monitor] = "clearing"
        /\ pc' = [pc EXCEPT ![Monitor] = "idle"]
        /\ \E old \in SUBSET idle : Cardinality(old) = many /\ nodes' = nodes \ old
        /\ UNCHANGED <<mapVars, connVars, listenerVars, holds, priority, startVars, otherVars,
                       exited>>

----------------------------------------------------------------------------
(* Events of a connection *)

Tester(c) == {w \in Runner : pc[w] = "testing" /\ holds[w] = c}

(* A connection is lost, before or after it was made; if it was connected  *)
(* and tested, it will be taken up again (by one listener at a time).  The *)
(* test of it fails.                                                       *)
LoseSocket(c) ==
    /\ socket[c] # "none"
    /\ \A w \in Tester(c) : ~ Aborted(w)
    /\ ~ stopped
    /\ IF c[1] \notin nodes THEN Exits
       ELSE /\ IF socket[c] = "up" /\ c[1] \in Connected /\ after[c] = "none"
               THEN after' = [after EXCEPT ![c] = "waiting"] /\ UNCHANGED late
               ELSE late' = late \cup {c} /\ UNCHANGED after
            /\ nodeConnectionsConnected' = [nodeConnectionsConnected EXCEPT ![c[1]] = None]
            /\ socket' = [socket EXCEPT ![c] = "none"]
            /\ astray' = (astray \cup Other(c)) \ {c}
            /\ pc' = [w \in Runner |-> IF w \in Tester(c) THEN "failed" ELSE pc[w]]
            /\ UNCHANGED <<nodes, nodeConnections, holds, priority, startVars, otherVars, exited>>

(* A pass over a connection finds its node out of sync, or on an invalid   *)
(* chain.                                                                  *)
DropNode(c) ==
    /\ socket[c] = "up"
    /\ Tester(c) = {}
    /\ after[c] # "reconnecting"
    /\ ~ stopped
    /\ IF c[1] \notin nodes THEN Exits
       ELSE /\ Destroy(c)
            /\ CallStart(None)
            /\ UNCHANGED <<nodes, listenerVars, workerVars, otherVars, exited>>

(* A listener has its answer, and destroys what it waited for. *)
LateDestroys(c) ==
    /\ c \in late
    /\ late' = late \ {c}
    /\ Destroy(c)
    /\ UNCHANGED <<nodes, after, workerVars, startVars, otherVars, exited>>

(* A listener that has to record a disconnect asserts, too. *)
ListenerAsserts(c) ==
    /\ c \in late \/ after[c] = "waiting"
    /\ ~ stopped
    /\ c[1] \notin nodes
    /\ Exits

(* A lost connection is to be taken up again, unless its node is           *)
(* blacklisted or there are enough.                                        *)
Reconnects(c) ==
    /\ after[c] = "waiting"
    /\ ~ stopped
    /\ Cardinality(Connected) < Target
    /\ after' = [after EXCEPT ![c] = "reconnecting"]
    /\ socket' = [socket EXCEPT ![c] = "connecting"]
    /\ UNCHANGED <<nodes, mapVars, astray, late, workerVars, startVars, otherVars, exited>>

(* Another connection is to be found instead, to the same node at first if *)
(* that is not blacklisted.                                                *)
Replaces(c) ==
    /\ \/ after[c] = "waiting"
       \/ after[c] = "reconnecting" /\ socket[c] # "connecting"
    /\ ~ stopped
    /\ after' = [after EXCEPT ![c] = "none"]
    /\ Destroy(c)
    /\ \E n \in {None, c[1]} : CallStart(n)
    /\ UNCHANGED <<nodes, late, workerVars, otherVars, exited>>

AfterStops(c) ==
    /\ after[c] # "none"
    /\ stopped
    /\ after' = [after EXCEPT ![c] = "none"]
    /\ Destroy(c)
    /\ UNCHANGED <<nodes, late, workerVars, startVars, otherVars, exited>>

ReconnectConnects(c) ==
    /\ after[c] = "reconnecting"
    /\ ~ stopped
    /\ socket[c] = "connecting"
    /\ socket' = [socket EXCEPT ![c] = "up"]
    /\ UNCHANGED <<nodes, mapVars, astray, listenerVars, workerVars, startVars,
                   otherVars, exited>>

(* Its pass drops it, and returns as if all were well. *)
ReconnectDrops(c) ==
    /\ after[c] = "reconnecting"
    /\ ~ stopped
    /\ socket[c] = "up"
    /\ c[1] \in nodes
    /\ after' = [after EXCEPT ![c] = "none"]
    /\ nodeConnections' = [nodeConnections EXCEPT ![c[1]] = None]
    /\ nodeConnectionsConnected' =
          IF Cardinality(Connected \cup {c[1]}) > Target
          THEN [nodeConnectionsConnected EXCEPT ![c[1]] = None]
          ELSE ConnectedWith(c)
    /\ socket' = [socket EXCEPT ![c] = "none"]
    /\ astray' = {d \in astray : d[1] # c[1]}
    /\ CallStart(None)
    /\ UNCHANGED <<nodes, late, workerVars, otherVars, exited>>

(* It has synced: the node counts as connected again. *)
ReconnectPasses(c) ==
    /\ after[c] = "reconnecting"
    /\ ~ stopped
    /\ socket[c] = "up"
    /\ after' = [after EXCEPT ![c] = "none"]
    /\ Passes(c)
    /\ UNCHANGED <<nodes, late, workerVars, startVars, otherVars, exited>>

ListenerStep(c) ==
    \/ LateDestroys(c)
    \/ Reconnects(c)
    \/ Replaces(c)
    \/ AfterStops(c)
    \/ ReconnectConnects(c)
    \/ ReconnectDrops(c)
    \/ ReconnectPasses(c)
    \/ ListenerAsserts(c)

----------------------------------------------------------------------------
(* stop *)

Stop ==
    /\ ~ stopped
    /\ stopped' = TRUE
    /\ UNCHANGED <<nodes, mapVars, connVars, listenerVars, workerVars, startVars, seedReAdd,
                   monitoring, closed, exited>>

(* The start, the re-adding of seeds and the monitor have ended: all       *)
(* connections are closed.                                                 *)
CloseNodeConnections ==
    LET open == {nodeConnections[n] : n \in InUse}
    IN  /\ stopped
        /\ ~ closed
        /\ startQueue = "none"
        /\ ~ seedReAdd
        /\ pc[Monitor] = "idle"
        /\ closed' = TRUE
        /\ socket' = [c \in Conn |-> IF c \in open THEN "none" ELSE socket[c]]
        /\ astray' = {}
        /\ nodeConnections' = [n \in Node |-> None]
        /\ nodeConnectionsConnected' = [n \in Node |-> None]
        /\ UNCHANGED <<nodes, listenerVars, workerVars, startVars, seedReAdd,
                       monitoring, stopped, exited>>

----------------------------------------------------------------------------

(* The program has exited, or the client has stopped and nothing of it is  *)
(* left to do: the only states in which it may stop.                       *)
Done ==
    /\ exited \/ (closed /\ late = {} /\ \A c \in Conn : after[c] = "none")
    /\ UNCHANGED vars

(* While workers are launched nothing else runs. *)
Running == ~ exited /\ toLaunch = {}

Next ==
    \/ \E w \in Worker : Launch(w)
    \/ Running /\ \E w \in Runner : WorkerStep(w)
    \/ Running /\ \E c \in Conn : LoseSocket(c)
    \/ Running /\ \E c \in Conn : DropNode(c)
    \/ Running /\ \E c \in Conn : ListenerStep(c)
    \/ Running /\ SeedReAddEnds
    \/ Running /\ Opened
    \/ Running /\ (PriorityEnds \/ WorkersEnd)
    \/ Running /\ (MonitorBegins \/ MonitorClears)
    \/ Running /\ (Stop \/ CloseNodeConnections)
    \/ Done

Spec == Init /\ [][Next]_vars

----------------------------------------------------------------------------
(* Properties *)

(* Every variable has its type; workers run while a start does, and a      *)
(* worker tests the connection it holds.                                   *)
TypeOK ==
    /\ nodes \subseteq Node
    /\ nodeConnections \in [Node -> Conn \cup {None}]
    /\ nodeConnectionsConnected \in [Node -> Conn \cup {None}]
    /\ socket \in [Conn -> {"none", "connecting", "up"}]
    /\ astray \subseteq Conn
    /\ late \subseteq Conn
    /\ after \in [Conn -> {"none", "waiting", "reconnecting"}]
    /\ pc \in [Runner -> {"idle", "seeds", "testing", "dropped", "failed", "clearing"}]
    /\ holds \in [Runner -> Conn \cup {None}]
    /\ priority \in [Runner -> Node \cup {None}]
    /\ toLaunch \subseteq Worker
    /\ startQueue \in {"none", "opening", "priority", "working"}
    /\ startPriority \in Node \cup {None}
    /\ {targetReached, seedReAdd, monitoring, stopped, closed, exited} \subseteq BOOLEAN
    /\ startQueue \in {"none", "opening"} =>
          toLaunch = {} /\ \A w \in Worker : pc[w] = "idle"
    /\ \A w \in Runner : (holds[w] # None) = (pc[w] \in {"testing", "dropped", "failed"})

(* A node with a connection stays in the nodes database, whatever stuck    *)
(* detection, the health monitor, workers and listeners do meanwhile: the  *)
(* events of the connection look it up (deleteNodes and clearOld exclude   *)
(* _nodeConnections).                                                      *)
UsedNodesAreKnown == InUse \subseteq nodes

(* However many workers and listeners pass their tests at a time, no more  *)
(* nodes count as connected than are wanted (TARGET_NUM_CONNECTIONS), once *)
(* the microtasks after a test have run.                                   *)
AtMostTarget == Cardinality(Connected) <= Target

(* A connection object that is registered counts as connected, is being    *)
(* tested, or has a listener that will deal with it: otherwise its node    *)
(* could never be chosen again.  Two defects aside (astray), abort, stop   *)
(* and failure leave none behind.                                          *)
NoneIsForgotten ==
    \A n \in InUse :
        LET c == nodeConnections[n]
        IN  \/ nodeConnectionsConnected[n] = c
            \/ \E w \in Runner : holds[w] = c
            \/ c \in late \/ after[c] # "none"
            \/ c \in astray

----------------------------------------------------------------------------
(* What the repository says of the program, and its code does not do *)

(* BlockHeadersClient.ts says that _nodeConnections tracks all nodes that  *)
(* have a live NodeConnection object.                                      *)
LiveConnectionsAreTracked ==
    \A c \in Conn : socket[c] # "none" => nodeConnections[c[1]] = c

=============================================================================

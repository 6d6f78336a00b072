-------------------------- MODULE ClientLifecycle --------------------------
(***************************************************************************)
(* The life of a BlockHeadersClient: start(), stop(), and all that they    *)
(* start and stop, which is the connection monitor, the two databases, the *)
(* connections to nodes, the re-adding of seeds and the health monitor.    *)
(*                                                                         *)
(* stop() aborts the signal of the session and waits for each part in      *)
(* turn; start() makes a new signal, and a new session, after that.  The   *)
(* user calls both at any time, and so do the listeners of connections     *)
(* call _start() when they lose a node.                                    *)
(*                                                                         *)
(* One step is the code between two awaits.  Promises that are settled     *)
(* resume their listeners (microtasks) before anything else happens.       *)
(***************************************************************************)
EXTENDS ConnectionMonitor

VARIABLES
    session,         \* _abortController, numbered; it is a signal
    startQueue,      \* what _startQueue waits for, "none" if there is none:
                     \* the "monitor", the databases "nodes" and "headers" to
                     \* open, _connectToNodes ("connect")
    stopQueue,       \* what _stopQueue waits for, "none" if there is none:
                     \* to be "called", then "start", "seeds", "health" and the
                     \* "monitor" to end, "nodes" and "headers" to close
    waiting,         \* a _start awaits the _stopQueue
    nodesOpen,       \* the nodes database is open
    headersOpen,     \* the headers database is open
    seedReAdd,       \* _seedReAddPromise is set
    health,          \* _nodeConnectionsHealthMonitorQueue: the signal of it
    conn,            \* a NodeConnection: "none", "open", "listening" while its
                     \* listener checks the connection, or "dropped" by a pass
    connSignal       \* the clientStopSignal of its listeners

lifeVars ==
    <<session, startQueue, stopQueue, waiting, nodesOpen, headersOpen, seedReAdd, health,
      conn, connSignal>>
vars == <<abortedSignals, monitorVars, lifeVars>>

Stopped == session \in abortedSignals

(* The databases are open from BlockHeadersClient.create on. *)
Init ==
    /\ MonitorInit
    /\ session = 1
    /\ startQueue = "none"
    /\ stopQueue = "none"
    /\ waiting = FALSE
    /\ nodesOpen = TRUE
    /\ headersOpen = TRUE
    /\ seedReAdd = FALSE
    /\ health = NoSignal
    /\ conn = [c \in Conn |-> "none"]
    /\ connSignal = [c \in Conn |-> NoSignal]

(* A listener is about to go on, or a stop to abort the session. *)
IsReady(c) == conn[c] = "dropped" \/ (conn[c] = "listening" /\ checks[c] \in Answer)

MicrotasksPending ==
    \/ stopQueue = "called"
    \/ \E c \in Conn : IsReady(c) \/ IsAborted(c)

----------------------------------------------------------------------------
(* _start *)

(* Fault: every start makes a session. *)
NextSession_Always == session + 1

(* The abort controller of the session that a start is for. *)
NextSession == IF Stopped THEN session + 1 ELSE session

(* The start queue is made.  It runs until the connection monitor waits    *)
(* for a probe, or the nodes database opens.                               *)
BeginStart ==
    /\ session' = NextSession
    /\ StartMonitor(NextSession)
    /\ startQueue' = IF probe' = NoSignal THEN "nodes" ELSE "monitor"

(* Fault: the stop queue is awaited inside the start queue. *)
CallStart_Inside ==
    IF startQueue # "none"
    THEN UNCHANGED <<session, startQueue, waiting, interval, abortSignal, probe>>
    ELSE IF stopQueue # "none"
    THEN /\ startQueue' = "stop"
         /\ UNCHANGED <<session, waiting, interval, abortSignal, probe>>
    ELSE BeginStart /\ UNCHANGED waiting

(* _start waits for a running stop, and then joins a running start. *)
CallStart ==
    IF stopQueue # "none"
    THEN /\ waiting' = TRUE
         /\ UNCHANGED <<session, startQueue, interval, abortSignal, probe>>
    ELSE IF startQueue # "none"
    THEN UNCHANGED <<session, startQueue, waiting, interval, abortSignal, probe>>
    ELSE BeginStart /\ UNCHANGED waiting

(* The user calls start. *)
Start ==
    /\ CallStart
    /\ UNCHANGED <<abortedSignals, checks, checkSignals, stopQueue, nodesOpen, headersOpen,
                   seedReAdd, health, conn, connSignal>>

(* A probe settles, and whoever waits for the monitor goes on. *)
ProbeSettles ==
    /\ ~ MicrotasksPending
    /\ ProbeEnds
    /\ startQueue' = IF startQueue = "monitor" THEN "nodes" ELSE startQueue
    /\ stopQueue' = IF stopQueue = "monitor" THEN "nodes" ELSE stopQueue
    /\ UNCHANGED <<abortedSignals, session, waiting, nodesOpen, headersOpen, seedReAdd, health,
                   conn, connSignal>>

(* Opening a database may fail; then so does the start, which leaves what  *)
(* it has opened as it is.                                                 *)
OpenNodes ==
    /\ ~ MicrotasksPending
    /\ startQueue = "nodes"
    /\ \/ nodesOpen' = TRUE /\ startQueue' = "headers"
       \/ ~ nodesOpen /\ startQueue' = "none" /\ UNCHANGED nodesOpen
    /\ UNCHANGED <<abortedSignals, monitorVars, session, stopQueue, waiting, headersOpen,
                   seedReAdd, health, conn, connSignal>>

OpenHeaders ==
    /\ ~ MicrotasksPending
    /\ startQueue = "headers"
    /\ \/ headersOpen' = TRUE /\ startQueue' = "connect"
       \/ ~ headersOpen /\ startQueue' = "none" /\ UNCHANGED headersOpen
    /\ UNCHANGED <<abortedSignals, monitorVars, session, stopQueue, waiting, nodesOpen,
                   seedReAdd, health, conn, connSignal>>

(* The workers have all returned: the target is reached, there are no more *)
(* nodes, or the session is aborted.  The health monitor is launched.      *)
ConnectToNodesEnds ==
    /\ ~ MicrotasksPending
    /\ startQueue = "connect"
    /\ startQueue' = "none"
    /\ health' = IF health = NoSignal /\ ~ Stopped THEN session ELSE health
    /\ UNCHANGED <<abortedSignals, monitorVars, session, stopQueue, waiting, nodesOpen,
                   headersOpen, seedReAdd, conn, connSignal>>

StartStep == OpenNodes \/ OpenHeaders \/ ConnectToNodesEnds

----------------------------------------------------------------------------
(* stop *)

(* The user calls stop, which joins a running one.  The last session of a  *)
(* run is not stopped (bound).                                             *)
Stop ==
    /\ session < MaxSessions
    /\ stopQueue' = IF stopQueue = "none" THEN "called" ELSE stopQueue
    /\ UNCHANGED <<abortedSignals, monitorVars, session, startQueue, waiting, nodesOpen,
                   headersOpen, seedReAdd, health, conn, connSignal>>

(* Fault: stop does not wait for the start queue. *)
StopAborts_NoFlush ==
    /\ stopQueue = "called"
    /\ stopQueue' = "seeds"
    /\ abortedSignals' = abortedSignals \cup {session}
    /\ UNCHANGED <<monitorVars, session, startQueue, waiting, nodesOpen, headersOpen, seedReAdd,
                   health, conn, connSignal>>

(* A microtask later the session is aborted. *)
StopAborts ==
    /\ stopQueue = "called"
    /\ stopQueue' = "start"
    /\ abortedSignals' = abortedSignals \cup {session}
    /\ UNCHANGED <<monitorVars, session, startQueue, waiting, nodesOpen, headersOpen, seedReAdd,
                   health, conn, connSignal>>

(* Settled or failed, the start queue is flushed. *)
StartFlushed ==
    /\ ~ MicrotasksPending
    /\ stopQueue = "start"
    /\ startQueue = "none"
    /\ stopQueue' = "seeds"
    /\ UNCHANGED <<abortedSignals, monitorVars, session, startQueue, waiting, nodesOpen,
                   headersOpen, seedReAdd, health, conn, connSignal>>

(* Fault: stop does not wait for seeds to be re-added. *)
SeedsFlushed_NoWait ==
    /\ ~ MicrotasksPending
    /\ stopQueue = "seeds"
    /\ stopQueue' = "health"
    /\ UNCHANGED <<abortedSignals, monitorVars, session, startQueue, waiting, nodesOpen,
                   headersOpen, seedReAdd, health, conn, connSignal>>

SeedsFlushed ==
    /\ ~ MicrotasksPending
    /\ stopQueue = "seeds"
    /\ ~ seedReAdd
    /\ stopQueue' = "health"
    /\ UNCHANGED <<abortedSignals, monitorVars, session, startQueue, waiting, nodesOpen,
                   headersOpen, seedReAdd, health, conn, connSignal>>

(* The health monitor is flushed: connections are closed, and the          *)
(* connection monitor is disposed of.                                      *)
HealthFlushed ==
    /\ ~ MicrotasksPending
    /\ stopQueue = "health"
    /\ health = NoSignal
    /\ conn' = [c \in Conn |-> "none"]
    /\ connSignal' = [c \in Conn |-> NoSignal]
    /\ DisposeMonitor
    /\ stopQueue' = IF probe = NoSignal THEN "nodes" ELSE "monitor"
    /\ UNCHANGED <<abortedSignals, probe, checks, checkSignals, session, startQueue, waiting,
                   nodesOpen, headersOpen, seedReAdd, health>>

CloseNodes ==
    /\ ~ MicrotasksPending
    /\ stopQueue = "nodes"
    /\ nodesOpen' = FALSE
    /\ stopQueue' = "headers"
    /\ UNCHANGED <<abortedSignals, monitorVars, session, startQueue, waiting, headersOpen,
                   seedReAdd, health, conn, connSignal>>

(* The stop is over.  A _start that waits for it resumes at once, before   *)
(* those who called stop.                                                  *)
CloseHeaders ==
    /\ ~ MicrotasksPending
    /\ stopQueue = "headers"
    /\ headersOpen' = FALSE
    /\ stopQueue' = "none"
    /\ waiting' = FALSE
    /\ IF waiting THEN BeginStart
       ELSE UNCHANGED <<session, startQueue, interval, abortSignal, probe>>
    /\ UNCHANGED <<abortedSignals, checks, checkSignals, nodesOpen, seedReAdd, health, conn,
                   connSignal>>

StopStep ==
    \/ StopAborts
    \/ StartFlushed
    \/ SeedsFlushed
    \/ HealthFlushed
    \/ CloseNodes
    \/ CloseHeaders

----------------------------------------------------------------------------
(* Workers, the health monitor, and listeners *)

Connecting == startQueue = "connect" \/ health # NoSignal

(* A worker connects to a node, or the health monitor does. *)
ConnectNode(c) ==
    /\ ~ MicrotasksPending
    /\ Connecting
    /\ ~ Stopped
    /\ conn[c] = "none"
    /\ conn' = [conn EXCEPT ![c] = "open"]
    /\ connSignal' = [connSignal EXCEPT ![c] = session]
    /\ UNCHANGED <<abortedSignals, monitorVars, session, startQueue, stopQueue, waiting,
                   nodesOpen, headersOpen, seedReAdd, health>>

(* A worker finds itself stuck, and has seeds re-added. *)
SeedReAddBegins ==
    /\ ~ MicrotasksPending
    /\ startQueue = "connect"
    /\ ~ Stopped
    /\ ~ seedReAdd
    /\ seedReAdd' = TRUE
    /\ UNCHANGED <<abortedSignals, monitorVars, session, startQueue, stopQueue, waiting,
                   nodesOpen, headersOpen, health, conn, connSignal>>

SeedReAddEnds ==
    /\ ~ MicrotasksPending
    /\ seedReAdd
    /\ seedReAdd' = FALSE
    /\ UNCHANGED <<abortedSignals, monitorVars, session, startQueue, stopQueue, waiting,
                   nodesOpen, headersOpen, health, conn, connSignal>>

(* The loop of the health monitor ends after the iteration that finds its  *)
(* signal aborted.                                                         *)
HealthMonitorEnds ==
    /\ ~ MicrotasksPending
    /\ health \in abortedSignals
    /\ health' = NoSignal
    /\ UNCHANGED <<abortedSignals, monitorVars, session, startQueue, stopQueue, waiting,
                   nodesOpen, headersOpen, seedReAdd, conn, connSignal>>

(* A socket is lost: the listener asks the monitor whether it is the node, *)
(* or nothing happens if the client is stopping.                           *)
LoseNode(c) ==
    /\ ~ MicrotasksPending
    /\ conn[c] = "open"
    /\ connSignal[c] \notin abortedSignals
    /\ conn' = [conn EXCEPT ![c] = "listening"]
    /\ Check(c, connSignal[c])
    /\ UNCHANGED <<abortedSignals, interval, abortSignal, probe, session, startQueue, stopQueue,
                   waiting, nodesOpen, headersOpen, seedReAdd, health, connSignal>>

(* A pass is about to emit out_of_sync or invalid_blocks. *)
DropNode(c) ==
    /\ ~ MicrotasksPending
    /\ conn[c] = "open"
    /\ conn' = [conn EXCEPT ![c] = "dropped"]
    /\ UNCHANGED <<abortedSignals, monitorVars, session, startQueue, stopQueue, waiting,
                   nodesOpen, headersOpen, seedReAdd, health, connSignal>>

(* The listener goes on: stopped, it has no more to do, and a connection   *)
(* it did not destroy waits to be closed.                                  *)
ListenerStops(c) ==
    /\ IsReady(c)
    /\ connSignal[c] \in abortedSignals
    /\ conn' = [conn EXCEPT ![c] = IF @ = "dropped" THEN "open" ELSE "none"]
    /\ connSignal' = [connSignal EXCEPT ![c] = IF conn[c] = "dropped" THEN @ ELSE NoSignal]
    /\ Answered(c)
    /\ UNCHANGED <<abortedSignals, interval, abortSignal, probe, session, startQueue, stopQueue,
                   waiting, nodesOpen, headersOpen, seedReAdd, health>>

(* It takes up the connection again. *)
ListenerReconnects(c) ==
    /\ IsReady(c)
    /\ conn[c] = "listening"
    /\ connSignal[c] \notin abortedSignals
    /\ conn' = [conn EXCEPT ![c] = "open"]
    /\ Answered(c)
    /\ UNCHANGED <<abortedSignals, interval, abortSignal, probe, session, startQueue, stopQueue,
                   waiting, nodesOpen, headersOpen, seedReAdd, health, connSignal>>

(* It destroys the connection: and calls _start for another one, unless it *)
(* had never been connected.                                               *)
ListenerDestroys(c) ==
    /\ IsReady(c)
    /\ connSignal[c] \notin abortedSignals
    /\ conn' = [conn EXCEPT ![c] = "none"]
    /\ connSignal' = [connSignal EXCEPT ![c] = NoSignal]
    /\ Answered(c)
    /\ \/ CallStart
       \/ /\ conn[c] = "listening"
          /\ UNCHANGED <<session, startQueue, waiting, interval, abortSignal, probe>>
    /\ UNCHANGED <<abortedSignals, stopQueue, nodesOpen, headersOpen, seedReAdd, health>>

(* What the monitor does besides the probes it starts with. *)
MonitorRuns ==
    /\ ~ MicrotasksPending
    /\ \/ IntervalFires
       \/ (\E c \in Conn : conn[c] = "open") /\ DataArrives
    /\ UNCHANGED <<abortedSignals, lifeVars>>

CheckSettles(c) ==
    /\ CheckAborts(c) \/ (~ MicrotasksPending /\ CheckTimesOut(c))
    /\ UNCHANGED <<abortedSignals, lifeVars>>

ListenerStep(c) ==
    CheckSettles(c) \/ ListenerStops(c) \/ ListenerReconnects(c) \/ ListenerDestroys(c)

----------------------------------------------------------------------------

Next ==
    \/ Start
    \/ Stop
    \/ ProbeSettles
    \/ StartStep
    \/ StopStep
    \/ SeedReAddBegins
    \/ SeedReAddEnds
    \/ HealthMonitorEnds
    \/ MonitorRuns
    \/ \E c \in Conn : ConnectNode(c) \/ LoseNode(c) \/ DropNode(c) \/ ListenerStep(c)

Spec == Init /\ [][Next]_vars

(* Probes, requests and sleeps have deadlines, and workers a largest       *)
(* number of attempts, so that each part ends; and the microtasks that     *)
(* hold a step up run out.                                                 *)
FairSpec ==
    /\ Spec
    /\ SF_vars(StartStep)
    /\ SF_vars(StopStep)
    /\ SF_vars(ProbeSettles)
    /\ SF_vars(SeedReAddEnds)
    /\ SF_vars(HealthMonitorEnds)
    /\ \A c \in Conn : SF_vars(ListenerStep(c))

----------------------------------------------------------------------------
(* Properties *)

TypeOK ==
    /\ abortedSignals \subseteq Signal
    /\ interval \in BOOLEAN
    /\ {abortSignal, probe, health} \subseteq Signal \cup {NoSignal}
    /\ checks \in [Conn -> {"none"} \cup Waiting \cup Answer]
    /\ checkSignals \in [Conn -> SUBSET Signal]
    /\ session \in Signal
    /\ startQueue \in {"none", "monitor", "nodes", "headers", "connect"}
    /\ stopQueue \in {"none", "called", "start", "seeds", "health", "monitor", "nodes", "headers"}
    /\ {waiting, nodesOpen, headersOpen, seedReAdd} \subseteq BOOLEAN
    /\ conn \in [Conn -> {"none", "open", "listening", "dropped"}]
    /\ connSignal \in [Conn -> Signal \cup {NoSignal}]

(* Some part of the client is at work on the databases. *)
AtWork == Connecting \/ seedReAdd \/ \E c \in Conn : conn[c] # "none"

(* Workers, the re-adding of seeds, the health monitor and connections     *)
(* find both databases open and the connection monitor started, from their *)
(* first step to their last: whatever is called, and in which order        *)
(* (_start opens before it connects, stop closes after all have ended).    *)
WorksOnOpenDatabases == AtWork => nodesOpen /\ headersOpen /\ interval

(* Between a stop and the next start all is closed, and nothing runs       *)
(* (stop).                                                                 *)
ClosedWhenStopped ==
    Stopped /\ stopQueue = "none" =>
        /\ ~ nodesOpen /\ ~ headersOpen
        /\ ~ interval /\ probe = NoSignal
        /\ ~ AtWork /\ startQueue = "none"

(* No part of the client outlives its session: a stop would not end it,    *)
(* since it holds the signal of another one; a monitor that was not        *)
(* stopped keeps its old signal when it is started (ConnectionMonitor      *)
(* start), and a health monitor keeps its own.                             *)
NothingOutlivesItsSession ==
    /\ interval => abortSignal = session
    /\ probe \in {NoSignal, session}
    /\ health \in {NoSignal, session}
    /\ \A c \in Conn : conn[c] # "none" => connSignal[c] = session
    /\ \A c \in Conn : checkSignals[c] \subseteq {session}

(* Every start() and stop() settles, although each waits for the other     *)
(* (_start for _stopQueue, stop for _startQueue).                          *)
CallsSettle ==
    /\ (startQueue # "none") ~> (startQueue = "none")
    /\ (stopQueue # "none") ~> (stopQueue = "none")
    /\ waiting ~> ~ waiting

(* A listener gets its answer, when nobody sends anything any more, and    *)
(* after the monitor is disposed of, too (connectedToInternetCheapAsync).  *)
ChecksSettle == \A c \in Conn : (conn[c] = "listening") ~> (conn[c] # "listening")

=============================================================================

----------------------- MODULE ClientLifecycle_proofs ------------------------
(***************************************************************************)
(* Proofs about ClientLifecycle, for any number of connections and of      *)
(* sessions.                                                               *)
(*                                                                         *)
(* LifeInv is inductive.  It says, for each step of a stop, what has ended *)
(* by then.                                                                *)
(***************************************************************************)
EXTENDS ClientLifecycle, TLAPS

(* A session that is to be stopped is not the last one, and a stop is of   *)
(* the session there is.                                                   *)
SessionsEnd ==
    /\ abortedSignals \subseteq 1..session
    /\ Stopped \/ stopQueue = "called" => session < MaxSessions
    /\ stopQueue \notin {"none", "called"} => Stopped

(* A start runs with the monitor started, and has opened what it says.     *)
StartsInOrder ==
    /\ startQueue # "none" => interval /\ stopQueue \in {"none", "called", "start"}
    /\ startQueue \in {"headers", "connect"} => nodesOpen
    /\ startQueue = "connect" => headersOpen

(* What a stop has waited for has ended. *)
StopsInOrder ==
    /\ stopQueue \in {"health", "monitor", "nodes", "headers"} => ~ seedReAdd
    /\ stopQueue \in {"monitor", "nodes", "headers"} => ~ AtWork /\ ~ interval
    /\ stopQueue \in {"nodes", "headers"} => probe = NoSignal
    /\ stopQueue = "headers" => ~ nodesOpen

(* A client that is stopped is closed until the next start, and if it is   *)
(* stopped again, until that stop begins.                                  *)
StaysClosed ==
    Stopped /\ stopQueue \in {"none", "called"} =>
        /\ ~ nodesOpen /\ ~ headersOpen
        /\ ~ interval /\ probe = NoSignal
        /\ ~ AtWork /\ startQueue = "none"

(* Listeners ask the monitor, and nobody else does. *)
ListenersAsk ==
    \A c \in Conn :
        /\ (checks[c] # "none") = (conn[c] = "listening")
        /\ checkSignals[c] = IF conn[c] = "listening" THEN {session} ELSE {}

LifeInv ==
    /\ TypeOK
    /\ SessionsEnd
    /\ StartsInOrder
    /\ StopsInOrder
    /\ StaysClosed
    /\ ListenersAsk
    /\ WorksOnOpenDatabases
    /\ NothingOutlivesItsSession

----------------------------------------------------------------------------
(* The operators that actions share *)

(* Aborted signals are of sessions there have been. *)
LEMMA SessionIsANumber == ASSUME LifeInv PROVE session \in Nat /\ session > 0 /\ session <= MaxSessions
  BY MonitorAssumption DEF LifeInv, TypeOK, Signal

(* A start is for the session there is, or for a new one if that was       *)
(* stopped; either way the monitor is started, with its signal.            *)
LEMMA BeginStartEffect ==
  ASSUME LifeInv, startQueue = "none",
         stopQueue = "none" \/ (stopQueue = "headers" /\ Stopped),
         BeginStart
  PROVE  /\ session' \in Signal
         /\ startQueue' \in {"monitor", "nodes"}
         /\ interval' = TRUE
         /\ abortSignal' = session'
         /\ probe' \in {NoSignal, session'}
         /\ IF Stopped THEN session' = session + 1 ELSE session' = session
<1>1. NextSession \in Signal /\ NextSession = IF Stopped THEN session + 1 ELSE session
  BY SessionIsANumber, MonitorAssumption DEF LifeInv, SessionsEnd, NextSession, Signal
<1>2. interval => abortSignal = NextSession
  BY <1>1 DEF LifeInv, StopsInOrder, StaysClosed, NothingOutlivesItsSession
<1>3. probe \in {NoSignal, NextSession}
  BY <1>1 DEF LifeInv, StopsInOrder, StaysClosed, NothingOutlivesItsSession
<1>4. interval \in BOOLEAN
  BY DEF LifeInv, TypeOK
<1> QED
  BY <1>1, <1>2, <1>3, <1>4 DEF BeginStart, StartMonitor, IntervalFunction

(* What a call of _start may change. *)
LEMMA CallStartEffect ==
  ASSUME LifeInv, CallStart
  PROVE  /\ waiting' \in BOOLEAN
         /\ \/ UNCHANGED <<session, startQueue, interval, abortSignal, probe>>
            \/ /\ stopQueue = "none" /\ startQueue = "none"
               /\ session' \in Signal
               /\ startQueue' \in {"monitor", "nodes"}
               /\ interval' = TRUE
               /\ abortSignal' = session'
               /\ probe' \in {NoSignal, session'}
               /\ IF Stopped THEN session' = session + 1 ELSE session' = session
  BY BeginStartEffect DEF CallStart, LifeInv, TypeOK

----------------------------------------------------------------------------
(* The actions *)

(* At first nothing runs. *)
LEMMA InitInv == Init => LifeInv
<1> SUFFICES ASSUME Init PROVE LifeInv
  OBVIOUS
<1> USE MonitorAssumption DEF Init, MonitorInit
<1>1. TypeOK
  <2>1. checks \in [Conn -> {"none"} \cup Waiting \cup Answer]
        /\ checkSignals \in [Conn -> SUBSET Signal]
        /\ conn \in [Conn -> {"none", "open", "listening", "dropped"}]
        /\ connSignal \in [Conn -> Signal \cup {NoSignal}]
    OBVIOUS
  <2>2. session \in Signal /\ abortedSignals \subseteq Signal
    BY DEF Signal
  <2> QED
    BY <2>1, <2>2 DEF TypeOK
<1>2. ~ Stopped /\ ~ AtWork
  BY DEF Stopped, AtWork, Connecting
<1> QED
  BY <1>1, <1>2 DEF LifeInv, SessionsEnd, StartsInOrder, StopsInOrder, StaysClosed, ListenersAsk,
     WorksOnOpenDatabases, NothingOutlivesItsSession, Signal, NoSignal

(* Start *)
LEMMA StartInv ==
  ASSUME LifeInv, Start
  PROVE  LifeInv'
<1> USE DEF LifeInv, Start
<1>1. TypeOK'
  BY CallStartEffect DEF TypeOK
<1>2. CASE UNCHANGED <<session, startQueue, interval, abortSignal, probe>>
  <2>1. Stopped' = Stopped /\ AtWork' = AtWork
    BY <1>2 DEF Stopped, AtWork, Connecting
  <2> QED
    BY <1>1, <1>2, <2>1 DEF SessionsEnd, StartsInOrder, StopsInOrder, StaysClosed, ListenersAsk,
       WorksOnOpenDatabases, NothingOutlivesItsSession
<1>3. CASE /\ stopQueue = "none" /\ startQueue = "none"
           /\ startQueue' \in {"monitor", "nodes"}
           /\ interval' = TRUE
           /\ abortSignal' = session'
           /\ probe' \in {NoSignal, session'}
           /\ IF Stopped THEN session' = session + 1 ELSE session' = session
  <2>1. ~ Stopped' /\ SessionsEnd'
    BY <1>1, <1>3, SessionIsANumber DEF SessionsEnd, Stopped
  <2>2. AtWork' = AtWork
    BY <1>3 DEF AtWork, Connecting
  <2>3. StartsInOrder' /\ StopsInOrder' /\ StaysClosed'
    BY <1>3, <2>1, <2>2 DEF StartsInOrder, StopsInOrder, StaysClosed
  <2>4. WorksOnOpenDatabases'
    BY <1>3, <2>2 DEF WorksOnOpenDatabases
  <2>5. Stopped => health = NoSignal /\ \A c \in Conn : conn[c] = "none"
    BY <1>3 DEF StaysClosed, AtWork, Connecting
  <2>6. ListenersAsk' /\ NothingOutlivesItsSession'
    BY <1>3, <2>5 DEF ListenersAsk, NothingOutlivesItsSession
  <2> QED
    BY <1>1, <2>1, <2>3, <2>4, <2>6
<1> QED
  BY <1>2, <1>3, CallStartEffect

(* ProbeSettles *)
LEMMA ProbeSettlesInv ==
  ASSUME LifeInv, ProbeSettles
  PROVE  LifeInv'
<1> USE DEF LifeInv, ProbeSettles, ProbeEnds
<1>1. TypeOK'
  BY DEF TypeOK, Waiting, Answer, NoSignal
<1>2. Stopped' = Stopped /\ AtWork' = AtWork
  BY DEF Stopped, AtWork, Connecting
<1>3. SessionsEnd' /\ StartsInOrder' /\ StopsInOrder' /\ StaysClosed'
  BY <1>2 DEF SessionsEnd, StartsInOrder, StopsInOrder, StaysClosed
<1>4. ListenersAsk'
  BY DEF ListenersAsk
<1>5. WorksOnOpenDatabases' /\ NothingOutlivesItsSession'
  BY <1>2 DEF WorksOnOpenDatabases, NothingOutlivesItsSession
<1> QED
  BY <1>1, <1>3, <1>4, <1>5

(* OpenNodes, OpenHeaders, ConnectToNodesEnds: the session is not stopped, *)
(* or its stop waits.                                                      *)
LEMMA StartStepInv ==
  ASSUME LifeInv, StartStep
  PROVE  LifeInv'
<1> USE DEF LifeInv, monitorVars
<1>1. /\ startQueue # "none" /\ interval
      /\ UNCHANGED <<abortedSignals, monitorVars, session, stopQueue, waiting, seedReAdd, conn,
                     connSignal>>
      /\ nodesOpen => nodesOpen'
      /\ headersOpen => headersOpen'
  BY DEF StartStep, OpenNodes, OpenHeaders, ConnectToNodesEnds, StartsInOrder
<1>2. Stopped' = Stopped
  BY <1>1 DEF Stopped
<1>3. Stopped => stopQueue = "start"
  BY <1>1 DEF StartsInOrder, StaysClosed
<1>4. health' = health \/ (startQueue = "connect" /\ ~ Stopped /\ health' = session)
  BY DEF StartStep, OpenNodes, OpenHeaders, ConnectToNodesEnds
<1>5. TypeOK'
  BY <1>1, <1>4 DEF TypeOK, StartStep, OpenNodes, OpenHeaders, ConnectToNodesEnds
<1>6. StartsInOrder'
  BY <1>1 DEF StartsInOrder, StartStep, OpenNodes, OpenHeaders, ConnectToNodesEnds
<1>7. SessionsEnd' /\ StopsInOrder' /\ StaysClosed'
  BY <1>1, <1>2, <1>3 DEF SessionsEnd, StartsInOrder, StopsInOrder, StaysClosed
<1>8. AtWork' => AtWork \/ (nodesOpen' /\ headersOpen')
  BY <1>1, <1>4, <1>6 DEF AtWork, Connecting, StartsInOrder
<1>9. WorksOnOpenDatabases'
  BY <1>1, <1>8 DEF WorksOnOpenDatabases
<1>10. ListenersAsk' /\ NothingOutlivesItsSession'
  BY <1>1, <1>4 DEF ListenersAsk, NothingOutlivesItsSession
<1> QED
  BY <1>5, <1>6, <1>7, <1>9, <1>10

(* Stop *)
LEMMA StopInv ==
  ASSUME LifeInv, Stop
  PROVE  LifeInv'
<1> USE DEF LifeInv, Stop, monitorVars
<1>1. Stopped' = Stopped /\ AtWork' = AtWork
  BY DEF Stopped, AtWork, Connecting
<1>2. TypeOK'
  BY DEF TypeOK
<1>3. SessionsEnd' /\ StartsInOrder' /\ StopsInOrder' /\ StaysClosed'
  BY <1>1 DEF SessionsEnd, StartsInOrder, StopsInOrder, StaysClosed
<1>4. ListenersAsk' /\ WorksOnOpenDatabases' /\ NothingOutlivesItsSession'
  BY <1>1 DEF ListenersAsk, WorksOnOpenDatabases, NothingOutlivesItsSession
<1> QED
  BY <1>2, <1>3, <1>4

(* StopAborts *)
LEMMA StopAbortsInv ==
  ASSUME LifeInv, StopAborts
  PROVE  LifeInv'
<1> USE DEF LifeInv, StopAborts, monitorVars
<1>1. Stopped' /\ AtWork' = AtWork
  BY DEF Stopped, AtWork, Connecting
<1>2. TypeOK'
  BY DEF TypeOK
<1>3. SessionsEnd'
  <2>1. abortedSignals' \subseteq 1..session'
    <3>1. session \in 1..session
      BY SessionIsANumber
    <3>2. abortedSignals \subseteq 1..session
      BY DEF SessionsEnd
    <3>3. abortedSignals' = abortedSignals \cup {session} /\ session' = session
      OBVIOUS
    <3> QED
      BY ONLY <3>1, <3>2, <3>3
  <2>2. session' < MaxSessions
    BY DEF SessionsEnd
  <2> QED
    BY <1>1, <2>1, <2>2 DEF SessionsEnd
<1>4. StartsInOrder' /\ StopsInOrder' /\ StaysClosed'
  BY DEF StartsInOrder, StopsInOrder, StaysClosed
<1>5. ListenersAsk' /\ WorksOnOpenDatabases' /\ NothingOutlivesItsSession'
  BY <1>1 DEF ListenersAsk, WorksOnOpenDatabases, NothingOutlivesItsSession
<1> QED
  BY <1>2, <1>3, <1>4, <1>5

(* StartFlushed, SeedsFlushed *)
LEMMA FlushedInv ==
  ASSUME LifeInv, StartFlushed \/ SeedsFlushed
  PROVE  LifeInv'
<1> USE DEF LifeInv, StartFlushed, SeedsFlushed, monitorVars
<1>1. Stopped' = Stopped /\ AtWork' = AtWork
  BY DEF Stopped, AtWork, Connecting
<1>2. TypeOK'
  BY DEF TypeOK
<1>3. startQueue = "none"
  BY DEF StartsInOrder
<1>4. SessionsEnd'
  BY <1>1 DEF SessionsEnd
<1>5. StartsInOrder' /\ StopsInOrder' /\ StaysClosed'
  BY <1>1, <1>3 DEF StartsInOrder, StopsInOrder, StaysClosed
<1>6. ListenersAsk' /\ WorksOnOpenDatabases' /\ NothingOutlivesItsSession'
  BY <1>1 DEF ListenersAsk, WorksOnOpenDatabases, NothingOutlivesItsSession
<1> QED
  BY <1>2, <1>4, <1>5, <1>6

(* HealthFlushed: no listener is left whose question would be forgotten,   *)
(* since all of them were aborted, and have gone on.                       *)
LEMMA HealthFlushedInv ==
  ASSUME LifeInv, HealthFlushed
  PROVE  LifeInv'
<1> USE DEF LifeInv, HealthFlushed, DisposeMonitor
<1>1. Stopped /\ Stopped' /\ startQueue = "none" /\ ~ seedReAdd
  BY DEF SessionsEnd, StartsInOrder, StopsInOrder, Stopped
<1>2. ASSUME NEW c \in Conn
      PROVE  conn[c] # "listening"
  <2>1. checks[c] \in {"none"} \cup Waiting \cup Answer
    BY DEF TypeOK
  <2>2. ~ IsReady(c) /\ ~ IsAborted(c)
    BY DEF MicrotasksPending
  <2>3. SUFFICES ASSUME conn[c] = "listening" PROVE FALSE
    OBVIOUS
  <2>4. checks[c] # "none" /\ checkSignals[c] = {session}
    BY <2>3 DEF ListenersAsk
  <2> QED
    BY <1>1, <2>1, <2>2, <2>3, <2>4 DEF IsReady, IsAborted, Stopped
<1>3. TypeOK'
  BY DEF TypeOK
<1>4. ~ AtWork'
  BY <1>1 DEF AtWork, Connecting
<1>5. SessionsEnd' /\ StartsInOrder' /\ StopsInOrder' /\ StaysClosed'
  BY <1>1, <1>4 DEF SessionsEnd, StartsInOrder, StopsInOrder, StaysClosed
<1>6. ListenersAsk'
  BY <1>2 DEF ListenersAsk
<1>7. WorksOnOpenDatabases' /\ NothingOutlivesItsSession'
  BY <1>4 DEF WorksOnOpenDatabases, NothingOutlivesItsSession
<1> QED
  BY <1>3, <1>5, <1>6, <1>7

(* CloseNodes *)
LEMMA CloseNodesInv ==
  ASSUME LifeInv, CloseNodes
  PROVE  LifeInv'
<1> USE DEF LifeInv, CloseNodes, monitorVars
<1>1. Stopped' = Stopped /\ AtWork' = AtWork /\ ~ AtWork /\ startQueue = "none"
  BY DEF Stopped, AtWork, Connecting, StartsInOrder, StopsInOrder
<1>2. TypeOK'
  BY DEF TypeOK
<1>3. SessionsEnd' /\ StartsInOrder' /\ StopsInOrder' /\ StaysClosed'
  BY <1>1 DEF SessionsEnd, StartsInOrder, StopsInOrder, StaysClosed
<1>4. ListenersAsk' /\ WorksOnOpenDatabases' /\ NothingOutlivesItsSession'
  BY <1>1 DEF ListenersAsk, WorksOnOpenDatabases, NothingOutlivesItsSession
<1> QED
  BY <1>2, <1>3, <1>4

(* CloseHeaders: all is closed, and a start that waited begins. *)
LEMMA CloseHeadersInv ==
  ASSUME LifeInv, CloseHeaders
  PROVE  LifeInv'
<1> USE DEF LifeInv, CloseHeaders
<1>1. /\ Stopped /\ startQueue = "none" /\ ~ AtWork /\ ~ interval /\ probe = NoSignal
      /\ ~ nodesOpen /\ ~ nodesOpen' /\ ~ headersOpen'
  BY DEF SessionsEnd, StartsInOrder, StopsInOrder
<1>2. health = NoSignal /\ ~ seedReAdd /\ \A c \in Conn : conn[c] = "none"
  BY <1>1 DEF AtWork, Connecting
<1>3. \/ UNCHANGED <<session, startQueue, interval, abortSignal, probe>>
      \/ /\ session' \in Signal
         /\ startQueue' \in {"monitor", "nodes"}
         /\ interval' = TRUE
         /\ abortSignal' = session'
         /\ probe' \in {NoSignal, session'}
         /\ session' = session + 1
  BY <1>1, BeginStartEffect
<1>4. TypeOK'
  BY <1>3 DEF TypeOK
<1>5. ~ AtWork'
  BY <1>1, <1>2, <1>3 DEF AtWork, Connecting
<1>6. SessionsEnd' /\ StaysClosed'
  <2>1. CASE UNCHANGED <<session, startQueue, interval, abortSignal, probe>>
    BY <1>1, <1>5, <2>1 DEF SessionsEnd, StaysClosed, Stopped
  <2>2. CASE session' \in Signal /\ session' = session + 1
    BY <2>2, SessionIsANumber DEF SessionsEnd, StaysClosed, Stopped
  <2> QED
    BY <1>3, <2>1, <2>2
<1>7. StartsInOrder' /\ StopsInOrder'
  BY <1>1, <1>3 DEF StartsInOrder, StopsInOrder
<1>8. ListenersAsk'
  BY <1>2 DEF ListenersAsk
<1>9. WorksOnOpenDatabases' /\ NothingOutlivesItsSession'
  BY <1>1, <1>2, <1>3, <1>5, <1>8 DEF WorksOnOpenDatabases, NothingOutlivesItsSession, ListenersAsk
<1> QED
  BY <1>4, <1>6, <1>7, <1>8, <1>9

(* ConnectNode *)
LEMMA ConnectNodeInv ==
  ASSUME LifeInv, NEW c \in Conn, ConnectNode(c)
  PROVE  LifeInv'
<1> USE DEF LifeInv, ConnectNode, monitorVars
<1>1. /\ ~ Stopped /\ AtWork /\ Stopped' = Stopped
      /\ stopQueue \in {"none", "called"}
  BY DEF SessionsEnd, AtWork, Stopped
<1>2. TypeOK'
  BY DEF TypeOK
<1>3. SessionsEnd' /\ StartsInOrder' /\ StopsInOrder' /\ StaysClosed'
  BY <1>1 DEF SessionsEnd, StartsInOrder, StopsInOrder, StaysClosed
<1>4. ListenersAsk'
  BY DEF ListenersAsk, TypeOK
<1>5. WorksOnOpenDatabases' /\ NothingOutlivesItsSession'
  BY <1>1 DEF WorksOnOpenDatabases, NothingOutlivesItsSession, TypeOK
<1> QED
  BY <1>2, <1>3, <1>4, <1>5

(* SeedReAddBegins *)
LEMMA SeedReAddBeginsInv ==
  ASSUME LifeInv, SeedReAddBegins
  PROVE  LifeInv'
<1> USE DEF LifeInv, SeedReAddBegins, monitorVars
<1>1. /\ ~ Stopped /\ AtWork /\ Stopped' = Stopped
      /\ stopQueue \in {"none", "called"}
  BY DEF SessionsEnd, AtWork, Connecting, Stopped
<1>2. TypeOK'
  BY DEF TypeOK
<1>3. SessionsEnd' /\ StartsInOrder' /\ StopsInOrder' /\ StaysClosed'
  BY <1>1 DEF SessionsEnd, StartsInOrder, StopsInOrder, StaysClosed
<1>4. ListenersAsk' /\ WorksOnOpenDatabases' /\ NothingOutlivesItsSession'
  BY <1>1 DEF ListenersAsk, WorksOnOpenDatabases, NothingOutlivesItsSession
<1> QED
  BY <1>2, <1>3, <1>4

(* Less is at work, and nothing else changes. *)
LEMMA LessWorkInv ==
  ASSUME LifeInv, TypeOK', ListenersAsk', AtWork' => AtWork, seedReAdd' => seedReAdd,
         health' \in {NoSignal, health},
         \A c \in Conn : conn'[c] # "none" => connSignal'[c] = session,
         UNCHANGED <<abortedSignals, interval, abortSignal, session, startQueue, stopQueue,
                     waiting, nodesOpen, headersOpen>>,
         probe' = probe \/ (interval /\ probe' \in {NoSignal, session})
  PROVE  LifeInv'
<1> USE DEF LifeInv
<1>1. Stopped' = Stopped
  BY DEF Stopped
<1>2. SessionsEnd' /\ StartsInOrder'
  BY <1>1 DEF SessionsEnd, StartsInOrder
<1>3. StopsInOrder' /\ StaysClosed'
  BY <1>1 DEF StopsInOrder, StaysClosed
<1>4. WorksOnOpenDatabases'
  BY DEF WorksOnOpenDatabases
<1>5. NothingOutlivesItsSession'
  BY DEF NothingOutlivesItsSession, ListenersAsk
<1> QED
  BY <1>2, <1>3, <1>4, <1>5

(* SeedReAddEnds, HealthMonitorEnds *)
LEMMA PartEndsInv ==
  ASSUME LifeInv, SeedReAddEnds \/ HealthMonitorEnds
  PROVE  LifeInv'
<1> USE DEF SeedReAddEnds, HealthMonitorEnds, monitorVars
<1>1. TypeOK'
  BY DEF LifeInv, TypeOK
<1>2. ListenersAsk'
  BY DEF LifeInv, ListenersAsk
<1>3. AtWork' => AtWork
  BY DEF AtWork, Connecting, LifeInv, TypeOK
<1> QED
  BY <1>1, <1>2, <1>3, LessWorkInv DEF LifeInv, NothingOutlivesItsSession

(* A connection that there is has the signal of the session, and its       *)
(* monitor is started.                                                     *)
LEMMA ConnectionsAreCurrent ==
  ASSUME LifeInv, NEW c \in Conn, conn[c] # "none"
  PROVE  connSignal[c] = session /\ interval /\ abortSignal = session /\ AtWork
  BY DEF LifeInv, AtWork, WorksOnOpenDatabases, NothingOutlivesItsSession

(* LoseNode *)
LEMMA LoseNodeInv ==
  ASSUME LifeInv, NEW c \in Conn, LoseNode(c)
  PROVE  LifeInv'
<1> USE DEF LoseNode, Check
<1>1. connSignal[c] = session /\ interval /\ abortSignal = session /\ AtWork
  BY ConnectionsAreCurrent
<1>2. TypeOK'
  BY <1>1 DEF LifeInv, TypeOK, Waiting
<1>3. ListenersAsk'
  BY <1>1 DEF LifeInv, ListenersAsk, TypeOK
<1> QED
  BY <1>1, <1>2, <1>3, LessWorkInv DEF LifeInv, NothingOutlivesItsSession, TypeOK

(* DropNode *)
LEMMA DropNodeInv ==
  ASSUME LifeInv, NEW c \in Conn, DropNode(c)
  PROVE  LifeInv'
<1> USE DEF DropNode, monitorVars
<1>1. connSignal[c] = session /\ AtWork
  BY ConnectionsAreCurrent
<1>2. TypeOK'
  BY DEF LifeInv, TypeOK
<1>3. ListenersAsk'
  BY DEF LifeInv, ListenersAsk, TypeOK
<1> QED
  BY <1>1, <1>2, <1>3, LessWorkInv DEF LifeInv, NothingOutlivesItsSession, TypeOK

(* MonitorRuns *)
LEMMA MonitorRunsInv ==
  ASSUME LifeInv, MonitorRuns
  PROVE  LifeInv'
<1> USE DEF MonitorRuns, lifeVars, IntervalFires, IntervalFunction, DataArrives
<1>1. TypeOK'
  BY DEF LifeInv, TypeOK, Waiting, Answer
<1>2. ListenersAsk'
  BY DEF LifeInv, ListenersAsk
<1>3. AtWork' = AtWork
  BY DEF AtWork, Connecting
<1> QED
  BY <1>1, <1>2, <1>3, LessWorkInv DEF LifeInv, NothingOutlivesItsSession

(* CheckSettles *)
LEMMA CheckSettlesInv ==
  ASSUME LifeInv, NEW c \in Conn, CheckSettles(c)
  PROVE  LifeInv'
<1> USE DEF CheckSettles, lifeVars, CheckAborts, CheckTimesOut, IsAborted
<1>1. TypeOK'
  BY DEF LifeInv, TypeOK, Waiting, Answer
<1>2. ListenersAsk'
  BY DEF LifeInv, ListenersAsk, TypeOK, Waiting
<1>3. AtWork' = AtWork
  BY DEF AtWork, Connecting
<1> QED
  BY <1>1, <1>2, <1>3, LessWorkInv DEF LifeInv, NothingOutlivesItsSession

(* ListenerStops, ListenerReconnects *)
LEMMA ListenerGoesOnInv ==
  ASSUME LifeInv, NEW c \in Conn, ListenerStops(c) \/ ListenerReconnects(c)
  PROVE  LifeInv'
<1> USE DEF ListenerStops, ListenerReconnects, Answered, IsReady
<1>1. conn[c] # "none" /\ connSignal[c] = session /\ AtWork
  BY ConnectionsAreCurrent
<1>2. TypeOK'
  BY DEF LifeInv, TypeOK
<1>3. ListenersAsk'
  BY DEF LifeInv, ListenersAsk, TypeOK
<1> QED
  BY <1>1, <1>2, <1>3, LessWorkInv DEF LifeInv, NothingOutlivesItsSession, TypeOK

(* ListenerDestroys: its session is not stopped, so that _start, if it     *)
(* does anything, is for the same session.                                 *)
LEMMA ListenerDestroysInv ==
  ASSUME LifeInv, NEW c \in Conn, ListenerDestroys(c)
  PROVE  LifeInv'
<1> USE DEF ListenerDestroys, Answered, IsReady
<1>1. connSignal[c] = session /\ interval /\ abortSignal = session /\ AtWork /\ ~ Stopped
  BY ConnectionsAreCurrent DEF Stopped
<1>2. /\ waiting' \in BOOLEAN
      /\ session' = session
      /\ \/ UNCHANGED <<startQueue, interval, abortSignal, probe>>
         \/ /\ stopQueue = "none" /\ startQueue = "none"
            /\ startQueue' \in {"monitor", "nodes"}
            /\ interval' = TRUE
            /\ abortSignal' = session
            /\ probe' \in {NoSignal, session}
  BY <1>1, CallStartEffect DEF LifeInv, TypeOK
<1>3. TypeOK'
  BY <1>2 DEF LifeInv, TypeOK
<1>4. ListenersAsk'
  BY <1>2 DEF LifeInv, ListenersAsk, TypeOK
<1>5. Stopped' = Stopped
  BY <1>2 DEF Stopped
<1>6. AtWork' => AtWork
  BY <1>1
<1>7. stopQueue \in {"none", "called"}
  BY <1>1 DEF LifeInv, SessionsEnd
<1>8. SessionsEnd' /\ StartsInOrder' /\ StopsInOrder' /\ StaysClosed'
  BY <1>1, <1>2, <1>5, <1>7 DEF LifeInv, SessionsEnd, StartsInOrder, StopsInOrder, StaysClosed
<1>9. WorksOnOpenDatabases'
  BY <1>1, <1>2 DEF LifeInv, WorksOnOpenDatabases
<1>10. NothingOutlivesItsSession'
  BY <1>1, <1>2, <1>4 DEF LifeInv, NothingOutlivesItsSession, ListenersAsk, TypeOK
<1> QED
  BY <1>3, <1>4, <1>8, <1>9, <1>10 DEF LifeInv

(* Nothing happens. *)
LEMMA StutterInv ==
  ASSUME LifeInv, UNCHANGED vars
  PROVE  LifeInv'
<1> USE DEF vars, monitorVars, lifeVars
<1>1. TypeOK'
  BY DEF LifeInv, TypeOK
<1>2. ListenersAsk' /\ AtWork' = AtWork
  BY DEF LifeInv, ListenersAsk, AtWork, Connecting
<1> QED
  BY <1>1, <1>2, LessWorkInv DEF LifeInv, NothingOutlivesItsSession

----------------------------------------------------------------------------
(* The theorems *)

(* Every step preserves the invariant. *)
LEMMA NextInv == LifeInv /\ [Next]_vars => LifeInv'
<1> SUFFICES ASSUME LifeInv, [Next]_vars
             PROVE  LifeInv'
  OBVIOUS
<1>1. CASE Start \/ Stop
  BY <1>1, StartInv, StopInv
<1>2. CASE ProbeSettles \/ StartStep
  BY <1>2, ProbeSettlesInv, StartStepInv
<1>3. CASE StopStep
  BY <1>3, StopAbortsInv, FlushedInv, HealthFlushedInv, CloseNodesInv, CloseHeadersInv DEF StopStep
<1>4. CASE SeedReAddBegins \/ SeedReAddEnds \/ HealthMonitorEnds \/ MonitorRuns
  BY <1>4, SeedReAddBeginsInv, PartEndsInv, MonitorRunsInv
<1>5. ASSUME NEW c \in Conn, ConnectNode(c) \/ LoseNode(c) \/ DropNode(c) \/ ListenerStep(c)
      PROVE  LifeInv'
  BY <1>5, ConnectNodeInv, LoseNodeInv, DropNodeInv, CheckSettlesInv, ListenerGoesOnInv,
     ListenerDestroysInv DEF ListenerStep
<1>6. CASE UNCHANGED vars
  BY <1>6, StutterInv
<1> QED
  BY <1>1, <1>2, <1>3, <1>4, <1>5, <1>6 DEF Next

(* However the user and the listeners call start() and stop(), the parts   *)
(* of the client start and end in order (LifeInv).                         *)
THEOREM LifeIsInOrder == Spec => []LifeInv
<1>1. Init => LifeInv
  BY InitInv
<1>2. LifeInv /\ [Next]_vars => LifeInv'
  BY NextInv
<1> QED
  BY <1>1, <1>2, PTL DEF Spec

(* Every variable keeps its type. *)
THEOREM LifeTypes == Spec => []TypeOK
<1>1. LifeInv => TypeOK
  BY DEF LifeInv
<1> QED
  BY <1>1, LifeIsInOrder, PTL

(* Whatever is called, and in which order: workers, the re-adding of       *)
(* seeds, the health monitor and connections find both databases open and  *)
(* the connection monitor started (_start, stop).                          *)
THEOREM AlwaysOnOpenDatabases == Spec => []WorksOnOpenDatabases
<1>1. LifeInv => WorksOnOpenDatabases
  BY DEF LifeInv
<1> QED
  BY <1>1, LifeIsInOrder, PTL

(* Once stop() is over, and until a start, all is closed and nothing runs. *)
THEOREM StopClosesAll == Spec => []ClosedWhenStopped
<1>1. LifeInv => ClosedWhenStopped
  BY DEF LifeInv, StaysClosed, ClosedWhenStopped
<1> QED
  BY <1>1, LifeIsInOrder, PTL

(* The connection monitor, a probe, the health monitor, a connection and   *)
(* the questions of its listener all hold the signal of the session there  *)
(* is, whichever sessions there have been before: the next stop ends them. *)
THEOREM AllEndWithTheirSession == Spec => []NothingOutlivesItsSession
<1>1. LifeInv => NothingOutlivesItsSession
  BY DEF LifeInv
<1> QED
  BY <1>1, LifeIsInOrder, PTL

=============================================================================

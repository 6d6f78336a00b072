--------------------------- MODULE NodeTransport ----------------------------
(***************************************************************************)
(* A LegacyNodeConnection, its socket and the requests that wait for an    *)
(* answer on it: connect, ping, getHeaders and getAddr, with the deadlines *)
(* and the abort signals of their callers, and the events it emits.        *)
(*                                                                         *)
(* The remote node follows the protocol: it answers version with version   *)
(* and verack, and later requests in their order, in its own time.  It may *)
(* send addr unasked, and answers getaddr that way.  (inv and ping leave   *)
(* the requests alone.)  A message may arrive spoilt.                      *)
(***************************************************************************)
EXTENDS Messages, SequencesExt

CONSTANTS
    Caller,          \* those who call the connection, each with a signal of its own
    Interval,        \* the interval that pings
    MaxCalls,        \* calls made (bound); a call's number is its nonce
    MaxAddrs,        \* addr messages sent (bound)
    MaxSpoilt        \* spoilt messages (bound)

ASSUME TransportAssumption ==
    /\ Interval \notin Caller
    /\ {MaxCalls, MaxAddrs, MaxSpoilt} \subseteq Nat

VARIABLES
    socket,          \* _socket: the number of it, or 0
    listening,       \* the sockets that have the listeners of data, error and close
    isOpen,          \* the socket is connected, and version has been sent
    incoming,        \* what the remote node has sent on it, and was not read
    buffer,          \* _buffer
    verackSent,      \* _verackSent
    wasConnected,    \* _wasConnected
    pingInterval,    \* _pingIntervalId is set
    pendingConnect,  \* _pendingConnect: the number of the call, or 0
    pendingPongs,    \* _pendingPongs: numbers of calls
    pendingGetHeaders, \* _pendingGetHeaders
    pendingGetAddr,  \* _pendingGetAddr
    call,            \* the last call of each caller
    aborted,         \* the callers whose signal is aborted
    calls,           \* calls made
    addrs,           \* addr messages sent
    spoilt,          \* spoilt messages sent
    sockets,         \* sockets made
    shook,           \* the handshake has been made on the last one
    handshakeSpoilt, \* a message of its handshake was spoilt
    events           \* the disconnect events since it was made

flagVars == <<verackSent, wasConnected, pingInterval>>
pendingVars == <<pendingConnect, pendingPongs, pendingGetHeaders, pendingGetAddr>>
callVars == <<call, aborted, calls>>
sentVars == <<addrs, spoilt>>
historyVars == <<sockets, shook, handshakeSpoilt, events>>
vars == <<socket, listening, isOpen, incoming, buffer, flagVars, pendingVars, callVars,
          sentVars, historyVars>>

NoCall == [op |-> "none", id |-> 0, own |-> FALSE, answer |-> "none", from |-> 0]

Init ==
    /\ socket = 0
    /\ listening = {}
    /\ isOpen = FALSE
    /\ incoming = <<>>
    /\ buffer = <<>>
    /\ verackSent = FALSE
    /\ wasConnected = FALSE
    /\ pingInterval = FALSE
    /\ pendingConnect = 0
    /\ pendingPongs = {}
    /\ pendingGetHeaders = 0
    /\ pendingGetAddr = 0
    /\ call = [p \in Caller \cup {Interval} |-> NoCall]
    /\ aborted = {}
    /\ calls = 0
    /\ addrs = 0
    /\ spoilt = 0
    /\ sockets = 0
    /\ shook = FALSE
    /\ handshakeSpoilt = FALSE
    /\ events = <<>>

connected == socket # 0 /\ pendingConnect = 0

IsPending(p) == call[p].answer = "pending"

----------------------------------------------------------------------------
(* The remote node *)

(* It sends a message, which may be spoilt on its way. *)
Send(messages, command, id) ==
    \E sound \in BOOLEAN :
        /\ sound \/ spoilt < MaxSpoilt
        /\ spoilt' = IF sound THEN spoilt ELSE spoilt + 1
        /\ incoming' = messages \o buildMessage([command |-> command, to |-> id, sound |-> sound])

(* It answers a request if the handshake is over for it. *)
Answer(command, id) ==
    IF verackSent THEN Send(incoming, command, id) ELSE UNCHANGED <<incoming, spoilt>>

----------------------------------------------------------------------------
(* Calls *)

(* Those who wait for a request have its outcome. *)
Settled(outcomes, op, id, answer, from) ==
    [p \in DOMAIN outcomes |->
        IF outcomes[p].op = op /\ outcomes[p].id = id /\ outcomes[p].answer = "pending"
        THEN [outcomes[p] EXCEPT !.answer = answer, !.from = from]
        ELSE outcomes[p]]

Rejected(op, id) == Settled(call, op, id, "rejected", 0)

CanCall(p) == p \notin aborted /\ ~ IsPending(p) /\ calls < MaxCalls

(* A call is made: for a request of its own, or for one that is pending.   *)
Calls(p, op, id, own) ==
    /\ calls' = calls + 1
    /\ call' = [call EXCEPT ![p] =
                   [op |-> op, id |-> id, own |-> own, answer |-> "pending", from |-> 0]]
    /\ UNCHANGED aborted

(* connect makes a socket, or joins the pending connect (or has nothing to *)
(* do).                                                                    *)
Connect(p) ==
    /\ CanCall(p)
    /\ ~ connected
    /\ IF pendingConnect # 0
       THEN /\ Calls(p, "connect", pendingConnect, FALSE)
            /\ UNCHANGED <<socket, listening, wasConnected, pendingConnect, historyVars>>
       ELSE /\ Calls(p, "connect", calls + 1, TRUE)
            /\ pendingConnect' = calls + 1
            /\ wasConnected' = FALSE
            /\ sockets' = sockets + 1
            /\ socket' = sockets + 1
            /\ listening' = listening \cup {sockets + 1}
            /\ shook' = FALSE
            /\ handshakeSpoilt' = FALSE
            /\ events' = <<>>
    /\ UNCHANGED <<isOpen, incoming, buffer, verackSent, pingInterval, pendingPongs,
                   pendingGetHeaders, pendingGetAddr, sentVars>>

(* The socket is connected, and version is sent. *)
SocketConnects ==
    /\ socket # 0
    /\ ~ isOpen
    /\ isOpen' = TRUE
    /\ \E bad \in {"none", "version", "verack"} :
          LET answer(command) ==
                buildMessage([command |-> command, to |-> 0, sound |-> command # bad])
          IN  /\ spoilt' = IF bad = "none" THEN spoilt ELSE spoilt + 1
              /\ handshakeSpoilt' = (bad # "none")
              /\ incoming' = answer("version") \o answer("verack")
    /\ spoilt' <= MaxSpoilt
    /\ UNCHANGED <<socket, listening, buffer, flagVars, pendingVars, callVars, addrs, sockets,
                   shook, events>>

(* Pings are told apart by their nonces, any number of them. *)
Ping(p) ==
    /\ CanCall(p)
    /\ connected
    /\ p = Interval => pingInterval
    /\ Calls(p, "ping", calls + 1, TRUE)
    /\ pendingPongs' = pendingPongs \cup {calls + 1}
    /\ Answer("pong", calls + 1)
    /\ UNCHANGED <<socket, listening, isOpen, buffer, flagVars, pendingConnect,
                   pendingGetHeaders, pendingGetAddr, addrs, historyVars>>

(* One getheaders is pending at a time; another call throws. *)
GetHeaders(p) ==
    /\ p # Interval
    /\ CanCall(p)
    /\ connected
    /\ pendingGetHeaders = 0
    /\ Calls(p, "getHeaders", calls + 1, TRUE)
    /\ pendingGetHeaders' = calls + 1
    /\ Answer("headers", calls + 1)
    /\ UNCHANGED <<socket, listening, isOpen, buffer, flagVars, pendingConnect, pendingPongs,
                   pendingGetAddr, addrs, historyVars>>

(* A pending getaddr is joined. *)
GetAddr(p) ==
    /\ p # Interval
    /\ CanCall(p)
    /\ connected
    /\ IF pendingGetAddr # 0
       THEN Calls(p, "getAddr", pendingGetAddr, FALSE) /\ UNCHANGED pendingGetAddr
       ELSE Calls(p, "getAddr", calls + 1, TRUE) /\ pendingGetAddr' = calls + 1
    /\ UNCHANGED <<socket, listening, isOpen, incoming, buffer, flagVars, pendingConnect,
                   pendingPongs, pendingGetHeaders, sentVars, historyVars>>

(* The remote node sends addresses: asked or not. *)
AddrIsSent ==
    /\ verackSent
    /\ addrs < MaxAddrs
    /\ addrs' = addrs + 1
    /\ Send(incoming, "addr", 0)
    /\ UNCHANGED <<socket, listening, isOpen, buffer, flagVars, pendingVars, callVars, historyVars>>

----------------------------------------------------------------------------
(* Messages that arrive *)

(* What a message may change. *)
State ==
    [verackSent |-> verackSent, wasConnected |-> wasConnected, pingInterval |-> pingInterval,
     connect |-> pendingConnect, pongs |-> pendingPongs, getHeaders |-> pendingGetHeaders,
     getAddr |-> pendingGetAddr, call |-> call, shook |-> shook]

(* Fault: a pending getheaders is forgotten when its answer is spoilt. *)
HandleError_Forgets(s, m) ==
    IF m.command = "headers" THEN [s EXCEPT !.getHeaders = 0] ELSE s

(* A spoilt message fails the request it may be for; but a pong is left    *)
(* to its deadline.                                                        *)
HandleError(s, m) ==
    CASE m.command \in {"version", "verack"} /\ s.connect # 0 ->
           [s EXCEPT !.connect = 0, !.call = Settled(@, "connect", s.connect, "rejected", 0)]
      [] m.command = "headers" /\ s.getHeaders # 0 ->
           [s EXCEPT !.getHeaders = 0,
                     !.call = Settled(@, "getHeaders", s.getHeaders, "rejected", 0)]
      [] m.command = "addr" /\ s.getAddr # 0 ->
           [s EXCEPT !.getAddr = 0, !.call = Settled(@, "getAddr", s.getAddr, "rejected", 0)]
      [] OTHER -> s

(* Answers have no number, but for the nonce of a pong. *)
_handleMessage(s, m) ==
    CASE m.command = "version" /\ ~ s.verackSent /\ s.connect # 0 ->
           [s EXCEPT !.verackSent = TRUE]
      [] m.command = "verack" /\ s.verackSent /\ s.connect # 0 ->
           [s EXCEPT !.connect = 0, !.wasConnected = TRUE, !.pingInterval = TRUE, !.shook = TRUE,
                     !.call = Settled(@, "connect", s.connect, "resolved", 0)]
      [] m.command = "pong" /\ m.to \in s.pongs ->
           [s EXCEPT !.pongs = @ \ {m.to}, !.call = Settled(@, "ping", m.to, "resolved", m.to)]
      [] m.command = "headers" /\ s.getHeaders # 0 ->
           [s EXCEPT !.getHeaders = 0,
                     !.call = Settled(@, "getHeaders", s.getHeaders, "resolved", m.to)]
      [] m.command = "addr" /\ s.getAddr # 0 ->
           [s EXCEPT !.getAddr = 0, !.call = Settled(@, "getAddr", s.getAddr, "resolved", 0)]
      [] OTHER -> s

(* A chunk of data ends anywhere.  Errors are dealt with before messages.  *)
DataArrives ==
    /\ \E n \in 1..Len(incoming) :
          LET parsed == parseMessages(buffer \o SubSeq(incoming, 1, n))
              after == FoldLeft(_handleMessage, FoldLeft(HandleError, State, parsed.errors),
                                parsed.messages)
          IN  /\ incoming' = SubSeq(incoming, n + 1, Len(incoming))
              /\ buffer' = parsed.remaining
              /\ verackSent' = after.verackSent
              /\ wasConnected' = after.wasConnected
              /\ pingInterval' = after.pingInterval
              /\ pendingConnect' = after.connect
              /\ pendingPongs' = after.pongs
              /\ pendingGetHeaders' = after.getHeaders
              /\ pendingGetAddr' = after.getAddr
              /\ call' = after.call
              /\ shook' = after.shook
    /\ UNCHANGED <<socket, listening, isOpen, aborted, calls, sentVars, sockets,
                   handshakeSpoilt, events>>

----------------------------------------------------------------------------
(* The end of a socket *)

(* Fault: the pending getaddr is left to its deadline. *)
_disconnectNoEmit_KeepsGetAddr ==
    /\ listening' = listening \ {socket}
    /\ socket' = 0
    /\ isOpen' = FALSE
    /\ incoming' = <<>>
    /\ buffer' = <<>>
    /\ verackSent' = FALSE
    /\ wasConnected' = FALSE
    /\ pingInterval' = FALSE
    /\ pendingConnect' = 0
    /\ pendingPongs' = {}
    /\ pendingGetHeaders' = 0
    /\ UNCHANGED pendingGetAddr
    /\ call' = [p \in DOMAIN call |->
                   IF IsPending(p) /\ call[p].op # "getAddr"
                   THEN [call[p] EXCEPT !.answer = "rejected"] ELSE call[p]]

(* The listeners of the socket are removed, it is destroyed, and all that  *)
(* is pending is rejected.                                                 *)
_disconnectNoEmit ==
    /\ listening' = listening \ {socket}
    /\ socket' = 0
    /\ isOpen' = FALSE
    /\ incoming' = <<>>
    /\ buffer' = <<>>
    /\ verackSent' = FALSE
    /\ wasConnected' = FALSE
    /\ pingInterval' = FALSE
    /\ pendingConnect' = 0
    /\ pendingPongs' = {}
    /\ pendingGetHeaders' = 0
    /\ pendingGetAddr' = 0
    /\ call' = [p \in DOMAIN call |->
                   IF IsPending(p) THEN [call[p] EXCEPT !.answer = "rejected"] ELSE call[p]]

Emit(event) == events' = Append(events, event)

(* Fault: whether it was connected is looked up when all is cleared. *)
SocketLost_Late(s) ==
    /\ s \in listening
    /\ _disconnectNoEmit
    /\ Emit(IF wasConnected' THEN "after" ELSE "before")
    /\ UNCHANGED <<aborted, calls, sentVars, sockets, shook, handshakeSpoilt>>

(* An error, or the end, of a socket that has listeners. *)
SocketLost(s) ==
    /\ s \in listening
    /\ _disconnectNoEmit
    /\ Emit(IF wasConnected THEN "after" ELSE "before")
    /\ UNCHANGED <<aborted, calls, sentVars, sockets, shook, handshakeSpoilt>>

(* A deadline passes: that of connect, ... *)
ConnectTimesOut ==
    /\ pendingConnect # 0
    /\ _disconnectNoEmit
    /\ Emit("before")
    /\ UNCHANGED <<aborted, calls, sentVars, sockets, shook, handshakeSpoilt>>

(* Fault: the slot is free again, and the socket stays. *)
RequestTimesOut_Stays ==
    /\ pendingGetHeaders # 0
    /\ pendingGetHeaders' = 0
    /\ call' = Rejected("getHeaders", pendingGetHeaders)
    /\ UNCHANGED <<socket, listening, isOpen, incoming, buffer, flagVars, pendingConnect,
                   pendingPongs, pendingGetAddr, aborted, calls, sentVars, historyVars>>

(* ... or that of a ping, a getheaders or a getaddr. *)
RequestTimesOut ==
    /\ pendingPongs # {} \/ pendingGetHeaders # 0 \/ pendingGetAddr # 0
    /\ _disconnectNoEmit
    /\ Emit("after")
    /\ UNCHANGED <<aborted, calls, sentVars, sockets, shook, handshakeSpoilt>>

(* A caller's signal is aborted.  The caller that made a request has its   *)
(* listener: a connect is disconnected, another request rejected.  Those   *)
(* who joined have none.                                                   *)
Abort(p) ==
    /\ p \notin aborted
    /\ p # Interval
    /\ aborted' = aborted \cup {p}
    /\ IF ~ IsPending(p) \/ ~ call[p].own
       THEN UNCHANGED <<socket, listening, isOpen, incoming, buffer, flagVars, pendingVars, call,
                        events>>
       ELSE IF call[p].op = "connect"
       THEN _disconnectNoEmit /\ Emit("disconnect")
       ELSE /\ pendingPongs' = IF call[p].op = "ping" THEN pendingPongs \ {call[p].id} ELSE pendingPongs
            /\ pendingGetHeaders' = IF call[p].op = "getHeaders" THEN 0 ELSE pendingGetHeaders
            /\ pendingGetAddr' = IF call[p].op = "getAddr" THEN 0 ELSE pendingGetAddr
            /\ call' = Rejected(call[p].op, call[p].id)
            /\ UNCHANGED <<socket, listening, isOpen, incoming, buffer, flagVars, pendingConnect,
                           events>>
    /\ UNCHANGED <<calls, sentVars, sockets, shook, handshakeSpoilt>>

(* The client disposes of the connection: nothing tells of it. *)
Dispose ==
    /\ socket # 0
    /\ _disconnectNoEmit
    /\ UNCHANGED <<aborted, calls, sentVars, historyVars>>

----------------------------------------------------------------------------

Next ==
    \/ \E p \in Caller : Connect(p)
    \/ \E p \in Caller \cup {Interval} : Ping(p)
    \/ \E p \in Caller : GetHeaders(p)
    \/ \E p \in Caller : GetAddr(p)
    \/ SocketConnects
    \/ AddrIsSent
    \/ DataArrives
    \/ \E s \in listening : SocketLost(s)
    \/ ConnectTimesOut
    \/ RequestTimesOut
    \/ \E p \in Caller : Abort(p)
    \/ Dispose

Spec == Init /\ [][Next]_vars

(* Deadlines pass. *)
FairSpec == Spec /\ WF_vars(ConnectTimesOut) /\ WF_vars(RequestTimesOut)

----------------------------------------------------------------------------
(* Properties *)

Requests == 1..MaxCalls

(* Who waits, waits for a request that is pending; requests are pending on *)
(* the socket of the connection, and no other socket has listeners: none   *)
(* of the ways in which a request or a socket ends leaves a promise behind *)
(* or lets an old socket speak (_disconnectNoEmit, the assertions that     *)
(* this._socket is currentSocket).                                         *)
TypeOK ==
    /\ {isOpen, verackSent, wasConnected, pingInterval, shook, handshakeSpoilt} \subseteq BOOLEAN
    /\ {pendingConnect, pendingGetHeaders, pendingGetAddr} \subseteq Requests \cup {0}
    /\ pendingPongs \subseteq Requests
    /\ aborted \subseteq Caller
    /\ listening = {socket} \ {0}
    /\ (socket = 0 => pendingConnect = 0 /\ buffer = <<>> /\ ~ pingInterval)
    /\ (~ connected => pendingPongs = {} /\ pendingGetHeaders = 0 /\ pendingGetAddr = 0)
    /\ \A p \in Caller \cup {Interval} : IsPending(p) =>
          CASE call[p].op = "connect" -> call[p].id = pendingConnect
            [] call[p].op = "ping" -> call[p].id \in pendingPongs
            [] call[p].op = "getHeaders" -> call[p].id = pendingGetHeaders
            [] call[p].op = "getAddr" -> call[p].id = pendingGetAddr

(* A ping is answered by its own pong.  Headers have no number; still they *)
(* answer the request they were sent for, whatever was lost, spoilt or     *)
(* timed out before, unless a getheaders has been aborted: after a failure *)
(* of another kind the socket is not used any more.                        *)
RepliesAnswerTheirRequests ==
    \A p \in Caller \cup {Interval} :
        call[p].answer = "resolved" /\ call[p].op \in {"ping", "getHeaders"} =>
            \/ call[p].from = call[p].id
            \/ /\ call[p].op = "getHeaders"
               /\ \E q \in aborted : call[q].op = "getHeaders" /\ call[q].id < call[p].id

(* However a socket ends, there is one event of it or, if the client has   *)
(* disposed of it, none; the event is of a connection that was made if and *)
(* only if the handshake was made, or a message of it was spoilt.          *)
OneEventPerSocket ==
    /\ Len(events) <= 1
    /\ socket # 0 => events = <<>>
    /\ events # <<>> => \/ Head(events) = "after" /\ (shook \/ handshakeSpoilt)
                        \/ Head(events) \in {"before", "disconnect"} /\ ~ shook

(* Every call is answered, or fails: by a deadline at the latest, whatever *)
(* the remote node does, and whoever's request it is.                      *)
CallsSettle == \A p \in Caller \cup {Interval} : IsPending(p) ~> ~ IsPending(p)

=============================================================================

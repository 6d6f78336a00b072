------------------------ MODULE NodeTransport_proofs ------------------------
(***************************************************************************)
(* Proofs about NodeTransport, for every number of callers, calls and      *)
(* messages: the outcome of a request is that of the request itself, and a *)
(* socket ends with one event.                                             *)
(*                                                                         *)
(* The data of a chunk is dealt with in two folds, one over its errors and *)
(* one over its messages, after a parser that is recursive in the          *)
(* position.  All three are handled by induction on positions.             *)
(***************************************************************************)
EXTENDS NodeTransport, SequenceTheorems, InductionLemmas

----------------------------------------------------------------------------
(* The invariant *)

(* The symbols of which messages are made. *)
Symbol == [part : {"header", "payload"}, message : Message]

(* The symbols of a message. *)
HeaderOf(m) == [part |-> "header", message |-> m]
PayloadOf(m) == [part |-> "payload", message |-> m]

(* A header at i is to be followed by a payload. *)
IsOpenAt(s, i) == IsHeader(s[i]) /\ Length(s[i].message) = 1

(* Every header has its payload after it, but the last one may not have it *)
(* yet, and no payload is without its header.                              *)
IsFramed(s) ==
  \A i \in 1..Len(s) :
    /\ IsOpenAt(s, i) /\ i < Len(s) => s[i + 1] = PayloadOf(s[i].message)
    /\ ~ IsHeader(s[i]) => i > 1 /\ IsOpenAt(s, i - 1)

(* The last header has its payload, too. *)
IsComplete(s) == Len(s) > 0 => ~ IsOpenAt(s, Len(s))

(* What was sent and not dealt with. *)
Stream == buffer \o incoming

(* The positions of the headers messages in it. *)
HeadersAt(s) == {i \in 1..Len(s) : IsHeader(s[i]) /\ s[i].message.command = "headers"}

(* The calls, and who makes them. *)
CallRecord ==
  [op : {"none", "connect", "ping", "getHeaders", "getAddr"}, id : 0..MaxCalls, own : BOOLEAN,
   answer : {"none", "pending", "resolved", "rejected"}, from : Nat]

Callers == Caller \cup {Interval}

(* The types. *)
DataInv ==
  /\ {isOpen, verackSent, wasConnected, pingInterval, shook, handshakeSpoilt} \subseteq BOOLEAN
  /\ call \in [Callers -> CallRecord]
  /\ calls \in 0..MaxCalls
  /\ {pendingConnect, pendingGetHeaders, pendingGetAddr} \subseteq 0..calls
  /\ pendingPongs \subseteq 1..calls
  /\ aborted \subseteq Caller
  /\ {socket, sockets} \subseteq Nat
  /\ buffer \in Seq(Symbol) /\ incoming \in Seq(Symbol)

(* Who waits, waits for what is pending. *)
WaitsFor(c, connect, pongs, getHeaders, getAddr) ==
  c.answer = "pending" =>
    \/ c.op = "connect" /\ c.id = connect
    \/ c.op = "ping" /\ c.id \in pongs
    \/ c.op = "getHeaders" /\ c.id = getHeaders
    \/ c.op = "getAddr" /\ c.id = getAddr

(* What a socket has, and what it can not have before it is connected, or  *)
(* when there is none.                                                     *)
SocketInv ==
  /\ listening = {socket} \ {0}
  /\ socket = 0 => pendingConnect = 0 /\ ~ isOpen
  /\ ~ isOpen => /\ buffer = <<>> /\ incoming = <<>>
                 /\ ~ verackSent /\ ~ wasConnected /\ ~ pingInterval
                 /\ socket # 0 => pendingConnect # 0
  /\ ~ connected => pendingPongs = {} /\ pendingGetHeaders = 0 /\ pendingGetAddr = 0
  /\ \A p \in Callers :
       WaitsFor(call[p], pendingConnect, pendingPongs, pendingGetHeaders, pendingGetAddr)

(* What was sent comes in whole frames, and a message of the handshake is  *)
(* not spoilt without it being known.                                      *)
StreamInv ==
  /\ IsFramed(Stream) /\ IsComplete(Stream)
  /\ \A i \in 1..Len(Stream) :
       IsHeader(Stream[i]) /\ Stream[i].message.command \in {"version", "verack"}
         /\ ~ Stream[i].message.sound => handshakeSpoilt

(* How far the handshake has come. *)
HandshakeInv ==
  /\ connected => shook \/ handshakeSpoilt
  /\ socket # 0 => (wasConnected <=> shook)
  /\ pendingConnect # 0 => ~ shook

(* Requests have numbers of calls, and the callers of getHeaders one each; *)
(* the last of them may be waiting, unless it aborted.                     *)
GetHeadersInv ==
  /\ \A p \in Callers :
       call[p].id <= calls /\ (call[p].answer = "pending" => call[p].id # 0)
  /\ \A p \in Callers : call[p].op = "getHeaders" =>
       /\ call[p].own
       /\ \A q \in Callers \ {p} : call[q].op = "getHeaders" => call[q].id # call[p].id
       /\ call[p].answer = "pending" =>
            /\ p \notin aborted
            /\ \A q \in Callers : call[q].op = "getHeaders" => call[q].id <= call[p].id

(* As long as no getHeaders was aborted, there is at most one headers      *)
(* message on its way, for the request that is pending.                    *)
HeadersInv ==
  (\A q \in aborted : call[q].op # "getHeaders") =>
    \A i \in HeadersAt(Stream) :
      /\ pendingGetHeaders # 0 /\ Stream[i].message.to = pendingGetHeaders
      /\ \A j \in HeadersAt(Stream) : i = j

(* What holds in every state. *)
TransportInv ==
  /\ DataInv /\ SocketInv /\ StreamInv /\ HandshakeInv /\ GetHeadersInv /\ HeadersInv
  /\ RepliesAnswerTheirRequests /\ OneEventPerSocket

----------------------------------------------------------------------------
(* The handlers of messages *)

(* What the handlers change. *)
States ==
  [verackSent : BOOLEAN, wasConnected : BOOLEAN, pingInterval : BOOLEAN, connect : 0..MaxCalls,
   pongs : SUBSET (1..MaxCalls), getHeaders : 0..MaxCalls, getAddr : 0..MaxCalls,
   call : [Callers -> CallRecord], shook : BOOLEAN]

(* The bounds are numbers. *)
LEMMA Bounds == MaxCalls \in Nat /\ Interval \notin Caller
BY TransportAssumption

(* Of calls that are settled nothing else changes. *)
LEMMA SettledCalls ==
  ASSUME NEW outcomes \in [Callers -> CallRecord], NEW op, NEW id,
         NEW answer \in {"rejected", "resolved"}, NEW from \in Nat
  PROVE  /\ Settled(outcomes, op, id, answer, from) \in [Callers -> CallRecord]
         /\ \A p \in Callers :
              LET old == outcomes[p]
                  new == Settled(outcomes, op, id, answer, from)[p]
              IN  IF old.op = op /\ old.id = id /\ old.answer = "pending"
                  THEN /\ new.op = old.op /\ new.id = old.id /\ new.own = old.own
                       /\ new.answer = answer /\ new.from = from
                  ELSE new = old
<1> DEFINE Rec == {"none", "connect", "ping", "getHeaders", "getAddr"}
           new == Settled(outcomes, op, id, answer, from)
<1>1. new = [p \in Callers |->
               IF outcomes[p].op = op /\ outcomes[p].id = id /\ outcomes[p].answer = "pending"
               THEN [outcomes[p] EXCEPT !.answer = answer, !.from = from] ELSE outcomes[p]]
  BY DEF Settled
<1>2. ASSUME NEW c \in CallRecord
      PROVE  LET d == [c EXCEPT !.answer = answer, !.from = from]
             IN  /\ d \in CallRecord
                 /\ d.op = c.op /\ d.id = c.id /\ d.own = c.own /\ d.answer = answer
                 /\ d.from = from
  BY DEF CallRecord
<1>3. \A p \in Callers : outcomes[p] \in CallRecord
  OBVIOUS
<1> HIDE DEF CallRecord, new
<1>4. \A p \in Callers : new[p] \in CallRecord
  BY <1>1, <1>2, <1>3
<1>5. new \in [Callers -> CallRecord]
  BY <1>1, <1>4
<1>6. ASSUME NEW p \in Callers
      PROVE  IF outcomes[p].op = op /\ outcomes[p].id = id /\ outcomes[p].answer = "pending"
             THEN /\ new[p].op = outcomes[p].op /\ new[p].id = outcomes[p].id
                  /\ new[p].own = outcomes[p].own
                  /\ new[p].answer = answer /\ new[p].from = from
             ELSE new[p] = outcomes[p]
  BY <1>1, <1>2, <1>3
<1> QED
  BY <1>5, <1>6 DEF new

(* A request that has its outcome leaves a state. *)
LEMMA ChangedState ==
  ASSUME NEW s \in States, NEW c \in [Callers -> CallRecord]
  PROVE  /\ [s EXCEPT !.connect = 0, !.call = c] \in States
         /\ [s EXCEPT !.getHeaders = 0, !.call = c] \in States
         /\ [s EXCEPT !.getAddr = 0, !.call = c] \in States
         /\ \A id : [s EXCEPT !.pongs = @ \ {id}, !.call = c] \in States
         /\ [s EXCEPT !.connect = 0, !.wasConnected = TRUE, !.pingInterval = TRUE,
                      !.shook = TRUE, !.call = c] \in States
         /\ [s EXCEPT !.verackSent = TRUE] \in States
<1>1. 0 \in 0..MaxCalls
  BY Bounds
<1>2. /\ [s EXCEPT !.connect = 0, !.call = c] \in States
      /\ [s EXCEPT !.getHeaders = 0, !.call = c] \in States
      /\ [s EXCEPT !.getAddr = 0, !.call = c] \in States
  BY <1>1 DEF States
<1>3. \A id : [s EXCEPT !.pongs = @ \ {id}, !.call = c] \in States
  BY DEF States
<1>4. [s EXCEPT !.connect = 0, !.wasConnected = TRUE, !.pingInterval = TRUE,
               !.shook = TRUE, !.call = c] \in States
  BY <1>1 DEF States
<1>5. [s EXCEPT !.verackSent = TRUE] \in States
  BY DEF States
<1> QED
  BY <1>2, <1>3, <1>4, <1>5

(* What a spoilt message does: it fails the request it may be for. *)
LEMMA ErrorCases ==
  ASSUME NEW s \in States, NEW m \in Message
  PROVE  LET t == HandleError(s, m)
         IN  /\ t \in States
             /\ \/ /\ m.command \in {"version", "verack"} /\ s.connect # 0
                   /\ t = [s EXCEPT !.connect = 0,
                            !.call = Settled(s.call, "connect", s.connect, "rejected", 0)]
                \/ /\ m.command = "headers" /\ s.getHeaders # 0
                   /\ t = [s EXCEPT !.getHeaders = 0,
                            !.call = Settled(s.call, "getHeaders", s.getHeaders, "rejected", 0)]
                \/ /\ m.command = "addr" /\ s.getAddr # 0
                   /\ t = [s EXCEPT !.getAddr = 0,
                            !.call = Settled(s.call, "getAddr", s.getAddr, "rejected", 0)]
                \/ /\ t = s
                   /\ m.command = "headers" => s.getHeaders = 0
<1>1. s.call \in [Callers -> CallRecord]
  BY DEF States
<1>2. \A op, id : Settled(s.call, op, id, "rejected", 0) \in [Callers -> CallRecord]
  BY <1>1, SettledCalls
<1>3. 0 \in 0..MaxCalls
  BY Bounds
<1>4. CASE m.command \in {"version", "verack"} /\ s.connect # 0
  <2>1. HandleError(s, m) = [s EXCEPT !.connect = 0,
                               !.call = Settled(s.call, "connect", s.connect, "rejected", 0)]
    BY <1>4 DEF HandleError
  <2>2. [s EXCEPT !.connect = 0, !.call = Settled(s.call, "connect", s.connect, "rejected", 0)]
          \in States
    BY <1>2, ChangedState
  <2> QED
    BY <1>4, <2>1, <2>2, Zenon
<1>5. CASE m.command = "headers" /\ s.getHeaders # 0
  <2>1. HandleError(s, m) = [s EXCEPT !.getHeaders = 0,
                               !.call = Settled(s.call, "getHeaders", s.getHeaders, "rejected", 0)]
    BY <1>5 DEF HandleError
  <2>2. [s EXCEPT !.getHeaders = 0,
                  !.call = Settled(s.call, "getHeaders", s.getHeaders, "rejected", 0)]
          \in States
    BY <1>2, ChangedState
  <2> QED
    BY <1>5, <2>1, <2>2, Zenon
<1>6. CASE m.command = "addr" /\ s.getAddr # 0
  <2>1. HandleError(s, m) = [s EXCEPT !.getAddr = 0,
                               !.call = Settled(s.call, "getAddr", s.getAddr, "rejected", 0)]
    BY <1>6 DEF HandleError
  <2>2. [s EXCEPT !.getAddr = 0, !.call = Settled(s.call, "getAddr", s.getAddr, "rejected", 0)]
          \in States
    BY <1>2, ChangedState
  <2> QED
    BY <1>6, <2>1, <2>2, Zenon
<1>7. CASE ~ (m.command \in {"version", "verack"} /\ s.connect # 0)
           /\ ~ (m.command = "headers" /\ s.getHeaders # 0)
           /\ ~ (m.command = "addr" /\ s.getAddr # 0)
  <2>1. HandleError(s, m) = s
    BY <1>7 DEF HandleError
  <2> QED
    BY <1>7, <2>1
<1> QED
  BY <1>4, <1>5, <1>6, <1>7

(* What a sound message does: it answers the request it may be for. *)
LEMMA MessageCases ==
  ASSUME NEW s \in States, NEW m \in Message
  PROVE  LET t == _handleMessage(s, m)
         IN  /\ t \in States
             /\ \/ /\ m.command = "version" /\ s.connect # 0
                   /\ t = [s EXCEPT !.verackSent = TRUE]
                \/ /\ m.command = "verack" /\ s.connect # 0
                   /\ t = [s EXCEPT !.connect = 0, !.wasConnected = TRUE, !.pingInterval = TRUE,
                                    !.shook = TRUE,
                            !.call = Settled(s.call, "connect", s.connect, "resolved", 0)]
                \/ /\ m.command = "pong" /\ m.to \in s.pongs
                   /\ t = [s EXCEPT !.pongs = @ \ {m.to},
                            !.call = Settled(s.call, "ping", m.to, "resolved", m.to)]
                \/ /\ m.command = "headers" /\ s.getHeaders # 0
                   /\ t = [s EXCEPT !.getHeaders = 0,
                            !.call = Settled(s.call, "getHeaders", s.getHeaders, "resolved", m.to)]
                \/ /\ m.command = "addr" /\ s.getAddr # 0
                   /\ t = [s EXCEPT !.getAddr = 0,
                            !.call = Settled(s.call, "getAddr", s.getAddr, "resolved", 0)]
                \/ /\ t = s
                   /\ m.command = "headers" => s.getHeaders = 0
<1>1. s.call \in [Callers -> CallRecord] /\ m.to \in Nat
  BY DEF States, Message
<1>2. \A op, id : \A from \in Nat :
        Settled(s.call, op, id, "resolved", from) \in [Callers -> CallRecord]
  BY <1>1, SettledCalls
<1>3. CASE m.command = "version" /\ ~ s.verackSent /\ s.connect # 0
  <2>1. _handleMessage(s, m) = [s EXCEPT !.verackSent = TRUE]
    BY <1>3 DEF _handleMessage
  <2>2. [s EXCEPT !.verackSent = TRUE] \in States
    BY <1>2, ChangedState
  <2> QED
    BY <1>3, <2>1, <2>2, Zenon
<1>4. CASE m.command = "verack" /\ s.verackSent /\ s.connect # 0
  <2> DEFINE c == Settled(s.call, "connect", s.connect, "resolved", 0)
             t == [s EXCEPT !.connect = 0, !.wasConnected = TRUE, !.pingInterval = TRUE,
                            !.shook = TRUE, !.call = c]
  <2>1. _handleMessage(s, m) = t
    BY <1>4 DEF _handleMessage
  <2>2. c \in [Callers -> CallRecord]
    BY <1>2
  <2>3. t \in States
    BY <2>2, ChangedState
  <2> QED
    BY <1>4, <2>1, <2>3, Zenon
<1>5. CASE m.command = "pong" /\ m.to \in s.pongs
  <2> DEFINE c == Settled(s.call, "ping", m.to, "resolved", m.to)
             t == [s EXCEPT !.pongs = @ \ {m.to}, !.call = c]
  <2>1. _handleMessage(s, m) = t
    BY <1>5 DEF _handleMessage
  <2>2. c \in [Callers -> CallRecord]
    BY <1>1, <1>2
  <2>3. t \in States
    BY <2>2, ChangedState
  <2> QED
    BY <1>5, <2>1, <2>3, Zenon
<1>6. CASE m.command = "headers" /\ s.getHeaders # 0
  <2> DEFINE c == Settled(s.call, "getHeaders", s.getHeaders, "resolved", m.to)
             t == [s EXCEPT !.getHeaders = 0, !.call = c]
  <2>1. _handleMessage(s, m) = t
    BY <1>6 DEF _handleMessage
  <2>2. c \in [Callers -> CallRecord]
    BY <1>1, <1>2
  <2>3. t \in States
    BY <2>2, ChangedState
  <2> QED
    BY <1>6, <2>1, <2>3, Zenon
<1>7. CASE m.command = "addr" /\ s.getAddr # 0
  <2> DEFINE c == Settled(s.call, "getAddr", s.getAddr, "resolved", 0)
             t == [s EXCEPT !.getAddr = 0, !.call = c]
  <2>1. _handleMessage(s, m) = t
    BY <1>7 DEF _handleMessage
  <2>2. c \in [Callers -> CallRecord]
    BY <1>2
  <2>3. t \in States
    BY <2>2, ChangedState
  <2> QED
    BY <1>7, <2>1, <2>3, Zenon
<1>8. CASE /\ ~ (m.command = "version" /\ ~ s.verackSent /\ s.connect # 0)
           /\ ~ (m.command = "verack" /\ s.verackSent /\ s.connect # 0)
           /\ ~ (m.command = "pong" /\ m.to \in s.pongs)
           /\ ~ (m.command = "headers" /\ s.getHeaders # 0)
           /\ ~ (m.command = "addr" /\ s.getAddr # 0)
  <2>1. _handleMessage(s, m) = s
    BY <1>8 DEF _handleMessage
  <2> QED
    BY <1>8, <2>1
<1> QED
  BY <1>3, <1>4, <1>5, <1>6, <1>7, <1>8

(* The errors are dealt with one after another, ... *)
LEMMA ErrorsInOrder ==
  ASSUME NEW s \in States, NEW seq \in Seq(Message)
  PROVE  \E r : /\ r[0] = s /\ FoldLeft(HandleError, s, seq) = r[Len(seq)]
                /\ \A i \in 1..Len(seq) : r[i] = HandleError(r[i - 1], seq[i])
<1> DEFINE step == [x \in States \X Message |-> HandleError(x[1], x[2])]
           IsValue(f) == f = [S \in SUBSET DOMAIN seq |->
                                IF S = {} THEN s ELSE HandleError(f[S \ {Max(S)}], seq[Max(S)])]
<1>1. step \in [States \X Message -> States]
        /\ \A t \in States, m \in Message : step[<<t, m>>] = HandleError(t, m)
  BY ErrorCases
<1> HIDE DEF step
<1>2. PICK f \in [SUBSET DOMAIN seq -> States] : IsFold(f, seq, s, step)
  BY <1>1, FoldExists
<1>3. IsValue(f)
  <2> SUFFICES ASSUME NEW S \in SUBSET DOMAIN seq
               PROVE  f[S] = IF S = {} THEN s ELSE HandleError(f[S \ {Max(S)}], seq[Max(S)])
    BY <1>2
  <2>1. CASE S = {}
    BY <1>2, <2>1 DEF IsFold
  <2>2. CASE S # {}
    <3>1. Max(S) \in DOMAIN seq
      BY <2>2, LastPosition
    <3>2. f[S \ {Max(S)}] \in States /\ seq[Max(S)] \in Message
      BY <1>2, <3>1
    <3> QED
      BY <1>1, <1>2, <2>2, <3>2 DEF IsFold
  <2> QED
    BY <2>1, <2>2
<1> DEFINE g == CHOOSE f_ : IsValue(f_)
<1>4. IsValue(g)
  <2> HIDE DEF IsValue
  <2> QED
    BY <1>3
<1>5. FoldLeft(HandleError, s, seq) = g[DOMAIN seq]
  BY DEF FoldLeft, MapThenFoldSet
<1> HIDE DEF g
<1> DEFINE r == [i \in 0..Len(seq) |-> g[1..i]]
<1>6. \A S \in SUBSET DOMAIN seq :
        g[S] = IF S = {} THEN s ELSE HandleError(g[S \ {Max(S)}], seq[Max(S)])
  BY <1>4
<1>7. r[0] = s
  <2>1. 1..0 = {} /\ {} \in SUBSET DOMAIN seq /\ Len(seq) \in Nat
    BY PositionsUpTo
  <2>2. g[{}] = s
    BY <1>6, <2>1
  <2>3. r[0] = g[1..0]
    BY <2>1
  <2> QED
    BY <2>1, <2>2, <2>3
<1>8. ASSUME NEW i \in 1..Len(seq)
      PROVE  r[i] = HandleError(r[i - 1], seq[i])
  <2>1. /\ 1..i \in SUBSET DOMAIN seq /\ 1..i # {}
        /\ Max(1..i) = i /\ (1..i) \ {i} = 1..(i - 1)
    BY PositionsUpTo
  <2>2. g[1..i] = HandleError(g[1..(i - 1)], seq[i])
    BY <1>6, <2>1
  <2> QED
    BY <2>2
<1>9. r[Len(seq)] = g[DOMAIN seq]
  BY PositionsUpTo
<1> HIDE DEF r
<1> QED
  BY <1>5, <1>7, <1>8, <1>9

(* ... and then the messages. *)
LEMMA MessagesInOrder ==
  ASSUME NEW s \in States, NEW seq \in Seq(Message)
  PROVE  \E r : /\ r[0] = s /\ FoldLeft(_handleMessage, s, seq) = r[Len(seq)]
                /\ \A i \in 1..Len(seq) : r[i] = _handleMessage(r[i - 1], seq[i])
<1> DEFINE step == [x \in States \X Message |-> _handleMessage(x[1], x[2])]
           IsValue(f) == f = [S \in SUBSET DOMAIN seq |->
                                IF S = {} THEN s ELSE _handleMessage(f[S \ {Max(S)}], seq[Max(S)])]
<1>1. step \in [States \X Message -> States]
        /\ \A t \in States, m \in Message : step[<<t, m>>] = _handleMessage(t, m)
  BY MessageCases
<1> HIDE DEF step
<1>2. PICK f \in [SUBSET DOMAIN seq -> States] : IsFold(f, seq, s, step)
  BY <1>1, FoldExists
<1>3. IsValue(f)
  <2> SUFFICES ASSUME NEW S \in SUBSET DOMAIN seq
               PROVE  f[S] = IF S = {} THEN s ELSE _handleMessage(f[S \ {Max(S)}], seq[Max(S)])
    BY <1>2
  <2>1. CASE S = {}
    BY <1>2, <2>1 DEF IsFold
  <2>2. CASE S # {}
    <3>1. Max(S) \in DOMAIN seq
      BY <2>2, LastPosition
    <3>2. f[S \ {Max(S)}] \in States /\ seq[Max(S)] \in Message
      BY <1>2, <3>1
    <3> QED
      BY <1>1, <1>2, <2>2, <3>2 DEF IsFold
  <2> QED
    BY <2>1, <2>2
<1> DEFINE g == CHOOSE f_ : IsValue(f_)
<1>4. IsValue(g)
  <2> HIDE DEF IsValue
  <2> QED
    BY <1>3
<1>5. FoldLeft(_handleMessage, s, seq) = g[DOMAIN seq]
  BY DEF FoldLeft, MapThenFoldSet
<1> HIDE DEF g
<1> DEFINE r == [i \in 0..Len(seq) |-> g[1..i]]
<1>6. \A S \in SUBSET DOMAIN seq :
        g[S] = IF S = {} THEN s ELSE _handleMessage(g[S \ {Max(S)}], seq[Max(S)])
  BY <1>4
<1>7. r[0] = s
  <2>1. 1..0 = {} /\ {} \in SUBSET DOMAIN seq /\ Len(seq) \in Nat
    BY PositionsUpTo
  <2>2. g[{}] = s
    BY <1>6, <2>1
  <2>3. r[0] = g[1..0]
    BY <2>1
  <2> QED
    BY <2>1, <2>2, <2>3
<1>8. ASSUME NEW i \in 1..Len(seq)
      PROVE  r[i] = _handleMessage(r[i - 1], seq[i])
  <2>1. /\ 1..i \in SUBSET DOMAIN seq /\ 1..i # {}
        /\ Max(1..i) = i /\ (1..i) \ {i} = 1..(i - 1)
    BY PositionsUpTo
  <2>2. g[1..i] = _handleMessage(g[1..(i - 1)], seq[i])
    BY <1>6, <2>1
  <2> QED
    BY <2>2
<1>9. r[Len(seq)] = g[DOMAIN seq]
  BY PositionsUpTo
<1> HIDE DEF r
<1> QED
  BY <1>5, <1>7, <1>8, <1>9

(* A getheaders was aborted, whose answer may still be on its way. *)
HeadersAborted == \E q \in aborted : call[q].op = "getHeaders"

(* The outcome of a call is that of its own request, but for getHeaders    *)
(* after one was aborted.                                                  *)
IsAnswered(c) ==
  c.answer = "resolved" /\ c.op \in {"ping", "getHeaders"} =>
    \/ c.from = c.id
    \/ c.op = "getHeaders" /\ \E q \in aborted : call[q].op = "getHeaders" /\ call[q].id < c.id

(* Calls as they may be while a chunk of data is dealt with. *)
CallsFit(s) ==
  \A p \in Callers :
    /\ s.call[p].op = call[p].op /\ s.call[p].id = call[p].id /\ s.call[p].own = call[p].own
    /\ s.call[p].answer = "pending" => call[p].answer = "pending"
    /\ WaitsFor(s.call[p], s.connect, s.pongs, s.getHeaders, s.getAddr)
    /\ IsAnswered(s.call[p])

(* A request that is settled is pending no longer, and nobody waits for it. *)
LEMMA SettlingFits ==
  ASSUME NEW s, NEW t, CallsFit(s), s.call \in [Callers -> CallRecord],
         NEW op, NEW id, NEW answer \in {"rejected", "resolved"}, NEW from \in Nat,
         t.call = Settled(s.call, op, id, answer, from),
         t.connect = s.connect \/ (op = "connect" /\ id = s.connect),
         t.pongs = s.pongs \/ (op = "ping" /\ t.pongs = s.pongs \ {id}),
         t.getHeaders = s.getHeaders \/ (op = "getHeaders" /\ id = s.getHeaders),
         t.getAddr = s.getAddr \/ (op = "getAddr" /\ id = s.getAddr),
         answer = "resolved" /\ op \in {"ping", "getHeaders"} =>
           \A p \in Callers :
             call[p].op = op /\ call[p].id = id /\ call[p].answer = "pending" =>
               \/ from = id
               \/ /\ op = "getHeaders"
                  /\ \E q \in aborted : call[q].op = "getHeaders" /\ call[q].id < id
  PROVE  CallsFit(t)
<1> DEFINE outcomes == s.call
           new == t.call
<1>1. \A p \in Callers :
        IF outcomes[p].op = op /\ outcomes[p].id = id /\ outcomes[p].answer = "pending"
        THEN /\ new[p].op = outcomes[p].op /\ new[p].id = outcomes[p].id
             /\ new[p].own = outcomes[p].own /\ new[p].answer = answer /\ new[p].from = from
        ELSE new[p] = outcomes[p]
  <2> DEFINE old == s.call
  <2>1. old \in [Callers -> CallRecord] /\ new = Settled(old, op, id, answer, from)
    OBVIOUS
  <2> HIDE DEF new, old
  <2>2. \A p \in Callers :
          IF old[p].op = op /\ old[p].id = id /\ old[p].answer = "pending"
          THEN /\ new[p].op = old[p].op /\ new[p].id = old[p].id
               /\ new[p].own = old[p].own /\ new[p].answer = answer /\ new[p].from = from
          ELSE new[p] = old[p]
    BY <2>1, SettledCalls
  <2> QED
    BY <2>2 DEF old
<1> HIDE DEF new, outcomes
<1> SUFFICES ASSUME NEW p \in Callers
             PROVE  /\ new[p].op = call[p].op /\ new[p].id = call[p].id /\ new[p].own = call[p].own
                    /\ new[p].answer = "pending" => call[p].answer = "pending"
                    /\ WaitsFor(new[p], t.connect, t.pongs, t.getHeaders, t.getAddr)
                    /\ IsAnswered(new[p])
  BY DEF CallsFit, new
<1>2. /\ outcomes[p].op = call[p].op /\ outcomes[p].id = call[p].id
      /\ outcomes[p].own = call[p].own
      /\ outcomes[p].answer = "pending" => call[p].answer = "pending"
      /\ WaitsFor(outcomes[p], s.connect, s.pongs, s.getHeaders, s.getAddr)
      /\ IsAnswered(outcomes[p])
  BY DEF CallsFit, outcomes
<1>3. CASE outcomes[p].op = op /\ outcomes[p].id = id /\ outcomes[p].answer = "pending"
  <2>1. /\ new[p].op = op /\ new[p].id = id /\ new[p].own = outcomes[p].own
        /\ new[p].answer = answer /\ new[p].from = from
    BY <1>1, <1>3
  <2>2. IsAnswered(new[p])
    BY <1>2, <1>3, <2>1 DEF IsAnswered
  <2>3. WaitsFor(new[p], t.connect, t.pongs, t.getHeaders, t.getAddr)
    BY <2>1 DEF WaitsFor
  <2> QED
    BY <1>2, <1>3, <2>1, <2>2, <2>3
<1>4. CASE ~ (outcomes[p].op = op /\ outcomes[p].id = id /\ outcomes[p].answer = "pending")
  <2>1. new[p] = outcomes[p]
    BY <1>1, <1>4
  <2>2. WaitsFor(outcomes[p], t.connect, t.pongs, t.getHeaders, t.getAddr)
    BY <1>2, <1>4 DEF WaitsFor
  <2> QED
    BY <1>2, <2>1, <2>2
<1> QED
  BY <1>3, <1>4

(* A state on the way from the one in which a chunk arrives. *)
HandledInv(s) ==
  /\ s \in States
  /\ s.connect \in {0, pendingConnect} /\ s.pongs \subseteq pendingPongs
  /\ s.getHeaders \in {0, pendingGetHeaders} /\ s.getAddr \in {0, pendingGetAddr}
  /\ CallsFit(s)
  /\ s.connect = 0 => s.shook \/ handshakeSpoilt
  /\ s.wasConnected <=> s.shook
  /\ s.connect # 0 => ~ s.shook

(* It has what else it needs to have, if no request comes up and the       *)
(* handshake is as it was, or was spoilt.                                  *)
LEMMA StillHandled ==
  ASSUME NEW s, HandledInv(s), NEW t \in States, CallsFit(t),
         t.connect \in {0, s.connect}, t.pongs \subseteq s.pongs,
         t.getHeaders \in {0, s.getHeaders}, t.getAddr \in {0, s.getAddr},
         t.shook = s.shook, t.wasConnected = s.wasConnected,
         t.connect = s.connect \/ handshakeSpoilt
  PROVE  HandledInv(t)
BY DEF HandledInv

(* An error leads on to another. *)
LEMMA ErrorKeeps ==
  ASSUME NEW s, HandledInv(s), NEW m \in Message,
         m.command \in {"version", "verack"} => handshakeSpoilt
  PROVE  /\ HandledInv(HandleError(s, m))
         /\ m.command # "headers" => HandleError(s, m).getHeaders = s.getHeaders
<1> DEFINE t == HandleError(s, m)
<1>1. s \in States /\ s.call \in [Callers -> CallRecord] /\ CallsFit(s)
  BY DEF HandledInv, States
<1>2. /\ t \in States
      /\ \/ /\ m.command \in {"version", "verack"} /\ s.connect # 0
            /\ t = [s EXCEPT !.connect = 0,
                             !.call = Settled(s.call, "connect", s.connect, "rejected", 0)]
         \/ /\ m.command = "headers" /\ s.getHeaders # 0
            /\ t = [s EXCEPT !.getHeaders = 0,
                             !.call = Settled(s.call, "getHeaders", s.getHeaders, "rejected", 0)]
         \/ /\ m.command = "addr" /\ s.getAddr # 0
            /\ t = [s EXCEPT !.getAddr = 0,
                             !.call = Settled(s.call, "getAddr", s.getAddr, "rejected", 0)]
         \/ t = s
  BY <1>1, ErrorCases
<1> SUFFICES HandledInv(t) /\ (m.command # "headers" => t.getHeaders = s.getHeaders)
  OBVIOUS
<1> HIDE DEF t
<1>3. CASE /\ m.command \in {"version", "verack"} /\ s.connect # 0
           /\ t = [s EXCEPT !.connect = 0,
                            !.call = Settled(s.call, "connect", s.connect, "rejected", 0)]
  <2>1. /\ t.connect = 0 /\ t.call = Settled(s.call, "connect", s.connect, "rejected", 0)
        /\ t.pongs = s.pongs /\ t.getHeaders = s.getHeaders /\ t.getAddr = s.getAddr
        /\ t.shook = s.shook /\ t.wasConnected = s.wasConnected
    BY <1>1, <1>3 DEF States
  <2>2. CallsFit(t)
    BY <1>1, <2>1, SettlingFits
  <2> QED
    BY <1>2, <1>3, <2>1, <2>2, StillHandled
<1>4. CASE /\ m.command = "headers" /\ s.getHeaders # 0
           /\ t = [s EXCEPT !.getHeaders = 0,
                            !.call = Settled(s.call, "getHeaders", s.getHeaders, "rejected", 0)]
  <2>1. /\ t.getHeaders = 0 /\ t.call = Settled(s.call, "getHeaders", s.getHeaders, "rejected", 0)
        /\ t.pongs = s.pongs /\ t.connect = s.connect /\ t.getAddr = s.getAddr
        /\ t.shook = s.shook /\ t.wasConnected = s.wasConnected
    BY <1>1, <1>4 DEF States
  <2>2. CallsFit(t)
    BY <1>1, <2>1, SettlingFits
  <2> QED
    BY <1>2, <1>4, <2>1, <2>2, StillHandled
<1>5. CASE /\ m.command = "addr" /\ s.getAddr # 0
           /\ t = [s EXCEPT !.getAddr = 0,
                            !.call = Settled(s.call, "getAddr", s.getAddr, "rejected", 0)]
  <2>1. /\ t.getAddr = 0 /\ t.call = Settled(s.call, "getAddr", s.getAddr, "rejected", 0)
        /\ t.pongs = s.pongs /\ t.connect = s.connect /\ t.getHeaders = s.getHeaders
        /\ t.shook = s.shook /\ t.wasConnected = s.wasConnected
    BY <1>1, <1>5 DEF States
  <2>2. CallsFit(t)
    BY <1>1, <2>1, SettlingFits
  <2> QED
    BY <1>2, <1>5, <2>1, <2>2, StillHandled
<1> QED
  BY <1>2, <1>3, <1>4, <1>5

(* An answer of getHeaders that is aborted has been asked for earlier. *)
LEMMA EarlierAborted ==
  ASSUME GetHeadersInv, aborted \subseteq Caller, HeadersAborted, call \in [Callers -> CallRecord],
         NEW p \in Callers, call[p].op = "getHeaders", call[p].answer = "pending"
  PROVE  \E q \in aborted : call[q].op = "getHeaders" /\ call[q].id < call[p].id
<1>1. PICK q \in aborted : call[q].op = "getHeaders"
  BY DEF HeadersAborted
<1>2. q \in Callers /\ q # p
  BY <1>1 DEF Callers, GetHeadersInv
<1>3. call[q].id <= call[p].id /\ call[q].id # call[p].id
  BY <1>1, <1>2 DEF GetHeadersInv
<1>4. call[q].id \in Int /\ call[p].id \in Int
  BY <1>2 DEF CallRecord
<1> QED
  BY <1>1, <1>3, <1>4

(* A message does, too. *)
LEMMA MessageKeeps ==
  ASSUME GetHeadersInv, aborted \subseteq Caller, call \in [Callers -> CallRecord],
         NEW s, HandledInv(s), NEW m \in Message,
         m.command = "headers" /\ ~ HeadersAborted => m.to = pendingGetHeaders
  PROVE  /\ HandledInv(_handleMessage(s, m))
         /\ m.command # "headers" => _handleMessage(s, m).getHeaders = s.getHeaders
<1> DEFINE t == _handleMessage(s, m)
<1>1. /\ s \in States /\ s.call \in [Callers -> CallRecord] /\ CallsFit(s)
      /\ m.to \in Nat
  BY DEF HandledInv, States, Message
<1>2. /\ t \in States
      /\ \/ /\ m.command = "version" /\ s.connect # 0
            /\ t = [s EXCEPT !.verackSent = TRUE]
         \/ /\ m.command = "verack" /\ s.connect # 0
            /\ t = [s EXCEPT !.connect = 0, !.wasConnected = TRUE, !.pingInterval = TRUE,
                             !.shook = TRUE,
                             !.call = Settled(s.call, "connect", s.connect, "resolved", 0)]
         \/ /\ m.command = "pong" /\ m.to \in s.pongs
            /\ t = [s EXCEPT !.pongs = @ \ {m.to},
                             !.call = Settled(s.call, "ping", m.to, "resolved", m.to)]
         \/ /\ m.command = "headers" /\ s.getHeaders # 0
            /\ t = [s EXCEPT !.getHeaders = 0,
                             !.call = Settled(s.call, "getHeaders", s.getHeaders, "resolved", m.to)]
         \/ /\ m.command = "addr" /\ s.getAddr # 0
            /\ t = [s EXCEPT !.getAddr = 0,
                             !.call = Settled(s.call, "getAddr", s.getAddr, "resolved", 0)]
         \/ t = s
  BY <1>1, MessageCases
<1> SUFFICES HandledInv(t) /\ (m.command # "headers" => t.getHeaders = s.getHeaders)
  OBVIOUS
<1> HIDE DEF t
<1>3. CASE /\ m.command = "version" /\ s.connect # 0
           /\ t = [s EXCEPT !.verackSent = TRUE]
  <2>1. /\ t.connect = s.connect /\ t.call = s.call
        /\ t.pongs = s.pongs /\ t.getHeaders = s.getHeaders /\ t.getAddr = s.getAddr
        /\ t.shook = s.shook /\ t.wasConnected = s.wasConnected
    BY <1>1, <1>3 DEF States
  <2>2. CallsFit(t)
    BY <1>1, <2>1 DEF CallsFit
  <2> QED
    BY <1>2, <1>3, <2>1, <2>2, StillHandled
<1>4. CASE /\ m.command = "verack" /\ s.connect # 0
           /\ t = [s EXCEPT !.connect = 0, !.wasConnected = TRUE, !.pingInterval = TRUE,
                            !.shook = TRUE,
                            !.call = Settled(s.call, "connect", s.connect, "resolved", 0)]
  <2>1. /\ t.connect = 0 /\ t.call = Settled(s.call, "connect", s.connect, "resolved", 0)
        /\ t.pongs = s.pongs /\ t.getHeaders = s.getHeaders /\ t.getAddr = s.getAddr
        /\ t.shook = TRUE /\ t.wasConnected = TRUE
    BY <1>1, <1>4 DEF States
  <2>2. CallsFit(t)
    BY <1>1, <2>1, SettlingFits
  <2>3. HandledInv(t)
    BY <1>2, <1>4, <2>1, <2>2 DEF HandledInv
  <2> QED
    BY <1>4, <2>1, <2>3
<1>5. CASE /\ m.command = "pong" /\ m.to \in s.pongs
           /\ t = [s EXCEPT !.pongs = @ \ {m.to},
                            !.call = Settled(s.call, "ping", m.to, "resolved", m.to)]
  <2>1. /\ t.pongs = s.pongs \ {m.to} /\ t.call = Settled(s.call, "ping", m.to, "resolved", m.to)
        /\ t.connect = s.connect /\ t.getHeaders = s.getHeaders /\ t.getAddr = s.getAddr
        /\ t.shook = s.shook /\ t.wasConnected = s.wasConnected
    BY <1>1, <1>5 DEF States
  <2>2. CallsFit(t)
    BY <1>1, <2>1, SettlingFits
  <2> QED
    BY <1>2, <1>5, <2>1, <2>2, StillHandled
<1>6. CASE /\ m.command = "headers" /\ s.getHeaders # 0
           /\ t = [s EXCEPT !.getHeaders = 0,
                            !.call = Settled(s.call, "getHeaders", s.getHeaders, "resolved", m.to)]
  <2>1. /\ t.getHeaders = 0
        /\ t.call = Settled(s.call, "getHeaders", s.getHeaders, "resolved", m.to)
        /\ t.pongs = s.pongs /\ t.connect = s.connect /\ t.getAddr = s.getAddr
        /\ t.shook = s.shook /\ t.wasConnected = s.wasConnected
    BY <1>1, <1>6 DEF States
  <2>2. \A p \in Callers :
          call[p].op = "getHeaders" /\ call[p].id = s.getHeaders /\ call[p].answer = "pending" =>
            \/ m.to = s.getHeaders
            \/ \E q \in aborted : call[q].op = "getHeaders" /\ call[q].id < s.getHeaders
    <3>1. CASE HeadersAborted
      BY <3>1, EarlierAborted
    <3>2. CASE ~ HeadersAborted
      BY <1>6, <3>2 DEF HandledInv
    <3> QED
      BY <3>1, <3>2
  <2>3. CallsFit(t)
    BY <1>1, <2>1, <2>2, SettlingFits
  <2> QED
    BY <1>2, <1>6, <2>1, <2>3, StillHandled
<1>7. CASE /\ m.command = "addr" /\ s.getAddr # 0
           /\ t = [s EXCEPT !.getAddr = 0,
                            !.call = Settled(s.call, "getAddr", s.getAddr, "resolved", 0)]
  <2>1. /\ t.getAddr = 0 /\ t.call = Settled(s.call, "getAddr", s.getAddr, "resolved", 0)
        /\ t.pongs = s.pongs /\ t.connect = s.connect /\ t.getHeaders = s.getHeaders
        /\ t.shook = s.shook /\ t.wasConnected = s.wasConnected
    BY <1>1, <1>7 DEF States
  <2>2. CallsFit(t)
    BY <1>1, <2>1, SettlingFits
  <2> QED
    BY <1>2, <1>7, <2>1, <2>2, StillHandled
<1> QED
  BY <1>2, <1>3, <1>4, <1>5, <1>6, <1>7

(* A chunk of data is dealt with: first the errors in it, then the messages. *)
LEMMA ChunkKeeps ==
  ASSUME GetHeadersInv, aborted \subseteq Caller, call \in [Callers -> CallRecord],
         NEW s, HandledInv(s), NEW errors \in Seq(Message), NEW messages \in Seq(Message),
         \A i \in 1..Len(errors) : errors[i].command \in {"version", "verack"} => handshakeSpoilt,
         \A i \in 1..Len(messages) : messages[i].command = "headers" /\ ~ HeadersAborted
                                       => messages[i].to = pendingGetHeaders
  PROVE  LET after == FoldLeft(_handleMessage, FoldLeft(HandleError, s, errors), messages)
         IN  /\ HandledInv(after)
             /\ (/\ \A i \in 1..Len(errors) : errors[i].command # "headers"
                 /\ \A i \in 1..Len(messages) : messages[i].command # "headers")
                  => after.getHeaders = s.getHeaders
<1> DEFINE noErrors == \A i \in 1..Len(errors) : errors[i].command # "headers"
           noMessages == \A i \in 1..Len(messages) : messages[i].command # "headers"
           middle == FoldLeft(HandleError, s, errors)
           after == FoldLeft(_handleMessage, middle, messages)
<1>1. s \in States
  BY DEF HandledInv
<1>2. PICK r : /\ r[0] = s /\ middle = r[Len(errors)]
               /\ \A i \in 1..Len(errors) : r[i] = HandleError(r[i - 1], errors[i])
  BY <1>1, ErrorsInOrder
<1> HIDE DEF middle, noErrors, noMessages
<1>3. HandledInv(middle) /\ (noErrors => middle.getHeaders = s.getHeaders)
  <2> DEFINE Fine(i) == HandledInv(r[i]) /\ (noErrors => r[i].getHeaders = s.getHeaders)
             T == {i \in Nat : i <= Len(errors) => Fine(i)}
  <2>1. 0 \in T
    BY <1>2
  <2>2. ASSUME NEW i \in Nat, i \in T
        PROVE  i + 1 \in T
    <3> SUFFICES ASSUME i + 1 <= Len(errors)
                 PROVE  Fine(i + 1)
      OBVIOUS
    <3>1. /\ i + 1 \in 1..Len(errors) /\ (i + 1) - 1 = i /\ Fine(i)
          /\ errors[i + 1] \in Message
      <4>1. Len(errors) \in Nat /\ i + 1 \in 1..Len(errors) /\ (i + 1) - 1 = i /\ i <= Len(errors)
        OBVIOUS
      <4>2. errors[i + 1] \in Message
        BY <4>1
      <4>3. Fine(i)
        BY <2>2, <4>1
      <4> QED
        BY <4>1, <4>2, <4>3
    <3>2. r[i + 1] = HandleError(r[i], errors[i + 1])
      BY <1>2, <3>1
    <3>3. /\ HandledInv(HandleError(r[i], errors[i + 1]))
          /\ errors[i + 1].command # "headers" =>
               HandleError(r[i], errors[i + 1]).getHeaders = r[i].getHeaders
      BY <3>1, ErrorKeeps
    <3> QED
      BY <3>1, <3>2, <3>3 DEF noErrors
  <2> HIDE DEF T
  <2>3. Nat \subseteq T
    BY <2>1, <2>2, Induction
  <2>4. Len(errors) \in T
    BY <2>3
  <2> QED
    BY <1>2, <2>4 DEF T
<1>4. middle \in States
  BY <1>3 DEF HandledInv
<1>5. PICK t : /\ t[0] = middle /\ after = t[Len(messages)]
               /\ \A i \in 1..Len(messages) : t[i] = _handleMessage(t[i - 1], messages[i])
  BY <1>4, MessagesInOrder
<1> HIDE DEF after
<1>6. HandledInv(after) /\ (noMessages => after.getHeaders = middle.getHeaders)
  <2> DEFINE Fine(i) == HandledInv(t[i]) /\ (noMessages => t[i].getHeaders = middle.getHeaders)
             T == {i \in Nat : i <= Len(messages) => Fine(i)}
  <2>1. 0 \in T
    BY <1>3, <1>5
  <2>2. ASSUME NEW i \in Nat, i \in T
        PROVE  i + 1 \in T
    <3> SUFFICES ASSUME i + 1 <= Len(messages)
                 PROVE  Fine(i + 1)
      OBVIOUS
    <3>1. /\ i + 1 \in 1..Len(messages) /\ (i + 1) - 1 = i /\ Fine(i)
          /\ messages[i + 1] \in Message
      <4>1. /\ Len(messages) \in Nat /\ i + 1 \in 1..Len(messages)
            /\ (i + 1) - 1 = i /\ i <= Len(messages)
        OBVIOUS
      <4>2. messages[i + 1] \in Message
        BY <4>1
      <4>3. Fine(i)
        BY <2>2, <4>1
      <4> QED
        BY <4>1, <4>2, <4>3
    <3>2. t[i + 1] = _handleMessage(t[i], messages[i + 1])
      BY <1>5, <3>1
    <3>3. /\ HandledInv(_handleMessage(t[i], messages[i + 1]))
          /\ messages[i + 1].command # "headers" =>
               _handleMessage(t[i], messages[i + 1]).getHeaders = t[i].getHeaders
      BY <3>1, MessageKeeps
    <3> QED
      BY <3>1, <3>2, <3>3 DEF noMessages
  <2> HIDE DEF T
  <2>3. Nat \subseteq T
    BY <2>1, <2>2, Induction
  <2>4. Len(messages) \in T
    BY <2>3
  <2> QED
    BY <1>5, <2>4 DEF T
<1> QED
  BY <1>3, <1>6 DEF noErrors, noMessages, middle, after

----------------------------------------------------------------------------
(* The messages in a chunk of data *)

(* What a parser gives. *)
Parsed == [messages : Seq(Message), errors : Seq(Message), remaining : Seq(Symbol)]

(* Where a header at i ends its frame. *)
EndOf(b, i) == i + Length(b[i].message)

(* What a symbol adds to what those after its frame give. *)
With(b, i, r) ==
  IF IsSound(SubSeq(b, i, EndOf(b, i)))
  THEN [r EXCEPT !.messages = <<b[i].message>> \o @]
  ELSE [r EXCEPT !.errors = <<b[i].message>> \o @]

(* p is the result of parseMessages from each position on. *)
IsParse(p, b) ==
  \A i \in 1..(Len(b) + 1) :
    p[i] = IF i > Len(b)
           THEN [messages |-> <<>>, errors |-> <<>>, remaining |-> <<>>]
           ELSE IF ~ IsHeader(b[i]) THEN p[i + 1]
           ELSE IF EndOf(b, i) > Len(b)
           THEN [messages |-> <<>>, errors |-> <<>>, remaining |-> SubSeq(b, i, Len(b))]
           ELSE With(b, i, p[EndOf(b, i) + 1])

(* A symbol has a message, of no or of one payload. *)
LEMMA SymbolFacts ==
  ASSUME NEW b \in Seq(Symbol), NEW i \in 1..Len(b)
  PROVE  /\ b[i] \in Symbol /\ b[i].message \in Message /\ Length(b[i].message) \in {0, 1}
         /\ EndOf(b, i) \in {i, i + 1} /\ i \in Nat /\ Len(b) \in Nat
<1>1. b[i] \in Symbol /\ i \in Nat /\ Len(b) \in Nat
  OBVIOUS
<1>2. b[i].message \in Message
  BY <1>1 DEF Symbol
<1>3. Length(b[i].message) \in {0, 1}
  BY DEF Length
<1> QED
  BY <1>1, <1>2, <1>3 DEF EndOf

(* A result with one message more is one. *)
LEMMA WithIsParsed ==
  ASSUME NEW b \in Seq(Symbol), NEW i \in 1..Len(b), NEW r \in Parsed
  PROVE  /\ With(b, i, r) \in Parsed /\ With(b, i, r).remaining = r.remaining
         /\ \/ /\ With(b, i, r).messages = <<b[i].message>> \o r.messages
               /\ With(b, i, r).errors = r.errors
            \/ /\ ~ IsSound(SubSeq(b, i, EndOf(b, i)))
               /\ With(b, i, r).messages = r.messages
               /\ With(b, i, r).errors = <<b[i].message>> \o r.errors
<1> DEFINE m == b[i].message
<1>1. m \in Message
  BY SymbolFacts
<1>2. r.messages \in Seq(Message) /\ r.errors \in Seq(Message) /\ r.remaining \in Seq(Symbol)
  BY DEF Parsed
<1> HIDE DEF m
<1>3. <<m>> \o r.messages \in Seq(Message) /\ <<m>> \o r.errors \in Seq(Message)
  <2>1. <<m>> \in Seq(Message)
    BY <1>1
  <2> QED
    BY <1>2, <2>1
<1>4. /\ [r EXCEPT !.messages = <<m>> \o @] \in Parsed
      /\ [r EXCEPT !.messages = <<m>> \o @].remaining = r.remaining
      /\ [r EXCEPT !.messages = <<m>> \o @].messages = <<m>> \o r.messages
      /\ [r EXCEPT !.messages = <<m>> \o @].errors = r.errors
  BY <1>3 DEF Parsed
<1>5. /\ [r EXCEPT !.errors = <<m>> \o @] \in Parsed
      /\ [r EXCEPT !.errors = <<m>> \o @].remaining = r.remaining
      /\ [r EXCEPT !.errors = <<m>> \o @].messages = r.messages
      /\ [r EXCEPT !.errors = <<m>> \o @].errors = <<m>> \o r.errors
  BY <1>3 DEF Parsed
<1>6. CASE IsSound(SubSeq(b, i, EndOf(b, i)))
  <2>1. With(b, i, r) = [r EXCEPT !.messages = <<m>> \o @]
    BY <1>6 DEF With, m
  <2> QED
    BY <1>4, <2>1 DEF m
<1>7. CASE ~ IsSound(SubSeq(b, i, EndOf(b, i)))
  <2>1. With(b, i, r) = [r EXCEPT !.errors = <<m>> \o @]
    BY <1>7 DEF With, m
  <2> QED
    BY <1>5, <1>7, <2>1 DEF m
<1> QED
  BY <1>6, <1>7

(* parseMessages is what its recursive definition says. *)
LEMMA ParseEquation ==
  ASSUME NEW b \in Seq(Symbol)
  PROVE  \E p : parseMessages(b) = p[1] /\ IsParse(p, b)
<1> DEFINE N == Len(b)
           S == 1..(N + 1)
           next == [i \in S |-> IF i > N THEN 0
                                ELSE IF ~ IsHeader(b[i]) THEN i + 1
                                ELSE IF EndOf(b, i) > N THEN 0 ELSE EndOf(b, i) + 1]
           depth == [i \in S |-> N + 1 - i]
           root == [i \in S |-> [messages |-> <<>>, errors |-> <<>>,
                                 remaining |-> IF i > N THEN <<>> ELSE SubSeq(b, i, N)]]
           step == [x \in S \X Parsed |->
                      IF x[1] > N \/ ~ IsHeader(b[x[1]]) THEN x[2] ELSE With(b, x[1], x[2])]
           Body(p) == [i \in S |->
             IF i > N
             THEN [messages |-> <<>>, errors |-> <<>>, remaining |-> <<>>]
             ELSE IF ~ IsHeader(b[i]) THEN p[i + 1]
             ELSE LET m == b[i].message
                      end == i + Length(m)
                  IN  CASE end > N ->
                             [messages |-> <<>>, errors |-> <<>>, remaining |-> SubSeq(b, i, N)]
                        [] end <= N /\ IsSound(SubSeq(b, i, end)) ->
                             [p[end + 1] EXCEPT !.messages = <<m>> \o @]
                        [] OTHER -> [p[end + 1] EXCEPT !.errors = <<m>> \o @]]
<1>1. N \in Nat /\ S \subseteq Nat /\ 0 \notin S /\ \A i \in S : i <= N => i \in 1..N
  OBVIOUS
<1>2. \A p : \A i \in S : Body(p)[i] =
           IF i > N THEN [messages |-> <<>>, errors |-> <<>>, remaining |-> <<>>]
           ELSE IF ~ IsHeader(b[i]) THEN p[i + 1]
           ELSE IF EndOf(b, i) > N
           THEN [messages |-> <<>>, errors |-> <<>>, remaining |-> SubSeq(b, i, N)]
           ELSE With(b, i, p[EndOf(b, i) + 1])
  <2> SUFFICES ASSUME NEW p, NEW i \in S
               PROVE  Body(p)[i] =
           IF i > N THEN [messages |-> <<>>, errors |-> <<>>, remaining |-> <<>>]
           ELSE IF ~ IsHeader(b[i]) THEN p[i + 1]
           ELSE IF EndOf(b, i) > N
           THEN [messages |-> <<>>, errors |-> <<>>, remaining |-> SubSeq(b, i, N)]
           ELSE With(b, i, p[EndOf(b, i) + 1])
    OBVIOUS
  <2>1. CASE i > N
    BY <2>1
  <2>2. CASE i <= N
    <3>1. EndOf(b, i) \in Nat
      BY <1>1, <2>2, SymbolFacts
    <3> QED
      BY <1>1, <2>2, <3>1 DEF EndOf, With
  <2> QED
    BY <1>1, <2>1, <2>2
<1>3. IsRanking(depth, next, S)
  <2>1. depth \in [S -> Nat]
    BY <1>1
  <2>2. ASSUME NEW i \in S, next[i] \in S
        PROVE  depth[next[i]] < depth[i]
    <3>1. i <= N
      BY <1>1, <2>2
    <3>2. next[i] > i
      BY <1>1, <2>2, <3>1, SymbolFacts
    <3> QED
      BY <1>1, <2>2, <3>2
  <2> QED
    BY <2>1, <2>2 DEF IsRanking
<1>4. root \in [S -> Parsed]
  <2>1. ASSUME NEW i \in S
        PROVE  (IF i > N THEN <<>> ELSE SubSeq(b, i, N)) \in Seq(Symbol)
    <3>1. <<>> \in Seq(Symbol)
      OBVIOUS
    <3>2. CASE i <= N
      BY <1>1, <3>2
    <3> QED
      BY <1>1, <3>1, <3>2
  <2>2. <<>> \in Seq(Message)
    OBVIOUS
  <2> QED
    BY <2>1, <2>2 DEF Parsed
<1>5. step \in [S \X Parsed -> Parsed]
  <2>1. ASSUME NEW i \in S, NEW r \in Parsed
        PROVE  (IF i > N \/ ~ IsHeader(b[i]) THEN r ELSE With(b, i, r)) \in Parsed
    <3>1. CASE i > N \/ ~ IsHeader(b[i])
      BY <3>1
    <3>2. CASE ~ (i > N \/ ~ IsHeader(b[i]))
      <4>1. i \in 1..Len(b)
        BY <1>1, <3>2
      <4>2. With(b, i, r) \in Parsed
        BY <4>1, WithIsParsed
      <4> QED
        BY <3>2, <4>2
    <3> QED
      BY <3>1, <3>2
  <2> QED
    BY <2>1
<1>6. \A i \in S : next[i] = IF i > N THEN 0
                             ELSE IF ~ IsHeader(b[i]) THEN i + 1
                             ELSE IF EndOf(b, i) > N THEN 0 ELSE EndOf(b, i) + 1
  OBVIOUS
<1>7. \A i \in S : root[i] = [messages |-> <<>>, errors |-> <<>>,
                              remaining |-> IF i > N THEN <<>> ELSE SubSeq(b, i, N)]
  OBVIOUS
<1>8. \A i \in S, r \in Parsed :
        step[<<i, r>>] = IF i > N \/ ~ IsHeader(b[i]) THEN r ELSE With(b, i, r)
  OBVIOUS
<1> HIDE DEF next, depth, root, step, Body
<1>9. PICK f \in [S -> Parsed] : IsRecursive(f, S, next, root, step)
  <2> HIDE DEF S, N
  <2> QED
    BY <1>3, <1>4, <1>5, RecursionOnParents
<1>10. \A i \in S : f[i] = Body(f)[i]
  <2> SUFFICES ASSUME NEW i \in S
               PROVE  f[i] = Body(f)[i]
    OBVIOUS
  <2>0. Body(f)[i] =
           IF i > N THEN [messages |-> <<>>, errors |-> <<>>, remaining |-> <<>>]
           ELSE IF ~ IsHeader(b[i]) THEN f[i + 1]
           ELSE IF EndOf(b, i) > N
           THEN [messages |-> <<>>, errors |-> <<>>, remaining |-> SubSeq(b, i, N)]
           ELSE With(b, i, f[EndOf(b, i) + 1])
    BY <1>2
  <2>1. f[i] = IF next[i] \in S THEN step[<<i, f[next[i]]>>] ELSE root[i]
    BY <1>9 DEF IsRecursive
  <2>2. CASE i > N
    BY <1>1, <1>2, <1>6, <1>7, <2>1, <2>2
  <2>3. CASE i <= N /\ ~ IsHeader(b[i])
    <3>1. next[i] = i + 1 /\ i + 1 \in S
      BY <1>1, <1>6, <2>3
    <3>2. f[i + 1] \in Parsed
      BY <3>1
    <3>3. step[<<i, f[i + 1]>>] = f[i + 1]
      BY <1>8, <2>3, <3>2
    <3>4. Body(f)[i] = f[i + 1]
      BY <1>1, <2>0, <2>3
    <3> QED
      BY <2>1, <3>1, <3>3, <3>4
  <2>4. CASE i <= N /\ IsHeader(b[i]) /\ EndOf(b, i) > N
    BY <1>1, <1>2, <1>6, <1>7, <2>1, <2>4
  <2>5. CASE i <= N /\ IsHeader(b[i]) /\ ~ (EndOf(b, i) > N)
    <3>1. EndOf(b, i) \in Nat /\ EndOf(b, i) + 1 \in S
      BY <1>1, <2>5, SymbolFacts
    <3>2. next[i] = EndOf(b, i) + 1
      BY <1>1, <1>6, <2>5
    <3>3. f[next[i]] \in Parsed
      BY <3>1, <3>2
    <3>4. step[<<i, f[next[i]]>>] = With(b, i, f[next[i]])
      BY <1>1, <1>8, <2>5, <3>3
    <3>5. Body(f)[i] = With(b, i, f[EndOf(b, i) + 1])
      BY <1>1, <2>0, <2>5
    <3> QED
      BY <2>1, <3>1, <3>2, <3>4, <3>5
  <2> QED
    BY <1>1, <2>2, <2>3, <2>4, <2>5
<1> DEFINE parse == CHOOSE p : p = Body(p)
<1>11. f = Body(f)
  BY <1>10 DEF Body
<1>12. parse = Body(parse)
  BY <1>11
<1>13. parseMessages(b) = parse[1]
  BY DEF parseMessages, Body
<1> HIDE DEF parse
<1>14. \A i \in S : parse[i] = Body(parse)[i]
  BY <1>12
<1>15. IsParse(parse, b)
  BY <1>2, <1>14 DEF IsParse
<1> QED
  BY <1>13, <1>15

(* What is dealt with of a chunk: all but a header at its end that waits   *)
(* for its payload.                                                        *)
Handled(b) == IF Len(b) > 0 /\ IsOpenAt(b, Len(b)) THEN Len(b) - 1 ELSE Len(b)

(* A whole frame in a sequence that comes in frames is as buildMessage     *)
(* made it.                                                                *)
LEMMA WholeFrame ==
  ASSUME NEW b \in Seq(Symbol), IsFramed(b), NEW i \in 1..Len(b), IsHeader(b[i]),
         EndOf(b, i) <= Len(b)
  PROVE  /\ SubSeq(b, i, EndOf(b, i)) = buildMessage(b[i].message)
         /\ IsSound(SubSeq(b, i, EndOf(b, i))) <=> b[i].message.sound
<1> DEFINE m == b[i].message
           e == EndOf(b, i)
           frame == SubSeq(b, i, e)
           made == buildMessage(m)
<1>1. /\ b[i] \in Symbol /\ m \in Message /\ Length(m) \in {0, 1} /\ e = i + Length(m)
      /\ i \in Nat /\ Len(b) \in Nat
  BY SymbolFacts DEF EndOf
<1>2. b[i] = HeaderOf(m) /\ PayloadOf(m) \in Symbol /\ HeaderOf(m) \in Symbol
  BY <1>1 DEF Symbol, IsHeader, HeaderOf, PayloadOf
<1> HIDE DEF m, e
<1>3. Length(m) = 1 => b[i + 1] = PayloadOf(m)
  BY <1>1 DEF IsFramed, IsOpenAt, m, e
<1>4. \A j \in i..e : b[j] \in Symbol
  BY <1>1 DEF e
<1>5. /\ frame \in Seq(Symbol) /\ Len(frame) = e - i + 1
      /\ \A j \in 1..(e - i + 1) : frame[j] = b[i + j - 1]
  <2>1. e \in Int /\ i \in Int /\ i <= e + 1 /\ ~ (i > e)
    BY <1>1
  <2>2. \A j \in i..e : j \in DOMAIN b
    BY <1>1 DEF e
  <2> HIDE DEF frame
  <2>3. /\ frame \in Seq(Symbol)
        /\ Len(frame) = (IF i <= e THEN e - i + 1 ELSE 0)
        /\ \A j \in 1..(e - i + 1) : frame[j] = b[i + j - 1]
    BY <2>1, <2>2, SubSeqProperties DEF frame
  <2> QED
    BY <2>1, <2>3
<1>6. made = <<HeaderOf(m)>> \o [j \in 1..Length(m) |-> PayloadOf(m)]
  BY DEF buildMessage, HeaderOf, PayloadOf
<1> HIDE DEF frame, made
<1>7. <<HeaderOf(m)>> \in Seq(Symbol) /\ [j \in 1..Length(m) |-> PayloadOf(m)] \in Seq(Symbol)
  BY <1>1, <1>2
<1>8. made \in Seq(Symbol) /\ Len(made) = 1 + Length(m)
  BY <1>1, <1>6, <1>7
<1>9. made[1] = HeaderOf(m) /\ (Length(m) = 1 => made[2] = PayloadOf(m))
  BY <1>1, <1>6, <1>7
<1>10. ASSUME NEW j \in 1..Len(frame)
       PROVE  frame[j] = made[j]
  <2>1. j \in {1, 2} /\ (j = 2 => Length(m) = 1)
    BY <1>1, <1>5
  <2>2. frame[j] = b[i + j - 1]
    BY <1>5
  <2>3. CASE j = 1
    BY <1>1, <1>2, <1>9, <2>2, <2>3
  <2>4. CASE j = 2
    BY <1>1, <1>3, <1>9, <2>1, <2>2, <2>4
  <2> QED
    BY <2>1, <2>3, <2>4
<1>11. frame = made
  <2>1. Len(frame) = Len(made)
    BY <1>1, <1>5, <1>8
  <2> QED
    BY <1>5, <1>8, <1>10, <2>1, SeqEqual
<1>12. Head(frame).message = m
  <2>1. Head(frame) = frame[1]
    BY <1>5 DEF Head
  <2> QED
    BY <1>9, <1>11, <2>1 DEF HeaderOf
<1>13. IsSound(frame) <=> m.sound
  BY <1>11, <1>12 DEF IsSound, made
<1> QED
  BY <1>11, <1>13 DEF frame, made, m, e

(* Each symbol of such a sequence is followed by one of a frame.           *)
LEMMA NextSymbol ==
  ASSUME NEW b \in Seq(Symbol), IsFramed(b), NEW i \in 1..Handled(b)
  PROVE  /\ i \in 1..Len(b) /\ Handled(b) \in Nat
         /\ IF IsHeader(b[i])
            THEN EndOf(b, i) <= Len(b) /\ EndOf(b, i) + 1 \in (i + 1)..(Handled(b) + 1)
            ELSE i + 1 \in 1..(Handled(b) + 1)
<1>1. Len(b) \in Nat /\ Handled(b) \in Nat /\ Handled(b) <= Len(b)
  BY DEF Handled
<1>2. i \in 1..Len(b) /\ i \in Nat
  BY <1>1
<1>3. EndOf(b, i) = i + Length(b[i].message) /\ Length(b[i].message) \in {0, 1}
  BY <1>2, SymbolFacts DEF EndOf
<1>4. ASSUME IsHeader(b[i])
      PROVE  EndOf(b, i) <= Handled(b) /\ EndOf(b, i) \in Nat
  <2>1. CASE Length(b[i].message) = 0
    BY <1>1, <1>2, <1>3, <2>1
  <2>2. CASE Length(b[i].message) = 1
    <3>1. IsOpenAt(b, i)
      BY <1>4, <2>2 DEF IsOpenAt
    <3>2. i < Len(b)
      BY <1>2, <3>1 DEF Handled
    <3>3. ~ IsHeader(b[i + 1])
      <4>1. b[i + 1] = PayloadOf(b[i].message)
        BY <1>2, <3>1, <3>2 DEF IsFramed
      <4> QED
        BY <4>1 DEF IsHeader, PayloadOf
    <3>4. i + 1 <= Handled(b)
      BY <1>1, <1>2, <3>2, <3>3 DEF Handled, IsOpenAt
    <3> QED
      BY <1>2, <1>3, <2>2, <3>4
  <2> QED
    BY <1>3, <2>1, <2>2
<1> QED
  BY <1>1, <1>2, <1>3, <1>4

(* A result from position i on that is right: it leaves what is to be left, *)
(* and has none but messages that were there.                               *)
IsResult(r, b) ==
  /\ r \in Parsed
  /\ r.remaining = SubSeq(b, Handled(b) + 1, Len(b))
  /\ \A j \in 1..Len(r.messages) : \E x \in 1..Handled(b) :
        IsHeader(b[x]) /\ b[x].message = r.messages[j]
  /\ \A j \in 1..Len(r.errors) : \E x \in 1..Handled(b) :
        IsHeader(b[x]) /\ b[x].message = r.errors[j] /\ ~ b[x].message.sound

(* An element of a sequence with one more at its start. *)
LEMMA PrependedElements ==
  ASSUME NEW S, NEW m \in S, NEW seq \in Seq(S), NEW j \in 1..Len(<<m>> \o seq)
  PROVE  (<<m>> \o seq)[j] = m \/ \E l \in 1..Len(seq) : (<<m>> \o seq)[j] = seq[l]
<1>1. Len(<<m>> \o seq) = Len(seq) + 1 /\ Len(seq) \in Nat
  OBVIOUS
<1>2. CASE j = 1
  BY <1>1, <1>2
<1>3. CASE j # 1
  <2>1. j - 1 \in 1..Len(seq) /\ (<<m>> \o seq)[j] = seq[j - 1]
    BY <1>1, <1>3
  <2> QED
    BY <2>1
<1> QED
  BY <1>2, <1>3

(* It stays right with a message more. *)
LEMMA ResultWith ==
  ASSUME NEW b \in Seq(Symbol), IsFramed(b), NEW i \in 1..Handled(b), IsHeader(b[i]),
         NEW r, IsResult(r, b)
  PROVE  IsResult(With(b, i, r), b)
<1> DEFINE m == b[i].message
           t == With(b, i, r)
<1>1. i \in 1..Len(b) /\ EndOf(b, i) <= Len(b)
  BY NextSymbol
<1>2. m \in Message
  BY <1>1, SymbolFacts
<1>3. IsSound(SubSeq(b, i, EndOf(b, i))) <=> m.sound
  BY <1>1, WholeFrame
<1>4. r.messages \in Seq(Message) /\ r.errors \in Seq(Message) /\ r \in Parsed
  BY DEF IsResult, Parsed
<1>5. /\ t \in Parsed /\ t.remaining = r.remaining
      /\ \/ t.messages = <<m>> \o r.messages /\ t.errors = r.errors
         \/ ~ m.sound /\ t.messages = r.messages /\ t.errors = <<m>> \o r.errors
  BY <1>1, <1>3, <1>4, WithIsParsed
<1>6. /\ r.remaining = SubSeq(b, Handled(b) + 1, Len(b))
      /\ \A j \in 1..Len(r.messages) : \E x \in 1..Handled(b) :
            IsHeader(b[x]) /\ b[x].message = r.messages[j]
      /\ \A j \in 1..Len(r.errors) : \E x \in 1..Handled(b) :
            IsHeader(b[x]) /\ b[x].message = r.errors[j] /\ ~ b[x].message.sound
  BY DEF IsResult
<1>7. m = b[i].message
  OBVIOUS
<1> HIDE DEF m, t
<1>8. ASSUME NEW j \in 1..Len(t.messages)
      PROVE  \E x \in 1..Handled(b) : IsHeader(b[x]) /\ b[x].message = t.messages[j]
  <2>1. CASE t.messages = r.messages
    BY <1>6, <2>1
  <2>2. CASE t.messages = <<m>> \o r.messages
    <3>1. t.messages[j] = m \/ \E l \in 1..Len(r.messages) : t.messages[j] = r.messages[l]
      BY <1>2, <1>4, <2>2, PrependedElements
    <3> QED
      BY <1>6, <1>7, <3>1
  <2> QED
    BY <1>5, <2>1, <2>2
<1>9. ASSUME NEW j \in 1..Len(t.errors)
      PROVE  \E x \in 1..Handled(b) :
               IsHeader(b[x]) /\ b[x].message = t.errors[j] /\ ~ b[x].message.sound
  <2>1. CASE t.errors = r.errors
    BY <1>6, <2>1
  <2>2. CASE ~ m.sound /\ t.errors = <<m>> \o r.errors
    <3>1. t.errors[j] = m \/ \E l \in 1..Len(r.errors) : t.errors[j] = r.errors[l]
      BY <1>2, <1>4, <2>2, PrependedElements
    <3> QED
      BY <1>6, <1>7, <2>2, <3>1
  <2> QED
    BY <1>5, <2>1, <2>2
<1>10. IsResult(t, b)
  BY <1>5, <1>6, <1>8, <1>9 DEF IsResult
<1> QED
  BY <1>10 DEF t

(* parseMessages gives the messages of the frames that are complete, those *)
(* with a bad checksum as errors, and leaves the rest (messages.ts         *)
(* 142-226).                                                               *)
LEMMA ParseResult ==
  ASSUME NEW b \in Seq(Symbol), IsFramed(b)
  PROVE  IsResult(parseMessages(b), b)
<1> DEFINE k == Handled(b)
           N == Len(b)
<1>1. PICK p : parseMessages(b) = p[1] /\ IsParse(p, b)
  BY ParseEquation
<1>2. k \in Nat /\ N \in Nat /\ k <= N
  BY DEF Handled
<1> DEFINE T == {d \in Nat : \A i \in 1..(k + 1) : k + 1 - i <= d => IsResult(p[i], b)}
<1>3. IsResult(p[k + 1], b)
  <2> DEFINE none == [messages |-> <<>>, errors |-> <<>>, remaining |-> SubSeq(b, k + 1, N)]
  <2>1. p[k + 1] = none
    <3>1. k + 1 \in 1..(Len(b) + 1)
      BY <1>2
    <3>2. CASE N > 0 /\ IsOpenAt(b, N)
      <4>1. k + 1 = N /\ IsHeader(b[N]) /\ EndOf(b, N) > Len(b)
        BY <1>2, <3>2 DEF Handled, IsOpenAt, EndOf
      <4> QED
        BY <1>1, <1>2, <3>1, <4>1 DEF IsParse
    <3>3. CASE ~ (N > 0 /\ IsOpenAt(b, N))
      <4>1. k = N
        BY <3>3 DEF Handled
      <4>2. SubSeq(b, k + 1, N) = <<>>
        BY <1>2, <4>1, SubSeqEmpty
      <4>3. p[k + 1] = [messages |-> <<>>, errors |-> <<>>, remaining |-> <<>>]
        <5>1. k + 1 > Len(b)
          BY <1>2, <4>1
        <5> HIDE DEF k
        <5> QED
          BY <1>1, <3>1, <5>1 DEF IsParse
      <4> QED
        BY <4>2, <4>3
    <3> QED
      BY <3>2, <3>3
  <2>2. SubSeq(b, k + 1, N) \in Seq(Symbol)
    <3>1. \A i \in (k + 1)..N : b[i] \in Symbol
      BY <1>2
    <3> QED
      BY <1>2, <3>1, SubSeqProperties
  <2>3. none \in Parsed
    <3>1. <<>> \in Seq(Message)
      OBVIOUS
    <3> QED
      BY <2>2, <3>1 DEF Parsed
  <2>4. none.messages = <<>> /\ none.errors = <<>> /\ none.remaining = SubSeq(b, k + 1, N)
    OBVIOUS
  <2> HIDE DEF none
  <2>5. IsResult(none, b)
    BY <2>3, <2>4 DEF IsResult
  <2> QED
    BY <2>1, <2>5
<1>4. 0 \in T
  <2>1. \A i \in 1..(k + 1) : k + 1 - i <= 0 => i = k + 1
    BY <1>2
  <2> QED
    BY <1>3, <2>1
<1>5. ASSUME NEW d \in Nat, d \in T
      PROVE  d + 1 \in T
  <2> SUFFICES ASSUME NEW i \in 1..(k + 1), k + 1 - i <= d + 1
               PROVE  IsResult(p[i], b)
    OBVIOUS
  <2>1. CASE i = k + 1
    BY <1>3, <2>1
  <2>2. CASE i # k + 1
    <3>1. i \in 1..Handled(b) /\ i \in 1..(Len(b) + 1) /\ ~ (i > Len(b)) /\ i \in Nat
      BY <1>2, <2>2
    <3>2. \A j \in (i + 1)..(k + 1) : IsResult(p[j], b)
      BY <1>2, <1>5, <3>1
    <3>3. CASE ~ IsHeader(b[i])
      <4>1. p[i] = p[i + 1]
        BY <1>1, <3>1, <3>3 DEF IsParse
      <4>2. i + 1 \in (i + 1)..(k + 1)
        BY <1>2, <3>1
      <4> QED
        BY <3>2, <4>1, <4>2
    <3>4. CASE IsHeader(b[i])
      <4>1. EndOf(b, i) <= Len(b) /\ EndOf(b, i) + 1 \in (i + 1)..(k + 1)
        BY <3>1, <3>4, NextSymbol
      <4>2. IsResult(p[EndOf(b, i) + 1], b)
        BY <3>2, <4>1
      <4>3. IsResult(With(b, i, p[EndOf(b, i) + 1]), b)
        BY <3>1, <3>4, <4>2, ResultWith
      <4>4. EndOf(b, i) \in Int
        <5>1. i \in 1..Len(b)
          BY <1>2, <3>1
        <5>2. EndOf(b, i) \in {i, i + 1}
          BY <5>1, SymbolFacts
        <5> QED
          BY <3>1, <5>2
      <4>5. ~ (EndOf(b, i) > Len(b))
        BY <1>2, <4>1, <4>4
      <4>6. p[i] = With(b, i, p[EndOf(b, i) + 1])
        BY <1>1, <3>1, <3>4, <4>5 DEF IsParse
      <4> QED
        BY <4>3, <4>6
    <3> QED
      BY <3>3, <3>4
  <2> QED
    BY <2>1, <2>2
<1> HIDE DEF T
<1>6. Nat \subseteq T
  BY <1>4, <1>5, Induction
<1>7. k \in T
  BY <1>2, <1>6
<1>8. 1 \in 1..(k + 1) /\ k + 1 - 1 <= k
  BY <1>2
<1>9. IsResult(p[1], b)
  BY <1>7, <1>8 DEF T
<1> QED
  BY <1>1, <1>9

----------------------------------------------------------------------------
(* What is on its way *)

(* The symbols of a concatenation. *)
LEMMA Concatenated ==
  ASSUME NEW s \in Seq(Symbol), NEW t \in Seq(Symbol)
  PROVE  /\ s \o t \in Seq(Symbol) /\ Len(s \o t) = Len(s) + Len(t)
         /\ Len(s) \in Nat /\ Len(t) \in Nat
         /\ \A i \in 1..Len(s) : (s \o t)[i] = s[i]
         /\ \A i \in 1..Len(t) : (s \o t)[Len(s) + i] = t[i]
OBVIOUS

(* The symbols of a part. *)
LEMMA PartOf ==
  ASSUME NEW s \in Seq(Symbol), NEW k \in 0..Len(s), NEW n \in k..Len(s)
  PROVE  /\ SubSeq(s, k + 1, n) \in Seq(Symbol) /\ Len(SubSeq(s, k + 1, n)) = n - k
         /\ \A i \in 1..(n - k) : SubSeq(s, k + 1, n)[i] = s[k + i]
         /\ Len(s) \in Nat /\ k \in Nat /\ n \in Nat
<1>1. Len(s) \in Nat /\ k \in Nat /\ n \in Nat
  OBVIOUS
<1>2. \A i \in (k + 1)..n : s[i] \in Symbol
  BY <1>1
<1>3. /\ SubSeq(s, k + 1, n) \in Seq(Symbol)
      /\ Len(SubSeq(s, k + 1, n)) = IF k + 1 <= n THEN n - (k + 1) + 1 ELSE 0
      /\ \A i \in 1..(n - (k + 1) + 1) : SubSeq(s, k + 1, n)[i] = s[(k + 1) + i - 1]
  <2>1. k + 1 \in Int /\ n \in Int
    BY <1>1
  <2> QED
    BY <1>2, <2>1, SubSeqProperties
<1>4. ASSUME NEW i \in 1..(n - k)
      PROVE  SubSeq(s, k + 1, n)[i] = s[k + i]
  <2>1. i \in 1..(n - (k + 1) + 1) /\ (k + 1) + i - 1 = k + i
    BY <1>1
  <2> QED
    BY <1>3, <2>1
<1>5. Len(SubSeq(s, k + 1, n)) = n - k
  BY <1>1, <1>3
<1> QED
  BY <1>1, <1>3, <1>4, <1>5

(* The first symbols of frames are in frames, ... *)
LEMMA FramedPrefix ==
  ASSUME NEW s \in Seq(Symbol), IsFramed(s), NEW t \in Seq(Symbol), Len(t) <= Len(s),
         \A i \in 1..Len(t) : t[i] = s[i]
  PROVE  IsFramed(t)
<1>1. Len(s) \in Nat /\ Len(t) \in Nat
  OBVIOUS
<1> SUFFICES ASSUME NEW i \in 1..Len(t)
             PROVE  /\ IsOpenAt(t, i) /\ i < Len(t) => t[i + 1] = PayloadOf(t[i].message)
                    /\ ~ IsHeader(t[i]) => i > 1 /\ IsOpenAt(t, i - 1)
  BY DEF IsFramed
<1>2. i \in 1..Len(s) /\ t[i] = s[i]
  BY <1>1
<1>3. /\ IsOpenAt(s, i) /\ i < Len(s) => s[i + 1] = PayloadOf(s[i].message)
      /\ ~ IsHeader(s[i]) => i > 1 /\ IsOpenAt(s, i - 1)
  BY <1>2 DEF IsFramed
<1>4. i < Len(t) => i < Len(s) /\ t[i + 1] = s[i + 1]
  BY <1>1
<1>5. i > 1 => t[i - 1] = s[i - 1]
  BY <1>1
<1> QED
  BY <1>2, <1>3, <1>4, <1>5 DEF IsOpenAt

(* ... and so are the last, from where a frame begins. *)
LEMMA FramedSuffix ==
  ASSUME NEW s \in Seq(Symbol), IsFramed(s), IsComplete(s), NEW k \in 0..Len(s),
         k = 0 \/ ~ IsOpenAt(s, k),
         NEW t \in Seq(Symbol), Len(t) = Len(s) - k,
         \A i \in 1..Len(t) : t[i] = s[k + i]
  PROVE  IsFramed(t) /\ IsComplete(t)
<1>1. Len(s) \in Nat /\ Len(t) \in Nat /\ k \in Nat
  OBVIOUS
<1>2. ASSUME NEW i \in 1..Len(t)
      PROVE  /\ IsOpenAt(t, i) /\ i < Len(t) => t[i + 1] = PayloadOf(t[i].message)
             /\ ~ IsHeader(t[i]) => i > 1 /\ IsOpenAt(t, i - 1)
  <2>1. k + i \in 1..Len(s) /\ t[i] = s[k + i]
    BY <1>1
  <2>2. /\ IsOpenAt(s, k + i) /\ k + i < Len(s) => s[(k + i) + 1] = PayloadOf(s[k + i].message)
        /\ ~ IsHeader(s[k + i]) => k + i > 1 /\ IsOpenAt(s, (k + i) - 1)
    BY <2>1 DEF IsFramed
  <2>3. i < Len(t) => k + i < Len(s) /\ t[i + 1] = s[(k + i) + 1]
    BY <1>1
  <2>4. i > 1 => t[i - 1] = s[(k + i) - 1]
    BY <1>1
  <2>5. i = 1 => (k + i) - 1 = k
    BY <1>1
  <2>6. i > 1 \/ i = 1
    BY <1>1
  <2>7. i = 1 /\ k = 0 => ~ (k + i > 1)
    OBVIOUS
  <2> QED
    BY <2>1, <2>2, <2>3, <2>4, <2>5, <2>6, <2>7 DEF IsOpenAt
<1>3. Len(t) > 0 => Len(s) > 0 /\ t[Len(t)] = s[Len(s)]
  BY <1>1
<1>4. IsComplete(t)
  BY <1>1, <1>3 DEF IsComplete, IsOpenAt
<1> QED
  BY <1>2, <1>4 DEF IsFramed

(* A message that is sent is a frame more. *)
LEMMA FrameSent ==
  ASSUME NEW s \in Seq(Symbol), IsFramed(s), IsComplete(s), NEW m \in Message
  PROVE  LET t == s \o buildMessage(m)
         IN  /\ buildMessage(m) \in Seq(Symbol)
             /\ t \in Seq(Symbol) /\ IsFramed(t) /\ IsComplete(t)
             /\ Len(s) + 1 \in 1..Len(t) /\ t[Len(s) + 1] = HeaderOf(m)
             /\ \A i \in 1..Len(s) : i \in 1..Len(t) /\ t[i] = s[i]
             /\ \A i \in 1..Len(t) : IsHeader(t[i]) => i \in 1..Len(s) \/ i = Len(s) + 1
<1> DEFINE f == buildMessage(m)
           t == s \o f
           e == Len(s)
<1>1. Length(m) \in {0, 1} /\ HeaderOf(m) \in Symbol /\ PayloadOf(m) \in Symbol
  BY DEF Length, Symbol, HeaderOf, PayloadOf
<1>2. f = <<HeaderOf(m)>> \o [j \in 1..Length(m) |-> PayloadOf(m)]
  BY DEF buildMessage, HeaderOf, PayloadOf
<1> HIDE DEF f
<1>3. <<HeaderOf(m)>> \in Seq(Symbol) /\ [j \in 1..Length(m) |-> PayloadOf(m)] \in Seq(Symbol)
  BY <1>1
<1>4. f \in Seq(Symbol) /\ Len(f) = 1 + Length(m)
  BY <1>1, <1>2, <1>3
<1>5. f[1] = HeaderOf(m) /\ (Length(m) = 1 => f[2] = PayloadOf(m))
  BY <1>1, <1>2, <1>3
<1>6. /\ t \in Seq(Symbol) /\ Len(t) = e + 1 + Length(m) /\ e \in Nat
      /\ \A i \in 1..e : t[i] = s[i]
      /\ t[e + 1] = HeaderOf(m)
      /\ Length(m) = 1 => t[e + 2] = PayloadOf(m)
  <2>1. /\ t \in Seq(Symbol) /\ Len(t) = Len(s) + Len(f) /\ Len(s) \in Nat
        /\ \A i \in 1..Len(s) : t[i] = s[i]
        /\ \A i \in 1..Len(f) : t[Len(s) + i] = f[i]
    BY <1>4, Concatenated
  <2> HIDE DEF t
  <2>2. 1 \in 1..Len(f) /\ (Length(m) = 1 => 2 \in 1..Len(f))
    BY <1>1, <1>4
  <2>3. t[e + 1] = f[1] /\ (Length(m) = 1 => t[e + 2] = f[2])
    BY <2>1, <2>2
  <2>4. Len(t) = e + 1 + Length(m)
    BY <1>1, <1>4, <2>1
  <2> QED
    BY <1>5, <2>1, <2>3, <2>4
<1> HIDE DEF t
<1>7. IsHeader(HeaderOf(m)) /\ HeaderOf(m).message = m /\ ~ IsHeader(PayloadOf(m))
  BY DEF IsHeader, HeaderOf, PayloadOf
<1>8. IsOpenAt(t, e + 1) <=> Length(m) = 1
  BY <1>6, <1>7 DEF IsOpenAt
<1>9. ASSUME NEW i \in 1..Len(t)
      PROVE  /\ IsOpenAt(t, i) /\ i < Len(t) => t[i + 1] = PayloadOf(t[i].message)
             /\ ~ IsHeader(t[i]) => i > 1 /\ IsOpenAt(t, i - 1)
             /\ IsHeader(t[i]) => i \in 1..e \/ i = e + 1
  <2>1. CASE i \in 1..e
    <3>1. /\ IsOpenAt(s, i) /\ i < e => s[i + 1] = PayloadOf(s[i].message)
          /\ ~ IsHeader(s[i]) => i > 1 /\ IsOpenAt(s, i - 1)
      BY <2>1 DEF IsFramed
    <3>2. t[i] = s[i] /\ (i < e => t[i + 1] = s[i + 1]) /\ (i > 1 => t[i - 1] = s[i - 1])
      BY <1>6, <2>1
    <3>3. i = e => ~ IsOpenAt(s, i)
      BY <1>6, <2>1 DEF IsComplete
    <3>4. i < e \/ i = e
      BY <1>6, <2>1
    <3> QED
      BY <2>1, <3>1, <3>2, <3>3, <3>4 DEF IsOpenAt
  <2>2. CASE i = e + 1
    <3>1. i < Len(t) => Length(m) = 1 /\ t[i + 1] = PayloadOf(m)
      BY <1>1, <1>6, <2>2
    <3>2. IsHeader(t[i]) /\ t[i].message = m
      BY <1>6, <1>7, <2>2
    <3> QED
      BY <2>2, <3>1, <3>2
  <2>3. CASE i \notin 1..e /\ i # e + 1
    <3>1. Length(m) = 1 /\ i = e + 2 /\ i - 1 = e + 1 /\ i > 1 /\ ~ (i < Len(t))
      BY <1>1, <1>6, <2>3
    <3>2. ~ IsHeader(t[i])
      BY <1>6, <1>7, <3>1
    <3> QED
      BY <1>8, <3>1, <3>2
  <2> QED
    BY <2>1, <2>2, <2>3
<1>10. IsComplete(t)
  <2>1. CASE Length(m) = 0
    <3>1. Len(t) = e + 1
      BY <1>6, <2>1
    <3> QED
      BY <1>8, <2>1, <3>1 DEF IsComplete
  <2>2. CASE Length(m) = 1
    <3>1. Len(t) = e + 2
      BY <1>6, <2>2
    <3> QED
      BY <1>6, <1>7, <2>2, <3>1 DEF IsComplete, IsOpenAt
  <2> QED
    BY <1>1, <2>1, <2>2
<1>11. e + 1 \in 1..Len(t) /\ \A i \in 1..e : i \in 1..Len(t)
  BY <1>1, <1>6
<1> QED
  BY <1>4, <1>6, <1>9, <1>10, <1>11 DEF t, f, IsFramed

(* What is left when a chunk is dealt with. *)
LEMMA ChunkStream ==
  ASSUME NEW buf \in Seq(Symbol), NEW inc \in Seq(Symbol), NEW n \in 1..Len(inc),
         IsFramed(buf \o inc), IsComplete(buf \o inc)
  PROVE  LET b == buf \o SubSeq(inc, 1, n)
             k == Handled(b)
             s == buf \o inc
             rest == SubSeq(b, k + 1, Len(b)) \o SubSeq(inc, n + 1, Len(inc))
         IN  /\ b \in Seq(Symbol) /\ IsFramed(b)
             /\ SubSeq(b, k + 1, Len(b)) \in Seq(Symbol)
             /\ SubSeq(inc, n + 1, Len(inc)) \in Seq(Symbol)
             /\ s \in Seq(Symbol) /\ rest \in Seq(Symbol) /\ IsFramed(rest) /\ IsComplete(rest)
             /\ k \in Nat /\ Len(s) \in Nat /\ Len(rest) = Len(s) - k
             /\ \A i \in 1..k : i \in 1..Len(s) /\ b[i] = s[i]
             /\ \A i \in 1..Len(rest) : k + i \in 1..Len(s) /\ rest[i] = s[k + i]
<1> DEFINE b == buf \o SubSeq(inc, 1, n)
           k == Handled(b)
           s == buf \o inc
           left == SubSeq(b, k + 1, Len(b))
           later == SubSeq(inc, n + 1, Len(inc))
           rest == left \o later
           e == Len(buf)
<1>1. /\ s \in Seq(Symbol) /\ Len(s) = e + Len(inc) /\ e \in Nat /\ Len(inc) \in Nat
      /\ \A i \in 1..e : s[i] = buf[i]
      /\ \A i \in 1..Len(inc) : s[e + i] = inc[i]
  BY Concatenated
<1>2. /\ SubSeq(inc, 1, n) \in Seq(Symbol) /\ Len(SubSeq(inc, 1, n)) = n /\ n \in Nat
      /\ \A i \in 1..n : SubSeq(inc, 1, n)[i] = inc[i]
  <2>1. 0 \in 0..Len(inc) /\ n \in 0..Len(inc) /\ n \in Nat
    BY <1>1
  <2>2. /\ SubSeq(inc, 0 + 1, n) \in Seq(Symbol) /\ Len(SubSeq(inc, 0 + 1, n)) = n - 0
        /\ \A i \in 1..(n - 0) : SubSeq(inc, 0 + 1, n)[i] = inc[0 + i]
    BY <2>1, PartOf
  <2>3. 0 + 1 = 1 /\ n - 0 = n /\ \A i \in 1..n : 0 + i = i
    BY <2>1
  <2> QED
    BY <2>1, <2>2, <2>3
<1>3. /\ later \in Seq(Symbol) /\ Len(later) = Len(inc) - n
      /\ \A i \in 1..(Len(inc) - n) : later[i] = inc[n + i]
  <2>1. n \in 0..Len(inc) /\ Len(inc) \in n..Len(inc)
    BY <1>1
  <2> QED
    BY <2>1, PartOf
<1>4. /\ b \in Seq(Symbol) /\ Len(b) = e + n
      /\ \A i \in 1..e : b[i] = buf[i]
      /\ \A i \in 1..n : b[e + i] = inc[i]
  <2>1. /\ b \in Seq(Symbol) /\ Len(b) = e + Len(SubSeq(inc, 1, n))
        /\ \A i \in 1..e : b[i] = buf[i]
        /\ \A i \in 1..Len(SubSeq(inc, 1, n)) : b[e + i] = SubSeq(inc, 1, n)[i]
    BY <1>2, Concatenated
  <2> QED
    BY <1>2, <2>1
<1> HIDE DEF s, later, b
<1>5. ASSUME NEW i \in 1..Len(b)
      PROVE  i \in 1..Len(s) /\ b[i] = s[i]
  <2>1. i \in 1..Len(s)
    BY <1>1, <1>2, <1>4
  <2>2. CASE i \in 1..e
    BY <1>1, <1>4, <2>1, <2>2
  <2>3. CASE i \notin 1..e
    <3>1. i - e \in 1..n /\ i - e \in 1..Len(inc) /\ e + (i - e) = i
      BY <1>1, <1>2, <1>4, <2>3
    <3>2. b[i] = inc[i - e] /\ s[i] = inc[i - e]
      BY <1>1, <1>4, <3>1
    <3> QED
      BY <2>1, <3>2
  <2> QED
    BY <2>2, <2>3
<1>6. Len(b) <= Len(s) /\ Len(b) \in Nat /\ Len(s) \in Nat /\ Len(b) >= 1
  BY <1>1, <1>2, <1>4
<1>7. IsFramed(s) /\ IsComplete(s)
  BY DEF s
<1>8. IsFramed(b)
  BY <1>1, <1>4, <1>5, <1>6, <1>7, FramedPrefix
<1>9. k \in Nat /\ k <= Len(b) /\ k >= Len(b) - 1
  BY <1>6 DEF Handled
<1>10. /\ left \in Seq(Symbol) /\ Len(left) = Len(b) - k
       /\ \A i \in 1..(Len(b) - k) : left[i] = b[k + i]
  <2>1. k \in 0..Len(b) /\ Len(b) \in k..Len(b)
    BY <1>6, <1>9
  <2> HIDE DEF k
  <2> QED
    BY <1>4, <2>1, PartOf
<1>11. k = 0 \/ ~ IsOpenAt(s, k)
  <2>1. CASE IsOpenAt(b, Len(b))
    <3>1. k = Len(b) - 1
      BY <1>6, <2>1 DEF Handled
    <3>2. CASE k # 0
      <4> HIDE DEF k
      <4>1. k \in 1..Len(s) /\ k < Len(s) /\ k + 1 = Len(b) /\ Len(b) \in 1..Len(b)
        BY <1>6, <1>9, <3>1, <3>2
      <4>2. IsHeader(s[k + 1])
        BY <1>5, <2>1, <4>1 DEF IsOpenAt
      <4>3. IsOpenAt(s, k) => s[k + 1] = PayloadOf(s[k].message)
        BY <1>7, <4>1 DEF IsFramed
      <4>4. ~ IsHeader(PayloadOf(s[k].message))
        BY DEF IsHeader, PayloadOf
      <4> QED
        BY <4>2, <4>3, <4>4
    <3> QED
      BY <3>2
  <2>2. CASE ~ IsOpenAt(b, Len(b))
    <3>1. k = Len(b) /\ Len(b) \in 1..Len(b)
      BY <1>6, <2>2 DEF Handled
    <3>2. s[Len(b)] = b[Len(b)]
      BY <1>5, <3>1
    <3> QED
      BY <2>2, <3>1, <3>2 DEF IsOpenAt
  <2> QED
    BY <2>1, <2>2
<1> HIDE DEF k, left
<1>12. /\ rest \in Seq(Symbol) /\ Len(rest) = Len(left) + Len(later)
       /\ \A i \in 1..Len(left) : rest[i] = left[i]
       /\ \A i \in 1..Len(later) : rest[Len(left) + i] = later[i]
  BY <1>3, <1>10, Concatenated
<1> HIDE DEF rest
<1>13. Len(rest) = Len(s) - k
  BY <1>1, <1>2, <1>3, <1>4, <1>6, <1>9, <1>10, <1>12
<1>14. ASSUME NEW i \in 1..Len(rest)
       PROVE  k + i \in 1..Len(s) /\ rest[i] = s[k + i]
  <2>1. k + i \in 1..Len(s) /\ i \in Nat
    BY <1>6, <1>9, <1>13
  <2>2. CASE i \in 1..Len(left)
    <3>1. k + i \in 1..Len(b)
      BY <1>6, <1>9, <1>10, <2>2
    <3>2. rest[i] = b[k + i]
      BY <1>10, <1>12, <2>2
    <3> QED
      BY <1>5, <2>1, <3>1, <3>2
  <2>3. CASE i \notin 1..Len(left)
    <3> DEFINE j == i - Len(left)
    <3>1. j \in 1..Len(later) /\ Len(left) + j = i
      <4>1. Len(left) \in Nat /\ Len(later) \in Nat
        BY <1>3, <1>10
      <4>2. Len(rest) = Len(left) + Len(later)
        BY <1>12
      <4> QED
        BY <2>1, <2>3, <4>1, <4>2
    <3>2. n + j \in 1..Len(inc) /\ j \in 1..(Len(inc) - n) /\ e + (n + j) = k + i
      BY <1>1, <1>2, <1>3, <1>4, <1>6, <1>9, <1>10, <3>1
    <3> HIDE DEF j
    <3>3. rest[i] = inc[n + j]
      BY <1>3, <1>12, <3>1, <3>2
    <3>4. s[k + i] = inc[n + j]
      BY <1>1, <3>2
    <3> QED
      BY <2>1, <3>3, <3>4
  <2> QED
    BY <2>2, <2>3
<1>15. IsFramed(rest) /\ IsComplete(rest)
  <2>1. k \in 0..Len(s)
    BY <1>6, <1>9
  <2>2. \A i \in 1..Len(rest) : rest[i] = s[k + i]
    BY <1>14
  <2> QED
    BY <1>1, <1>7, <1>11, <1>12, <1>13, <2>1, <2>2, FramedSuffix
<1>16. \A i \in 1..k : i \in 1..Len(s) /\ b[i] = s[i]
  BY <1>5, <1>6, <1>9
<1> QED
  BY <1>1, <1>3, <1>4, <1>6, <1>8, <1>9, <1>10, <1>12, <1>13, <1>14, <1>15, <1>16
     DEF s, later, b, k, left, rest

----------------------------------------------------------------------------
(* The steps *)

(* The state a chunk arrives in. *)
LEMMA StateHandled ==
  ASSUME TransportInv, socket # 0
  PROVE  HandledInv(State) /\ State.getHeaders = pendingGetHeaders
<1>1. 0..calls \subseteq 0..MaxCalls /\ 1..calls \subseteq 1..MaxCalls
  BY Bounds DEF TransportInv, DataInv
<1>2. State \in States
  <2>1. /\ verackSent \in BOOLEAN /\ wasConnected \in BOOLEAN /\ pingInterval \in BOOLEAN
        /\ shook \in BOOLEAN
    BY DEF TransportInv, DataInv
  <2>2. /\ pendingConnect \in 0..MaxCalls /\ pendingGetHeaders \in 0..MaxCalls
        /\ pendingGetAddr \in 0..MaxCalls /\ pendingPongs \in SUBSET (1..MaxCalls)
    BY <1>1 DEF TransportInv, DataInv
  <2>3. call \in [Callers -> CallRecord]
    BY DEF TransportInv, DataInv
  <2> QED
    BY <2>1, <2>2, <2>3 DEF State, States
<1>3. /\ State.verackSent = verackSent /\ State.wasConnected = wasConnected
      /\ State.connect = pendingConnect /\ State.pongs = pendingPongs
      /\ State.getHeaders = pendingGetHeaders /\ State.getAddr = pendingGetAddr
      /\ State.call = call /\ State.shook = shook
  BY DEF State
<1>4. CallsFit(State)
  <2>1. \A p \in Callers : IsAnswered(call[p])
    BY DEF TransportInv, RepliesAnswerTheirRequests, IsAnswered, Callers
  <2>2. \A p \in Callers :
          WaitsFor(call[p], pendingConnect, pendingPongs, pendingGetHeaders, pendingGetAddr)
    BY DEF TransportInv, SocketInv
  <2> QED
    BY <1>3, <2>1, <2>2 DEF CallsFit
<1>5. /\ pendingConnect = 0 => shook \/ handshakeSpoilt
      /\ wasConnected <=> shook
      /\ pendingConnect # 0 => ~ shook
  BY DEF TransportInv, HandshakeInv, connected
<1> QED
  BY <1>2, <1>3, <1>4, <1>5 DEF HandledInv

(* The state it leaves. *)
LEMMA HandledNext ==
  ASSUME TransportInv, socket # 0, isOpen, NEW after, HandledInv(after),
         buffer' \in Seq(Symbol), incoming' \in Seq(Symbol), StreamInv',
         verackSent' = after.verackSent, wasConnected' = after.wasConnected,
         pingInterval' = after.pingInterval, pendingConnect' = after.connect,
         pendingPongs' = after.pongs, pendingGetHeaders' = after.getHeaders,
         pendingGetAddr' = after.getAddr, call' = after.call, shook' = after.shook,
         UNCHANGED <<socket, listening, isOpen, aborted, calls, sentVars, sockets,
                     handshakeSpoilt, events>>
  PROVE  /\ DataInv' /\ SocketInv' /\ HandshakeInv' /\ GetHeadersInv'
         /\ RepliesAnswerTheirRequests' /\ OneEventPerSocket'
         /\ HeadersAborted' <=> HeadersAborted
<1>1. /\ after \in States
      /\ after.connect \in {0, pendingConnect} /\ after.pongs \subseteq pendingPongs
      /\ after.getHeaders \in {0, pendingGetHeaders} /\ after.getAddr \in {0, pendingGetAddr}
      /\ CallsFit(after)
      /\ after.connect = 0 => after.shook \/ handshakeSpoilt
      /\ after.wasConnected <=> after.shook
      /\ after.connect # 0 => ~ after.shook
  BY DEF HandledInv
<1>2. /\ after.verackSent \in BOOLEAN /\ after.wasConnected \in BOOLEAN
      /\ after.pingInterval \in BOOLEAN /\ after.shook \in BOOLEAN
      /\ after.call \in [Callers -> CallRecord]
  BY <1>1 DEF States
<1>3. /\ UNCHANGED <<socket, listening, isOpen, aborted, calls, sockets, handshakeSpoilt, events>>
      /\ calls \in 0..MaxCalls /\ aborted \subseteq Caller /\ {socket, sockets} \subseteq Nat
      /\ {isOpen, handshakeSpoilt} \subseteq BOOLEAN
      /\ {pendingConnect, pendingGetHeaders, pendingGetAddr} \subseteq 0..calls
      /\ pendingPongs \subseteq 1..calls
      /\ call \in [Callers -> CallRecord]
  BY DEF TransportInv, DataInv
<1>4. DataInv'
  <2>1. {after.connect, after.getHeaders, after.getAddr} \subseteq 0..calls
    BY <1>1, <1>3
  <2>2. after.pongs \subseteq 1..calls
    BY <1>1, <1>3
  <2> QED
    BY <1>2, <1>3, <2>1, <2>2 DEF DataInv
<1>5. \A p \in Callers :
        /\ call'[p].op = call[p].op /\ call'[p].id = call[p].id /\ call'[p].own = call[p].own
        /\ call'[p].answer = "pending" => call[p].answer = "pending"
        /\ WaitsFor(call'[p], pendingConnect', pendingPongs', pendingGetHeaders', pendingGetAddr')
        /\ IsAnswered(call'[p])
  BY <1>1 DEF CallsFit
<1>6. SocketInv'
  <2>1. listening' = {socket'} \ {0} /\ isOpen' /\ socket' # 0
    BY <1>3 DEF TransportInv, SocketInv
  <2>2. ~ connected' => pendingPongs' = {} /\ pendingGetHeaders' = 0 /\ pendingGetAddr' = 0
    <3>1. ~ connected' => ~ connected
      BY <1>1, <1>3 DEF connected
    <3>2. ~ connected => pendingPongs = {} /\ pendingGetHeaders = 0 /\ pendingGetAddr = 0
      BY DEF TransportInv, SocketInv
    <3> QED
      BY <1>1, <3>1, <3>2
  <2>3. \A p \in Callers : WaitsFor(call[p], pendingConnect, pendingPongs, pendingGetHeaders,
                                    pendingGetAddr)'
    BY <1>5 DEF WaitsFor
  <2>4. /\ (socket = 0 => pendingConnect = 0 /\ ~ isOpen)'
        /\ (~ isOpen => /\ buffer = <<>> /\ incoming = <<>>
                        /\ ~ verackSent /\ ~ wasConnected /\ ~ pingInterval
                        /\ socket # 0 => pendingConnect # 0)'
    BY <2>1
  <2> QED
    BY <2>1, <2>2, <2>3, <2>4 DEF SocketInv, Callers
<1>7. HandshakeInv'
  BY <1>1, <1>2, <1>3 DEF HandshakeInv, connected
<1>8. GetHeadersInv'
  <2>1. /\ \A p \in Callers :
             call[p].id <= calls /\ (call[p].answer = "pending" => call[p].id # 0)
        /\ \A p \in Callers : call[p].op = "getHeaders" =>
             /\ call[p].own
             /\ \A q \in Callers \ {p} : call[q].op = "getHeaders" => call[q].id # call[p].id
             /\ call[p].answer = "pending" =>
                  /\ p \notin aborted
                  /\ \A q \in Callers : call[q].op = "getHeaders" => call[q].id <= call[p].id
    BY DEF TransportInv, GetHeadersInv
  <2>2. \A p \in Callers :
          call'[p].id <= calls' /\ (call'[p].answer = "pending" => call'[p].id # 0)
    BY <1>3, <1>5, <2>1
  <2>3. \A p \in Callers : call'[p].op = "getHeaders" =>
             /\ call'[p].own
             /\ \A q \in Callers \ {p} : call'[q].op = "getHeaders" => call'[q].id # call'[p].id
             /\ call'[p].answer = "pending" =>
                  /\ p \notin aborted'
                  /\ \A q \in Callers : call'[q].op = "getHeaders" => call'[q].id <= call'[p].id
    BY <1>3, <1>5, <2>1
  <2> QED
    BY <2>2, <2>3 DEF GetHeadersInv, Callers
<1>9. \A q \in aborted : q \in Callers
  BY <1>3 DEF Callers
<1>10. HeadersAborted' <=> HeadersAborted
  BY <1>3, <1>5, <1>9 DEF HeadersAborted
<1>11. RepliesAnswerTheirRequests'
  <2> SUFFICES ASSUME NEW p \in Callers,
                      call'[p].answer = "resolved", call'[p].op \in {"ping", "getHeaders"},
                      call'[p].from # call'[p].id
               PROVE  /\ call'[p].op = "getHeaders"
                      /\ \E q \in aborted' :
                            call'[q].op = "getHeaders" /\ call'[q].id < call'[p].id
    BY DEF RepliesAnswerTheirRequests, Callers
  <2>1. /\ call'[p].op = "getHeaders"
        /\ \E q \in aborted : call[q].op = "getHeaders" /\ call[q].id < call'[p].id
    BY <1>5 DEF IsAnswered
  <2> QED
    BY <1>3, <1>5, <1>9, <2>1
<1>12. OneEventPerSocket'
  BY <1>3 DEF TransportInv, OneEventPerSocket
<1> QED
  BY <1>4, <1>6, <1>7, <1>8, <1>10, <1>11, <1>12

(* A chunk of data arrives. *)
LEMMA DataStep ==
  ASSUME TransportInv, DataArrives
  PROVE  TransportInv'
<1>1. PICK n \in 1..Len(incoming) :
        LET parsed == parseMessages(buffer \o SubSeq(incoming, 1, n))
            after == FoldLeft(_handleMessage, FoldLeft(HandleError, State, parsed.errors),
                              parsed.messages)
        IN  /\ incoming' = SubSeq(incoming, n + 1, Len(incoming))
            /\ buffer' = parsed.remaining
            /\ verackSent' = after.verackSent
            /\ wasConnected' = after.wasConnected
            /\ pingInterval' = after.pingInterval
            /\ pendingConnect' = after.connect
            /\ pendingPongs' = after.pongs
            /\ pendingGetHeaders' = after.getHeaders
            /\ pendingGetAddr' = after.getAddr
            /\ call' = after.call
            /\ shook' = after.shook
  BY DEF DataArrives
<1>2. UNCHANGED <<socket, listening, isOpen, aborted, calls, sentVars, sockets,
                  handshakeSpoilt, events>>
  BY DEF DataArrives
<1> DEFINE b == buffer \o SubSeq(incoming, 1, n)
           k == Handled(b)
           parsed == parseMessages(b)
           after == FoldLeft(_handleMessage, FoldLeft(HandleError, State, parsed.errors),
                             parsed.messages)
<1>3. /\ incoming' = SubSeq(incoming, n + 1, Len(incoming)) /\ buffer' = parsed.remaining
      /\ verackSent' = after.verackSent /\ wasConnected' = after.wasConnected
      /\ pingInterval' = after.pingInterval /\ pendingConnect' = after.connect
      /\ pendingPongs' = after.pongs /\ pendingGetHeaders' = after.getHeaders
      /\ pendingGetAddr' = after.getAddr /\ call' = after.call /\ shook' = after.shook
  BY <1>1
<1>4. buffer \in Seq(Symbol) /\ incoming \in Seq(Symbol) /\ aborted \subseteq Caller
      /\ call \in [Callers -> CallRecord]
  BY DEF TransportInv, DataInv
<1>5. isOpen /\ socket # 0
  BY DEF TransportInv, SocketInv
<1>6. /\ b \in Seq(Symbol) /\ IsFramed(b)
      /\ SubSeq(b, k + 1, Len(b)) \in Seq(Symbol)
      /\ SubSeq(incoming, n + 1, Len(incoming)) \in Seq(Symbol)
      /\ LET rest == SubSeq(b, k + 1, Len(b)) \o SubSeq(incoming, n + 1, Len(incoming))
         IN  /\ Stream \in Seq(Symbol) /\ rest \in Seq(Symbol)
             /\ IsFramed(rest) /\ IsComplete(rest)
             /\ k \in Nat /\ Len(Stream) \in Nat /\ Len(rest) = Len(Stream) - k
             /\ \A i \in 1..k : i \in 1..Len(Stream) /\ b[i] = Stream[i]
             /\ \A i \in 1..Len(rest) : k + i \in 1..Len(Stream) /\ rest[i] = Stream[k + i]
  <2>1. IsFramed(buffer \o incoming) /\ IsComplete(buffer \o incoming)
    BY DEF TransportInv, StreamInv, Stream
  <2> QED
    BY <1>4, <2>1, ChunkStream DEF Stream
<1>7. IsResult(parsed, b)
  BY <1>6, ParseResult
<1> HIDE DEF b, k, parsed, after
<1>8. /\ parsed.messages \in Seq(Message) /\ parsed.errors \in Seq(Message)
      /\ parsed.remaining = SubSeq(b, k + 1, Len(b))
      /\ \A j \in 1..Len(parsed.messages) : \E x \in 1..k :
            IsHeader(b[x]) /\ b[x].message = parsed.messages[j]
      /\ \A j \in 1..Len(parsed.errors) : \E x \in 1..k :
            IsHeader(b[x]) /\ b[x].message = parsed.errors[j] /\ ~ b[x].message.sound
  BY <1>7 DEF IsResult, Parsed, k
<1>9. /\ buffer' \in Seq(Symbol) /\ incoming' \in Seq(Symbol)
      /\ IsFramed(Stream') /\ IsComplete(Stream')
      /\ Stream' \in Seq(Symbol) /\ Len(Stream') = Len(Stream) - k
      /\ \A i \in 1..Len(Stream') : k + i \in 1..Len(Stream) /\ Stream'[i] = Stream[k + i]
  BY <1>3, <1>6, <1>8 DEF Stream
<1>10. StreamInv'
  <2>1. \A i \in 1..Len(Stream) :
          IsHeader(Stream[i]) /\ Stream[i].message.command \in {"version", "verack"}
            /\ ~ Stream[i].message.sound => handshakeSpoilt
    BY DEF TransportInv, StreamInv
  <2>2. handshakeSpoilt' = handshakeSpoilt
    BY <1>2
  <2>3. \A i \in 1..Len(Stream') :
          IsHeader(Stream'[i]) /\ Stream'[i].message.command \in {"version", "verack"}
            /\ ~ Stream'[i].message.sound => handshakeSpoilt'
    BY <1>9, <2>1, <2>2
  <2>4. IsFramed(Stream)' /\ IsComplete(Stream)'
    BY <1>9 DEF IsFramed, IsComplete, IsOpenAt
  <2> QED
    BY <2>3, <2>4 DEF StreamInv
<1>11. k \in Nat /\ \A x \in 1..k : x \in 1..Len(Stream) /\ b[x] = Stream[x] /\ x <= k
  <2>1. k \in Nat /\ \A x \in 1..k : x \in 1..Len(Stream) /\ b[x] = Stream[x]
    BY <1>6
  <2>2. \A x \in 1..k : x <= k
    BY <2>1
  <2> QED
    BY <2>1, <2>2
<1>12. /\ \A i \in 1..Len(parsed.errors) :
             parsed.errors[i].command \in {"version", "verack"} => handshakeSpoilt
       /\ \A i \in 1..Len(parsed.errors) :
             parsed.errors[i].command = "headers" => \E x \in HeadersAt(Stream) : x <= k
  <2> SUFFICES ASSUME NEW i \in 1..Len(parsed.errors)
               PROVE  /\ parsed.errors[i].command \in {"version", "verack"} => handshakeSpoilt
                      /\ parsed.errors[i].command = "headers" =>
                            \E x \in HeadersAt(Stream) : x <= k
    OBVIOUS
  <2>1. PICK x \in 1..k :
          IsHeader(b[x]) /\ b[x].message = parsed.errors[i] /\ ~ b[x].message.sound
    BY <1>8
  <2>2. /\ x \in 1..Len(Stream) /\ x <= k /\ IsHeader(Stream[x])
        /\ Stream[x].message = parsed.errors[i] /\ ~ Stream[x].message.sound
    BY <1>11, <2>1
  <2>3. IsHeader(Stream[x]) /\ Stream[x].message.command \in {"version", "verack"}
          /\ ~ Stream[x].message.sound => handshakeSpoilt
    BY <2>2 DEF TransportInv, StreamInv
  <2>4. parsed.errors[i].command = "headers" => x \in HeadersAt(Stream)
    BY <2>2 DEF HeadersAt
  <2> QED
    BY <2>2, <2>3, <2>4
<1>13. \A i \in 1..Len(parsed.messages) :
         parsed.messages[i].command = "headers" =>
           \E x \in HeadersAt(Stream) : x <= k /\ Stream[x].message = parsed.messages[i]
  <2> SUFFICES ASSUME NEW i \in 1..Len(parsed.messages), parsed.messages[i].command = "headers"
               PROVE  \E x \in HeadersAt(Stream) :
                        x <= k /\ Stream[x].message = parsed.messages[i]
    OBVIOUS
  <2>1. PICK x \in 1..k : IsHeader(b[x]) /\ b[x].message = parsed.messages[i]
    BY <1>8
  <2>2. /\ x \in 1..Len(Stream) /\ x <= k /\ IsHeader(Stream[x])
        /\ Stream[x].message = parsed.messages[i]
    BY <1>11, <2>1
  <2>3. x \in HeadersAt(Stream)
    BY <2>2 DEF HeadersAt
  <2> QED
    BY <2>2, <2>3
<1>14. ~ HeadersAborted =>
         \A i \in HeadersAt(Stream) :
           /\ pendingGetHeaders # 0 /\ Stream[i].message.to = pendingGetHeaders
           /\ \A j \in HeadersAt(Stream) : i = j
  BY DEF TransportInv, HeadersInv, HeadersAborted
<1>15. \A i \in 1..Len(parsed.messages) :
         parsed.messages[i].command = "headers" /\ ~ HeadersAborted
           => parsed.messages[i].to = pendingGetHeaders
  BY <1>13, <1>14
<1>16. HandledInv(State) /\ State.getHeaders = pendingGetHeaders
  BY <1>5, StateHandled
<1>17. /\ HandledInv(after)
       /\ (/\ \A i \in 1..Len(parsed.errors) : parsed.errors[i].command # "headers"
           /\ \A i \in 1..Len(parsed.messages) : parsed.messages[i].command # "headers")
             => after.getHeaders = pendingGetHeaders
  <2>1. GetHeadersInv
    BY DEF TransportInv
  <2> QED
    BY <1>4, <1>8, <1>12, <1>15, <1>16, <2>1, ChunkKeeps DEF after
<1>18. /\ DataInv' /\ SocketInv' /\ HandshakeInv' /\ GetHeadersInv'
       /\ RepliesAnswerTheirRequests' /\ OneEventPerSocket'
       /\ HeadersAborted' <=> HeadersAborted
  BY <1>2, <1>3, <1>5, <1>9, <1>10, <1>17, HandledNext
<1>19. HeadersInv'
  <2> SUFFICES ASSUME ~ HeadersAborted, NEW i \in HeadersAt(Stream'), NEW j \in HeadersAt(Stream')
               PROVE  /\ pendingGetHeaders' # 0 /\ Stream'[i].message.to = pendingGetHeaders'
                      /\ i = j
    BY <1>18 DEF HeadersInv, HeadersAborted, HeadersAt
  <2>1. /\ k + i \in HeadersAt(Stream) /\ Stream'[i] = Stream[k + i]
        /\ k + j \in HeadersAt(Stream)
        /\ i \in Nat \ {0} /\ j \in Nat \ {0} /\ k \in Nat
    <3>1. /\ i \in 1..Len(Stream') /\ IsHeader(Stream'[i])
          /\ Stream'[i].message.command = "headers"
          /\ j \in 1..Len(Stream') /\ IsHeader(Stream'[j])
          /\ Stream'[j].message.command = "headers"
      BY DEF HeadersAt
    <3>2. /\ k + i \in 1..Len(Stream) /\ Stream'[i] = Stream[k + i]
          /\ k + j \in 1..Len(Stream) /\ Stream'[j] = Stream[k + j]
      BY <1>9, <3>1
    <3>3. i \in Nat \ {0} /\ j \in Nat \ {0}
      BY <1>9, <3>1
    <3> QED
      BY <1>11, <3>1, <3>2, <3>3 DEF HeadersAt
  <2>2. \A x \in HeadersAt(Stream) : ~ (x <= k)
    <3>1. \A x \in HeadersAt(Stream) : x = k + i
      BY <1>14, <2>1
    <3> QED
      BY <2>1, <3>1
  <2>3. pendingGetHeaders' = pendingGetHeaders
    BY <1>3, <1>12, <1>13, <1>17, <2>2
  <2> QED
    BY <1>14, <2>1, <2>3
<1> QED
  BY <1>10, <1>18, <1>19 DEF TransportInv

(* A call that is made changes what its caller waits for, and nothing of   *)
(* the others.                                                             *)
LEMMA CallMade ==
  ASSUME TransportInv, NEW p \in Callers, CanCall(p),
         NEW op \in {"connect", "ping", "getHeaders", "getAddr"}, NEW id \in 1..(calls + 1),
         NEW own \in BOOLEAN, Calls(p, op, id, own),
         op = "getHeaders" => own /\ id = calls + 1 /\ pendingGetHeaders = 0
  PROVE  /\ call' \in [Callers -> CallRecord] /\ calls' = calls + 1 /\ calls' \in 0..MaxCalls
         /\ calls \in 0..MaxCalls /\ aborted' = aborted
         /\ call'[p].op = op /\ call'[p].id = id /\ call'[p].answer = "pending"
         /\ \A q \in Callers \ {p} : call'[q] = call[q]
         /\ GetHeadersInv' /\ RepliesAnswerTheirRequests'
         /\ HeadersAborted' <=> HeadersAborted
<1> DEFINE c == [op |-> op, id |-> id, own |-> own, answer |-> "pending", from |-> 0]
<1>1. /\ call \in [Callers -> CallRecord] /\ calls \in 0..MaxCalls /\ aborted \subseteq Caller
      /\ MaxCalls \in Nat
  BY Bounds DEF TransportInv, DataInv
<1>2. /\ calls' = calls + 1 /\ aborted' = aborted /\ calls < MaxCalls /\ p \notin aborted
      /\ call' = [call EXCEPT ![p] = c]
  BY DEF Calls, CanCall
<1>3. calls' \in 0..MaxCalls /\ id \in 0..MaxCalls /\ calls \in Nat /\ id # 0
  BY <1>1, <1>2
<1>4. c \in CallRecord
  BY <1>3 DEF CallRecord
<1>5. c.op = op /\ c.id = id /\ c.own = own /\ c.answer = "pending"
  OBVIOUS
<1> HIDE DEF c
<1>6. /\ call' \in [Callers -> CallRecord] /\ call'[p] = c
      /\ \A q \in Callers \ {p} : call'[q] = call[q]
  BY <1>1, <1>2, <1>4
<1>7. \A q \in Callers : call[q].id \in Nat /\ call'[q].id \in Nat
  <2>1. \A q \in Callers : call[q] \in CallRecord /\ call'[q] \in CallRecord
    BY <1>1, <1>6
  <2> QED
    BY <2>1 DEF CallRecord
<1>8. /\ \A q \in Callers : call[q].id <= calls /\ (call[q].answer = "pending" => call[q].id # 0)
      /\ \A q \in Callers : call[q].op = "getHeaders" =>
           /\ call[q].own
           /\ \A r \in Callers \ {q} : call[r].op = "getHeaders" => call[r].id # call[q].id
           /\ call[q].answer = "pending" =>
                /\ q \notin aborted
                /\ \A r \in Callers : call[r].op = "getHeaders" => call[r].id <= call[q].id
  BY DEF TransportInv, GetHeadersInv
<1>9. op = "getHeaders" =>
        \A q \in Callers : ~ (call[q].op = "getHeaders" /\ call[q].answer = "pending")
  <2> SUFFICES ASSUME op = "getHeaders", NEW q \in Callers,
                      call[q].op = "getHeaders", call[q].answer = "pending"
               PROVE  FALSE
    OBVIOUS
  <2>1. WaitsFor(call[q], pendingConnect, pendingPongs, pendingGetHeaders, pendingGetAddr)
    BY DEF TransportInv, SocketInv
  <2>2. call[q].id = pendingGetHeaders
    BY <2>1 DEF WaitsFor
  <2> QED
    BY <1>8, <2>2
<1>10. GetHeadersInv'
  <2>1. \A q \in Callers :
          call'[q].id <= calls' /\ (call'[q].answer = "pending" => call'[q].id # 0)
    <3> SUFFICES ASSUME NEW q \in Callers
                 PROVE  call'[q].id <= calls' /\ (call'[q].answer = "pending" => call'[q].id # 0)
      OBVIOUS
    <3>1. CASE q = p
      BY <1>2, <1>3, <1>5, <1>6, <3>1
    <3>2. CASE q # p
      BY <1>2, <1>3, <1>6, <1>7, <1>8, <3>2
    <3> QED
      BY <3>1, <3>2
  <2>2. ASSUME NEW q \in Callers, call'[q].op = "getHeaders"
        PROVE  /\ call'[q].own
               /\ \A r \in Callers \ {q} : call'[r].op = "getHeaders" => call'[r].id # call'[q].id
               /\ call'[q].answer = "pending" =>
                    /\ q \notin aborted'
                    /\ \A r \in Callers : call'[r].op = "getHeaders" => call'[r].id <= call'[q].id
    <3>1. CASE q = p
      <4>1. op = "getHeaders" /\ own /\ id = calls + 1
        BY <1>5, <1>6, <2>2, <3>1
      <4>2. ASSUME NEW r \in Callers \ {p}
            PROVE  call'[r].id < call'[p].id
        BY <1>3, <1>5, <1>6, <1>7, <1>8, <4>1
      <4>3. call'[p].own /\ p \notin aborted'
        BY <1>2, <1>5, <1>6, <4>1
      <4>4. \A r \in Callers : call'[r].id <= call'[p].id
        BY <1>7, <4>2
      <4> QED
        BY <1>7, <3>1, <4>2, <4>3, <4>4
    <3>2. CASE q # p
      <4>1. call'[q] = call[q]
        BY <1>6, <3>2
      <4>2. /\ call[q].own
            /\ \A r \in Callers \ {q} : call[r].op = "getHeaders" => call[r].id # call[q].id
            /\ call[q].answer = "pending" =>
                 /\ q \notin aborted
                 /\ \A r \in Callers : call[r].op = "getHeaders" => call[r].id <= call[q].id
        BY <1>8, <2>2, <4>1
      <4>3. call'[p].op = "getHeaders" => call'[p].id # call[q].id /\ call[q].answer # "pending"
        BY <1>3, <1>5, <1>6, <1>7, <1>8, <1>9, <2>2, <4>1
      <4> QED
        BY <1>2, <1>6, <4>1, <4>2, <4>3
    <3> QED
      BY <3>1, <3>2
  <2> QED
    BY <2>1, <2>2 DEF GetHeadersInv, Callers
<1>11. \A q \in aborted : q \in Callers \ {p}
  BY <1>1, <1>2 DEF Callers
<1>12. HeadersAborted' <=> HeadersAborted
  BY <1>2, <1>6, <1>11 DEF HeadersAborted
<1>13. RepliesAnswerTheirRequests'
  <2> SUFFICES ASSUME NEW q \in Callers,
                      call'[q].answer = "resolved", call'[q].op \in {"ping", "getHeaders"},
                      call'[q].from # call'[q].id
               PROVE  /\ call'[q].op = "getHeaders"
                      /\ \E r \in aborted' :
                            call'[r].op = "getHeaders" /\ call'[r].id < call'[q].id
    BY DEF RepliesAnswerTheirRequests, Callers
  <2>1. q # p /\ call'[q] = call[q]
    BY <1>5, <1>6
  <2>2. /\ call[q].op = "getHeaders"
        /\ \E r \in aborted : call[r].op = "getHeaders" /\ call[r].id < call[q].id
    BY <2>1 DEF TransportInv, RepliesAnswerTheirRequests, Callers
  <2> QED
    BY <1>2, <1>6, <1>11, <2>1, <2>2
<1> QED
  BY <1>1, <1>2, <1>3, <1>5, <1>6, <1>10, <1>12, <1>13

(* A message that the remote node sends. *)
LEMMA MessageSent ==
  ASSUME TransportInv, NEW command \in {"pong", "headers", "addr"}, NEW id \in Nat,
         Send(incoming, command, id), buffer' = buffer, handshakeSpoilt' = handshakeSpoilt
  PROVE  /\ incoming' \in Seq(Symbol) /\ StreamInv'
         /\ \A i \in HeadersAt(Stream') :
              \/ i \in HeadersAt(Stream) /\ Stream'[i] = Stream[i]
              \/ /\ command = "headers" /\ i = Len(Stream) + 1
                 /\ Stream'[i].message.to = id
<1>1. PICK sound \in BOOLEAN :
        incoming' = incoming \o buildMessage([command |-> command, to |-> id, sound |-> sound])
  BY DEF Send
<1> DEFINE m == [command |-> command, to |-> id, sound |-> sound]
<1>2. m \in Message /\ m.command = command /\ m.to = id
  BY DEF Message
<1>3. incoming' = incoming \o buildMessage(m)
  BY <1>1
<1> HIDE DEF m
<1>4. buffer \in Seq(Symbol) /\ incoming \in Seq(Symbol) /\ Stream \in Seq(Symbol)
  BY DEF TransportInv, DataInv, Stream
<1>5. IsFramed(Stream) /\ IsComplete(Stream)
  BY DEF TransportInv, StreamInv
<1>6. LET t == Stream \o buildMessage(m)
      IN  /\ buildMessage(m) \in Seq(Symbol)
          /\ t \in Seq(Symbol) /\ IsFramed(t) /\ IsComplete(t)
          /\ Len(Stream) + 1 \in 1..Len(t) /\ t[Len(Stream) + 1] = HeaderOf(m)
          /\ \A i \in 1..Len(Stream) : i \in 1..Len(t) /\ t[i] = Stream[i]
          /\ \A i \in 1..Len(t) : IsHeader(t[i]) => i \in 1..Len(Stream) \/ i = Len(Stream) + 1
  BY <1>2, <1>4, <1>5, FrameSent
<1>7. Stream' = Stream \o buildMessage(m) /\ incoming' \in Seq(Symbol)
  BY <1>3, <1>4, <1>6 DEF Stream
<1>8. /\ IsFramed(Stream') /\ IsComplete(Stream')
      /\ Stream'[Len(Stream) + 1] = HeaderOf(m)
      /\ \A i \in 1..Len(Stream) : Stream'[i] = Stream[i]
      /\ \A i \in 1..Len(Stream') :
           IsHeader(Stream'[i]) => i \in 1..Len(Stream) \/ i = Len(Stream) + 1
  BY <1>6, <1>7
<1>9. IsHeader(HeaderOf(m)) /\ HeaderOf(m).message = m
  BY DEF IsHeader, HeaderOf
<1>10. StreamInv'
  <2>1. ASSUME NEW i \in 1..Len(Stream'), IsHeader(Stream'[i]),
               Stream'[i].message.command \in {"version", "verack"}, ~ Stream'[i].message.sound
        PROVE  handshakeSpoilt'
    <3>1. CASE i \in 1..Len(Stream)
      BY <1>8, <2>1, <3>1 DEF TransportInv, StreamInv
    <3>2. CASE i = Len(Stream) + 1
      BY <1>2, <1>8, <1>9, <2>1, <3>2
    <3> QED
      BY <1>8, <2>1, <3>1, <3>2
  <2>2. IsFramed(Stream)' /\ IsComplete(Stream)'
    BY <1>8 DEF IsFramed, IsComplete, IsOpenAt
  <2> QED
    BY <2>1, <2>2 DEF StreamInv
<1>11. ASSUME NEW i \in HeadersAt(Stream')
       PROVE  \/ i \in HeadersAt(Stream) /\ Stream'[i] = Stream[i]
              \/ /\ command = "headers" /\ i = Len(Stream) + 1
                 /\ Stream'[i].message.to = id
  <2>1. i \in 1..Len(Stream') /\ IsHeader(Stream'[i]) /\ Stream'[i].message.command = "headers"
    BY DEF HeadersAt
  <2>2. CASE i \in 1..Len(Stream)
    BY <1>8, <2>1, <2>2 DEF HeadersAt
  <2>3. CASE i = Len(Stream) + 1
    BY <1>2, <1>8, <1>9, <2>1, <2>3
  <2> QED
    BY <1>8, <2>1, <2>2, <2>3
<1> QED
  BY <1>7, <1>10, <1>11

(* A request that is made on a connected socket. *)
LEMMA RequestMade ==
  ASSUME TransportInv, NEW p \in Callers, CanCall(p), connected,
         NEW op \in {"ping", "getHeaders", "getAddr"}, NEW id \in 1..(calls + 1),
         NEW own \in BOOLEAN, Calls(p, op, id, own),
         op = "getHeaders" => own /\ id = calls + 1 /\ pendingGetHeaders = 0,
         pendingPongs' = pendingPongs \/ pendingPongs' = pendingPongs \cup {calls + 1},
         pendingGetHeaders' = pendingGetHeaders
           \/ (pendingGetHeaders = 0 /\ pendingGetHeaders' = calls + 1),
         pendingGetAddr' = pendingGetAddr
           \/ (pendingGetAddr = 0 /\ pendingGetAddr' = calls + 1),
         op = "ping" => id \in pendingPongs', op = "getHeaders" => id = pendingGetHeaders',
         op = "getAddr" => id = pendingGetAddr',
         UNCHANGED <<socket, listening, isOpen, buffer, flagVars, pendingConnect, historyVars>>,
         incoming' \in Seq(Symbol), StreamInv', HeadersInv'
  PROVE  TransportInv'
<1>1. /\ call' \in [Callers -> CallRecord] /\ calls' = calls + 1 /\ calls' \in 0..MaxCalls
      /\ calls \in 0..MaxCalls /\ aborted' = aborted
      /\ call'[p].op = op /\ call'[p].id = id /\ call'[p].answer = "pending"
      /\ \A q \in Callers \ {p} : call'[q] = call[q]
      /\ GetHeadersInv' /\ RepliesAnswerTheirRequests'
  BY CallMade
<1>2. /\ UNCHANGED <<socket, listening, isOpen, buffer, pendingConnect, sockets, shook,
                     handshakeSpoilt, events, verackSent, wasConnected, pingInterval>>
  BY DEF flagVars, historyVars
<1>3. /\ {isOpen, verackSent, wasConnected, pingInterval, shook, handshakeSpoilt} \subseteq BOOLEAN
      /\ {pendingConnect, pendingGetHeaders, pendingGetAddr} \subseteq 0..calls
      /\ pendingPongs \subseteq 1..calls
      /\ aborted \subseteq Caller /\ {socket, sockets} \subseteq Nat /\ buffer \in Seq(Symbol)
  BY DEF TransportInv, DataInv
<1>4. DataInv'
  <2>1. calls \in Nat /\ 0..calls \subseteq 0..(calls + 1) /\ 1..calls \subseteq 1..(calls + 1)
        /\ calls + 1 \in 1..(calls + 1)
    BY <1>1
  <2>2. {pendingConnect', pendingGetHeaders', pendingGetAddr'} \subseteq 0..calls'
    BY <1>1, <1>2, <1>3, <2>1
  <2>3. pendingPongs' \subseteq 1..calls'
    BY <1>1, <1>3, <2>1
  <2> QED
    BY <1>1, <1>2, <1>3, <2>2, <2>3 DEF DataInv
<1>5. SocketInv'
  <2>1. connected' /\ socket # 0 /\ pendingConnect = 0 /\ isOpen
    BY <1>2 DEF connected, TransportInv, SocketInv
  <2>2. \A q \in Callers :
          WaitsFor(call'[q], pendingConnect', pendingPongs', pendingGetHeaders', pendingGetAddr')
    <3> SUFFICES ASSUME NEW q \in Callers
                 PROVE  WaitsFor(call'[q], pendingConnect', pendingPongs', pendingGetHeaders',
                                 pendingGetAddr')
      OBVIOUS
    <3>1. CASE q = p
      BY <1>1, <3>1 DEF WaitsFor
    <3>2. CASE q # p
      <4>1. call'[q] = call[q]
        BY <1>1, <3>2
      <4>2. WaitsFor(call[q], pendingConnect, pendingPongs, pendingGetHeaders, pendingGetAddr)
        BY DEF TransportInv, SocketInv
      <4>3. call[q].answer = "pending" => call[q].id # 0
        BY DEF TransportInv, GetHeadersInv
      <4> QED
        BY <1>2, <4>1, <4>2, <4>3 DEF WaitsFor
    <3> QED
      BY <3>1, <3>2
  <2>3. listening' = {socket'} \ {0} /\ isOpen' /\ socket' # 0
    BY <1>2, <2>1 DEF TransportInv, SocketInv
  <2>4. \A q \in Callers : WaitsFor(call[q], pendingConnect, pendingPongs, pendingGetHeaders,
                                    pendingGetAddr)'
    BY <2>2 DEF WaitsFor
  <2> QED
    BY <2>1, <2>3, <2>4 DEF SocketInv, Callers
<1>6. HandshakeInv'
  BY <1>2 DEF TransportInv, HandshakeInv, connected
<1>7. OneEventPerSocket'
  BY <1>2 DEF TransportInv, OneEventPerSocket
<1> QED
  BY <1>1, <1>4, <1>5, <1>6, <1>7 DEF TransportInv

(* What the remote node does with a request: nothing, or it answers. *)
LEMMA AnswerEffect ==
  ASSUME TransportInv, NEW command \in {"pong", "headers"}, NEW id \in Nat,
         Answer(command, id), buffer' = buffer, handshakeSpoilt' = handshakeSpoilt
  PROVE  /\ incoming' \in Seq(Symbol) /\ StreamInv'
         /\ \A i \in HeadersAt(Stream') :
              \/ i \in HeadersAt(Stream) /\ Stream'[i] = Stream[i]
              \/ /\ command = "headers" /\ i = Len(Stream) + 1
                 /\ Stream'[i].message.to = id
<1>1. CASE verackSent
  BY <1>1, MessageSent DEF Answer
<1>2. CASE ~ verackSent
  <2>1. incoming' = incoming /\ Stream' = Stream
    BY <1>2 DEF Answer, Stream
  <2>2. StreamInv'
    BY <2>1 DEF TransportInv, StreamInv, IsFramed, IsComplete, IsOpenAt
  <2> QED
    BY <2>1, <2>2 DEF TransportInv, DataInv
<1> QED
  BY <1>1, <1>2

(* Frames that stay as they are. *)
LEMMA SameStream ==
  ASSUME TransportInv, buffer' = buffer, incoming' = incoming, handshakeSpoilt' = handshakeSpoilt
  PROVE  Stream' = Stream /\ StreamInv' /\ buffer' \in Seq(Symbol) /\ incoming' \in Seq(Symbol)
<1>1. Stream' = Stream
  BY DEF Stream
<1>2. StreamInv'
  BY <1>1 DEF TransportInv, StreamInv, IsFramed, IsComplete, IsOpenAt
<1> QED
  BY <1>1, <1>2 DEF TransportInv, DataInv

(* The headers messages that have been on their way are still for the      *)
(* request that is pending.                                                *)
LEMMA HeadersKept ==
  ASSUME TransportInv, ~ HeadersAborted' => ~ HeadersAborted,
         pendingGetHeaders' = pendingGetHeaders \/ pendingGetHeaders = 0,
         \A i \in HeadersAt(Stream') : i \in HeadersAt(Stream) /\ Stream'[i] = Stream[i]
  PROVE  HeadersInv'
<1> SUFFICES ASSUME ~ HeadersAborted', NEW i \in HeadersAt(Stream'), NEW j \in HeadersAt(Stream')
             PROVE  /\ pendingGetHeaders' # 0 /\ Stream'[i].message.to = pendingGetHeaders'
                    /\ i = j
  BY DEF HeadersInv, HeadersAborted, HeadersAt
<1>1. \A x \in HeadersAt(Stream) :
        /\ pendingGetHeaders # 0 /\ Stream[x].message.to = pendingGetHeaders
        /\ \A y \in HeadersAt(Stream) : x = y
  BY DEF TransportInv, HeadersInv, HeadersAborted
<1> QED
  BY <1>1

(* ping. *)
LEMMA PingStep ==
  ASSUME TransportInv, NEW p \in Callers, Ping(p)
  PROVE  TransportInv'
<1>1. /\ CanCall(p) /\ connected /\ Calls(p, "ping", calls + 1, TRUE)
      /\ pendingPongs' = pendingPongs \cup {calls + 1} /\ Answer("pong", calls + 1)
      /\ UNCHANGED <<socket, listening, isOpen, buffer, flagVars, pendingConnect,
                     pendingGetHeaders, pendingGetAddr, addrs, historyVars>>
  BY DEF Ping
<1>2. calls \in Nat /\ calls + 1 \in 1..(calls + 1) /\ calls + 1 \in Nat
  BY Bounds DEF TransportInv, DataInv
<1>3. HeadersAborted' <=> HeadersAborted
  BY <1>1, <1>2, CallMade
<1>4. /\ incoming' \in Seq(Symbol) /\ StreamInv'
      /\ \A i \in HeadersAt(Stream') : i \in HeadersAt(Stream) /\ Stream'[i] = Stream[i]
  BY <1>1, <1>2, AnswerEffect DEF historyVars
<1>5. HeadersInv'
  BY <1>1, <1>3, <1>4, HeadersKept
<1> QED
  BY <1>1, <1>2, <1>4, <1>5, RequestMade

(* getHeaders. *)
LEMMA GetHeadersStep ==
  ASSUME TransportInv, NEW p \in Callers, GetHeaders(p)
  PROVE  TransportInv'
<1>1. /\ CanCall(p) /\ connected /\ pendingGetHeaders = 0
      /\ Calls(p, "getHeaders", calls + 1, TRUE)
      /\ pendingGetHeaders' = calls + 1 /\ Answer("headers", calls + 1)
      /\ UNCHANGED <<socket, listening, isOpen, buffer, flagVars, pendingConnect, pendingPongs,
                     pendingGetAddr, addrs, historyVars>>
  BY DEF GetHeaders
<1>2. calls \in Nat /\ calls + 1 \in 1..(calls + 1) /\ calls + 1 \in Nat
  BY Bounds DEF TransportInv, DataInv
<1>3. HeadersAborted' <=> HeadersAborted
  BY <1>1, <1>2, CallMade
<1>4. /\ incoming' \in Seq(Symbol) /\ StreamInv'
      /\ \A i \in HeadersAt(Stream') :
           \/ i \in HeadersAt(Stream) /\ Stream'[i] = Stream[i]
           \/ i = Len(Stream) + 1 /\ Stream'[i].message.to = calls + 1
  BY <1>1, <1>2, AnswerEffect DEF historyVars
<1>5. HeadersInv'
  <2> SUFFICES ASSUME ~ HeadersAborted', NEW i \in HeadersAt(Stream'), NEW j \in HeadersAt(Stream')
               PROVE  /\ pendingGetHeaders' # 0 /\ Stream'[i].message.to = pendingGetHeaders'
                      /\ i = j
    BY DEF HeadersInv, HeadersAborted, HeadersAt
  <2>1. HeadersAt(Stream) = {}
    BY <1>1, <1>3 DEF TransportInv, HeadersInv, HeadersAborted
  <2> QED
    BY <1>1, <1>2, <1>4, <2>1
<1> QED
  BY <1>1, <1>2, <1>4, <1>5, RequestMade

(* getAddr. *)
LEMMA GetAddrStep ==
  ASSUME TransportInv, NEW p \in Callers, GetAddr(p)
  PROVE  TransportInv'
<1>1. /\ CanCall(p) /\ connected
      /\ UNCHANGED <<socket, listening, isOpen, incoming, buffer, flagVars, pendingConnect,
                     pendingPongs, pendingGetHeaders, sentVars, historyVars>>
  BY DEF GetAddr
<1>2. /\ calls \in Nat /\ calls + 1 \in 1..(calls + 1) /\ pendingGetAddr \in 0..calls
      /\ pendingGetAddr # 0 => pendingGetAddr \in 1..(calls + 1)
  BY Bounds DEF TransportInv, DataInv
<1>3. PICK id \in 1..(calls + 1), own \in BOOLEAN :
        /\ Calls(p, "getAddr", id, own) /\ pendingGetAddr' = id
        /\ pendingGetAddr' = pendingGetAddr
             \/ (pendingGetAddr = 0 /\ pendingGetAddr' = calls + 1)
  BY <1>2 DEF GetAddr
<1>4. HeadersAborted' <=> HeadersAborted
  BY <1>1, <1>3, CallMade
<1>5. Stream' = Stream /\ StreamInv' /\ incoming' \in Seq(Symbol)
  BY <1>1, SameStream DEF historyVars
<1>6. HeadersInv'
  BY <1>1, <1>4, <1>5, HeadersKept
<1> QED
  BY <1>1, <1>3, <1>5, <1>6, RequestMade

(* The remote node sends addr. *)
LEMMA AddrStep ==
  ASSUME TransportInv, AddrIsSent
  PROVE  TransportInv'
<1>1. /\ Send(incoming, "addr", 0)
      /\ UNCHANGED <<socket, listening, isOpen, buffer, flagVars, pendingVars, callVars,
                     historyVars>>
      /\ verackSent
  BY DEF AddrIsSent
<1>2. /\ UNCHANGED <<socket, listening, isOpen, buffer, verackSent, wasConnected, pingInterval,
                     pendingConnect, pendingPongs, pendingGetHeaders, pendingGetAddr, call,
                     aborted, calls, sockets, shook, handshakeSpoilt, events>>
  BY <1>1 DEF flagVars, pendingVars, callVars, historyVars
<1>3. /\ incoming' \in Seq(Symbol) /\ StreamInv'
      /\ \A i \in HeadersAt(Stream') : i \in HeadersAt(Stream) /\ Stream'[i] = Stream[i]
  BY <1>1, <1>2, MessageSent
<1>4. HeadersInv'
  BY <1>2, <1>3, HeadersKept DEF HeadersAborted
<1>5. isOpen
  BY <1>1 DEF TransportInv, SocketInv
<1>6. DataInv'
  BY <1>2, <1>3 DEF TransportInv, DataInv
<1>7. SocketInv'
  BY <1>2, <1>5 DEF TransportInv, SocketInv, connected, WaitsFor
<1>8. HandshakeInv' /\ OneEventPerSocket'
  BY <1>2 DEF TransportInv, HandshakeInv, connected, OneEventPerSocket
<1>9. GetHeadersInv'
  BY <1>2 DEF TransportInv, GetHeadersInv
<1>10. RepliesAnswerTheirRequests'
  BY <1>2 DEF TransportInv, RepliesAnswerTheirRequests
<1> QED
  BY <1>3, <1>4, <1>6, <1>7, <1>8, <1>9, <1>10 DEF TransportInv

(* connect. *)
LEMMA ConnectStep ==
  ASSUME TransportInv, NEW p \in Callers, Connect(p)
  PROVE  TransportInv'
<1>1. /\ CanCall(p) /\ ~ connected
      /\ UNCHANGED <<isOpen, incoming, buffer, verackSent, pingInterval, pendingPongs,
                     pendingGetHeaders, pendingGetAddr, sentVars>>
  BY DEF Connect
<1>2. /\ {isOpen, verackSent, wasConnected, pingInterval, shook, handshakeSpoilt} \subseteq BOOLEAN
      /\ {pendingConnect, pendingGetHeaders, pendingGetAddr} \subseteq 0..calls
      /\ pendingPongs \subseteq 1..calls /\ calls \in Nat /\ {socket, sockets} \subseteq Nat
      /\ aborted \subseteq Caller /\ buffer \in Seq(Symbol) /\ incoming \in Seq(Symbol)
  BY Bounds DEF TransportInv, DataInv
<1>3. PICK id \in 1..(calls + 1), own \in BOOLEAN :
        Calls(p, "connect", id, own) /\ pendingConnect' = id
  <2>1. CASE pendingConnect # 0
    <3>1. Calls(p, "connect", pendingConnect, FALSE) /\ pendingConnect' = pendingConnect
      BY <2>1 DEF Connect
    <3>2. pendingConnect \in 1..(calls + 1)
      BY <1>2, <2>1
    <3> QED
      BY <3>1, <3>2
  <2>2. CASE pendingConnect = 0
    <3>1. Calls(p, "connect", calls + 1, TRUE) /\ pendingConnect' = calls + 1
      BY <2>2 DEF Connect
    <3>2. calls + 1 \in 1..(calls + 1)
      BY <1>2
    <3> QED
      BY <3>1, <3>2
  <2> QED
    BY <2>1, <2>2
<1>4. /\ call' \in [Callers -> CallRecord] /\ calls' = calls + 1 /\ calls' \in 0..MaxCalls
      /\ aborted' = aborted
      /\ call'[p].op = "connect" /\ call'[p].id = id /\ call'[p].answer = "pending"
      /\ \A q \in Callers \ {p} : call'[q] = call[q]
      /\ GetHeadersInv' /\ RepliesAnswerTheirRequests'
      /\ HeadersAborted' <=> HeadersAborted
  BY <1>1, <1>3, CallMade
<1>5. pendingPongs = {} /\ pendingGetHeaders = 0 /\ pendingGetAddr = 0
  BY <1>1 DEF TransportInv, SocketInv
<1>6. \/ /\ pendingConnect # 0 /\ pendingConnect' = pendingConnect
         /\ UNCHANGED <<socket, listening, wasConnected, sockets, shook, handshakeSpoilt, events>>
      \/ /\ pendingConnect = 0 /\ wasConnected' = FALSE /\ sockets' = sockets + 1
         /\ socket' = sockets + 1 /\ listening' = listening \cup {sockets + 1}
         /\ shook' = FALSE /\ handshakeSpoilt' = FALSE /\ events' = <<>>
  BY DEF Connect, historyVars
<1>7. CASE /\ pendingConnect # 0 /\ pendingConnect' = pendingConnect
           /\ UNCHANGED <<socket, listening, wasConnected, sockets, shook, handshakeSpoilt, events>>
  <2>1. Stream' = Stream /\ StreamInv'
    BY <1>1, <1>7, SameStream
  <2>2. HeadersInv'
    BY <1>1, <1>4, <2>1, HeadersKept
  <2>3. DataInv'
    <3>1. 0..calls \subseteq 0..calls' /\ 1..calls \subseteq 1..calls'
      BY <1>2, <1>4
    <3>2. {pendingConnect', pendingGetHeaders', pendingGetAddr'} \subseteq 0..calls'
      BY <1>1, <1>2, <1>7, <3>1
    <3> QED
      BY <1>1, <1>2, <1>4, <1>7, <3>1, <3>2 DEF DataInv
  <2>4. SocketInv'
    <3>1. \A q \in Callers : WaitsFor(call[q], pendingConnect, pendingPongs, pendingGetHeaders,
                                      pendingGetAddr)'
      <4> SUFFICES ASSUME NEW q \in Callers
                   PROVE  WaitsFor(call'[q], pendingConnect', pendingPongs', pendingGetHeaders',
                                   pendingGetAddr')
        BY DEF WaitsFor
      <4>1. CASE q = p
        BY <1>3, <1>4, <4>1 DEF WaitsFor
      <4>2. CASE q # p
        <5>1. WaitsFor(call[q], pendingConnect, pendingPongs, pendingGetHeaders, pendingGetAddr)
          BY DEF TransportInv, SocketInv
        <5> QED
          BY <1>1, <1>4, <1>7, <4>2, <5>1 DEF WaitsFor
      <4> QED
        BY <4>1, <4>2
    <3> QED
      BY <1>1, <1>7, <3>1 DEF TransportInv, SocketInv, connected, Callers
  <2>5. HandshakeInv' /\ OneEventPerSocket'
    BY <1>7 DEF TransportInv, HandshakeInv, connected, OneEventPerSocket
  <2> QED
    BY <1>4, <2>1, <2>2, <2>3, <2>4, <2>5 DEF TransportInv
<1>8. CASE /\ pendingConnect = 0 /\ wasConnected' = FALSE /\ sockets' = sockets + 1
           /\ socket' = sockets + 1 /\ listening' = listening \cup {sockets + 1}
           /\ shook' = FALSE /\ handshakeSpoilt' = FALSE /\ events' = <<>>
  <2>1. socket = 0 /\ ~ isOpen /\ buffer = <<>> /\ incoming = <<>> /\ listening = {}
        /\ ~ verackSent /\ ~ pingInterval
    BY <1>1, <1>8 DEF connected, TransportInv, SocketInv
  <2>2. Stream' = Stream /\ Stream = <<>> /\ Len(Stream) = 0
    BY <1>1, <2>1 DEF Stream
  <2>3. StreamInv'
    BY <2>2 DEF StreamInv, IsFramed, IsComplete
  <2>4. HeadersInv'
    BY <1>1, <1>4, <2>2, HeadersKept
  <2>5. DataInv'
    <3>1. 0 \in 0..calls' /\ pendingConnect' \in 0..calls' /\ sockets + 1 \in Nat
      BY <1>2, <1>3, <1>4
    <3> QED
      BY <1>1, <1>2, <1>4, <1>5, <1>8, <3>1 DEF DataInv
  <2>6. SocketInv'
    <3>1. \A q \in Callers : WaitsFor(call[q], pendingConnect, pendingPongs, pendingGetHeaders,
                                      pendingGetAddr)'
      <4> SUFFICES ASSUME NEW q \in Callers
                   PROVE  WaitsFor(call'[q], pendingConnect', pendingPongs', pendingGetHeaders',
                                   pendingGetAddr')
        BY DEF WaitsFor
      <4>1. CASE q = p
        BY <1>3, <1>4, <4>1 DEF WaitsFor
      <4>2. CASE q # p
        <5>1. WaitsFor(call[q], pendingConnect, pendingPongs, pendingGetHeaders, pendingGetAddr)
          BY DEF TransportInv, SocketInv
        <5>2. call[q].answer = "pending" => call[q].id # 0
          BY DEF TransportInv, GetHeadersInv
        <5>3. call[q].answer # "pending"
          BY <1>5, <1>8, <5>1, <5>2 DEF WaitsFor
        <5> QED
          BY <1>4, <4>2, <5>3 DEF WaitsFor
      <4> QED
        BY <4>1, <4>2
    <3>2. socket' # 0 /\ listening' = {socket'} \ {0} /\ pendingConnect' # 0 /\ ~ connected'
      BY <1>2, <1>3, <1>8, <2>1 DEF connected
    <3> QED
      BY <1>1, <1>5, <1>8, <2>1, <3>1, <3>2 DEF SocketInv, Callers
  <2>7. HandshakeInv'
    BY <1>3, <1>8 DEF HandshakeInv, connected
  <2>8. OneEventPerSocket'
    BY <1>8 DEF OneEventPerSocket
  <2> QED
    BY <1>4, <2>3, <2>4, <2>5, <2>6, <2>7, <2>8 DEF TransportInv
<1> QED
  BY <1>6, <1>7, <1>8

(* The socket is connected. *)
LEMMA SocketConnectsStep ==
  ASSUME TransportInv, SocketConnects
  PROVE  TransportInv'
<1>1. /\ socket # 0 /\ ~ isOpen /\ isOpen' = TRUE
      /\ UNCHANGED <<socket, listening, buffer, verackSent, wasConnected, pingInterval,
                     pendingConnect, pendingPongs, pendingGetHeaders, pendingGetAddr, call,
                     aborted, calls, sockets, shook, events>>
  BY DEF SocketConnects, flagVars, pendingVars, callVars
<1>2. PICK bad \in {"none", "version", "verack"} :
        /\ handshakeSpoilt' = (bad # "none")
        /\ incoming' = buildMessage([command |-> "version", to |-> 0, sound |-> "version" # bad])
                    \o buildMessage([command |-> "verack", to |-> 0, sound |-> "verack" # bad])
  BY DEF SocketConnects
<1> DEFINE v == [command |-> "version", to |-> 0, sound |-> "version" # bad]
           a == [command |-> "verack", to |-> 0, sound |-> "verack" # bad]
<1>3. /\ v \in Message /\ v.command = "version" /\ (~ v.sound => bad # "none")
      /\ a \in Message /\ a.command = "verack" /\ (~ a.sound => bad # "none")
  BY DEF Message
<1>4. incoming' = buildMessage(v) \o buildMessage(a)
  BY <1>2
<1> HIDE DEF v, a
<1>5. /\ buffer = <<>> /\ ~ verackSent /\ ~ wasConnected /\ ~ pingInterval
      /\ pendingConnect # 0 /\ ~ connected
  BY <1>1 DEF TransportInv, SocketInv, connected
<1> DEFINE s == <<>> \o buildMessage(v)
           t == s \o buildMessage(a)
<1>6. <<>> \in Seq(Symbol) /\ IsFramed(<<>>) /\ IsComplete(<<>>) /\ Len(<<>>) = 0
  BY DEF IsFramed, IsComplete
<1>7. /\ buildMessage(v) \in Seq(Symbol) /\ s \in Seq(Symbol) /\ IsFramed(s) /\ IsComplete(s)
      /\ s[1] = HeaderOf(v)
      /\ \A i \in 1..Len(s) : IsHeader(s[i]) => i = 1
  <2>1. /\ s[Len(<<>>) + 1] = HeaderOf(v)
        /\ \A i \in 1..Len(s) : IsHeader(s[i]) => i \in 1..Len(<<>>) \/ i = Len(<<>>) + 1
        /\ buildMessage(v) \in Seq(Symbol) /\ s \in Seq(Symbol) /\ IsFramed(s) /\ IsComplete(s)
    BY <1>3, <1>6, FrameSent
  <2> HIDE DEF s
  <2>2. Len(<<>>) + 1 = 1 /\ 1..Len(<<>>) = {}
    BY <1>6
  <2> QED
    BY <2>1, <2>2
<1>8. s = buildMessage(v)
  BY <1>7
<1> HIDE DEF s
<1>9. /\ buildMessage(a) \in Seq(Symbol) /\ t \in Seq(Symbol) /\ IsFramed(t) /\ IsComplete(t)
      /\ t[Len(s) + 1] = HeaderOf(a)
      /\ \A i \in 1..Len(s) : t[i] = s[i]
      /\ \A i \in 1..Len(t) : IsHeader(t[i]) => i \in 1..Len(s) \/ i = Len(s) + 1
  BY <1>3, <1>7, FrameSent
<1>10. incoming' = t /\ incoming' \in Seq(Symbol)
  BY <1>4, <1>8, <1>9
<1>11. Stream' = t
  BY <1>1, <1>5, <1>9, <1>10 DEF Stream
<1> HIDE DEF t
<1>12. IsHeader(HeaderOf(v)) /\ HeaderOf(v).message = v /\ HeaderOf(a).message = a
  BY DEF IsHeader, HeaderOf
<1>13. \A i \in 1..Len(t) : IsHeader(t[i]) => t[i].message \in {v, a}
  <2> SUFFICES ASSUME NEW i \in 1..Len(t), IsHeader(t[i])
               PROVE  t[i].message \in {v, a}
    OBVIOUS
  <2>1. CASE i \in 1..Len(s)
    <3>1. t[i] = s[i] /\ IsHeader(s[i])
      BY <1>9, <2>1
    <3>2. s[i] = HeaderOf(v)
      BY <1>7, <2>1, <3>1
    <3> QED
      BY <1>12, <3>1, <3>2
  <2>2. CASE i = Len(s) + 1
    BY <1>9, <1>12, <2>2
  <2> QED
    BY <1>9, <2>1, <2>2
<1>14. StreamInv'
  <2>1. \A i \in 1..Len(Stream') :
          IsHeader(Stream'[i]) /\ Stream'[i].message.command \in {"version", "verack"}
            /\ ~ Stream'[i].message.sound => handshakeSpoilt'
    BY <1>2, <1>3, <1>11, <1>13
  <2>2. IsFramed(Stream)' /\ IsComplete(Stream)'
    BY <1>9, <1>11 DEF IsFramed, IsComplete, IsOpenAt
  <2> QED
    BY <2>1, <2>2 DEF StreamInv
<1>15. HeadersAt(Stream') = {}
  BY <1>3, <1>11, <1>13 DEF HeadersAt
<1>16. HeadersInv'
  BY <1>1, <1>15, HeadersKept DEF HeadersAborted
<1>17. DataInv'
  BY <1>1, <1>2, <1>10 DEF TransportInv, DataInv
<1>18. SocketInv'
  BY <1>1, <1>5 DEF TransportInv, SocketInv, connected, WaitsFor
<1>19. HandshakeInv' /\ OneEventPerSocket'
  BY <1>1, <1>5 DEF TransportInv, HandshakeInv, connected, OneEventPerSocket
<1>20. GetHeadersInv'
  BY <1>1 DEF TransportInv, GetHeadersInv
<1>21. RepliesAnswerTheirRequests'
  BY <1>1 DEF TransportInv, RepliesAnswerTheirRequests
<1> QED
  BY <1>14, <1>16, <1>17, <1>18, <1>19, <1>20, <1>21 DEF TransportInv

(* A socket that is given up leaves nothing behind. *)
LEMMA Disconnects ==
  ASSUME TransportInv, _disconnectNoEmit, NEW who \in SUBSET Caller,
         aborted' = aborted \cup who, UNCHANGED <<calls, sockets, shook, handshakeSpoilt>>
  PROVE  /\ DataInv' /\ SocketInv' /\ StreamInv' /\ HandshakeInv' /\ GetHeadersInv' /\ HeadersInv'
         /\ RepliesAnswerTheirRequests' /\ socket' = 0
<1>1. /\ {isOpen, verackSent, wasConnected, pingInterval, shook, handshakeSpoilt} \subseteq BOOLEAN
      /\ call \in [Callers -> CallRecord] /\ calls \in 0..MaxCalls /\ aborted \subseteq Caller
      /\ calls \in Nat /\ {socket, sockets} \subseteq Nat
      /\ listening = {socket} \ {0}
  BY Bounds DEF TransportInv, DataInv, SocketInv
<1>2. /\ listening' = listening \ {socket} /\ socket' = 0 /\ isOpen' = FALSE
      /\ incoming' = <<>> /\ buffer' = <<>> /\ verackSent' = FALSE /\ wasConnected' = FALSE
      /\ pingInterval' = FALSE /\ pendingConnect' = 0 /\ pendingPongs' = {}
      /\ pendingGetHeaders' = 0 /\ pendingGetAddr' = 0
      /\ call' = [p \in DOMAIN call |->
                    IF IsPending(p) THEN [call[p] EXCEPT !.answer = "rejected"] ELSE call[p]]
  BY DEF _disconnectNoEmit
<1>3. ASSUME NEW c \in CallRecord
      PROVE  LET d == [c EXCEPT !.answer = "rejected"]
             IN  d \in CallRecord /\ d.op = c.op /\ d.id = c.id /\ d.own = c.own
                 /\ d.answer = "rejected"
  BY DEF CallRecord
<1>4. \A p \in Callers :
        /\ call'[p] \in CallRecord
        /\ call'[p].op = call[p].op /\ call'[p].id = call[p].id /\ call'[p].own = call[p].own
        /\ call'[p].answer # "pending"
        /\ call'[p].answer = "resolved" => call'[p] = call[p]
  <2> SUFFICES ASSUME NEW p \in Callers
               PROVE  /\ call'[p] \in CallRecord
                      /\ call'[p].op = call[p].op /\ call'[p].id = call[p].id
                      /\ call'[p].own = call[p].own
                      /\ call'[p].answer # "pending"
                      /\ call'[p].answer = "resolved" => call'[p] = call[p]
    OBVIOUS
  <2>1. call[p] \in CallRecord /\ p \in DOMAIN call
    BY <1>1
  <2>2. CASE IsPending(p)
    <3>1. call'[p] = [call[p] EXCEPT !.answer = "rejected"]
      BY <1>2, <2>1, <2>2
    <3>2. /\ call'[p] \in CallRecord /\ call'[p].op = call[p].op /\ call'[p].id = call[p].id
          /\ call'[p].own = call[p].own /\ call'[p].answer = "rejected"
      BY <1>3, <2>1, <3>1
    <3> QED
      BY <3>2
  <2>3. CASE ~ IsPending(p)
    <3>1. call'[p] = call[p]
      BY <1>2, <2>1, <2>3
    <3> QED
      BY <2>1, <2>3, <3>1 DEF IsPending
  <2> QED
    BY <2>2, <2>3
<1>5. call' \in [Callers -> CallRecord]
  BY <1>1, <1>2, <1>4
<1>6. DataInv'
  <2>1. 0 \in 0..calls'
    BY <1>1
  <2>2. <<>> \in Seq(Symbol)
    OBVIOUS
  <2> QED
    <3>1. aborted' \subseteq Caller /\ calls' = calls /\ sockets' = sockets
      BY <1>1
    <3>2. buffer' \in Seq(Symbol) /\ incoming' \in Seq(Symbol)
      BY <1>2, <2>2
    <3>3. {pendingConnect', pendingGetHeaders', pendingGetAddr'} \subseteq 0..calls'
          /\ pendingPongs' \subseteq 1..calls'
      BY <1>2, <2>1
    <3>4. {isOpen', verackSent', wasConnected', pingInterval', shook', handshakeSpoilt'}
            \subseteq BOOLEAN
      BY <1>1, <1>2
    <3>5. {socket', sockets'} \subseteq Nat
      BY <1>1, <1>2
    <3> QED
      BY <1>1, <1>5, <3>1, <3>2, <3>3, <3>4, <3>5 DEF DataInv
<1>7. Stream' = <<>> /\ Len(Stream') = 0
  BY <1>2 DEF Stream
<1>8. StreamInv' /\ HeadersInv'
  <2>1. 1..Len(Stream') = {}
    BY <1>7
  <2>2. IsFramed(Stream)' /\ IsComplete(Stream)'
    BY <1>7, <2>1 DEF IsFramed, IsComplete
  <2> QED
    BY <2>1, <2>2 DEF StreamInv, HeadersInv, HeadersAt
<1>9. SocketInv'
  <2>1. \A p \in Callers : WaitsFor(call[p], pendingConnect, pendingPongs, pendingGetHeaders,
                                    pendingGetAddr)'
    BY <1>4 DEF WaitsFor
  <2>2. listening' = {}
    BY <1>1, <1>2
  <2> QED
    BY <1>2, <2>1, <2>2 DEF SocketInv, connected, Callers
<1>10. HandshakeInv'
  BY <1>2 DEF HandshakeInv, connected
<1>11. GetHeadersInv'
  <2>1. /\ \A p \in Callers : call[p].id <= calls
        /\ \A p \in Callers : call[p].op = "getHeaders" =>
             /\ call[p].own
             /\ \A q \in Callers \ {p} : call[q].op = "getHeaders" => call[q].id # call[p].id
    BY DEF TransportInv, GetHeadersInv
  <2>2. calls' = calls
    OBVIOUS
  <2>3. \A p \in Callers :
          call'[p].id <= calls' /\ (call'[p].answer = "pending" => call'[p].id # 0)
    BY <1>4, <2>1, <2>2
  <2>4. \A p \in Callers : call'[p].op = "getHeaders" =>
             /\ call'[p].own
             /\ \A q \in Callers \ {p} : call'[q].op = "getHeaders" => call'[q].id # call'[p].id
             /\ call'[p].answer # "pending"
    BY <1>4, <2>1
  <2> QED
    BY <2>3, <2>4 DEF GetHeadersInv, Callers
<1>12. RepliesAnswerTheirRequests'
  <2> SUFFICES ASSUME NEW p \in Callers,
                      call'[p].answer = "resolved", call'[p].op \in {"ping", "getHeaders"},
                      call'[p].from # call'[p].id
               PROVE  /\ call'[p].op = "getHeaders"
                      /\ \E q \in aborted' :
                            call'[q].op = "getHeaders" /\ call'[q].id < call'[p].id
    BY DEF RepliesAnswerTheirRequests, Callers
  <2>1. call'[p] = call[p]
    BY <1>4
  <2>2. /\ call[p].op = "getHeaders"
        /\ \E q \in aborted : call[q].op = "getHeaders" /\ call[q].id < call[p].id
    BY <2>1 DEF TransportInv, RepliesAnswerTheirRequests, Callers
  <2>3. \A q \in aborted : q \in aborted' /\ q \in Callers
    BY <1>1 DEF Callers
  <2> QED
    BY <1>4, <2>1, <2>2, <2>3
<1> QED
  BY <1>2, <1>6, <1>8, <1>9, <1>10, <1>11, <1>12

(* The one event of a socket that ends. *)
LEMMA EventOfSocket ==
  ASSUME TransportInv, socket # 0, NEW event \in {"after", "before", "disconnect"}, Emit(event),
         event = "after" => shook \/ handshakeSpoilt,
         event # "after" => ~ shook,
         socket' = 0, UNCHANGED <<shook, handshakeSpoilt>>
  PROVE  OneEventPerSocket'
<1>1. events = <<>>
  BY DEF TransportInv, OneEventPerSocket
<1>2. events' = <<event>>
  BY <1>1 DEF Emit
<1>3. Len(events') = 1 /\ Head(events') = event
  BY <1>2
<1> QED
  BY <1>3 DEF OneEventPerSocket

(* A socket is lost, a deadline passes, or the client disposes of the      *)
(* connection.                                                             *)
LEMMA EndSteps ==
  ASSUME TransportInv,
         \/ \E s \in listening : SocketLost(s)
         \/ ConnectTimesOut
         \/ RequestTimesOut
         \/ Dispose
  PROVE  TransportInv'
<1>1. /\ listening = {socket} \ {0}
      /\ socket = 0 => pendingConnect = 0
      /\ ~ connected => pendingPongs = {} /\ pendingGetHeaders = 0 /\ pendingGetAddr = 0
      /\ connected => socket # 0 /\ (shook \/ handshakeSpoilt)
      /\ socket # 0 => (wasConnected <=> shook)
      /\ pendingConnect # 0 => ~ shook
      /\ {} \in SUBSET Caller
  BY DEF TransportInv, SocketInv, HandshakeInv, connected
<1>2. CASE \E s \in listening : SocketLost(s)
  <2>1. /\ socket # 0 /\ _disconnectNoEmit /\ Emit(IF wasConnected THEN "after" ELSE "before")
        /\ UNCHANGED <<aborted, calls, sockets, shook, handshakeSpoilt>>
    BY <1>1, <1>2 DEF SocketLost
  <2>2. aborted' = aborted \cup {}
    BY <2>1
  <2>3. /\ DataInv' /\ SocketInv' /\ StreamInv' /\ HandshakeInv' /\ GetHeadersInv' /\ HeadersInv'
        /\ RepliesAnswerTheirRequests' /\ socket' = 0
    BY <1>1, <2>1, <2>2, Disconnects
  <2>4. OneEventPerSocket'
    <3>1. CASE wasConnected
      <4>1. Emit("after") /\ shook
        BY <1>1, <2>1, <3>1
      <4> QED
        BY <2>1, <2>3, <4>1, EventOfSocket
    <3>2. CASE ~ wasConnected
      <4>1. Emit("before") /\ ~ shook
        BY <1>1, <2>1, <3>2
      <4> QED
        BY <2>1, <2>3, <4>1, EventOfSocket
    <3> QED
      BY <3>1, <3>2
  <2> QED
    BY <2>3, <2>4 DEF TransportInv
<1>3. CASE ConnectTimesOut
  <2>1. /\ socket # 0 /\ ~ shook /\ _disconnectNoEmit /\ Emit("before")
        /\ UNCHANGED <<aborted, calls, sockets, shook, handshakeSpoilt>>
    BY <1>1, <1>3 DEF ConnectTimesOut
  <2>2. aborted' = aborted \cup {}
    BY <2>1
  <2>3. /\ DataInv' /\ SocketInv' /\ StreamInv' /\ HandshakeInv' /\ GetHeadersInv' /\ HeadersInv'
        /\ RepliesAnswerTheirRequests' /\ socket' = 0
    BY <1>1, <2>1, <2>2, Disconnects
  <2>4. OneEventPerSocket'
    BY <2>1, <2>3, EventOfSocket
  <2> QED
    BY <2>3, <2>4 DEF TransportInv
<1>4. CASE RequestTimesOut
  <2>1. /\ socket # 0 /\ (shook \/ handshakeSpoilt) /\ _disconnectNoEmit /\ Emit("after")
        /\ UNCHANGED <<aborted, calls, sockets, shook, handshakeSpoilt>>
    BY <1>1, <1>4 DEF RequestTimesOut
  <2>2. aborted' = aborted \cup {}
    BY <2>1
  <2>3. /\ DataInv' /\ SocketInv' /\ StreamInv' /\ HandshakeInv' /\ GetHeadersInv' /\ HeadersInv'
        /\ RepliesAnswerTheirRequests' /\ socket' = 0
    BY <1>1, <2>1, <2>2, Disconnects
  <2>4. OneEventPerSocket'
    BY <2>1, <2>3, EventOfSocket
  <2> QED
    BY <2>3, <2>4 DEF TransportInv
<1>5. CASE Dispose
  <2>1. /\ socket # 0 /\ _disconnectNoEmit
        /\ UNCHANGED <<aborted, calls, sockets, shook, handshakeSpoilt, events>>
    BY <1>5 DEF Dispose, historyVars
  <2>2. aborted' = aborted \cup {}
    BY <2>1
  <2>3. /\ DataInv' /\ SocketInv' /\ StreamInv' /\ HandshakeInv' /\ GetHeadersInv' /\ HeadersInv'
        /\ RepliesAnswerTheirRequests' /\ socket' = 0
    BY <1>1, <2>1, <2>2, Disconnects
  <2>4. OneEventPerSocket'
    BY <2>1, <2>3 DEF TransportInv, OneEventPerSocket
  <2> QED
    BY <2>3, <2>4 DEF TransportInv
<1> QED
  BY <1>2, <1>3, <1>4, <1>5

(* A caller's signal is aborted. *)
LEMMA AbortStep ==
  ASSUME TransportInv, NEW p \in Caller, Abort(p)
  PROVE  TransportInv'
<1>1. /\ call \in [Callers -> CallRecord] /\ aborted \subseteq Caller /\ p \in Callers
      /\ call[p] \in CallRecord /\ calls \in Nat
      /\ {pendingConnect, pendingGetHeaders, pendingGetAddr} \subseteq 0..calls
      /\ pendingPongs \subseteq 1..calls
  BY Bounds DEF TransportInv, DataInv, Callers
<1>2. /\ aborted' = aborted \cup {p}
      /\ UNCHANGED <<calls, sockets, shook, handshakeSpoilt>>
  BY DEF Abort
<1>3. /\ \A q \in Callers : call[q].id <= calls /\ (call[q].answer = "pending" => call[q].id # 0)
      /\ \A q \in Callers : call[q].op = "getHeaders" =>
           /\ call[q].own
           /\ \A r \in Callers \ {q} : call[r].op = "getHeaders" => call[r].id # call[q].id
           /\ call[q].answer = "pending" =>
                /\ q \notin aborted
                /\ \A r \in Callers : call[r].op = "getHeaders" => call[r].id <= call[q].id
  BY DEF TransportInv, GetHeadersInv
<1>4. \A q \in Callers :
        WaitsFor(call[q], pendingConnect, pendingPongs, pendingGetHeaders, pendingGetAddr)
  BY DEF TransportInv, SocketInv
<1>5. CASE ~ IsPending(p) \/ ~ call[p].own
  <2>1. UNCHANGED <<socket, listening, isOpen, incoming, buffer, verackSent, wasConnected,
                    pingInterval, pendingConnect, pendingPongs, pendingGetHeaders,
                    pendingGetAddr, call, events>>
    BY <1>5 DEF Abort, flagVars, pendingVars
  <2>2. Stream' = Stream /\ StreamInv'
    BY <1>2, <2>1, SameStream
  <2>3. ~ HeadersAborted' => ~ HeadersAborted
    BY <1>2, <2>1 DEF HeadersAborted
  <2>4. HeadersInv'
    BY <2>1, <2>2, <2>3, HeadersKept
  <2>5. DataInv'
    BY <1>1, <1>2, <2>1 DEF TransportInv, DataInv
  <2>6. SocketInv'
    BY <2>1 DEF TransportInv, SocketInv, connected, WaitsFor
  <2>7. HandshakeInv' /\ OneEventPerSocket'
    BY <1>2, <2>1 DEF TransportInv, HandshakeInv, connected, OneEventPerSocket
  <2>8. GetHeadersInv'
    <3>1. call[p].op = "getHeaders" => call[p].answer # "pending"
      BY <1>1, <1>3, <1>5 DEF IsPending
    <3> QED
      BY <1>2, <1>3, <2>1, <3>1 DEF GetHeadersInv
  <2>9. RepliesAnswerTheirRequests'
    BY <1>2, <2>1 DEF TransportInv, RepliesAnswerTheirRequests
  <2> QED
    BY <2>2, <2>4, <2>5, <2>6, <2>7, <2>8, <2>9 DEF TransportInv
<1>6. CASE IsPending(p) /\ call[p].own /\ call[p].op = "connect"
  <2>1. _disconnectNoEmit /\ Emit("disconnect")
    BY <1>6 DEF Abort
  <2>2. call[p].id = pendingConnect /\ pendingConnect # 0
    BY <1>1, <1>3, <1>4, <1>6 DEF WaitsFor, IsPending
  <2>3. socket # 0 /\ ~ shook
    BY <2>2 DEF TransportInv, SocketInv, HandshakeInv
  <2>4. {p} \in SUBSET Caller
    OBVIOUS
  <2>5. /\ DataInv' /\ SocketInv' /\ StreamInv' /\ HandshakeInv' /\ GetHeadersInv' /\ HeadersInv'
        /\ RepliesAnswerTheirRequests' /\ socket' = 0
    BY <1>2, <2>1, <2>4, Disconnects
  <2>6. OneEventPerSocket'
    BY <1>2, <2>1, <2>3, <2>5, EventOfSocket
  <2> QED
    BY <2>5, <2>6 DEF TransportInv
<1>7. CASE IsPending(p) /\ call[p].own /\ call[p].op # "connect"
  <2> DEFINE op == call[p].op
             id == call[p].id
  <2>1. /\ pendingPongs' = IF op = "ping" THEN pendingPongs \ {id} ELSE pendingPongs
        /\ pendingGetHeaders' = IF op = "getHeaders" THEN 0 ELSE pendingGetHeaders
        /\ pendingGetAddr' = IF op = "getAddr" THEN 0 ELSE pendingGetAddr
        /\ call' = Settled(call, op, id, "rejected", 0)
        /\ UNCHANGED <<socket, listening, isOpen, incoming, buffer, verackSent, wasConnected,
                       pingInterval, pendingConnect, events>>
    BY <1>7 DEF Abort, Rejected, flagVars
  <2> HIDE DEF op, id
  <2>2. /\ call' \in [Callers -> CallRecord]
        /\ \A q \in Callers :
             IF call[q].op = op /\ call[q].id = id /\ call[q].answer = "pending"
             THEN /\ call'[q].op = call[q].op /\ call'[q].id = call[q].id
                  /\ call'[q].own = call[q].own
                  /\ call'[q].answer = "rejected" /\ call'[q].from = 0
             ELSE call'[q] = call[q]
    <3> DEFINE new == Settled(call, op, id, "rejected", 0)
    <3>1. /\ new \in [Callers -> CallRecord]
          /\ \A q \in Callers :
               IF call[q].op = op /\ call[q].id = id /\ call[q].answer = "pending"
               THEN /\ new[q].op = call[q].op /\ new[q].id = call[q].id
                    /\ new[q].own = call[q].own
                    /\ new[q].answer = "rejected" /\ new[q].from = 0
               ELSE new[q] = call[q]
      BY <1>1, SettledCalls
    <3> HIDE DEF new
    <3>2. call' = new
      BY <2>1 DEF new
    <3> QED
      BY <3>1, <3>2
  <2>3. \A q \in Callers :
          /\ call'[q].op = call[q].op /\ call'[q].id = call[q].id /\ call'[q].own = call[q].own
          /\ call'[q].answer = "pending" => call[q].answer = "pending"
          /\ call'[q].answer = "resolved" => call'[q] = call[q]
          /\ call'[q].answer = "pending" => ~ (call[q].op = op /\ call[q].id = id)
    BY <2>2
  <2>4. call'[p].answer # "pending" /\ call'[p].op = op
    BY <1>1, <1>7, <2>2 DEF op, id, IsPending
  <2>5. Stream' = Stream /\ StreamInv'
    BY <1>2, <2>1, SameStream
  <2>6. HeadersInv'
    <3>1. CASE op = "getHeaders"
      BY <1>2, <2>4, <3>1 DEF HeadersInv
    <3>2. CASE op # "getHeaders"
      <4>1. \A q \in aborted : q \in Callers /\ q \in aborted'
        BY <1>1, <1>2 DEF Callers
      <4>2. ~ HeadersAborted' => ~ HeadersAborted
        BY <2>3, <4>1 DEF HeadersAborted
      <4> QED
        BY <2>1, <2>5, <3>2, <4>2, HeadersKept
    <3> QED
      BY <3>1, <3>2
  <2>7. DataInv'
    <3>1. 0 \in 0..calls
      BY <1>1
    <3>2. {pendingConnect', pendingGetHeaders', pendingGetAddr'} \subseteq 0..calls'
          /\ pendingPongs' \subseteq 1..calls'
      BY <1>1, <1>2, <2>1, <3>1
    <3>3. aborted' \subseteq Caller
      BY <1>1, <1>2
    <3> QED
      BY <1>2, <2>1, <2>2, <3>2, <3>3 DEF TransportInv, DataInv
  <2>8. SocketInv'
    <3>1. \A q \in Callers : WaitsFor(call[q], pendingConnect, pendingPongs, pendingGetHeaders,
                                      pendingGetAddr)'
      <4> SUFFICES ASSUME NEW q \in Callers
                   PROVE  WaitsFor(call'[q], pendingConnect', pendingPongs', pendingGetHeaders',
                                   pendingGetAddr')
        BY DEF WaitsFor
      <4>1. WaitsFor(call[q], pendingConnect, pendingPongs, pendingGetHeaders, pendingGetAddr)
        BY <1>4
      <4>2. WaitsFor(call[p], pendingConnect, pendingPongs, pendingGetHeaders, pendingGetAddr)
        BY <1>1, <1>4
      <4>3. /\ op = "getHeaders" => id = pendingGetHeaders
            /\ op = "getAddr" => id = pendingGetAddr
        BY <1>7, <4>2 DEF WaitsFor, op, id, IsPending
      <4> QED
        BY <2>1, <2>3, <4>1, <4>3 DEF WaitsFor
    <3>2. ~ connected => pendingPongs = {} /\ pendingGetHeaders = 0 /\ pendingGetAddr = 0
      BY DEF TransportInv, SocketInv
    <3>3. ~ connected' => pendingPongs' = {} /\ pendingGetHeaders' = 0 /\ pendingGetAddr' = 0
      BY <2>1, <3>2 DEF connected
    <3> QED
      BY <2>1, <3>1, <3>3 DEF TransportInv, SocketInv, Callers
  <2>9. HandshakeInv' /\ OneEventPerSocket'
    BY <1>2, <2>1 DEF TransportInv, HandshakeInv, connected, OneEventPerSocket
  <2>10. GetHeadersInv'
    <3>1. \A q \in Callers :
            call'[q].id <= calls' /\ (call'[q].answer = "pending" => call'[q].id # 0)
      BY <1>2, <1>3, <2>3
    <3>2. \A q \in Callers : call'[q].answer = "pending" => q # p
      BY <2>4
    <3>3. \A q \in Callers : call'[q].op = "getHeaders" =>
            /\ call'[q].own
            /\ \A r \in Callers \ {q} : call'[r].op = "getHeaders" => call'[r].id # call'[q].id
            /\ call'[q].answer = "pending" =>
                 /\ q \notin aborted'
                 /\ \A r \in Callers : call'[r].op = "getHeaders" => call'[r].id <= call'[q].id
      BY <1>2, <1>3, <2>3, <3>2
    <3> QED
      BY <3>1, <3>3 DEF GetHeadersInv, Callers
  <2>11. RepliesAnswerTheirRequests'
    <3> SUFFICES ASSUME NEW q \in Callers,
                        call'[q].answer = "resolved", call'[q].op \in {"ping", "getHeaders"},
                        call'[q].from # call'[q].id
                 PROVE  /\ call'[q].op = "getHeaders"
                        /\ \E r \in aborted' :
                              call'[r].op = "getHeaders" /\ call'[r].id < call'[q].id
      BY DEF RepliesAnswerTheirRequests, Callers
    <3>1. call'[q] = call[q]
      BY <2>3
    <3>2. /\ call[q].op = "getHeaders"
          /\ \E r \in aborted : call[r].op = "getHeaders" /\ call[r].id < call[q].id
      BY <3>1 DEF TransportInv, RepliesAnswerTheirRequests, Callers
    <3>3. \A r \in aborted : r \in aborted' /\ r \in Callers
      BY <1>1, <1>2 DEF Callers
    <3> QED
      BY <2>3, <3>1, <3>2, <3>3
  <2> QED
    BY <2>5, <2>6, <2>7, <2>8, <2>9, <2>10, <2>11 DEF TransportInv
<1> QED
  BY <1>5, <1>6, <1>7

----------------------------------------------------------------------------
(* The invariant holds in every reachable state *)

(* The connection is made with nothing pending. *)
LEMMA InitTransport == Init => TransportInv
<1> SUFFICES ASSUME Init
             PROVE  TransportInv
  OBVIOUS
<1>1. /\ socket = 0 /\ listening = {} /\ isOpen = FALSE /\ incoming = <<>> /\ buffer = <<>>
      /\ verackSent = FALSE /\ wasConnected = FALSE /\ pingInterval = FALSE
      /\ pendingConnect = 0 /\ pendingPongs = {} /\ pendingGetHeaders = 0 /\ pendingGetAddr = 0
      /\ call = [p \in Callers |-> NoCall] /\ aborted = {} /\ calls = 0 /\ sockets = 0
      /\ shook = FALSE /\ handshakeSpoilt = FALSE /\ events = <<>>
  BY DEF Init, Callers
<1>2. /\ NoCall \in CallRecord /\ NoCall.op = "none" /\ NoCall.answer = "none" /\ NoCall.id = 0
  <2>1. 0 \in 0..MaxCalls
    BY Bounds
  <2> QED
    BY <2>1 DEF NoCall, CallRecord
<1> HIDE DEF NoCall
<1>3. call \in [Callers -> CallRecord] /\ \A p \in Callers : call[p] = NoCall
  BY <1>1, <1>2
<1>4. DataInv
  <2>1. /\ aborted \subseteq Caller /\ calls = 0 /\ calls \in 0..MaxCalls
        /\ {socket, sockets} \subseteq Nat
    BY <1>1, Bounds
  <2>2. buffer \in Seq(Symbol) /\ incoming \in Seq(Symbol)
    BY <1>1
  <2>3. /\ {pendingConnect, pendingGetHeaders, pendingGetAddr} \subseteq 0..calls
        /\ pendingPongs \subseteq 1..calls
    BY <1>1
  <2>4. {isOpen, verackSent, wasConnected, pingInterval, shook, handshakeSpoilt} \subseteq BOOLEAN
    BY <1>1
  <2> QED
    BY <1>3, <2>1, <2>2, <2>3, <2>4 DEF DataInv
<1>5. Stream = <<>> /\ 1..Len(Stream) = {} /\ Len(Stream) = 0
  BY <1>1 DEF Stream
<1>6. StreamInv /\ HeadersInv
  BY <1>5 DEF StreamInv, HeadersInv, HeadersAt, IsFramed, IsComplete
<1>7. SocketInv
  BY <1>1, <1>2, <1>3 DEF SocketInv, WaitsFor
<1>8. HandshakeInv
  BY <1>1 DEF HandshakeInv, connected
<1>9. GetHeadersInv
  BY <1>1, <1>2, <1>3 DEF GetHeadersInv
<1>10. RepliesAnswerTheirRequests
  BY <1>2, <1>3 DEF RepliesAnswerTheirRequests, Callers
<1>11. OneEventPerSocket
  BY <1>1 DEF OneEventPerSocket
<1> QED
  BY <1>4, <1>6, <1>7, <1>8, <1>9, <1>10, <1>11 DEF TransportInv

(* A step in which nothing happens keeps it. *)
LEMMA TransportStutters == TransportInv /\ UNCHANGED vars => TransportInv'
<1> SUFFICES ASSUME TransportInv, UNCHANGED vars
             PROVE  TransportInv'
  OBVIOUS
<1>1. UNCHANGED <<socket, listening, isOpen, incoming, buffer, verackSent, wasConnected,
                  pingInterval, pendingConnect, pendingPongs, pendingGetHeaders, pendingGetAddr,
                  call, aborted, calls, sockets, shook, handshakeSpoilt, events>>
  BY DEF vars, flagVars, pendingVars, callVars, sentVars, historyVars
<1>2. Stream' = Stream /\ StreamInv'
  BY <1>1, SameStream
<1>3. HeadersInv'
  BY <1>1, <1>2, HeadersKept DEF HeadersAborted
<1>4. DataInv'
  BY <1>1 DEF TransportInv, DataInv
<1>5. SocketInv'
  BY <1>1 DEF TransportInv, SocketInv, connected, WaitsFor
<1>6. HandshakeInv' /\ OneEventPerSocket'
  BY <1>1 DEF TransportInv, HandshakeInv, connected, OneEventPerSocket
<1>7. GetHeadersInv'
  BY <1>1 DEF TransportInv, GetHeadersInv
<1>8. RepliesAnswerTheirRequests'
  BY <1>1 DEF TransportInv, RepliesAnswerTheirRequests
<1> QED
  BY <1>2, <1>3, <1>4, <1>5, <1>6, <1>7, <1>8 DEF TransportInv

(* Every step keeps it. *)
LEMMA TransportInductive == TransportInv /\ [Next]_vars => TransportInv'
<1> SUFFICES ASSUME TransportInv, [Next]_vars
             PROVE  TransportInv'
  OBVIOUS
<1>1. \A p \in Caller : p \in Callers
  BY DEF Callers
<1>2. CASE UNCHANGED vars
  BY <1>2, TransportStutters
<1>3. CASE \E p \in Caller : Connect(p)
  BY <1>1, <1>3, ConnectStep
<1>4. CASE \E p \in Caller \cup {Interval} : Ping(p)
  BY <1>4, PingStep DEF Callers
<1>5. CASE \E p \in Caller : GetHeaders(p)
  BY <1>1, <1>5, GetHeadersStep
<1>6. CASE \E p \in Caller : GetAddr(p)
  BY <1>1, <1>6, GetAddrStep
<1>7. CASE SocketConnects
  BY <1>7, SocketConnectsStep
<1>8. CASE AddrIsSent
  BY <1>8, AddrStep
<1>9. CASE DataArrives
  BY <1>9, DataStep
<1>10. CASE (\E s \in listening : SocketLost(s)) \/ ConnectTimesOut \/ RequestTimesOut \/ Dispose
  BY <1>10, EndSteps
<1>11. CASE \E p \in Caller : Abort(p)
  BY <1>11, AbortStep
<1> QED
  BY <1>2, <1>3, <1>4, <1>5, <1>6, <1>7, <1>8, <1>9, <1>10, <1>11 DEF Next

(* Requests, the stream and the handshake are as TransportInv says in      *)
(* every reachable state (LegacyNodeConnection.ts 255-609).                *)
THEOREM TransportInvHolds == Spec => []TransportInv
BY InitTransport, TransportInductive, PTL DEF Spec

(* Who waits, waits for a request that is pending on the socket of the     *)
(* connection, and no other socket has listeners: no way in which a        *)
(* request or a socket ends leaves a promise behind (356-427, 448-609).    *)
THEOREM TransportTypes == Spec => []TypeOK
<1>1. TransportInv => TypeOK
  <2> SUFFICES ASSUME TransportInv
               PROVE  TypeOK
    OBVIOUS
  <2>1. /\ {isOpen, verackSent, wasConnected, pingInterval, shook, handshakeSpoilt}
             \subseteq BOOLEAN
        /\ calls \in 0..MaxCalls
        /\ {pendingConnect, pendingGetHeaders, pendingGetAddr} \subseteq 0..calls
        /\ pendingPongs \subseteq 1..calls /\ aborted \subseteq Caller
    BY DEF TransportInv, DataInv
  <2>2. 0..calls \subseteq Requests \cup {0} /\ 1..calls \subseteq Requests
    BY <2>1, Bounds DEF Requests
  <2>3. /\ listening = {socket} \ {0}
        /\ socket = 0 => pendingConnect = 0 /\ buffer = <<>> /\ ~ pingInterval
        /\ ~ connected => pendingPongs = {} /\ pendingGetHeaders = 0 /\ pendingGetAddr = 0
    BY DEF TransportInv, SocketInv
  <2>4. ASSUME NEW p \in Callers, IsPending(p)
        PROVE  CASE call[p].op = "connect" -> call[p].id = pendingConnect
                 [] call[p].op = "ping" -> call[p].id \in pendingPongs
                 [] call[p].op = "getHeaders" -> call[p].id = pendingGetHeaders
                 [] call[p].op = "getAddr" -> call[p].id = pendingGetAddr
    <3>1. WaitsFor(call[p], pendingConnect, pendingPongs, pendingGetHeaders, pendingGetAddr)
      BY DEF TransportInv, SocketInv
    <3> QED
      BY <2>4, <3>1 DEF WaitsFor, IsPending
  <2>5. /\ {pendingConnect, pendingGetHeaders, pendingGetAddr} \subseteq Requests \cup {0}
        /\ pendingPongs \subseteq Requests
    BY <2>1, <2>2
  <2> QED
    BY <2>1, <2>3, <2>4, <2>5 DEF TypeOK, Callers
<1> QED
  BY <1>1, TransportInvHolds, PTL

(* A ping is answered by its own pong, and getHeaders by the headers that  *)
(* were sent for it, as long as none has been aborted on the connection    *)
(* before (168-253, 448-494).                                              *)
THEOREM AnswersFitRequests == Spec => []RepliesAnswerTheirRequests
<1>1. TransportInv => RepliesAnswerTheirRequests
  BY DEF TransportInv
<1> QED
  BY <1>1, TransportInvHolds, PTL

(* However a socket ends, there is one event of it at most, and it says    *)
(* whether the connection was made (356-384, 560-609).                     *)
THEOREM SocketsEndOnce == Spec => []OneEventPerSocket
<1>1. TransportInv => OneEventPerSocket
  BY DEF TransportInv
<1> QED
  BY <1>1, TransportInvHolds, PTL

=============================================================================

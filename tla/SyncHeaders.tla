---------------------------- MODULE SyncHeaders ----------------------------
(***************************************************************************)
(* The download of block headers: LegacyNodeConnection.syncHeaders() and   *)
(* _syncHeaders(), the callers of it in BlockHeadersClient, and the remote *)
(* nodes they talk to.                                                     *)
(*                                                                         *)
(* A connection runs one pass of _syncHeaders at a time and queues one     *)
(* more.  A pass asks for headers, adds the reply to the database and asks *)
(* again; it is synchronous but for the wait for the reply, or the sleep   *)
(* until another node has finished.  The database is held to what          *)
(* BlockHeadersDatabase promises (HeaviestChain): `known` and `tip`.  The  *)
(* remote nodes are external: each follows a chain of its own, answers     *)
(* getheaders in the order asked and announces its tips with inv.          *)
(***************************************************************************)
EXTENDS HeaderTree, SequencesExt

CONSTANTS
    Node,            \* the remote nodes, by IP and port
    StartTips,       \* the tips of the chains a run may find on disk
    RemoteTips,      \* RemoteTips[n]: the tips the chain of n may come to have
    InvalidBlocks,   \* the invalidBlocks setting
    ChunkSize,       \* the headers in a full reply: 2000
    LocatorTop,      \* the hashes of a locator before it thins out: 10
    MaxLag,          \* how far behind an in-sync node may be: 100
    MaxBehind        \* the replies a slower node may be behind: 4

(* The nodes have the genesis of ours, and fromDatabase loads a chain from *)
(* genesis that has no invalid block.                                      *)
ASSUME SyncAssumption ==
    /\ StartTips \subseteq Header
    /\ RemoteTips \in [Node -> SUBSET Header]
    /\ InvalidBlocks \subseteq Header \ {Genesis}
    /\ \A t \in StartTips : ToSet(ChainTo[t]) \cap InvalidBlocks = {}
    /\ \A t \in StartTips \cup UNION {RemoteTips[n] : n \in Node} : ChainTo[t][1] = Genesis
    /\ ChunkSize \in Nat \ {0}
    /\ {LocatorTop, MaxLag, MaxBehind} \subseteq Nat

VARIABLES
    known,           \* BlockHeadersDatabase: the headers in memory
    tip,             \* BlockHeadersDatabase: the tip of the longest chain
    tipExtended,     \* the tip was extended in this session
    nodesSyncingHeaders, \* _nodesSyncingHeaders
    status,          \* the NodeConnection of a node: "none", "testing" until it
                     \* first syncs, "open" from then on, "lost"
    connected,       \* what _nodeConnectionsConnected has for it: "none", its
                     \* "live" connection, or a "dead" one, disposed of
    passes,          \* the callers of the running pass, and of the queued one
    pc,              \* the running pass: "idle" (none), "asked" or "sleeping"
    from,            \* _syncHeaders: the hashes the next request names
    tipHash,         \* _tipHashHex
    waited,          \* _syncHeaders: waitedForOtherNodeToSync
    outcome,         \* how the last pass ended, "none" while another runs
    remoteTip,       \* the tip of the node's own chain
    request,         \* the getheaders the node has yet to answer, {} if none
    inbox            \* what the node has sent and we have not handled

databaseVars == <<known, tip, tipExtended>>
clientVars   == <<nodesSyncingHeaders, status, connected>>
passVars     == <<passes, pc, from, tipHash, waited, outcome>>
remoteVars   == <<remoteTip, request, inbox>>
vars == <<databaseVars, clientVars, passVars, remoteVars>>

(* Who calls syncHeaders: the test of a new connection, the reconnection   *)
(* of a lost one, its block_hashes event, and the health monitor.          *)
Caller == {"test", "reconnect", "block_hashes", "monitor"}

ChainOf(t) == ToSet(ChainTo[t])

Init ==
    /\ tip \in StartTips
    /\ known = ChainOf(tip)
    /\ tipExtended = FALSE
    /\ nodesSyncingHeaders = {}
    /\ status = [n \in Node |-> "none"]
    /\ connected = [n \in Node |-> "none"]
    /\ passes = [n \in Node |-> <<>>]
    /\ pc = [n \in Node |-> "idle"]
    /\ from = [n \in Node |-> {}]
    /\ tipHash = [n \in Node |-> Genesis]
    /\ waited = [n \in Node |-> FALSE]
    /\ outcome = [n \in Node |-> "none"]
    /\ remoteTip = [n \in Node |-> Genesis]
    /\ request = [n \in Node |-> {}]
    /\ inbox = [n \in Node |-> <<>>]

----------------------------------------------------------------------------
(* The database, as _syncHeaders uses it *)

(* How far apart the k-th hash of a locator and the next are: the first    *)
(* ones are one apart, then each twice as far as the one before.           *)
Step[k \in Nat] == IF k <= LocatorTop THEN 1 ELSE 2 * Step[k - 1]

(* How far below the tip the k-th hash of a locator is. *)
Offset[k \in Nat] == IF k <= 1 THEN 0 ELSE Offset[k - 1] + Step[k - 1]

(* getBlockLocatorHashBuffers: genesis is always the last. *)
Locator(t) ==
    {Genesis} \cup {ChainTo[t][Depth[t] + 1 - Offset[k]] :
                       k \in {j \in 1..Depth[t] + 1 : Offset[j] < Depth[t]}}

(* The headers of a reply that addHeaders does not filter out: a reply is  *)
(* a stretch of one chain, so they are its end.                            *)
Unknown(headers) ==
    FoldLeft(LAMBDA fresh, h : IF h \in known THEN fresh ELSE Append(fresh, h), <<>>, headers)

IsLinked(headers) == headers # <<>> => Parent[Head(headers)] \in known

(* Fault: only the last header of a reply is looked at. *)
FirstInvalid_Last(headers) ==
    IF headers # <<>> /\ Last(headers) \in InvalidBlocks THEN Len(headers) ELSE 0

(* The position of the first invalid block, 0 if there is none. *)
FirstInvalid(headers) == SelectInSeq(headers, LAMBDA h : h \in InvalidBlocks)

HasInvalid(headers) ==
    IsLinked(Unknown(headers)) /\ FirstInvalid(Unknown(headers)) # 0

(* The headers addHeaders inserts: none if they do not link, and none from *)
(* the first invalid block on.                                             *)
Accepted(headers) ==
    LET fresh == Unknown(headers)
    IN  IF ~ IsLinked(fresh) THEN <<>>
        ELSE IF FirstInvalid(fresh) = 0 THEN fresh
        ELSE SubSeq(fresh, 1, FirstInvalid(fresh) - 1)

KnownWith(headers) == known \cup ToSet(Accepted(headers))

(* Fault: the highest header wins, not the heaviest. *)
TipWith_Higher(headers) ==
    IF Accepted(headers) # <<>> /\ Depth[Last(Accepted(headers))] > Depth[tip]
    THEN Last(Accepted(headers)) ELSE tip

(* The last header inserted is the heaviest of them. *)
TipWith(headers) ==
    IF Accepted(headers) # <<>> /\ TotalWork[Last(Accepted(headers))] > TotalWork[tip]
    THEN Last(Accepted(headers)) ELSE tip

(* getHeaderFromHeight of the longest chain that ends in t. *)
HasHeight(t, height) == height <= Depth[t]
OnChainOf(t, h) == HasHeight(t, Depth[h]) /\ ChainTo[t][Depth[h] + 1] = h

----------------------------------------------------------------------------
(* syncHeaders: the queue of passes of a connection *)

(* The running pass asks for what follows hashes. *)
AskFor(n, hashes) ==
    /\ pc' = [pc EXCEPT ![n] = "asked"]
    /\ from' = [from EXCEPT ![n] = hashes]
    /\ request' = [request EXCEPT ![n] = hashes]

(* A pass begins: it asks for what follows the longest chain. *)
Begin(n) ==
    /\ AskFor(n, Locator(tip))
    /\ waited' = [waited EXCEPT ![n] = FALSE]
    /\ outcome' = [outcome EXCEPT ![n] = "none"]

(* Fault: every call queues a pass. *)
QueueWith_NoCap(queue, caller) == Append(queue, {caller})

(* The call joins the queued pass if one runs and one is queued already,   *)
(* and otherwise queues one.                                               *)
QueueWith(queue, caller) ==
    IF Len(queue) = 2 THEN <<queue[1], queue[2] \cup {caller}>>
    ELSE Append(queue, {caller})

(* A call for one connection. *)
SyncHeaders(n, caller) ==
    /\ nodesSyncingHeaders' = nodesSyncingHeaders \cup {n}
    /\ passes' = [passes EXCEPT ![n] = QueueWith(@, caller)]
    /\ IF passes[n] = <<>> THEN Begin(n)
       ELSE UNCHANGED <<pc, from, request, waited, outcome>>

(* The callers of settled passes go on.  Each takes its node off the set   *)
(* of those syncing; a block_hashes event then prunes branches if that set *)
(* is empty, and so does the monitor once all its calls have settled.      *)
PrunesAfter(n, callers) ==
    /\ nodesSyncingHeaders \subseteq {n}
    /\ \/ "block_hashes" \in callers
       \/ /\ "monitor" \in callers
          /\ \A m \in Node \ {n} : \A i \in DOMAIN passes[m] : "monitor" \notin passes[m][i]

IsTested(n) == passes[n][1] \cap {"test", "reconnect"} # {}

Resume(n, callers, knownNow, tipNow) ==
    /\ nodesSyncingHeaders' = nodesSyncingHeaders \ {n}
    /\ known' = IF PrunesAfter(n, callers) THEN ChainOf(tipNow) ELSE knownNow
    /\ tip' = tipNow

(* No pass runs, so none has local variables. *)
NoPass(n) ==
    /\ pc' = [pc EXCEPT ![n] = "idle"]
    /\ from' = [from EXCEPT ![n] = {}]
    /\ waited' = [waited EXCEPT ![n] = FALSE]

(* The running pass returns and the connection stays: its callers go on to *)
(* count the node as connected, and a queued pass begins.                  *)
EndPass(n, result, passed, knownNow) ==
    /\ Resume(n, passes[n][1], knownNow, tip)
    /\ connected' = [connected EXCEPT ![n] = IF passed /\ IsTested(n) THEN "live" ELSE @]
    /\ passes' = [passes EXCEPT ![n] = Tail(@)]
    /\ IF Len(passes[n]) = 2 THEN Begin(n)
       ELSE /\ NoPass(n)
            /\ outcome' = [outcome EXCEPT ![n] = result]
            /\ UNCHANGED request
    /\ inbox' = [inbox EXCEPT ![n] = Tail(@)]
    /\ UNCHANGED <<tipExtended, status, remoteTip>>

(* The connection goes: its passes end, a queued one since it finds the    *)
(* connection closed.  A pass that fails forgets the tip of its node, and  *)
(* so does a connection that is disposed of.                               *)
EndConnection(n, newStatus, entry, result, knownNow, tipNow) ==
    /\ status' = [status EXCEPT ![n] = newStatus]
    /\ connected' = [connected EXCEPT ![n] = entry]
    /\ IF passes[n] = <<>>
       THEN /\ known' = knownNow
            /\ tip' = tipNow
            /\ UNCHANGED nodesSyncingHeaders
       ELSE Resume(n, UNION ToSet(passes[n]), knownNow, tipNow)
    /\ NoPass(n)
    /\ tipHash' = IF newStatus = "lost" /\ passes[n] = <<>> THEN tipHash
                  ELSE [tipHash EXCEPT ![n] = Genesis]
    /\ outcome' = [outcome EXCEPT ![n] = result]
    /\ passes' = [passes EXCEPT ![n] = <<>>]
    /\ request' = [request EXCEPT ![n] = {}]
    /\ inbox' = [inbox EXCEPT ![n] = <<>>]
    /\ UNCHANGED remoteTip

(* The pass throws.  A reconnection then destroys the connection, and no   *)
(* other caller does.                                                      *)
Throw(n, result, knownNow) ==
    /\ IF "reconnect" \in passes[n][1]
       THEN /\ EndConnection(n, "none", "none", result, knownNow, tip)
            /\ UNCHANGED tipExtended
       ELSE /\ EndPass(n, result, FALSE, knownNow)
            /\ tipHash' = [tipHash EXCEPT ![n] = Genesis]

(* A listener destroys the connection in the middle of the pass, which     *)
(* then returns as if all was well: a caller that tested the connection    *)
(* counts it, unless it first asks it for addresses and fails.             *)
Destroyed(n, result, knownNow, tipNow) ==
    \E asksForAddresses \in BOOLEAN :
        EndConnection(n, "none",
            IF "reconnect" \in passes[n][1] \/ ("test" \in passes[n][1] /\ ~ asksForAddresses)
            THEN "dead" ELSE "none",
            result, knownNow, tipNow)

(* Our end of the connection has a socket. *)
IsThere(n) == status[n] \in {"testing", "open"}

(* The socket goes while the pass sleeps, which does not notice yet. *)
LosesSleeper(n, newStatus) ==
    /\ pc[n] = "sleeping"
    /\ status' = [status EXCEPT ![n] = newStatus]
    /\ connected' = [connected EXCEPT ![n] = "none"]
    /\ request' = [request EXCEPT ![n] = {}]
    /\ inbox' = [inbox EXCEPT ![n] = <<>>]
    /\ UNCHANGED <<databaseVars, nodesSyncingHeaders, passVars, remoteTip>>

(* The socket goes: what is pending is rejected. *)
LosesSocket(n, newStatus, result) ==
    \/ LosesSleeper(n, newStatus)
    \/ /\ pc[n] # "sleeping"
       /\ EndConnection(n, newStatus, "none", result, known, tip)
       /\ UNCHANGED tipExtended

----------------------------------------------------------------------------
(* One reply in _syncHeaders *)

HeadersAt(n) == Head(inbox[n]).headers

(* The running pass of a connection is handed a reply. *)
Receives(n) ==
    /\ inbox[n] # <<>>
    /\ Head(inbox[n]).command = "headers"
    /\ pc[n] = "asked"

Consume(n) == inbox' = [inbox EXCEPT ![n] = Tail(@)]

(* The node has nothing to add, although the last headers it gave us are   *)
(* too far below the tip, or not known any more.                           *)
IsOutOfSync(n) ==
    /\ tipHash[n] \notin {tip, Genesis}
    /\ (IF tipHash[n] \in known THEN Depth[tipHash[n]] ELSE 0) + MaxLag < Depth[tip]

(* An empty reply ends the pass. *)
ReceiveNothing(n) ==
    /\ Receives(n)
    /\ HeadersAt(n) = <<>>
    /\ ~ IsOutOfSync(n)
    /\ EndPass(n, "done", TRUE, known)
    /\ UNCHANGED tipHash

(* Fault: any reply of a node that is behind gets it dropped. *)
ReceiveOutOfSync_AnyReply(n) ==
    /\ Receives(n)
    /\ IsOutOfSync(n)
    /\ Destroyed(n, "out_of_sync", known, tip)
    /\ UNCHANGED tipExtended

(* out_of_sync is emitted: its listener destroys the connection. *)
ReceiveOutOfSync(n) ==
    /\ Receives(n)
    /\ HeadersAt(n) = <<>>
    /\ IsOutOfSync(n)
    /\ Destroyed(n, "out_of_sync", known, tip)
    /\ UNCHANGED tipExtended

(* invalid_blocks is emitted: its listener destroys the connection.  The   *)
(* headers before the invalid one stay.                                    *)
ReceiveInvalid(n) ==
    /\ Receives(n)
    /\ HasInvalid(HeadersAt(n))
    /\ Destroyed(n, "invalid_blocks", KnownWith(HeadersAt(n)), TipWith(HeadersAt(n)))
    /\ tipExtended' = (tipExtended \/ tip' # tip)

(* The reply does not link to what is known: the pass throws. *)
ReceiveOutOfOrder(n) ==
    /\ Receives(n)
    /\ HeadersAt(n) # <<>>
    /\ ~ HasInvalid(HeadersAt(n))
    /\ Last(HeadersAt(n)) \notin KnownWith(HeadersAt(n))
    /\ Throw(n, "out_of_order", known)

(* The reply is added.  What is left is whether the pass goes on. *)
Adds(n) ==
    /\ Receives(n)
    /\ HeadersAt(n) # <<>>
    /\ ~ HasInvalid(HeadersAt(n))
    /\ Last(HeadersAt(n)) \in KnownWith(HeadersAt(n))

(* It ends higher up than the longest chain: the header at its height is   *)
(* undefined, and reading its hash throws.                                 *)
ReceiveAboveTip(n) ==
    /\ Adds(n)
    /\ ~ HasHeight(TipWith(HeadersAt(n)), Depth[Last(HeadersAt(n))])
    /\ Throw(n, "undefined", KnownWith(HeadersAt(n)))

(* A reply that added nothing and ends where the one before did. *)
IsDuplicate(n) ==
    TipWith(HeadersAt(n)) = tip /\ Last(HeadersAt(n)) = tipHash[n]

ReceiveDuplicate(n) ==
    /\ Adds(n)
    /\ HasHeight(TipWith(HeadersAt(n)), Depth[Last(HeadersAt(n))])
    /\ IsDuplicate(n)
    /\ EndPass(n, "duplicates", TRUE, KnownWith(HeadersAt(n)))
    /\ UNCHANGED tipHash

(* The reply is several replies behind a chain it is part of. *)
IsBehind(n) ==
    /\ Depth[Last(HeadersAt(n))] + Len(HeadersAt(n)) * MaxBehind < Depth[tip]
    /\ OnChainOf(tip, Last(HeadersAt(n)))
    /\ ~ waited[n]
    /\ tipExtended

(* The pass asks for the headers that follow.                              *)
ReceiveHeaders(n) ==
    /\ Adds(n)
    /\ HasHeight(TipWith(HeadersAt(n)), Depth[Last(HeadersAt(n))])
    /\ ~ IsDuplicate(n)
    /\ ~ IsBehind(n)
    /\ known' = KnownWith(HeadersAt(n))
    /\ tip' = TipWith(HeadersAt(n))
    /\ tipExtended' = (tipExtended \/ tip' # tip)
    /\ tipHash' = [tipHash EXCEPT ![n] = Last(HeadersAt(n))]
    /\ AskFor(n, {Last(HeadersAt(n))})
    /\ Consume(n)
    /\ UNCHANGED <<clientVars, passes, waited, outcome, remoteTip>>

(* The pass stands back until the tip has not changed for five seconds. *)
ReceiveBehind(n) ==
    /\ Adds(n)
    /\ ~ IsDuplicate(n)
    /\ IsBehind(n)
    /\ known' = KnownWith(HeadersAt(n))
    /\ tipHash' = [tipHash EXCEPT ![n] = Last(HeadersAt(n))]
    /\ pc' = [pc EXCEPT ![n] = "sleeping"]
    /\ Consume(n)
    /\ UNCHANGED <<tip, tipExtended, clientVars, passes, from, waited,
                   outcome, remoteTip, request>>

(* Fault: the pass does not remember that it has waited. *)
WakeUp_Forgets(n) ==
    /\ pc[n] = "sleeping"
    /\ IsThere(n)
    /\ AskFor(n, Locator(tip))
    /\ tipHash' = [tipHash EXCEPT ![n] = Genesis]
    /\ UNCHANGED <<databaseVars, clientVars, passes, waited, outcome, remoteTip, inbox>>

(* Five seconds can go by between any two steps.  The pass starts over     *)
(* from the longest chain of then, once.                                   *)
WakeUp(n) ==
    /\ pc[n] = "sleeping"
    /\ IsThere(n)
    /\ AskFor(n, Locator(tip))
    /\ waited' = [waited EXCEPT ![n] = TRUE]
    /\ tipHash' = [tipHash EXCEPT ![n] = Genesis]
    /\ UNCHANGED <<databaseVars, clientVars, passes, outcome, remoteTip, inbox>>

(* Every half a second it looks whether there is a connection still, and   *)
(* throws if not.  By then no new one has been made: the listener that may *)
(* take it up again, or let others do so, waits for a second first, and a  *)
(* node whose chain has an invalid block is blacklisted.                   *)
NoticeLoss(n) ==
    /\ pc[n] = "sleeping"
    /\ ~ IsThere(n)
    /\ EndConnection(n, status[n], "none", "disconnected", known, tip)
    /\ UNCHANGED tipExtended

----------------------------------------------------------------------------
(* The callers *)

(* A block is announced whose header is the tip already, or is not. *)
IsNews(n) == inbox[n] # <<>> /\ Head(inbox[n]).command = "inv"

BlockHashes(n) ==
    /\ IsNews(n)
    /\ IF Head(inbox[n]).tip = tip
       THEN UNCHANGED <<nodesSyncingHeaders, passes, pc, from, request, waited, outcome>>
       ELSE SyncHeaders(n, "block_hashes")
    /\ Consume(n)
    /\ UNCHANGED <<databaseVars, status, connected, tipHash, remoteTip>>

(* onValidChain asks for what follows each invalid block, and a getheaders *)
(* at a time is all a connection has: a pass that begins while it asks     *)
(* fails at once.                                                          *)
ValidChainAsks(n) == status[n] = "testing" /\ InvalidBlocks # {}

BlockHashesThrow(n) ==
    /\ ValidChainAsks(n)
    /\ IsNews(n)
    /\ Head(inbox[n]).tip # tip
    /\ passes[n] = <<>>
    /\ Resume(n, {"block_hashes"}, known, tip)
    /\ tipHash' = [tipHash EXCEPT ![n] = Genesis]
    /\ outcome' = [outcome EXCEPT ![n] = "busy"]
    /\ Consume(n)
    /\ UNCHANGED <<tipExtended, status, connected, passes, pc, from,
                   waited, remoteTip, request>>

(* The health monitor syncs with all nodes that count as connected.  A     *)
(* call for a connection that is disposed of fails at once.                *)
MonitorSync ==
    LET live == {n \in Node : connected[n] = "live"}
        dead == {n \in Node : connected[n] = "dead"}
        idle == {n \in live : passes[n] = <<>>}
    IN  /\ \A n \in Node : \A i \in DOMAIN passes[n] : "monitor" \notin passes[n][i]
        /\ nodesSyncingHeaders' = (nodesSyncingHeaders \cup live) \ dead
        /\ known' = IF nodesSyncingHeaders' = {} THEN ChainOf(tip) ELSE known
        /\ passes' = [n \in Node |->
                        IF n \in live THEN QueueWith(passes[n], "monitor") ELSE passes[n]]
        /\ pc' = [n \in Node |-> IF n \in idle THEN "asked" ELSE pc[n]]
        /\ from' = [n \in Node |-> IF n \in idle THEN Locator(tip) ELSE from[n]]
        /\ request' = [n \in Node |-> IF n \in idle THEN Locator(tip) ELSE request[n]]
        /\ outcome' = [n \in Node |-> IF n \in idle THEN "none" ELSE outcome[n]]
        /\ UNCHANGED <<tip, tipExtended, status, connected, tipHash, waited,
                       remoteTip, inbox>>

(* A worker connects to a node. *)
Connect(n) ==
    /\ status[n] = "none"
    /\ passes[n] = <<>>
    /\ status' = [status EXCEPT ![n] = "testing"]
    /\ UNCHANGED <<databaseVars, nodesSyncingHeaders, connected, passVars, remoteVars>>

(* The node answered a ping and is not on a chain with an invalid block    *)
(* below its tip: now it syncs for the first time.                         *)
HasInvalidChain(n) ==
    \E i \in 1..Depth[remoteTip[n]] : ChainTo[remoteTip[n]][i] \in InvalidBlocks

SyncNewNode(n) ==
    /\ status[n] = "testing"
    /\ ~ HasInvalidChain(n)
    /\ pc[n] # "asked" \/ ~ ValidChainAsks(n)
    /\ status' = [status EXCEPT ![n] = "open"]
    /\ SyncHeaders(n, "test")
    /\ UNCHANGED <<databaseVars, connected, tipHash, remoteTip, inbox>>

(* invalid_blocks is emitted before the sync. *)
RejectNewNode(n) ==
    /\ status[n] = "testing"
    /\ HasInvalidChain(n)
    /\ pc[n] # "asked"
    /\ LosesSocket(n, "none", "invalid_blocks")

(* onValidChain throws for a pass that has asked.  The worker goes to      *)
(* another node, and nobody closes the connection.                         *)
LeaveNewNode(n) ==
    /\ ValidChainAsks(n)
    /\ pc[n] = "asked"
    /\ status' = [status EXCEPT ![n] = "open"]
    /\ UNCHANGED <<databaseVars, nodesSyncingHeaders, connected, passVars, remoteVars>>

(* A lost connection is taken up again, by the same object.  It syncs if   *)
(* anything has been downloaded yet.                                       *)
Reconnect(n) ==
    /\ status[n] = "lost"
    /\ passes[n] = <<>>
    /\ status' = [status EXCEPT ![n] = "open"]
    /\ IF tip # Genesis
       THEN /\ SyncHeaders(n, "reconnect")
            /\ UNCHANGED connected
       ELSE /\ connected' = [connected EXCEPT ![n] = "live"]
            /\ UNCHANGED <<nodesSyncingHeaders, passes, pc, from, request, waited, outcome>>
    /\ UNCHANGED <<databaseVars, tipHash, remoteTip, inbox>>

(* A lost connection is given up, for a new one at some later time. *)
GiveUp(n) ==
    /\ status[n] = "lost"
    /\ passes[n] = <<>>
    /\ status' = [status EXCEPT ![n] = "none"]
    /\ connected' = [connected EXCEPT ![n] = "none"]
    /\ tipHash' = [tipHash EXCEPT ![n] = Genesis]
    /\ UNCHANGED <<databaseVars, nodesSyncingHeaders, passes, pc, from, waited, outcome,
                   remoteVars>>

(* The socket fails or a request times out.  Only a node that counts as    *)
(* connected is tried again.                                               *)
Disconnect(n) ==
    /\ IsThere(n)
    /\ LosesSocket(n, IF connected[n] # "none" THEN "lost" ELSE "none", "disconnected")

----------------------------------------------------------------------------
(* The remote nodes *)

(* The node adopts a heavier chain and announces it to us. *)
RemoteTipMoves(n) ==
    \E t \in RemoteTips[n] :
        /\ TotalWork[t] > TotalWork[remoteTip[n]]
        /\ remoteTip' = [remoteTip EXCEPT ![n] = t]
        /\ inbox' = IF IsThere(n)
                    THEN [inbox EXCEPT ![n] = Append(@, [command |-> "inv", tip |-> t])]
                    ELSE inbox
        /\ UNCHANGED <<databaseVars, clientVars, passVars, request>>

(* What follows the highest of the hashes asked for that is on the node's  *)
(* own chain, one chunk of it.                                             *)
Reply(n) ==
    LET chain == ChainTo[remoteTip[n]]
        forks == {i \in DOMAIN chain : chain[i] \in request[n]}
        fork  == IF forks = {} THEN 1 ELSE CHOOSE i \in forks : \A j \in forks : j <= i
        end   == IF fork + ChunkSize <= Len(chain) THEN fork + ChunkSize ELSE Len(chain)
    IN  SubSeq(chain, fork + 1, end)

RemoteReplies(n) ==
    /\ request[n] # {}
    /\ request' = [request EXCEPT ![n] = {}]
    /\ inbox' = [inbox EXCEPT ![n] =
                   Append(@, [command |-> "headers", headers |-> Reply(n)])]
    /\ UNCHANGED <<databaseVars, clientVars, passVars, remoteTip>>

----------------------------------------------------------------------------

ReceiveReply(n) ==
    \/ ReceiveNothing(n)
    \/ ReceiveOutOfSync(n)
    \/ ReceiveInvalid(n)
    \/ ReceiveOutOfOrder(n)
    \/ ReceiveAboveTip(n)
    \/ ReceiveDuplicate(n)
    \/ ReceiveHeaders(n)
    \/ ReceiveBehind(n)

PassStep(n) ==
    \/ RemoteReplies(n)
    \/ ReceiveReply(n)
    \/ BlockHashes(n)
    \/ WakeUp(n)
    \/ NoticeLoss(n)

ConnectionStep(n) ==
    \/ Connect(n)
    \/ SyncNewNode(n)
    \/ RejectNewNode(n)
    \/ LeaveNewNode(n)
    \/ BlockHashesThrow(n)
    \/ Reconnect(n)
    \/ GiveUp(n)
    \/ Disconnect(n)

Next ==
    \/ \E n \in Node : PassStep(n) \/ ConnectionStep(n) \/ RemoteTipMoves(n)
    \/ MonitorSync

Spec == Init /\ [][Next]_vars

(* Nodes answer, what they send is handled, and a sleep ends once the tip  *)
(* has come to rest: a node that does none of it is timed out.             *)
FairSpec == Spec /\ \A n \in Node : WF_vars(PassStep(n))

----------------------------------------------------------------------------
(* Properties *)

Outcome == {"none", "done", "duplicates", "out_of_sync", "invalid_blocks", "out_of_order",
            "undefined", "busy", "disconnected"}

Message ==
    [command : {"inv"}, tip : Header] \cup [command : {"headers"}, headers : Seq(Header)]

(* The type invariant.  A connection never has more than two passes, and   *)
(* no more than one getheaders out.                                        *)
TypeOK ==
    /\ known \subseteq Header
    /\ {tip} \subseteq known
    /\ tipExtended \in BOOLEAN
    /\ nodesSyncingHeaders \subseteq Node
    /\ status \in [Node -> {"none", "testing", "open", "lost"}]
    /\ connected \in [Node -> {"none", "live", "dead"}]
    /\ passes \in [Node -> Seq(SUBSET Caller)]
    /\ pc \in [Node -> {"idle", "asked", "sleeping"}]
    /\ from \in [Node -> SUBSET Header]
    /\ tipHash \in [Node -> Header]
    /\ waited \in [Node -> BOOLEAN]
    /\ outcome \in [Node -> Outcome]
    /\ remoteTip \in [Node -> Header]
    /\ request \in [Node -> SUBSET Header]
    /\ inbox \in [Node -> Seq(Message)]
    /\ \A n \in Node : Len(passes[n]) <= 2 /\ (pc[n] = "idle" <=> passes[n] = <<>>)

(* Nothing runs on the connection and nothing is on its way. *)
Quiet(n) == status[n] = "open" /\ passes[n] = <<>> /\ inbox[n] = <<>>

(* After a pass that the node ended with an empty reply, and with all its  *)
(* announcements handled, our chain is as heavy as the node's: whatever    *)
(* fork it follows, whatever it adopted while a pass was running, and      *)
(* whatever was pruned meanwhile (LegacyNodeConnection.syncHeaders).       *)
CatchesUp ==
    \A n \in Node : Quiet(n) /\ outcome[n] = "done" => TotalWork[remoteTip[n]] <= TotalWork[tip]

(* And the chain of such a node has no invalid block: connections to nodes *)
(* on another chain do not last (the invalid_blocks event).                *)
InvalidChainsAreLeft ==
    \A n \in Node : Quiet(n) /\ outcome[n] = "done" => ChainOf(remoteTip[n]) \cap InvalidBlocks = {}

(* A node that is dropped as out of sync (the out_of_sync event) has no    *)
(* heavier chain to give, unless it has just announced one.                *)
IsAnnounced(n) == \E i \in DOMAIN inbox[n] : inbox[n][i].command = "inv"

DroppedNodesHaveNoMore ==
    [][\A n \in Node : outcome'[n] = "out_of_sync" /\ outcome[n] # "out_of_sync" /\ ~ IsAnnounced(n)
           => TotalWork[remoteTip[n]] <= TotalWork[tip]]_vars

(* Every call of syncHeaders returns: passes come to an end, those that    *)
(* wait for another node included, and none is asked for without end.      *)
SyncSettles == \A n \in Node : passes[n] # <<>> ~> passes[n] = <<>>

----------------------------------------------------------------------------
(* What the repository says of the program, and its code does not do *)

(* LegacyNodeConnection.ts asserts with `!` that the longest chain has a   *)
(* header at the height of the last one downloaded.                        *)
HeightIsOnTheChain == \A n \in Node : outcome[n] # "undefined"

(* LegacyNodeConnection.ts says that a node may be 100 blocks behind       *)
(* before it is considered out of sync.                                    *)
OutOfSyncNodesAreBehind ==
    [][\A n \in Node : outcome'[n] = "out_of_sync" /\ outcome[n] # "out_of_sync" /\ ~ IsAnnounced(n)
           => Depth[remoteTip[n]] + MaxLag < Depth[tip]]_vars

=============================================================================

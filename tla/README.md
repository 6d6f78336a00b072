# block-headers-client-ts: TLA+ models, checks and proofs

This directory holds TLA+ specifications of the block headers client, the TLC
configurations that check them on small instances, and TLAPS proofs of their
safety properties for every instance. Paths such as `src/BlockHeadersClient.ts`
are relative to the repository; line numbers in the modules' comments are of the
file named in the module's header.

1. [The system](#the-system)
2. [What is modelled where](#what-is-modelled-where)
3. [The runs and what they show](#the-runs-and-what-they-show)
4. [Fairness](#fairness)
5. [What is proved](#what-is-proved)
6. [Where the code does not do what it says](#where-the-code-does-not-do-what-it-says)
7. [What is not modelled](#what-is-not-modelled)
8. [Plan](#plan)

## The system

The client connects to about a dozen remote nodes of a Bitcoin-like network,
downloads all block headers from them, keeps the tree of headers in memory and
the longest chain on disk, and tells its user about each new chain tip. It is
one Node.js process: code between two `await`s runs alone, and everything
interleaves at the `await`s, the event callbacks and the timers.

| Component | State it keeps | Operations | What is hard | What makes it correct |
|---|---|---|---|---|
| **Block headers database** (`BlockHeadersDatabase.ts`, `BlockHeader.ts`) | map and tree of headers, leaf set, longest chain as an array with an index, a promise chain of LevelDB batches, the chain on disk | `addHeaders`, `pruneBranches`, `close`, `fromDatabase`, getters | reorganisations by array splice, off-by-one between heights and positions, batches that fail with others queued behind them, a crash between two batches, a set of invalid blocks that changes between sessions | the tip is the heaviest header known; array, index, heights, tree and leaves agree; the queue replays to the chain; the disk always holds one unbroken chain |
| **Header download** (`LegacyNodeConnection.syncHeaders`, its callers in `BlockHeadersClient.ts`) | the pass running on each connection and the one queued, `_tipHashHex`, `_nodesSyncingHeaders`, which connections count as connected | `syncHeaders`, `_syncHeaders`, `block_hashes`, `out_of_sync`, `invalid_blocks`, health monitor, reconnection | state read before the wait for a reply and used after it; replies of several nodes that change the one database; listeners that destroy the connection whose code is on the stack; pruning during a download | after a completed pass our chain is as heavy as the node's; nodes on an invalid chain are left; a node that has more is not dropped; every call settles |
| **Nodes database** (`NodesDatabase.ts`) | metrics of each node, cached ratings, indexes by rating and by time last seen, the set of nodes not blacklisted, a promise chain of LevelDB writes | nine `add...` methods, `deleteNode`, `deleteNodes`, `clearOld`, `clearBlacklisted`, `clear`, rating queries | five maps patched separately by the key a node had before; ratings that change as time passes; failed writes | the maps agree; recent ratings are right; the queue replays to memory except for failed writes |
| **Node connection transport** (`LegacyNodeConnection.ts`) | socket and its listeners, handshake flags, the one pending `connect`, `getheaders` and `getaddr`, pings by nonce, ping interval | `connect`, `ping`, `getHeaders`, `getAddr`, `_disconnectNoEmit` | abort and deadline against a late answer; requests that are shared; a spoilt message; errors, closing, deadlines, aborts and disposal that race | every call settles; an answer goes to the request it answers; one event per socket, of the right kind; no promise of a socket that is gone |
| **Connection pool and workers** (`BlockHeadersClient.ts` 256-678, 837-1031, 1131-1251) | `_nodeConnections`, `_nodeConnectionsConnected`, `_seedReAddPromise`, `_startQueue`, workers and their tests, health monitor | `_createConnectedNodeConnection`, `_connectAndTestNode`, `_connectToNodes`, stuck detection, listeners of a lost node, reconnection, `_launchNodeConnectionsHealthMonitor` | workers and listeners that change the maps between each other's awaits; entries deleted by address; the target number checked before an await and again after it | at most the target number of nodes count as connected; a node with a connection is known; no connection is forgotten |
| **Client life cycle** (`BlockHeadersClient.ts` 178-254, 1253-1290) | `_startQueue`, `_stopQueue`, `_abortController` | `start`, `_start`, `stop` | `start` waits for `stop` and `stop` for `start`; listeners call `_start` at any time; each part has its own copy of the signal | both settle; parts run on open databases only; nothing runs after `stop`, or outlives its session |
| **Connection monitor** (`ConnectionMonitor.ts`) | the interval, the shared probe, the callers that wait | `start`, `connectedToInternetCheapAsync`, `updateLastKnownConnectionTime`, `asyncDispose` | callers that wait for data, a deadline or one of two signals, while the monitor is disposed of | each caller gets an answer or its abort |
| **Wire format** (`p2p/messages.ts`) | receive buffer | framing, checksums, field layouts | messages split over chunks, spoilt frames between | no message lost or seen twice |
| **Chain parameters and utilities** (`chainProtocol.ts`, `utils/*`) | none | constants, conversions, sleeps | - | - |
| **HTTP and websocket API** (`api/*`) | none of its own | views | - | - |

How they interact: a worker of the pool takes the best rated node from the nodes
database, opens a connection, tests it (ping, `onValidChain`, a first
`syncHeaders`, sometimes `getaddr`) and then counts it as connected. A pass of
`syncHeaders` asks the node for headers, adds each reply to the headers database
and emits `new_chain_tip`, `out_of_sync` or `invalid_blocks`; the listeners of
the latter two destroy the connection and lower the node's rating. An announced
block starts a pass; the health monitor starts one on all connections every half
hour; both prune side branches when no pass is thought to run. A lost connection
is taken up again, or replaced by the pool.

`PROJECT.json` lists the same components with their status, every hazard with
its line, and for each definition the source lines it stands for.

## What is modelled where

### HeaderTree

The hashes in headers span a tree. A header is its hash; `Parent` and `Work` are
constants. `Depth`, `TotalWork` and `ChainTo` are recursive functions, not
operators, so that theorems can speak about them.

### HeaviestChain

What a store of headers promises, with no data structure: `known`, `tip`, the
tips adopted and not yet saved (`pending`) and the tip on disk (`durable`).
`BlockHeadersDatabase` implements it: while a session is open the abstract store
is what is in memory; before that it is the chain on disk. `Learn` is
`InsertHeader`, `Adopt` is `SpliceChain`, `Forget` is `DropStaleHeaders`, `Save`
is `BatchWritten`, and `Crash` is a crash, or a close that loses queued changes.
All other steps stutter.

### BlockHeadersDatabase

| Code | Model |
|---|---|
| `_allHeaders`, `_headersTree`, `_headersTreeLeafHashes` | `allHeaders` (height and work total of each hash), `headersTree`, `headersTreeLeafHashes` |
| `_sortedHeaders`, `_sortedHeadersIndex` | `sortedHeaders` (from position 1), `sortedHeadersIndex` |
| `addHeaders` | `AddHeaders` begins the call: it filters the batch |
| the loop of `_insert` | `InsertHeader`, `BrokenChain` (parent unknown), `InvalidHeader`, one iteration each |
| the choice of the tip | `KeepTip`, `ChooseTip` |
| the walk back and the splice | `CollectHeader`, `SpliceChain` |
| `addHeaders`' promise chain | `saveTasks`, `unsavedChanges`, `saving`; `StartSaveTask`, `BatchWritten`, `BatchFailed` |
| `pruneBranches` | `PruneBranches`, `WalkStaleBranch`, `DropStaleHeaders` |
| `close`, `fromDatabase`, the end of the process | `Close`, `FinishClose`, `FromDatabase`, `MissingHeader`, `Crash` |

The calls are synchronous. Their loops are modelled one iteration per action,
and `phase` keeps everything else from starting in between, so that each loop's
invariant can be stated and proved. Where the code picks the first heaviest leaf
or walks leaves in insertion order, the model picks any.

### SyncHeaders

The database is held to the promise of HeaviestChain (`known`, `tip`, and the
filter, link and invalid-block rules of `_insert` for one reply). Each
connection has a queue of at most two passes (`passes`, each the set of its
callers), the state of the running pass, and an inbox. Remote nodes are
external: each follows a chain that begins with our genesis and only gets
heavier, announces its tips, and answers `getheaders` by the locator, one chunk
at a time, in order.

| Code | Model |
|---|---|
| `syncHeaders`: the promise queue | `SyncHeaders`, `QueueWith`, `EndPass` |
| one reply in `_syncHeaders` | `ReceiveNothing`, `ReceiveOutOfSync`, `ReceiveInvalid`, `ReceiveOutOfOrder`, `ReceiveAboveTip`, `ReceiveDuplicate`, `ReceiveHeaders`, `ReceiveBehind` |
| the sleep of a node that is behind | `ReceiveBehind`, `WakeUp`, `NoticeLoss` |
| `block_hashes`, the health monitor | `BlockHashes`, `BlockHashesThrow`, `MonitorSync` |
| connecting and testing | `Connect`, `SyncNewNode`, `RejectNewNode`, `LeaveNewNode` |
| losing a connection, taking it up | `Disconnect`, `Reconnect`, `GiveUp` |
| `_destroyNodeConnection` from a listener | `Destroyed` |

A pass is synchronous from a reply to the next request, so each reply is one
action, with everything the code does up to its next wait: adding, pruning by
callers that resume, the next queued pass. A connection that loses its socket
ends what is pending at once, but for a pass that sleeps: it finds out when it
next wakes up, within half a second (`LosesSocket`, `LosesSleeper`,
`NoticeLoss`). No new connection to that node is made before, since the listener
of a lost node sleeps for a second first. A run is one session of one process:
where the code exits, a behaviour ends early.

### NodesDatabase

Every method is synchronous up to the line that queues its write, so each is one
action. `ipPortToMetrics`, `ipPortToRating`, `seenTimeToIpPorts`,
`ratingToIpPorts` and `nonBlacklisted` are the five maps of the class;
`metricsSaveQueue` is its promise chain. `calculateRating` multiplies six scores
raised to weights. The model uses the logarithm: a rating is the negated sum of
penalties, and a sigmoid below its midpoint is a line. Which ratings are equal,
which are higher and which recover with time is kept; the numbers are not. The
threshold is computed from the same five borderline nodes as in the code.
`ratingsAreRecent` stands for the ten seconds in which ratings are not rebuilt.
`lost` is a history variable: the nodes whose last write failed.

### ConnectionPool

One session of a client. A step is the code between two awaits. `Worker` are the
workers of `_connectToNodes`; `Monitor` is the worker that the health monitor
makes with `_createConnectedNodeConnection`. A connection object is an address
and a slot that tells it from other objects for the same address.

| Code | Model |
|---|---|
| `_nodeConnections`, `_nodeConnectionsConnected` | `nodeConnections`, `nodeConnectionsConnected` |
| `_destroyNodeConnection`, which deletes by address | `Destroy` |
| the loop of `_createConnectedNodeConnection` | `Loop`, `Select`, `Create`, `SeedsArrive`, `TryNext` |
| `_connectAndTestNode` | `TestConnects`, `TestFails`, `TestDrops`, `TestPasses`, `WorkerAborts` |
| stuck detection, `_seedReAddPromise` | `DetectStuck`, `SeedReAddEnds` |
| `_connectToNodes`, the part of `_start` that calls it | `Opened`, `Launch`, `PriorityEnds`, `WorkersEnd` |
| the loop of `_launchNodeConnectionsHealthMonitor` | `MonitorBegins`, `MonitorClears` |
| `disconnect_unintentional_before_connect` | `LoseSocket`, `LateDestroys` |
| `disconnect_unintentional_after_connect`, `_after_connect`, reconnection | `LoseSocket`, `Reconnects`, `Replaces`, `AfterStops`, `ReconnectConnects`, `ReconnectDrops`, `ReconnectPasses` |
| `out_of_sync`, `invalid_blocks` outside of a test | `DropNode` |
| a failed `assert`, which ends the process | `Exits` |
| `stop` | `Stop`, `CloseNodeConnections` |

From the line that counts a node as connected (442) to the one that looks at the
number (652) only microtasks run, no timer and no socket: `TestPasses` is one
step. For those microtasks one node too many may count, so `AtMostTarget` speaks
of the states between events.

The set `existingNodeConnectionsStrings` that a connection's constructor checks
always holds the addresses of `_nodeConnections`, and is not a variable.
`astray` records the connections for which the code has no one left to answer:
those whose test failed with no event, which line 56 admits, and those whose
entry among the connected was taken by another object of their address. Ratings
and the clock are nondeterministic: any node may be chosen or blacklisted, any
deadline may have passed.

### NodeTransport and Messages

`NodeTransport` is a `LegacyNodeConnection` and the remote node at the other end
of its socket. A call has a number, which is its nonce; the pending requests
hold these numbers. `DataArrives` takes any prefix of what was sent, and gives
it to `parseMessages` of `Messages` together with what is left in the buffer;
errors are dealt with before messages, as in the listener of `data`. The remote
node answers requests in order and may send `addr` unasked; a bounded number of
messages is spoilt. The ways a socket ends are actions of their own:
`SocketLost` (error or close), `ConnectTimesOut`, `RequestTimesOut`, `Abort`,
`Dispose`. `shook`, `handshakeSpoilt` and `events` are history variables.

### ConnectionMonitor and ClientLifecycle

`ConnectionMonitor` has the variables and operations of the monitor, with no
specification of its own: `ClientLifecycle` extends it, and runs it together
with `start`, `stop`, and all they start and stop. `startQueue` and `stopQueue`
say what each waits for. Signals are numbered by session. Promises that are
settled resume what awaits them (microtasks) before a timer, a socket or a disk
does anything: `MicrotasksPending` holds up all other steps. That a stop's last
step and the resumption of a `_start` that waits for it are one action is due to
the same rule: the inner awaiter resumes first. Closing a database does not
fail; opening one may. The workers and the health monitor are the pool's
business, here they only begin, connect and end.

### MC modules

`MCBlockHeadersDatabase`, `MCSyncHeaders`, `MCNodesDatabase`,
`MCConnectionPool`, `MCNodeTransport` and `MCClientLifecycle` give the constants
values; the first two draw their trees of headers in their header comments.

## The runs and what they show

Each run finishes with two workers within three minutes.

| Run | Checks | Shows |
|---|---|---|
| `headers_db` | `TypeOK`, `TreeMatchesHeaders`, `LongestChainIsIndexed`, `TipIsHeaviest`, `PruneAssertions`, `QueueReplaysToChain`, `LevelDbHoldsAChain`, `TipOnlyGetsHeavier`, `CloseSavesTheChain`, `ImplementsHeaviestChain`, `CallReturns`, `ChainIsSaved` | with a fixed set of invalid blocks, memory, queue and disk agree through reorganisations, pruning, failed writes, crashes and restarts; the store implements HeaviestChain |
| `headers_db_any_input` | `IInv`, `HeadersDescendFromGenesis` | memory stays sound, and every loop keeps its invariant, with headers that have no work, arrays that hold a header twice, and a saved block that becomes invalid between sessions |
| `headers_db_hole` | `EveryHeightIsPresent` (violated) | the disk does not: a height can go missing |
| `sync_headers` | `TypeOK`, `CatchesUp`, `InvalidChainsAreLeft`, `DroppedNodesHaveNoMore` | what a completed pass achieves, for two nodes on different forks, whatever is lost, pruned or announced meanwhile |
| `sync_headers_live` | `SyncSettles` | every call of `syncHeaders` returns |
| `sync_above_tip` | `HeightIsOnTheChain` (violated) | see [below](#where-the-code-does-not-do-what-it-says) |
| `sync_out_of_sync` | `OutOfSyncNodesAreBehind` (violated) | see below |
| `nodes_db` | `TypeOK`, `IndexesAgree`, `BlacklistAgrees`, `RecentRatingsAreRight`, `LatestTimeIsLatest`, `WritesReplayToMetrics`, `ClosedIsSaved` | the maps of the nodes database agree with each other, with the ratings due and with the disk |
| `connection_pool` | `TypeOK`, `UsedNodesAreKnown`, `AtMostTarget`, `NoneIsForgotten` | whatever workers, listeners, stuck detection, the health monitor and a stop do between each other's awaits, the maps of connections stay right |
| `connection_pool_lost` | `LiveConnectionsAreTracked` (violated) | see below |
| `node_transport` | `TypeOK`, `RepliesAnswerTheirRequests`, `OneEventPerSocket`, `CallsSettle` | answers, deadlines, aborts, errors and disposal of a connection in any order, with data cut anywhere and messages spoilt |
| `client_lifecycle` | `TypeOK`, `WorksOnOpenDatabases`, `ClosedWhenStopped`, `NothingOutlivesItsSession`, `CallsSettle`, `ChecksSettle` | start and stop called at any time, by the user and by listeners, over three sessions |

Each property of a passing run has at least one fault in its module (an operator
whose comment begins with "Fault:", named after the definition it changes): a
plausible bug in a definition, under which TLC finds the property violated.
Nothing else uses them.

**Bounds and why they are enough.** `headers_db`: ten headers, of which one is
invalid, with three branches from the same block, a shorter branch that is
heavier, a tie, and a header below an invalid block. Reorganisations of one to
three blocks in both directions, a batch out of order, a batch whose start is
unknown, siblings of equal work in one batch, and an invalid block followed by a
linked and by an unlinked header all occur. The save queue is not bounded: it
cannot grow beyond the changes of tip that heavier and heavier tips allow in a
session. `headers_db_any_input` and `headers_db_hole` use smaller sets of
batches and two settings of `invalidBlocks`; in the first, the first block of
the chain and two tips have no work, and two of the arrays end with a header
they have already. `sync_*`: two nodes, a chunk of two
headers so that every chain takes several replies, a locator that thins out, a
fork, an invalid block that heads a reply or ends one. `MaxLag` and `MaxBehind`
are one so that a chain of five headers reaches them. `RemoteTips` bounds the
nodes' chains, and with them the announcements. `nodes_db`: two nodes, which are
symmetric, three calls that change metrics (a node can be added, deleted and
come back; computing ratings and all writes, sessions and crashes are not
counted), two days, two entries kept of each kind. `connection_pool`: two nodes,
two objects that may exist at a time, of the same or of different nodes, two
workers and the monitor: enough for a worker and a listener to hold two objects
of one address. `Target` is 1, so that the target is reached by one worker while
another tests; a worker that passes its test never goes on to a second node
then. The theorems cover every target, and the same run with a target of two,
which takes longer, finds no error either. A connection has one listener of
`disconnect_unintentional_after_connect` at work at a time. Seeds and nodes told
of by others are any set of nodes, at any of the steps that add some.
`node_transport`: two callers and the interval, four calls, one `addr`, one
spoilt message: a caller can lose a request and make it again while the answer
to the first is on its way. `client_lifecycle`: two connections, three sessions,
of which the last is not stopped (`Stop`): two stops with a start between are
needed for a part to meet the signal of a session other than its own.

**Deadlock** is checked wherever the system cannot stop. It is off in
`headers_db_any_input` and `headers_db_hole`: once a height is missing, every
start throws, and "failed" has no successor. It is off in `node_transport`:
nobody has to call the connection. In `connection_pool` the only states without
a next step are those of `Done`: the process has exited, or the client has
stopped and no listener is left.

## Fairness

`BlockHeadersDatabase!FairSpec`: weak fairness of the steps of a call, because a
synchronous call runs to its end; strong fairness of the save steps, because the
promise chain runs its next callback whenever the event loop is free, although
calls keep coming between, and each LevelDB batch settles. Settling includes
failing: `ChainIsSaved` says a change reaches the disk, or waits for the next
change after a failed write, which is what the code does.

`SyncHeaders!FairSpec`: weak fairness, per node, of the node's answer, the
handling of what it sent and the end of a sleep. A node that does not answer is
timed out by `getHeaders`, which is a `Disconnect` and ends the pass too. No
fairness is assumed of announcements, new connections or the monitor.

`NodeTransport!FairSpec`: weak fairness of the deadlines of connect and of the
other requests, which are timers of Node.js; nothing is assumed of the remote
node, of the socket or of aborts. `CallsSettle` holds by the deadlines alone.

`ClientLifecycle!FairSpec`: strong fairness of each step of a start, of a stop,
of the probe, the seeds, the health monitor and the listeners. Each is bounded
in time by a deadline, a largest number of attempts or the disk; and fairness is
strong since a step waits for the microtasks of others, which come and go.
Nothing is assumed of the user, of new connections or of lost ones.

## What is proved

**The headers database.** `BlockHeadersDatabase_proofs` proves, for every finite
tree of headers, every set of arrays passed to `addHeaders` and every set of
`invalidBlocks` settings:

| Theorem | States |
|---|---|
| `SpecIInv` | `IInv` is an invariant |
| `TypeCorrect` | `TypeOK` |
| `DescendFromGenesis` | `HeadersDescendFromGenesis` |
| `TreeIsExact` | `TreeMatchesHeaders`, in a behaviour with `[]KnownHaveWork` and `[]NewHeadersDiffer` |
| `ChainIsIndexed` | `LongestChainIsIndexed` |
| `HeaviestTip` | `TipIsHeaviest` |
| `PruneAssertionsHold` | `PruneAssertions`, under the same two hypotheses: an assertion of `pruneBranches` fails only if a header without work has come to be known, or an array held a header twice |
| `TipGetsHeavier` | `TipOnlyGetsHeavier` |

Assumptions: `HeaderAssumption`: finitely many headers, genesis has no parent
among them, work is a natural number. `DepthAssumption`: depth is a natural
number that grows by one per link, which is how it is said that a header is not
its own ancestor (hashes do not allow it); TLC evaluates it in every run.
`InputAssumption`: what is passed to `addHeaders` is an array of headers, and
genesis is not an invalid block.

The two hypotheses are stated in the theorems that need them and nowhere else,
since nothing in the code ensures them. `KnownHaveWork`: no header known but
genesis has a work of zero. A target above 2^256 gives one
(`BlockHeader.ts:15-19`), and `addHeaders` does not check proof of work. A child
without work is no heavier than its parent, which then stays the tip and is no
leaf: line 340 asserts that it is. `NewHeadersDiffer`: what `_insert` has still
to look at holds no header twice. It filters known headers once, before the
first is inserted, so a header that comes twice is linked twice: it loses its
children and is a leaf again (`LinkHeader`). With the constants of
`headers_db_any_input`, where neither hypothesis holds, TLC finds
`PruneAssertions` and `TreeMatchesHeaders` violated. When an assertion fails the
process exits, which is a `Crash` of the model (`DropStaleHeaders` has the
assertions as guards); what the other theorems say holds before it and after.

Argument: none of the properties is inductive alone. `TipIsHeaviest` looks at
all headers and the code only at leaves: `InsertInv` says that during the loop
every header known is outweighed by a leaf or by the tip, or as heavy. An
insertion preserves this because it takes leafhood from a header only to give it
to a child that is no lighter, and it gives the maximum when the loop ends. Of
the tree it takes only `TreeInv`: that links are links and that who has no child
is a leaf, not the converse. `CollectInv` says what the walk back has collected:
a chain of known headers off the longest chain, hanging on `currentHeader`, that
ends in the heaviest header; with `HeadersDescendFromGenesis` it shows that the
walk does not fall off the tree, and with `DepthInv` (heights are depths) that
the splice index is right. `PruneInv` says that the walk from stale leaves never
comes to the longest chain: what is stale there was taken for a leaf from the
start. `SessionInv` ties phases to sessions. The proof has one lemma per action
(`InsertHeaderStep`, `SpliceChainStep`, ...), frame lemmas for the actions that
leave the tree alone, and `Inductive` puts them together.

`TreeIsExact` has an invariant of its own, `ExactInv`: the tree is exact and
what is left of an array is new. It is inductive relative to `IInv` and the two
hypotheses (`ExactInductive`). With it, a tip that is heaviest and whose
children would have work has none, so it is a leaf; that it is the only one left
is what `PruneAssertionsHold` concludes.

**The disk, the save queue, and the abstract store.** `LevelDb_proofs` proves,
under the same assumptions, with neither of the two hypotheses:

| Theorem | States |
|---|---|
| `SpecDiskInv` | `DiskInv` is an invariant |
| `NoStartFails` | `EveryHeightIsPresent`: `fromDatabase` misses no height |
| `DiskHoldsAChain` | `LevelDbHoldsAChain` |
| `CloseSaves` | `CloseSavesTheChain` |
| `QueueReplays` | `QueueReplaysToChain` |
| `RefinesHeaviestChain` | `ImplementsHeaviestChain`, the refinement mapping `Abstract` |

They have another hypothesis, `FixedInvalid`: the setting `invalidBlocks` is the
same in every session. Without it the disk can hold more than the chain in
memory, as `headers_db_hole` shows. What is proved of memory above does not need
it.

Argument: what is on disk after any number of the queued changes is a set of
pairs, yet one header says all of it: the last of the chain there (`TopAfter`,
`EntriesTo`). `DiskInv` says that each of these headers descends from genesis by
valid headers and, genesis apart, outweighs genesis (`Sound`), that each queued
change takes the chain of one to that of the next (`Saves`), and that the last
is the tip in memory. `SplicedEntries` shows
that what the splice puts and deletes does that; the rest of the queue is not
touched by it, and a batch that is written or fails only moves what is counted
as written. While `fromDatabase` runs, `LoadInv` says that what has been
inserted and what is to come is the chain on disk, and that only the last
inserted is a leaf; that it ends with the same chain in memory is where
`FixedInvalid` is used, and where a chain that does not outweigh genesis would
be lost. The refinement has one lemma
per kind of step, to a step of HeaviestChain (`Learns`, `Adopts`, `Forgets`,
`SavesOne`, `Crashes`) or to a stutter. That `ChainTo` and `TotalWork` are what
their recursive definitions say is not something tlapm knows: it is proved by
recursion along the walk to the root.

**Induction.** `InductionLemmas` has what these proofs and those below have in
common: a set of numbers has a least one, hence induction, over numbers and
along parents; a finite set of numbers has a greatest; a function defined by
recursion on a parent of lower rank exists (`RecursionOnParents`), and hence the
chain to a node of a forest, the sum along it, and a fold over a sequence. An
induction is over a set of numbers (the `T` of a proof), since the provers
cannot be given a theorem that takes a predicate.

**Header download.** `SyncHeaders_proofs` proves, for any tree of headers, any
set of nodes and any chains they follow and adopt, any size of a reply and of a
locator, and any setting of invalid blocks that leaves genesis
(`SyncAssumption`):

| Theorem | States |
|---|---|
| `SyncInvHolds` | `SyncInv` is an invariant |
| `SyncTypes` | `TypeOK` |
| `SyncCatchesUp` | `CatchesUp` |
| `SyncLeavesInvalidChains` | `InvalidChainsAreLeft` |
| `SyncDropsNoBetterNodes` | `DroppedNodesHaveNoMore` |

`SyncAssumption` says among other things that nodes have our genesis, and that a
session starts from a valid chain: `DiskHoldsAChain` and `FixedInvalid` are
about the latter.

Argument: `CatchesUp` speaks of a pass that has ended with an empty reply. That
an empty reply means anything rests on three invariants: memory is closed under
parents, has no invalid block, and has no header heavier than the tip
(`StoreInv`), through every reply and every pruning; a request names only
headers of which this is true, and it stays true although the headers may be
pruned before the node answers (`NoBetter`, and the clause of `RemoteOK` about
requests); and a reply is a linked stretch of the node's chain after the highest
of those headers it has (`ReplyIsLinked`), so that it is empty only if the
node's tip is one of them. The node may adopt a better chain right after; then
its announcement is behind the reply (`Covered`), and handling it either starts
a new pass or shows that the tip is ours already (`NewsOfOurTip`). A filter that
looks at one header at a time leaves the linked end of a reply
(`UnknownIsLinked`), which is why a reply with no invalid block is added up to
its last header or not at all. Then there is one lemma per action; `NodeStep`
says once that a step which concerns one node keeps what is known of the others.

**The transport.** `NodeTransport_proofs` proves, for any set of callers and any
number of calls, unasked `addr` messages and spoilt messages
(`TransportAssumption`):

| Theorem | States |
|---|---|
| `TransportInvHolds` | `TransportInv` is an invariant |
| `TransportTypes` | `TypeOK` |
| `AnswersFitRequests` | `RepliesAnswerTheirRequests` |
| `SocketsEndOnce` | `OneEventPerSocket` |

Argument: the bytes of a socket are an unbroken series of frames, of which the
buffer holds the beginning of one (`StreamInv`, `IsFramed`). `ParseEquation`,
`ParseResult` and `ChunkStream` say what `parseMessages` makes of any chunk: the
messages that end in it, once each and in order. `ErrorsInOrder` and
`MessagesInOrder` unfold the loops over what was parsed, so that an invariant of
one message (`ErrorKeeps`, `MessageKeeps`) is one of the chunk. A call is
settled by its own answer because the numbers of requests are unique
(`GetHeadersInv`), answers come in the order asked, and of the `headers`
messages on their way at most one is for the request that pends, unless a
`getHeaders` was aborted (`HeadersInv`). `SocketInv` and `HandshakeInv` say that
nothing pends on a socket that is gone.

**The connection pool.** `ConnectionPool_proofs` proves, for any finite sets of
nodes and workers, any number of connection objects and any target of at least
one (`PoolAssumption`):

| Theorem | States |
|---|---|
| `PoolIsConsistent` | `PoolInv` is an invariant |
| `PoolTypes` | `TypeOK` |
| `UsedNodesStayKnown` | `UsedNodesAreKnown` |
| `TargetIsNeverExceeded` | `AtMostTarget` |
| `NoConnectionIsForgotten` | `NoneIsForgotten` |

Argument: `UsedNodesAreKnown` and `AtMostTarget` are nearly inductive, because
the code looks again, after its awaits, at what it had looked at before.
`NoneIsForgotten` is not: `Accounted` strengthens it, in that a worker accounts
for a connection only while its test may still pass, and no longer when it has
failed, since the worker then goes on to another node. It rests on `Registered`
(an object is registered under its own address, so that deleting by address
affects the objects of one node only), on the types (a worker holds a connection
exactly while it tests one) and on `Unlaunched` (a worker that is launched holds
nothing). The lemmas `DestroyEffect`, `CountEffect` and `LoopEffect` say what
the three shared operators do to the maps; then there is one lemma per action.

**The life cycle.** `ClientLifecycle_proofs` proves, for any number of
connections and sessions (`MonitorAssumption`):

| Theorem | States |
|---|---|
| `LifeIsInOrder` | `LifeInv` is an invariant |
| `LifeTypes` | `TypeOK` |
| `AlwaysOnOpenDatabases` | `WorksOnOpenDatabases` |
| `StopClosesAll` | `ClosedWhenStopped` |
| `AllEndWithTheirSession` | `NothingOutlivesItsSession` |

Argument: `LifeInv` adds what each phase of a start has opened
(`StartsInOrder`), what each phase of a stop has waited for (`StopsInOrder`),
and that a stopped client is closed also when it is stopped again
(`StaysClosed`). That the stop may clear all connections once the health monitor
has ended needs that no listener is still asking the monitor: all of them ask
under the signal of the session (`ListenersAsk`), which is aborted by then, and
an aborted question is answered in a microtask, before the stop goes on
(`HealthFlushedInv`). That no part meets the signal of another session follows
from a new session being made only when all is closed.

**The nodes database.** `NodesDatabase_proofs` proves, for any finite set of
nodes, any midpoints of at least one and any number of days and calls
(`NodeAssumption`):

| Theorem | States |
|---|---|
| `IndexesAgreeWithMaps` | `IndexesAgree` |
| `BlacklistAgreesWithRatings` | `BlacklistAgrees` |
| `RatingsInUseAreRight` | `RecentRatingsAreRight` |
| `TypesAreRight` | `TypeOK` |
| `LatestTimeIsNeverPassed` | `LatestTimeIsLatest` |
| `QueueWritesMemoryInOrder` | `WritesReplayToMetrics` |
| `ClosingSavesMemory` | `ClosedIsSaved` |

Argument: the first three together (`MapsAgree`) are inductive. The lemmas
`UnindexedIsIndex`, `IndexedIsIndex` and `MovedInIndex` say that patching an
index set by set, as the code does, gives the index built from nothing.
`BlacklistAgrees` needs a fact about numbers: `deleteNode` leaves a node among
those that are not blacklisted, and when the node comes back with bad metrics it
is taken out only because the rating looked up for it then, that of default
metrics, is acceptable. `DefaultIsAcceptable` proves this by computing the
rating of each of the five borderline nodes (`BorderlineRating`): in the model
it is -2 for all of them, and -1 for default metrics. Then there is one lemma
per kind of action.

The types (`DataInv`) and the latest time are inductive once it is known that
the greatest of a finite set of times is one of them (`MaxOfTimes`); `clearOld`
and `clearBlacklisted` recompute it. For the disk, `QueueInv` strengthens what
the two properties say: once the rest of the queue is written, a node is on disk
as in memory if it is not `lost`, or if a write of it is still queued. So a
write that fails loses its node only if there is none behind it, since each
write has the whole entry (`ReplaysMeet`).

**Only model-checked.** Liveness (`CallReturns`, `ChainIsSaved`, `SyncSettles`,
`CallsSettle`, `ChecksSettle`): it needs fairness and `ENABLED`, which are
beyond the prover. Every safety property of a passing run is a theorem,
`TreeMatchesHeaders` and `PruneAssertions` under the two hypotheses named above
and what concerns the disk under `FixedInvalid`.

## Where the code does not do what it says

Each is a run that TLC ends with a counterexample; `PROJECT.json` quotes the
lines.

- **`headers_db_hole`**: a restart with a saved block newly in `invalidBlocks`
  cuts the chain in memory but not on disk. A heavier, shorter chain later
  overwrites some heights and deletes none above, and the start after that
  throws "Missing header at height".
- **`sync_above_tip`**: a lighter branch higher than the longest chain makes a
  pass read the hash of `undefined` (`getHeaderFromHeight(...)!`).
- **`sync_out_of_sync`**: `_tipHashHex` is only moved by non-empty replies. A
  node that always had its headers downloaded from others first is dropped as
  out of sync although it is at the tip.
- **`connection_pool_lost`**: `_destroyNodeConnection` deletes the entries of an
  address, whichever object they are for. A listener that waits for the answer
  of the connection monitor destroys its connection late, when a worker has
  destroyed it already and another has a new one to the same node: that one
  lives on, untracked.

Observed while modelling, in code the models have, and checked by no run: the
check for nodes that repeat themselves also ends a pass whose first reply is a
side branch already downloaded, since `_tipHashHex` outlives a pass; a chunk
with an invalid block moves the tip by its valid headers, and `new_chain_tip` is
not emitted; `_nodesSyncingHeaders` is keyed by address, so that a queued pass
can run with its address removed; a listener that disposes of a connection in
the middle of its first pass lets the pass return normally, so that the disposed
connection can count as connected (`TestDrops`); a stop that joins a running
stop does not stop the `_start` that waits for that one. Besides, `deleteNode`
leaves its node in `_nonBlacklistedIpPortStrings`, so
`getNumNodesNonBlacklisted` counts it until the ratings are next rebuilt. The
client itself only uses `deleteNodes` and `clearOld`, which do remove it.

## What is not modelled

- Hashing, targets and proof of work: `Work` is a constant. `addHeaders` does
  not check proof of work.
- The exact numbers of `calculateRating`, in particular the score of the last
  connection, which lies between 0.87 and 1 and alone blacklists nobody.
- The composition of the modules: SyncHeaders takes a connection's test (ping,
  `onValidChain`) in one step and ends a connection whose request failed;
  ConnectionPool takes a test as its outcome; ClientLifecycle takes connecting
  as its beginning and end. Each assumes of the others what their own runs
  check. One specification of all would be far too large for TLC.
- `connectedToInternetExpensiveAsync`, which has no caller.
- In NodeTransport: the fields of messages; `inv` and `ping` of the remote node,
  which touch no request.
- Field layouts, variable-length integers and addresses: pure conversions, with
  unit tests. The framing and the checksums of frames are modelled.
- Chain parameters and utilities: constants and conversions with no state.
- The API server, logging and progress output.

## Plan

Done: all modules of the plan, their runs, and a proof of every safety property
that a run checks.

Left, in order of importance:

1. An abstract pool, a set of at most the target number of nodes that workers
   and listeners change, and its refinement by ConnectionPool.
2. What links the modules: that the one step in which SyncHeaders adds a reply
   (`KnownWith`, `TipWith`) does what the loops of BlockHeadersDatabase do.
3. That a pass makes progress, as a measure which every reply that is not the
   last decreases: the part of `SyncSettles` that is not about fairness.

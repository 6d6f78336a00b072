----------------------- MODULE BlockHeadersDatabase -----------------------
(***************************************************************************)
(* src/BlockHeadersDatabase.ts: the tree of block headers in memory, the   *)
(* longest chain kept as an array with an index, and the queue of changes  *)
(* written to LevelDB.                                                     *)
(*                                                                         *)
(* addHeaders() and pruneBranches() are synchronous.  Their loops are      *)
(* modelled one iteration per action, so that what each loop maintains can *)
(* be stated and proved; `phase` says where the call has got to, and no    *)
(* other call begins until it is "idle" again.  The writes to LevelDB are  *)
(* asynchronous: they are issued by a chain of promises, one at a time,    *)
(* between calls.                                                          *)
(*                                                                         *)
(* sortedHeaders[i + 1] is the header at height i, since sequences count   *)
(* from one.                                                               *)
(***************************************************************************)
EXTENDS HeaderTree, Functions

CONSTANTS
    Batches,           \* the arrays of headers callers pass to addHeaders
    InvalidBlockSets   \* the values the invalidBlocks setting takes at a start

(* _insert "assumes newHeaders are sorted but will not throw an error if   *)
(* they aren't": they need not be linked, and a header may come twice.     *)
ASSUME InputAssumption ==
    /\ Batches \subseteq Seq(Header)
    /\ InvalidBlockSets \subseteq SUBSET (Header \ {Genesis})

VARIABLES
    allHeaders,            \* hash -> the height and workTotal set on the header
    headersTree,           \* hash -> the hashes of its children
    headersTreeLeafHashes, \* the keys of headersTree without children
    sortedHeaders,         \* the longest chain, genesis first
    sortedHeadersIndex,    \* hash -> height, for the headers of sortedHeaders
    invalidBlocks,         \* the invalid blocks of this session
    phase,                 \* "idle", "insert", "collect" or "prune"
    newHeaders,            \* _insert: the headers still to be looked at
    headersInvalidated,    \* _insert: the headers reported as invalid
    currentHeader,         \* _insert: where the walk back has got to
    headersToAdd,          \* _insert: the walk so far, lowest header first
    staleHeaderHashes,     \* pruneBranches: the headers to drop
    status,                \* "down", "loading", "open", "closing" or "failed"
    saveTasks,             \* the promise chain: changes whose task has not begun
    unsavedChanges,        \* _addHeadersChangesLevelDbSaveQueue
    saving,                \* a task runs, its batch of Head(unsavedChanges) is out
    levelDb                \* what is on disk, as <<height, header>> pairs

headerVars == <<allHeaders, headersTree, headersTreeLeafHashes>>
chainVars  == <<sortedHeaders, sortedHeadersIndex>>
callVars   == <<phase, newHeaders, headersInvalidated, currentHeader,
                headersToAdd, staleHeaderHashes>>
saveVars   == <<saveTasks, unsavedChanges, saving, levelDb>>
memoryVars == <<headerVars, chainVars, callVars>>
vars == <<memoryVars, invalidBlocks, status, saveVars>>

Tip == sortedHeaders[Len(sortedHeaders)]

Known == DOMAIN allHeaders

OnChain == DOMAIN sortedHeadersIndex

WorkTotal(h) == allHeaders[h].workTotal

HeightOf(h) == allHeaders[h].height

(* Fault: the heights that a shorter chain no longer has are not deleted. *)
Change_NoDeletes(removed, added) ==
    [del |-> {}, put |-> {<<HeightOf(h), h>> : h \in Range(added)}]

(* A change of the longest chain as createLevelDbBatchArray turns it into  *)
(* one batch: the heights deleted first, then the headers put.             *)
Change(removed, added) ==
    [del |-> {HeightOf(h) : h \in Range(removed)},
     put |-> {<<HeightOf(h), h>> : h \in Range(added)}]

Heights(db) == {entry[1] : entry \in db}

ApplyChange(db, change) ==
    {entry \in db : entry[1] \notin change.del \cup Heights(change.put)}
        \cup change.put

----------------------------------------------------------------------------
(* The constructor: the genesis header alone, nothing queued. *)

FreshMemory ==
    /\ allHeaders' = [h \in {Genesis} |-> [height |-> 0, workTotal |-> Work[h]]]
    /\ headersTree' = [h \in {Genesis} |-> {}]
    /\ headersTreeLeafHashes' = {Genesis}
    /\ sortedHeaders' = <<Genesis>>
    /\ sortedHeadersIndex' = [h \in {Genesis} |-> 0]
    /\ phase' = "idle"
    /\ newHeaders' = <<>>
    /\ headersInvalidated' = <<>>
    /\ currentHeader' = Genesis
    /\ headersToAdd' = <<>>
    /\ staleHeaderHashes' = {}
    /\ saveTasks' = <<>>
    /\ unsavedChanges' = <<>>
    /\ saving' = FALSE

Init ==
    /\ allHeaders = [h \in {Genesis} |-> [height |-> 0, workTotal |-> Work[h]]]
    /\ headersTree = [h \in {Genesis} |-> {}]
    /\ headersTreeLeafHashes = {Genesis}
    /\ sortedHeaders = <<Genesis>>
    /\ sortedHeadersIndex = [h \in {Genesis} |-> 0]
    /\ phase = "idle"
    /\ newHeaders = <<>>
    /\ headersInvalidated = <<>>
    /\ currentHeader = Genesis
    /\ headersToAdd = <<>>
    /\ staleHeaderHashes = {}
    /\ saveTasks = <<>>
    /\ unsavedChanges = <<>>
    /\ saving = FALSE
    /\ levelDb = {}
    /\ status = "down"
    /\ invalidBlocks \in InvalidBlockSets

----------------------------------------------------------------------------
(* fromDatabase *)

(* Every height from 1 to the number of entries is there: their headers,   *)
(* in order of height, are passed to _insert.                              *)
FromDatabase ==
    /\ status = "down"
    /\ Heights(levelDb) = 1..Cardinality(levelDb)
    /\ newHeaders' = [i \in 1..Cardinality(levelDb) |->
                         CHOOSE h \in Header : <<i, h>> \in levelDb]
    /\ phase' = "insert"
    /\ status' = "loading"
    /\ invalidBlocks' \in InvalidBlockSets
    /\ UNCHANGED <<headerVars, chainVars, headersInvalidated, currentHeader,
                   headersToAdd, staleHeaderHashes, saveVars>>

(* A height is missing: fromDatabase throws, and so does every later start. *)
MissingHeader ==
    /\ status = "down"
    /\ Heights(levelDb) # 1..Cardinality(levelDb)
    /\ status' = "failed"
    /\ UNCHANGED <<memoryVars, invalidBlocks, saveVars>>

----------------------------------------------------------------------------
(* addHeaders and _insert *)

(* The positions of the headers not yet known, in increasing order: the    *)
(* set has one element, a sequence.                                        *)
UnknownPositions(headers) ==
    {position \in UNION {[1..n -> DOMAIN headers] : n \in 0..Len(headers)} :
        /\ \A i, j \in DOMAIN position : i < j => position[i] < position[j]
        /\ Range(position) = {i \in DOMAIN headers : headers[i] \notin Known}}

(* Headers already known are filtered out, unless genesis is all there is. *)
(* With nothing left the call returns and changes nothing.                 *)
AddHeaders(headers) ==
    /\ status = "open"
    /\ phase = "idle"
    /\ IF Len(sortedHeaders) > 1
       THEN \E position \in UnknownPositions(headers) :
              newHeaders' = [i \in DOMAIN position |-> headers[position[i]]]
       ELSE newHeaders' = headers
    /\ newHeaders' # <<>>
    /\ phase' = "insert"
    /\ headersInvalidated' = <<>>
    /\ UNCHANGED <<headerVars, chainVars, currentHeader, headersToAdd,
                   staleHeaderHashes, invalidBlocks, status, saveVars>>

(* Fault: only a header that extends a leaf becomes one, a fork does not. *)
Leaves_NoForks(prev, header) ==
    IF prev \in headersTreeLeafHashes
    THEN (headersTreeLeafHashes \ {prev}) \cup {header}
    ELSE headersTreeLeafHashes

(* Fault: the parent of a new leaf stays one. *)
Leaves_KeepParent(prev, header) == headersTreeLeafHashes \cup {header}

(* The header before it in the chain is no leaf any more. *)
Leaves(prev, header) == (headersTreeLeafHashes \ {prev}) \cup {header}

(* A header joins the tree as a leaf below its parent.  One that was there *)
(* already loses its children, though they stay known.                     *)
LinkHeader(prev, header) ==
    /\ allHeaders' =
         [h \in Known \cup {header} |->
            IF h = header
            THEN [height    |-> HeightOf(prev) + 1,
                  workTotal |-> WorkTotal(prev) + Work[header]]
            ELSE allHeaders[h]]
    /\ headersTree' =
         [h \in DOMAIN headersTree \cup {header} |->
            IF h = header THEN {}
            ELSE IF h = prev THEN headersTree[h] \cup {header}
            ELSE headersTree[h]]
    /\ headersTreeLeafHashes' = Leaves(prev, header)

(* Fault: an invalid block joins like any other. *)
InsertHeader_Unchecked ==
    /\ phase = "insert"
    /\ newHeaders # <<>>
    /\ Parent[Head(newHeaders)] \in Known
    /\ LinkHeader(Parent[Head(newHeaders)], Head(newHeaders))
    /\ newHeaders' = Tail(newHeaders)
    /\ UNCHANGED <<chainVars, phase, headersInvalidated, currentHeader,
                   headersToAdd, staleHeaderHashes, invalidBlocks, status,
                   saveVars>>

(* One iteration of the loop: a header whose parent is known and that is   *)
(* not an invalid block joins the tree.                                    *)
InsertHeader ==
    /\ phase = "insert"
    /\ newHeaders # <<>>
    /\ Parent[Head(newHeaders)] \in Known
    /\ Head(newHeaders) \notin invalidBlocks
    /\ LinkHeader(Parent[Head(newHeaders)], Head(newHeaders))
    /\ newHeaders' = Tail(newHeaders)
    /\ UNCHANGED <<chainVars, phase, headersInvalidated, currentHeader,
                   headersToAdd, staleHeaderHashes, invalidBlocks, status,
                   saveVars>>

(* The first header whose parent is not known ends the loop; the headers   *)
(* inserted before it stay.                                                *)
BrokenChain ==
    /\ phase = "insert"
    /\ newHeaders # <<>>
    /\ Parent[Head(newHeaders)] \notin Known
    /\ newHeaders' = <<>>
    /\ UNCHANGED <<headerVars, chainVars, phase, headersInvalidated,
                   currentHeader, headersToAdd, staleHeaderHashes,
                   invalidBlocks, status, saveVars>>

(* The header at position i of a batch links to the one before it. *)
Linked(headers, i) == Parent[headers[i]] = headers[i - 1]

(* An invalid block ends the loop: it and the headers that follow it, each *)
(* linked to the one before, are reported and none of them is inserted.    *)
InvalidHeader ==
    /\ phase = "insert"
    /\ newHeaders # <<>>
    /\ Parent[Head(newHeaders)] \in Known
    /\ Head(newHeaders) \in invalidBlocks
    /\ \E n \in 1..Len(newHeaders) :
         /\ \A i \in 2..n : Linked(newHeaders, i)
         /\ n < Len(newHeaders) => ~ Linked(newHeaders, n + 1)
         /\ headersInvalidated' = SubSeq(newHeaders, 1, n)
    /\ newHeaders' = <<>>
    /\ UNCHANGED <<headerVars, chainVars, phase, currentHeader, headersToAdd,
                   staleHeaderHashes, invalidBlocks, status, saveVars>>

(* Fault: the highest leaf wins, not the heaviest. *)
HeavierLeaves_Higher == {l \in headersTreeLeafHashes : HeightOf(l) > HeightOf(Tip)}

(* The leaves heavier than the tip of the longest chain. *)
HeavierLeaves == {l \in headersTreeLeafHashes : WorkTotal(l) > WorkTotal(Tip)}

(* The constructor's caller gets the database once _insert has returned. *)
ReturnFromInsert ==
    /\ phase' = "idle"
    /\ status' = "open"

(* No leaf is heavier: the longest chain stays as it is. *)
KeepTip ==
    /\ phase = "insert"
    /\ newHeaders = <<>>
    /\ HeavierLeaves = {}
    /\ ReturnFromInsert
    /\ UNCHANGED <<headerVars, chainVars, newHeaders, headersInvalidated,
                   currentHeader, headersToAdd, staleHeaderHashes,
                   invalidBlocks, saveVars>>

(* The heaviest leaf is the new tip; among equally heavy ones, the first   *)
(* in the iteration order of a Set, which the model leaves open.           *)
ChooseTip ==
    /\ phase = "insert"
    /\ newHeaders = <<>>
    /\ \E leaf \in HeavierLeaves :
         /\ \A l \in HeavierLeaves : WorkTotal(l) <= WorkTotal(leaf)
         /\ currentHeader' = leaf
    /\ headersToAdd' = <<>>
    /\ phase' = "collect"
    /\ UNCHANGED <<headerVars, chainVars, newHeaders, headersInvalidated,
                   staleHeaderHashes, invalidBlocks, status, saveVars>>

(* Fault: the headers collected are left in the order of the walk. *)
CollectHeader_Backwards ==
    /\ phase = "collect"
    /\ currentHeader \in Known
    /\ currentHeader \notin OnChain
    /\ headersToAdd' = Append(headersToAdd, currentHeader)
    /\ currentHeader' = Parent[currentHeader]
    /\ UNCHANGED <<headerVars, chainVars, phase, newHeaders,
                   headersInvalidated, staleHeaderHashes, invalidBlocks,
                   status, saveVars>>

(* One step of the walk from the new tip back to the old chain. *)
CollectHeader ==
    /\ phase = "collect"
    /\ currentHeader \in Known
    /\ currentHeader \notin OnChain
    /\ headersToAdd' = <<currentHeader>> \o headersToAdd
    /\ currentHeader' = Parent[currentHeader]
    /\ UNCHANGED <<headerVars, chainVars, phase, newHeaders,
                   headersInvalidated, staleHeaderHashes, invalidBlocks,
                   status, saveVars>>

(* The walk met the old chain: what lies above the meeting point is        *)
(* replaced by the headers collected, and addHeaders queues a task that    *)
(* will save the change.  fromDatabase queues none.                        *)
SpliceChain ==
    /\ phase = "collect"
    /\ currentHeader \in OnChain
    /\ LET newStartingHeight == HeightOf(currentHeader) + 1
           headersRemoved == SubSeq(sortedHeaders, newStartingHeight + 1,
                                    Len(sortedHeaders))
       IN  /\ sortedHeaders' = SubSeq(sortedHeaders, 1, newStartingHeight)
                                 \o headersToAdd
           /\ sortedHeadersIndex' =
                [h \in (OnChain \ Range(headersRemoved)) \cup Range(headersToAdd) |->
                   IF h \in Range(headersToAdd)
                   THEN newStartingHeight
                          + (CHOOSE i \in DOMAIN headersToAdd : headersToAdd[i] = h) - 1
                   ELSE sortedHeadersIndex[h]]
           /\ saveTasks' = IF status = "open"
                           THEN Append(saveTasks, Change(headersRemoved, headersToAdd))
                           ELSE saveTasks
    /\ ReturnFromInsert
    /\ UNCHANGED <<headerVars, newHeaders, headersInvalidated, currentHeader,
                   headersToAdd, staleHeaderHashes, invalidBlocks,
                   unsavedChanges, saving, levelDb>>

----------------------------------------------------------------------------
(* The chain of promises that writes to LevelDB *)

(* A task begins when the one before it has settled: it puts its change    *)
(* behind those an earlier error left, and writes the first of them.       *)
StartSaveTask ==
    /\ phase = "idle"
    /\ ~ saving
    /\ saveTasks # <<>>
    /\ unsavedChanges' = Append(unsavedChanges, Head(saveTasks))
    /\ saveTasks' = Tail(saveTasks)
    /\ saving' = TRUE
    /\ UNCHANGED <<memoryVars, invalidBlocks, status, levelDb>>

(* Fault: the task goes on with no change left. *)
BatchWritten_GoesOn ==
    /\ phase = "idle"
    /\ saving
    /\ levelDb' = ApplyChange(levelDb, Head(unsavedChanges))
    /\ unsavedChanges' = Tail(unsavedChanges)
    /\ UNCHANGED <<memoryVars, invalidBlocks, status, saveTasks, saving>>

(* A batch is written whole; the task goes on while a change is left. *)
BatchWritten ==
    /\ phase = "idle"
    /\ saving
    /\ levelDb' = ApplyChange(levelDb, Head(unsavedChanges))
    /\ unsavedChanges' = Tail(unsavedChanges)
    /\ saving' = (Tail(unsavedChanges) # <<>>)
    /\ UNCHANGED <<memoryVars, invalidBlocks, status, saveTasks>>

(* Fault: the change goes with the task. *)
BatchFailed_Drops ==
    /\ phase = "idle"
    /\ saving
    /\ saving' = FALSE
    /\ unsavedChanges' = Tail(unsavedChanges)
    /\ UNCHANGED <<memoryVars, invalidBlocks, status, saveTasks, levelDb>>

(* The write fails: the task ends and leaves its changes queued. *)
BatchFailed ==
    /\ phase = "idle"
    /\ saving
    /\ saving' = FALSE
    /\ UNCHANGED <<memoryVars, invalidBlocks, status, saveTasks,
                   unsavedChanges, levelDb>>

----------------------------------------------------------------------------
(* pruneBranches *)

(* The leaves other than the tip are stale.  With none, nothing changes. *)
PruneBranches ==
    /\ status = "open"
    /\ phase = "idle"
    /\ staleHeaderHashes' = headersTreeLeafHashes \ {Tip}
    /\ staleHeaderHashes' # {}
    /\ phase' = "prune"
    /\ UNCHANGED <<headerVars, chainVars, newHeaders, headersInvalidated,
                   currentHeader, headersToAdd, invalidBlocks, status,
                   saveVars>>

(* The stale headers whose parent the walk back has not come to yet. *)
Unwalked == {h \in staleHeaderHashes \ OnChain :
                Parent[h] \notin OnChain \cup staleHeaderHashes}

(* Fault: the walk stays where it is. *)
WalkStaleBranch_InPlace ==
    /\ phase = "prune"
    /\ \E h \in Unwalked : staleHeaderHashes' = staleHeaderHashes \cup {h}
    /\ UNCHANGED <<headerVars, chainVars, phase, newHeaders,
                   headersInvalidated, currentHeader, headersToAdd,
                   invalidBlocks, status, saveVars>>

(* One step of the walk back from a stale leaf towards the longest chain. *)
WalkStaleBranch ==
    /\ phase = "prune"
    /\ \E h \in Unwalked :
         staleHeaderHashes' = staleHeaderHashes \cup {Parent[h]}
    /\ UNCHANGED <<headerVars, chainVars, phase, newHeaders,
                   headersInvalidated, currentHeader, headersToAdd,
                   invalidBlocks, status, saveVars>>

(* The stale headers that hang on the longest chain. *)
DivergenceHeaders == {h \in staleHeaderHashes : Parent[h] \in OnChain}

(* All stale headers go, and the longest chain forgets those among its     *)
(* children.  An assertion that fails ends the process (Crash): none of    *)
(* them may be on the longest chain, and its tip must be the leaf left.    *)
DropStaleHeaders ==
    /\ phase = "prune"
    /\ Unwalked = {}
    /\ staleHeaderHashes \cap OnChain = {}
    /\ allHeaders' = Restrict(allHeaders, Known \ staleHeaderHashes)
    /\ headersTree' = [h \in DOMAIN headersTree \ staleHeaderHashes |->
                         headersTree[h] \ DivergenceHeaders]
    /\ headersTreeLeafHashes' = headersTreeLeafHashes \ staleHeaderHashes
    /\ headersTreeLeafHashes' = {Tip}
    /\ staleHeaderHashes' = {}
    /\ phase' = "idle"
    /\ UNCHANGED <<chainVars, newHeaders, headersInvalidated, currentHeader,
                   headersToAdd, invalidBlocks, status, saveVars>>

----------------------------------------------------------------------------
(* The end of a session *)

(* close() waits for the save queue. *)
Close ==
    /\ status = "open"
    /\ phase = "idle"
    /\ status' = "closing"
    /\ UNCHANGED <<memoryVars, invalidBlocks, saveVars>>

(* Fault: only the write that is out is waited for. *)
FinishClose_Early ==
    /\ status = "closing"
    /\ ~ saving
    /\ FreshMemory
    /\ status' = "down"
    /\ UNCHANGED <<invalidBlocks, levelDb>>

(* The queue has settled: LevelDB is closed and the process may end. *)
FinishClose ==
    /\ status = "closing"
    /\ ~ saving
    /\ saveTasks = <<>>
    /\ FreshMemory
    /\ status' = "down"
    /\ UNCHANGED <<invalidBlocks, levelDb>>

(* The process ends at any point: an uncaught error, an assertion, a kill. *)
Crash ==
    /\ status \in {"loading", "open", "closing"}
    /\ FreshMemory
    /\ status' = "down"
    /\ UNCHANGED <<invalidBlocks, levelDb>>

----------------------------------------------------------------------------

(* The steps of a call that has begun. *)
CallStep ==
    \/ InsertHeader
    \/ BrokenChain
    \/ InvalidHeader
    \/ KeepTip
    \/ ChooseTip
    \/ CollectHeader
    \/ SpliceChain
    \/ WalkStaleBranch
    \/ DropStaleHeaders

SaveStep ==
    \/ StartSaveTask
    \/ BatchWritten
    \/ BatchFailed

Next ==
    \/ FromDatabase
    \/ MissingHeader
    \/ \E headers \in Batches : AddHeaders(headers)
    \/ PruneBranches
    \/ CallStep
    \/ SaveStep
    \/ Close
    \/ FinishClose
    \/ Crash

Spec == Init /\ [][Next]_vars

(* A call runs to its end, since it is synchronous; between calls the      *)
(* event loop runs the callbacks of the promise chain, and each write to   *)
(* LevelDB settles.                                                        *)
FairSpec == Spec /\ WF_vars(CallStep) /\ SF_vars(SaveStep)

----------------------------------------------------------------------------
(* Properties *)

(* Whatever is or will be on disk has its header's depth as its key. *)
Entries == {<<Depth[h], h>> : h \in Header}

Changes == [del : SUBSET Nat, put : SUBSET Entries]

(* Every variable has its type: the maps are total on the headers known,   *)
(* and the chain, its index and the locals of a call name headers.         *)
TypeOK ==
    /\ Known \subseteq Header
    /\ allHeaders \in [Known -> [height : Nat, workTotal : Nat]]
    /\ headersTree \in [Known -> SUBSET Header]
    /\ headersTreeLeafHashes \subseteq Known
    /\ sortedHeaders \in Seq(Header) \ {<<>>}
    /\ sortedHeadersIndex \in [OnChain -> Nat]
    /\ invalidBlocks \subseteq Header \ {Genesis}
    /\ phase \in {"idle", "insert", "collect", "prune"}
    /\ newHeaders \in Seq(Header)
    /\ headersInvalidated \in Seq(Header)
    /\ headersToAdd \in Seq(Header)
    /\ staleHeaderHashes \subseteq Header
    /\ status \in {"down", "loading", "open", "closing", "failed"}
    /\ saveTasks \in Seq(Changes)
    /\ unsavedChanges \in Seq(Changes)
    /\ saving \in BOOLEAN
    /\ saving => unsavedChanges # <<>>
    /\ levelDb \subseteq Entries

(* Work and height add up from the parent, every parent is known, and no   *)
(* header known is an invalid block or descends from one (197-210, 218).   *)
HeadersDescendFromGenesis ==
    /\ Genesis \in Known
    /\ \A h \in Known \ {Genesis} :
         /\ Parent[h] \in Known
         /\ h \notin invalidBlocks
         /\ HeightOf(h) = HeightOf(Parent[h]) + 1
         /\ WorkTotal(h) = WorkTotal(Parent[h]) + Work[h]

(* No header known but genesis lacks work: a target above 2^256 gives none *)
(* (src/BlockHeader.ts:15-19), and no caller rejects it.                   *)
KnownHaveWork == \A h \in Known \ {Genesis} : Work[h] > 0

(* What _insert has still to look at holds no header twice: the filter of  *)
(* known headers (166-169) looks at an array before any of it is inserted. *)
NewHeadersDiffer ==
    \A i, j \in DOMAIN newHeaders : newHeaders[i] = newHeaders[j] => i = j

(* The tree records exactly the links between the headers known, and the   *)
(* leaf set its keys without children: what 213-216 keep up to date one    *)
(* header at a time and pruneBranches takes apart.  It takes KnownHaveWork *)
(* and NewHeadersDiffer, without which a known header is linked again.     *)
TreeMatchesHeaders ==
    /\ \A h \in Known : headersTree[h] = {c \in Known : Parent[c] = h}
    /\ headersTreeLeafHashes = {h \in Known : headersTree[h] = {}}

(* The array is a chain from genesis, its index is its inverse, and the    *)
(* height set on each header is its place in the array (244-261).          *)
LongestChainIsIndexed ==
    /\ sortedHeaders[1] = Genesis
    /\ \A i \in 2..Len(sortedHeaders) : Parent[sortedHeaders[i]] = sortedHeaders[i - 1]
    /\ OnChain = Range(sortedHeaders)
    /\ \A i \in 1..Len(sortedHeaders) :
         /\ sortedHeaders[i] \in Known
         /\ sortedHeadersIndex[sortedHeaders[i]] = i - 1
         /\ HeightOf(sortedHeaders[i]) = i - 1

(* Between calls no header known has more work than the tip: "follows the  *)
(* longest chain by proof of work", whatever was added, pruned or reloaded *)
(* (222-233 look at the leaves alone).                                     *)
TipIsHeaviest ==
    phase \in {"idle", "prune"} =>
        \A h \in Known : WorkTotal(h) <= WorkTotal(Tip)

(* Within a session the tip changes only to a header with strictly more    *)
(* work: no reorganisation to an equal or lighter chain (228).             *)
TipOnlyGetsHeavier ==
    [][(Tip' # Tip /\ status' # "down") =>
          allHeaders'[Tip'].workTotal > WorkTotal(Tip)]_vars

(* The assertions of pruneBranches (326-331, 338-341), on the headers it   *)
(* is about to drop: none is on the longest chain, each divergence parent  *)
(* has children however many were deleted before, and only the tip remains *)
(* a leaf.  They take KnownHaveWork and NewHeadersDiffer: a child as light *)
(* as the tip, or a header linked again, makes one of them fail.           *)
PruneAssertions ==
    (phase = "prune" /\ Unwalked = {}) =>
        /\ staleHeaderHashes \cap OnChain = {}
        /\ \A h \in DivergenceHeaders :
              headersTree[Parent[h]] \ (DivergenceHeaders \ {h}) # {}
        /\ headersTreeLeafHashes \ staleHeaderHashes = {Tip}

(* The longest chain as it should be on disk: genesis is never written. *)
ChainEntries == {<<i - 1, sortedHeaders[i]>> : i \in 2..Len(sortedHeaders)}

(* The changes a session still has to write, oldest first. *)
QueuedChanges == unsavedChanges \o saveTasks

(* Whatever has failed or is still queued, replaying the queue over what   *)
(* is on disk gives the longest chain: no change is lost, repeated or out  *)
(* of order (280-294).                                                     *)
QueueReplaysToChain ==
    (status \in {"open", "closing"} /\ phase # "collect") =>
        LET replay[n \in 0..Len(QueuedChanges)] ==
              IF n = 0 THEN levelDb
              ELSE ApplyChange(replay[n - 1], QueuedChanges[n])
        IN  replay[Len(QueuedChanges)] = ChainEntries

(* At every moment the disk holds one unbroken chain, so that a process    *)
(* that ends then can start again: fromDatabase finds every height.        *)
LevelDbHoldsAChain ==
    /\ Heights(levelDb) = 1..Cardinality(levelDb)
    /\ \A entry \in levelDb :
         IF entry[1] = 1 THEN Parent[entry[2]] = Genesis
         ELSE <<entry[1] - 1, Parent[entry[2]]>> \in levelDb

(* fromDatabase never throws "Missing header at height" (124-126). *)
EveryHeightIsPresent == status # "failed"

(* close() returns with the longest chain on disk unless a write failed    *)
(* and left its change queued (149-155).                                   *)
CloseSavesTheChain ==
    [][(FinishClose /\ unsavedChanges = <<>>) => levelDb = ChainEntries]_vars

(* A write failed and no task is left that would retry it. *)
WaitsForNextChange == unsavedChanges # <<>> /\ ~ saving /\ saveTasks = <<>>

(* A change of the longest chain reaches the disk, or its write fails and  *)
(* it waits for the next change, unless the session ends.                  *)
ChainIsSaved ==
    (status = "open" /\ levelDb # ChainEntries)
        ~> (levelDb = ChainEntries \/ WaitsForNextChange \/ status # "open")

(* addHeaders and pruneBranches return: the walk back along prevHash meets *)
(* the longest chain, in _insert (247) and for each stale leaf (314).      *)
CallReturns == (phase # "idle") ~> (phase = "idle")

----------------------------------------------------------------------------
(* What the loops maintain: with the invariants above, an inductive        *)
(* invariant of the specification.                                         *)

(* A session that has not begun knows genesis alone; one that is loading   *)
(* has not returned from its only call of _insert.                         *)
SessionInv ==
    /\ status \in {"down", "failed"} => Known = {Genesis}
    /\ status = "loading" => Len(sortedHeaders) = 1 /\ phase \in {"insert", "collect"}
    /\ phase = "prune" => status = "open"
    /\ status \in {"down", "failed", "closing"} => phase = "idle"

(* The height set on a header is its distance from genesis, and no header  *)
(* has less work than genesis.                                             *)
DepthInv ==
    \A h \in Known :
        /\ HeightOf(h) = Depth[h]
        /\ WorkTotal(h) >= WorkTotal(Genesis)

(* The part of TreeMatchesHeaders that needs nothing of the headers: every *)
(* link of the tree is one, and who has no child known is a leaf.          *)
TreeInv ==
    /\ \A h \in Known : headersTree[h] \subseteq {c \in Known : Parent[c] = h}
    /\ {h \in Known : \A c \in Known : Parent[c] # h} \subseteq headersTreeLeafHashes

(* The loop over newHeaders: every header known is outweighed by the tip   *)
(* or by a leaf, so that looking at the leaves is enough.                  *)
InsertInv ==
    phase = "insert" =>
        \A h \in Known : \E l \in headersTreeLeafHashes \cup {Tip} :
            WorkTotal(h) <= WorkTotal(l)

(* The new tip: the walk back began there. *)
NewTip == IF headersToAdd = <<>> THEN currentHeader ELSE headersToAdd[Len(headersToAdd)]

(* The walk back: the headers collected hang one on the other and the      *)
(* first on currentHeader, none is on the longest chain yet, and the last  *)
(* outweighs all.                                                          *)
CollectInv ==
    phase = "collect" =>
        /\ currentHeader \in Known
        /\ \A i \in DOMAIN headersToAdd :
              /\ headersToAdd[i] \in Known \ OnChain
              /\ HeightOf(headersToAdd[i]) = HeightOf(currentHeader) + i
              /\ Parent[headersToAdd[i]] = IF i = 1 THEN currentHeader ELSE headersToAdd[i - 1]
        /\ WorkTotal(Tip) < WorkTotal(NewTip)
        /\ \A h \in Known : WorkTotal(h) <= WorkTotal(NewTip)

(* The walk from the stale leaves never comes to the longest chain: what   *)
(* is stale there was taken for a leaf from the start.                     *)
PruneInv ==
    phase = "prune" =>
        /\ staleHeaderHashes \subseteq Known \ {Tip}
        /\ staleHeaderHashes \cap OnChain \subseteq headersTreeLeafHashes
        /\ headersTreeLeafHashes \ {Tip} \subseteq staleHeaderHashes

(* The inductive invariant: every property of the chain, with what each    *)
(* loop has established so far (165-268, 304-343), whatever the headers'   *)
(* work and the order and number in which they come.                       *)
IInv ==
    /\ TypeOK
    /\ SessionInv
    /\ HeadersDescendFromGenesis
    /\ TreeInv
    /\ LongestChainIsIndexed
    /\ TipIsHeaviest
    /\ DepthInv
    /\ InsertInv
    /\ CollectInv
    /\ PruneInv

----------------------------------------------------------------------------
(* The promise of HeaviestChain, kept.  Until fromDatabase has returned,   *)
(* what the store stands for is the chain on disk.                         *)

(* The header of a set of entries that is highest up, genesis if none is. *)
TopOf(entries) ==
    IF entries = {} THEN Genesis
    ELSE (CHOOSE e \in entries : \A f \in entries : f[1] <= e[1])[2]

Abstract == INSTANCE HeaviestChain WITH
    known   <- IF status \in {"open", "closing"} THEN Known
               ELSE {Genesis} \cup {entry[2] : entry \in levelDb},
    tip     <- IF status \in {"open", "closing"} THEN Tip ELSE TopOf(levelDb),
    pending <- [i \in 1..Len(QueuedChanges) |-> TopOf(QueuedChanges[i].put)],
    durable <- TopOf(levelDb)

(* Every step is a step of the abstract store or none of its business: in  *)
(* particular a restart recovers exactly the chain on disk.                *)
ImplementsHeaviestChain == Abstract!Spec

=============================================================================

# Specifications of gool

gool is a node for the Overline block chain. These modules specify the parts of
it that keep state and run concurrently: the block store (`src/database`), the
tree of unconfirmed blocks (`src/blockchain`), the initial block download, and
the connections and message handlers (`src/node`). TLC checks them on small
instances. TLAPS proves most of their safety properties for every instance: those of
the store, its log, its restarts and its readers, of the tree and its answers, of
the download, of the handlers and their locks, and of the framing.

Paths below are relative to the repository root; `db.go`, `blockchain.go` and
`node.go` are `src/database/db.go`, `src/blockchain/blockchain.go` and
`src/node/node.go`.

## The system

| Component | State | Operations | Modelled in |
|---|---|---|---|
| Block store, `db.go` | blocks in memory with two indexes, the serialization buffer, the serialized tip, `highestBlock`, two transaction pools, the lookup cache; in bolt: chunks, three indexes, `SYNC-INFO`, the chainstate | `Open`, `deleteBlocksAfter`, `AddBlock`, `AddBlockRange`, `AddTransaction`, `AddMarkedTransaction`, `Run` and `runSerialization`, `FlushToDisk`, `Close`; `GetBlockByHeight`, `GetBlockByTx`, `GetBlockByHash` | `OverlineDB`, `OverlineReaders` |
| Block tree, `blockchain.go` | `BlockGraph`, `Heads`, `HeadsToCheck`, `currentHighestBlock`, `isFollowingChain` | `AddBlock`, `AddBlockRange`, `GetBlockBy...`, `GetHighestBlock` | `OverlineChain` |
| Initial block download, `node.go` 953-1098 | stride, batch and retry counters, the work list | ask for strides, wait, retry, end | `IBDSync` |
| Message loop, `node.go` 643-916 | the queue, the peers' heights, a snapshot of them | DATA, BLOCK, TX, GET_BLOCK, GET_DATA | `IBDSync` (what DATA and BLOCK do to the store), `PeerHandlers` (all but TX: locks, writes, handlers), `DataRanges` (which blocks a GET_DATA gets) |
| Peers, `node.go` 74-237, 540-638, 918-948 | the handler map and its lock, the queue's lock, `Connected` | dial, accept, read, expunge, heartbeat | `PeerHandlers` |
| Framing, `node.go` 142-237, 1239-1317 | each handler's buffer | the greeting, cutting the stream into messages | `MessageFraming` |
| Pair ordering and validation, `src/common`, `src/validation` | none | `BlockOrderingRule`, `OrderedBlockPairIsValid`, `HeaderRangeIsContiguous` | `OverlineBlocks`, `HeaderRanges` |
| Block validation, transactions, olhash, genesis, RPC, trackers, DHT | none, or third-party | | not modelled |

How they interact. Handlers read messages from connections and append them to
one queue. The message loop empties the queue in passes. During the download it
gives the blocks of DATA messages to the store (`AddBlockRange`); once it finds
the chain near enough it *follows* it and gives all blocks to the tree
(`AddBlock`), which stores a block when a branch deeper than the coinbase
maturity stands on it. The store's ingestion thread takes the lowest
`AncientChunkSize` blocks out of memory whenever there are more than
`IncomingBlocksSize`, and writes them in one bolt transaction. The download
thread asks peers for blocks and shares the work list with the message loop. A
signal handler closes the store from a goroutine of its own. Queries (RPC, and
GET_DATA from peers) read the tree and the store at any time. Two locks order the
goroutines of the node: that of the queue, which the readers take for each
message, the message loop for a whole pass and the download thread for each
request; and that of the handler map. Both are held over writes to connections.

What is hard to test in it: the interleaving of the ingestion thread with
everything that adds and reads; crashes between bolt transactions, and the five
ways a process ends (`Close`, a kill, `CheckError`, a panic, `main` giving up);
rivals, gaps and redeliveries among the blocks, which are fatal if they meet in
one chunk; the visiting order of Go maps; answers that are late, lost or out of
order; handlers that are copied by value while connections end; writes that wait
under a lock; reads that cut the stream anywhere. `PROJECT.json` lists the hazards by line.

What makes each component correct:

- the store: the serialized chain is whole and linked; memory and disk agree on
  its tip; an accepted block stays retrievable; what `Close` wrote comes back;
- the tree: the heads are the roots, every other block hangs on its parent;
  blocks are stored after their parents; the best block's chain can be read back;
- the readers: what the store has is found, though it moves from memory to disk
  meanwhile; no answer is nil or another block;
- the download: it forgets no block, never feeds the store something fatal, and
  ends;
- the handlers: who writes holds the lock and writes to the handler in the map;
  messages are from peers in the map; dead connections leave it; messages that
  were read get to the queue;
- the framing: no byte is lost or read twice.

## Modules

`OverlineBlocks` declares the blocks: a block is its hash, its fields are
functions. Only blocks that `IsValidBlock` accepts exist, since the code drops
others before any state changes. The two relations of the code on pairs of
blocks are defined here. `OrderedBlockPairIsValid` computes the difficulty
and distance progressions and drops their verdicts (`|| true`), so they do not
appear; `HeaderBreaks` is the set of blocks whose rover headers fail the check
with their parent's. `HeaderRanges` has that check, `HeaderRangeIsContiguous`;
the instance of `db_serialization` gives its blocks headers and computes the
set from them.

`OverlineDB` is the store. Its variables carry the names of the fields and
bolt buckets (`chainstate` is a record of the three chainstate buckets). `proc`
and `exit` say where the process is and how the last one ended. Each critical
section or bolt transaction is one action:

| Action | Code |
|---|---|
| `AddBlock` | `addBlockUnsafe` under the lock, once per block of a range |
| `AddTransaction`, `AddMarkedTransaction` | 404-414 |
| `Run` (`runSerialization`, `SerializationIsFatal`) | one round of the ingestion thread; the sort, the pair checks, the transaction and the return of the rest to memory |
| `FlushSerialize`, `FlushChainstate`, `CloseDatabase` | `Close`: `FlushToDisk` holds both locks over its two transactions and releases them, then the memory is cleared |
| `StartOpen`, `PruneDatabase`, `Load` | `Open`; `Load` also has what `main` does with its verdict |
| `Crash` | a kill at any point |

Sorting is a choice among the chunks that the sort may give, because map
iteration decides between ties; so are the indexes when several blocks share a
height or transaction. `LoadsBefore` differs from `BlockOrderingRule` in the
direction of the time, as the code's two sorts do. Compression and
protobuf are left out. `FullLocalValidation` is an operator on the
buckets, since it changes nothing: it says whether the process survives it. (On a
file in which nothing was ever serialized there is no bucket, and its cursor
panics; that is left out.)

`ChainLog` is the abstract specification: a log of linked blocks to which whole
chunks are appended. `OverlineDBLog` maps the store onto it
(`serializedLog`) under the assumption it needs, see below.

`OverlineDBRestart` adds a history variable, what memory held at the last
flush, to relate the state after `Open` to that before `Close`.

`OverlineReaders` adds the lookups to the store: `StartLookup`, then `LookInCache`,
`LookInMemory` (under the lock), `LookInIndex` and `LookInChunk`, each an atomic
step between which the store does what it may. One lookup is followed; the others
show in what they leave in the cache and evict from it (`Evict`). The history
field `present` says whether the store had what was asked for at the start. The
panics of the code (`LookWithoutBuckets`, and `Found` for a transaction) are
outcomes. The module is checked under the assumption of `OverlineDBLog` that no
chunk is overwritten, see below.

`OverlineChain` is the tree on top of the store. `InsertBlock` is the first
part of `AddBlock` (98-171); `CleanHead` is one iteration of the loop at
172-223; `StartRounds`, `VisitHead` and `FinishRound` are the rounds at 225-383.
`pc` and the variables after it are `AddBlock`'s locals. A visited map that is
added to meanwhile may or may not show the addition (`PopHead`). Only the message
loop calls `AddBlock`, so there is one `pc`; the ingestion thread runs between
any two of its steps. The tree's library (dagger) is external.

`IBDSync` is the download on top of the store, with the message loop's DATA
and BLOCK. The thread's loop is `LoopEnds`, `StartStride`, one `AskPeer` per
peer, `AfterPeers`, `BatchDone`, `BatchTimesOut`, `ResetWorkList`. A pass of the
message loop is `BeginPass`, then `HandleData`, `AddNextBlock` and `HandleBlock`
in any number and order, then `EndPass`. The thread needs the queue's lock to
ask, which a pass holds throughout. That is why the queue is not a variable of
its own: no request is written during a pass, so any answer handled in it may
have been queued when it began. Blocks handed to the tree are collected in
`chainBlocks`; what the tree does with them is `OverlineChain`. The bounds of the
heights are small, so the unsigned subtraction at 710 is given by its meaning:
below `EndDistance` it wraps to more than any height.

A peer answers a request with the range that `DataRanges` computes: the trimming
of "errant" digits, the truncation to the peer's chain and the reduction to 56
blocks, as the code does them before and in the answering goroutine.

`PeerHandlers` is a network of nodes. Each runs the goroutines of `main` that deal
with connections; a connection is the pair of who dialed and who listened, with a
bounded buffer in each direction (`Room`). A critical section in which nothing
blocks is one action. One with a write in it is an action that takes the lock,
an action that is the write (`sending` says who waits for which connection),
and, for the heartbeat, one that releases the lock:

| Goroutine | Actions | Code |
|---|---|---|
| dialing | `Connect`, `StartDialedReader`, `RegisterDialed` | 583-612 |
| listening | `Connect`, `AcceptConnection` | 540-581 |
| `Run` of each handler | `ReadMessage`, `AppendMessage`, `StopReading` | 142-237 |
| expunging | `Expunge` | 625-638 |
| heartbeat | `StartHeartbeat`, `NextBeat`, `SendHeartbeat`, `EndHeartbeat` | 918-948 |
| message loop | `LookAtHeights`, `BeginPass`, `Handle...`, `SendHighestBlock`, `EndPass` | 643-916 |
| answers to GET_DATA | `StartAnswer`, `SendAnswer` | 843-903 |
| download thread, and its loop afterwards | `StartRound`, `StartAsking`, `SendRequest` | 979-1051, 1136-1186 |

Go's maps give a zero handler for a missing peer (`ZeroHandler`). `Run` works on
the handler it was started with, the map holds a copy: only a failing write ever
sets `Connected` to false in the map, and `StopReading` therefore leaves it alone.
A write to a connection whose other end is gone may succeed once. The message
types without effect on handlers and locks (TX) are left out; so are the relay of
new blocks, which can never happen (the test of `err` at 755 is inverted), and the
announcements at the end of the download (1098-1134), which are a heartbeat with
another message.

`MessageFraming` is one side of one connection: the stream is a greeting and
messages behind their lengths, and a read returns any number of its bytes. A byte
is named by its message and place, so a message with bytes of another shows.
`calm` is history: no read has yet cut the stream at a *delicate* place, where the
code is known to fail (see "Other disagreements").

`IBDSyncClaims` states a sentence of the code's comments that the code does not
keep; `claim_standstill` checks a property of `PeerHandlers` itself. `MC...`
modules hold the instances. Definitions named `Bug...` are not part of any model: each is
a plausible mistake in the definition after it, and shows that a property
notices it.

## Runs

| Run | Question | Instance |
|---|---|---|
| `db_serialization` | Whatever blocks arrive, and however processes end, is the serialized chain whole, do memory and disk agree, does nothing accepted get lost? | 7 blocks: a chain of 5 and two rivals, one with broken headers; chunks of 2 |
| `db_prune` | The same with pruning at heights 1 to 4; does `-full-validation` accept what is left; does the ingestion thread drain memory? | a chain of 6 |
| `db_restart` | Does a restart bring back what was flushed, with crashes, pruning and failing transactions in between? | 5 blocks, a rival where the first chunk may end, pruning at height 2 |
| `db_implements_log` | Does the store implement the append-only log? | 7 blocks: a chain of 5 and a rival branch of 2 |
| `readers` | Is what the store has found, and is every answer right, while blocks move to disk, processes end and the cache evicts? | a chain of 3, a rival with the same transaction; lookups by hash, height and transaction |
| `chain_tree` | Are heads, edges and stored blocks right whatever the order of blocks and visits? Does `AddBlock` end? | a chain of 5 that the download may store before the tree begins, a rival branch of 2 off its second block, maturity 0; fresh, or with a chunk on disk |
| `ibd_download` | Does the download with one peer forget nothing, end no process (`DownloadSurvives`), and come to its end? | 6 heights, strides of 1, batches and chunks of 2; from the genesis block, or with a chunk on disk and one or two blocks in memory |
| `peers_setup` | Two nodes dial each other at the same time: who is in which map, for whom are messages handled, do dead handlers leave? | two connections, one download request |
| `peers_traffic` | Two connected nodes write to each other under their locks while connections break: who holds what, what do copies write back, does every message get to the queue? | one connection, a heartbeat and a download request of the listener, six messages of room |
| `wire` | Is the stream cut into the messages that were sent, wherever reads cut it? | four messages, one longer than the buffer, one with a zero near its end |
| `claim_retry`, `claim_standstill` | a sentence of the repository each, which TLC refutes | as `ibd_download`; two nodes with three requests each and room for one message |

Why the bounds suffice. With chunks of 2 the blocks fill up to three chunks,
so a chunk is written onto an earlier one, a chainstate overlaps the serialized
chain, and a rest stays in memory; the code treats all chunks after the first
alike. Two branches are enough for ties, for siblings, and for a rival that sorts
before or after; the rival branch has more distance than what it rivals, so both
orders of arrival matter, and it stays ahead on every height: `BestIsAnchored` and
`AnswersFollowBest` are claimed where no rival overtakes (`RivalsKeepTheirRank`) and
the serialized chain is below the best block (`SerializedBelow`): the instance also
has it go by on the other branch, and the best block is then known to leave the tree.
Maturity 0 makes heads pop with branches of two blocks,
so that rounds follow each other and rivals are popped in one round or in different
ones; `DisjointCheckupHeight` is beyond the tree, as nothing but `HeadsToCheck` depends
on it. In the download what matters is that a batch is as long as a chunk (1000
in the code), that `IncomingBlocksSize` is as long, that an answer overlaps the
next stride by one block, and that `EndDistance` (10 in the code) is between one
block and a stride (20) and a bit; the values keep these relations. `NothingIsForgotten`
and `DownloadSurvives` are also proved, so for them the instance only has to be
one in which they can fail. `DownloadSurvives` is claimed of a `SteadyDownload`:
one peer, batches and memory as long as a chunk, and at the start at most one block
in memory beyond whole chunks; in other downloads the process can end (see
"Other disagreements"). `StrideCap`
bounds the stride counter, which runs on for ever in the code: beyond the chain
strides differ only in their place in the batch, and the counter repeats that.
`Networks` says whether answers can be lost or later than the timeout. Peers are
two nodes because every lock is one node's, and a node that waits waits for one
other; which peer it is matters to the map only, and the proofs have any
number. `MaxBeats` and `MaxAsks` bound heartbeats and requests, which repeat; the
traffic of the passing runs fits into `Room`, as it nearly always does in the code
(the kernel's buffers), and `claim_standstill` has traffic that does not. In
the framing the lengths are chosen so that a message is complete in the buffer,
ends exactly with it, continues behind it, or is longer than it; a one-byte greeting
length and the two-byte id have the places where a read can cut them.
`FewLookups` has a block that never gets into a chunk, a height with rivals, and
the transaction that both carry.

Fairness. `WF(Run)`: the ingestion goroutine is an endless loop that nothing
blocks. `WF(FlushChainstate)`: `Close` waits for nothing once it has its locks.
`WF(AddBlockContinues)`: the message loop's goroutine is not stopped within
`AddBlock`. For the download: weak fairness of the message loop's own steps and of
the ingestion thread; strong fairness of the download thread's steps, which need
the queue's lock: the loop releases it after each pass, and Go's mutex hands it to
a waiter that has starved. Strong fairness of handling an answer, or a peer's
height, says that peers answer; the property is only claimed of the reliable
network. In `PeerHandlers` every goroutine is an endless loop or ends by
itself, so each has weak fairness of its own; locks are free between critical
sections, and weak fairness is enough for the properties claimed. Whether there is
something to ask for is not the node's choice: `StartRound` has none, nor have
dialing and breaking. The reader of `MessageFraming` reads on (`WF(Next)`).
Deadlock checking is off where a process can end for good (the models of
the tree, the download and the peers do not restart it) or the traffic is over; in
`OverlineDB` and `OverlineReaders` it is on.

## Findings

Each has a run that ends in a counterexample.

1. `claim_retry`: a lost answer in a batch and its retry end the process
   (node.go:1084; the comment at 1055 says that the blocks are then retried).
2. `claim_standstill`: the download thread writes requests under the queue's lock,
   which the readers of the same node need. When both nodes do so and the connection
   is full, neither reads and neither write returns (node.go:1000; the comments
   at 106 and 212 say what the lock is for, and that messages are put into the
   queue).

### Other disagreements

All of them are behaviours of the models, met while modelling.

Between the code and what its comments or messages say:

- a database closed before its first chunk makes the next `Open` panic
  (db.go:229; `Close`: "write whatever is in memory to disk", 268);
- a process killed after it serialized, and before its first `Close`, leaves a file
  of which `Open` says "Uninitialized blockchain file!" (db.go:171): without
  `-drop-chainstate` the next process begins again from the genesis block and writes
  over the chunks. Lookups at that time, "serialized in database (doesn't need
  lock)" (541), may be answered by a nil block without an error, which is cached
  (452);
- a block accepted between `FlushToDisk` and the rest of `Close` is written
  nowhere (db.go:269; again 268);
- rivals popped in different rounds are both stored (blockchain.go:368; "the others
  perish", 359), and the next serialization is fatal;
- the download never ends if the highest peer is between 10 and 20 blocks above the
  last whole stride, at the node's own height, or below height 10 (node.go:1005,
  710; "Initial block download has completed.", 1099);
- the reader says "closing peer" and closes nothing (node.go:156): the connection
  and its handler in the map stay until a write fails;
- "there are four possibilities for handshake replies" (node.go:1279) leaves out the
  reply that comes in three reads; "Trimming errant trailing 1" (838) also trims the
  checkup of a head at height 12, which asks for 1 to 11.

Without a comment against it:

- marked transactions are flushed to the bucket of the plain ones (db.go:649);
  the tip in memory moves on although its transaction failed (801), and full
  validation only warns of the hole (755); `Open` hears nothing of a pruning or a
  dropping of the chainstate whose transaction failed (116, 148), and what the pruning
  put into memory stays there; `highestBlock` falls behind when blocks
  overtake their parents, and `Open` may recover one that is not the highest (288,
  198); pruning leaves the chainstate's higher blocks, and drops the index of
  the lower part of a chunk (147, 920); every lookup by transaction that misses the
  cache panics (511), and so do lookups before the first serialization (562);
- two peers of one height are asked for the same stride (node.go:1001): when the
  first one's blocks are serialized before the second one's answer is handled, the
  second answer's go into memory again, and the next pair check is fatal (db.go:793);
- a node that starts with two or more blocks in memory beyond whole chunks (Close writes
  them) has memory reach `IncomingBlocksSize` while a batch still has a hole: answers
  out of order then end the process (db.go:667, 793);
- of two rivals popped in one round the loser's child counts as connected too
  (blockchain.go:311) and is marked if it ranks above the winner's: the best block
  then hangs on a block that perished, until the next `AddBlock` (321);
- when the serialized chain goes by on another branch, `AddBlock` drops the heads below
  its height (blockchain.go:184); if no head it then visits is linked to the store, the
  best block stays one that is no longer in the tree (341);
- a redelivered serialized tip is stored again during the download
  (blockchain.go:108); the head marked as longest depends on the visiting order
  (321); a height of the best branch is found nowhere while its block is popped
  (306);
- `isChained` is true of any two ranges (chain_validation.go:201), so rover
  headers are compared across blocks only where each has exactly one;
- two nodes that dial each other at once may end without a connection, each having
  refused the one the other kept (node.go:570, 605); the first BLOCK from a
  peer that was dialed panics the loop if it is handled before the peer is in the map
  (601-608, 741); a request after the download to a peer whose connection ended
  is fatal (1176);
- a read that leaves one to three bytes of a message's length makes `Run`
  take other bytes for it (node.go:149, 160), and zeros at the end of a message
  that came in pieces are stripped (187). These, and the greeting in three reads, are the
  delicate cuts that `MessageFraming` keeps apart.

## Proofs

Eight modules have theorems; each is a module of its own that extends the one it is
about. They hold for every value of the constants that satisfies the named
assumptions of the models: every finite set of blocks with its branches, every
chunk size and memory at least as large, every tree, chain, stride and batch.
Many of the theorems assume in addition that nothing is pruned (`PruneHeights = {}`)
and that bolt transactions do not fail (`~DiskCanFail`). Where one does not say so,
it holds with both. Some invariants are stated in the models, under "Inductive
strengthenings".

### The store

`OverlineDBProofs`:

- `TypeCorrect`: types, whatever is pruned and fails.
- `BufferEmpty` (`NothingLeftInBuffer`), by `BufferInv`, which adds types and that an
  unopened process has no tip. The buffer is only left filled when at most
  `AncientChunkSize` blocks are sorted, and both callers make sure there are
  more (this needs `IncomingBlocksSize >= AncientChunkSize`).
- `ChainWhole`, `TipWritten`, `AcceptedStay`, under the two assumptions, and
  `TipClimbs` without them. The inductive invariant is `BufferInv /\ ChainInv`:
  `SerializedChainIsWhole` alone is not inductive. To write a chunk onto the
  last one, the tip in memory has to be the last written block; to begin the
  chain, the genesis block has to be waiting in memory, so that the sort puts it
  first; and a chunk must overwrite no other, which holds since the chunk of a
  block is never keyed by a higher one.
- `IndexesAreTrue` (`IndexesLeadToBlocks`), by `IndexesInv`: pruning puts blocks into
  the memory of a process without indexing them, so nothing may be indexed before
  `Load`.
- `OwnFileIsAccepted` (`ValidationAcceptsOwnFile`), by `BucketsInv`. With pruning and
  failing writes the chain on disk need not be whole, but what is there was checked:
  each chunk is linked, its first block to its parent, if that is anywhere, and the
  height index leads into chunks. Pruning deletes the index of every height of the
  chunks it deletes, which is what keeps that true.

`OverlineDBRestartProofs`: `MemoryIsFoundAgain` (`RestartKeepsMemory`) and
`EveryHeightIndexed` (`OpenIndexesEveryHeight`), for any pruning and any failing
write. `RestartInv` says that what `Close` last wrote is still in the chainstate
unless that was dropped; the rest is what `Load` computes from it, and
`IndexesInv`.

`OverlineDBLogProofs`: `StoreImplementsLog`, that the store refines `ChainLog` (under
the two assumptions): every step appends a linked chunk to `serializedLog` or leaves
it alone. To `BufferInv /\ ChainInv` it adds `LogInv`, that a process without a
tip finds nothing written, which is what `CarefulStart` is for; without it a process
could begin a second log. `FilesInv` (no chunk is keyed above the tip) gives that
what is stored stays stored. `StoreInv` is all of these together; `ServedStore` is
their form for the models above the store, where one process is up until it ends.

### The readers and the tree

`OverlineReadersProofs`, under the two assumptions: `ReadersTypeCorrect`,
`AnswersRight`, `PresentFound` and `CacheBacked`, all parts of the one invariant
`ReadersInv`, since none is inductive alone: an answer from the cache is right because
the cache is backed, what is put into the cache was found, and a block that
was there at the start is found because it moves only from memory, which is looked
at first, to the disk. The last part of `ReadersInv` says this for every point
within a lookup.

`OverlineChainProofs`:

- `HeadsRoots` and `HeadsInTree`, without assumptions, by `TreeInv`: every block of the
  tree is either a head or connected, a connected block's parent is in the tree, and
  a head whose parent is there is one that `CleanHead` has yet to visit.
- `NoneMatureLeft` (`NothingMatureIsLeft`) and `AfterParent` (`StoredAfterParent`),
  under the two assumptions, by `RoundInv` and `ServedStore`. The rounds end when
  one of them popped nothing; that nothing is left then needs, for every head that
  was already visited in such a round, that it is not mature, and that the ingestion
  thread, which runs meanwhile, makes no parent known that was not
  (`SerializationKeepsAnswers`).
- `BestAnchored` (`BestIsAnchored`) and `AnswersFollow` (`AnswersFollowBest`), under the
  two assumptions and `HeightsFollow`, that every block is one higher than its parent.
  The tree does not compare the two heights (the pair check does, when a chunk is cut),
  and without that neither holds: TLC refutes both if one block of the instance is
  lower than its parent. The conditions within the two properties stay what they are in
  the run.

  Between rounds `BestInv` is `BestIsAnchored` for a running process. Within them it is
  about the head marked as longest (`LongestInv`). The end of its branch has no children.
  Its branch is anchored; or it hangs on a head that was popped in this round and
  ranks high enough to be the one that is stored; or that head lost to another one, of
  which a child is still to be visited and sorts above the marked head, so that the
  mark will move. The last is what `RivalsKeepTheirRank` is for, and that a popped
  head always leaves a child. The serialized chain grows meanwhile: that it was below
  the best block earlier follows from its being so now (`BelowStaysBelow`), and then a
  head of the best branch that `CleanHead` drops is itself serialized, so that what
  stood on it hangs on the store (`BelowTheTip`).

  `Lineage` and `Ancestry` are recursive functions. Each gets its solution written down
  (`Paths`, the smallest sets closed under the parent), which gives their unfoldings
  (`LineageStep`, `AncestryStep`); what holds along a branch is then proved
  by an induction over heights (`PathInduction`), from the least counterexample.

  The answers by height need `AnswersInv` besides: every height in memory is indexed,
  and nothing on disk is above the tip. The root of an anchored branch hangs on a
  block of the store or is the genesis block (`RootHangs`), the branch has one block of
  every height from there up (`BranchHasAllHeights`), and the store one of every height
  below (`StoreDown`, `StoredAnswers`).

### The download

`IBDSyncProofs`:

- `OneBatch` (`OneBatchAtATime`), for any number of peers and any network, by
  `StrideInv`: only whole batches are waited for, and the retry goes back to the first
  stride of its batch.
- `NothingForgotten` (`NothingIsForgotten`), under the two assumptions, for any number
  of peers that have one height `H` (`PeerHeights = {H}`). With peers of different
  heights a stride is cut at the lower one. `AskedInv(H)` says where `topRange` is
  at every point of the thread's loop, also after the last stride below `H`;
  `ServedStore` that a block which has come stays found.
- `SteadyDownloadSurvives` (`DownloadSurvives`), under the same assumptions. `FeedInv(H)`
  says that the store is given blocks of the chain above its tip, each once. There is
  a height `c` (`WindowFrom(c)`), a whole number of batches above the start, up to
  which every block is in memory or on disk; above it lie only blocks of the next
  batch. If memory had more than a chunk of blocks and a hole in its
  lowest chunk, the hole would be above `c`, and there are not enough blocks
  around it (`NoHole`): here batches, chunks and memory must have one length,
  and memory may at the start have one block more than whole chunks. So the sort
  yields the chain's next chunk (`NextChunk`), which is valid. `c` moves up
  when the first stride of a batch is asked for: then nothing is awaited
  (`OneBatchAtATime`), so all of the last batch has arrived
  (`NothingIsForgotten`) (`RequestStep`).

### The handlers and the wire

`PeerHandlersProofs` holds for any set of nodes, any dialing, any room and bounds
that satisfy `NetworkAssumption`, from both initial states. `HandlersInvariant`
proves `HandlersInv`, from which follow `TypeCorrect`, `WritersAreAlone`
(`WritersHoldTheirLock`), `OnlyClosedAreUnconnected` (`UnconnectedIsClosed`),
`SendersHaveHandlers` (`SendersAreKnown`) and `HandlersAreNotRevived`
(`NeverRevived`). Alone these are not inductive. That a failing write marks the
right handler needs that the map's handler cannot change while the lock is held,
which needs that an entry is only made where none is and removed only when
unconnected, and that the heartbeat still has the peer it writes to in `toBeat`
(`LocksAreHeld`); that a sender is known needs that whoever was once read from
stays so: its handler stays in the map as long as the connection is not closed on
this side, which is `UnconnectedIsClosed` (`ReadersAreKnown`). The proof has
a lemma per part of the invariant, and in each a step per action.

`MessageProofs` holds for all lists of messages, with all their zeros, and all sizes
of the buffer (`StreamAssumption`): `FramingTypes` (`TypeOK`) and `EveryByteIsKept`
(`NoByteIsLost`). The invariant of the first, `GreetingInv`, says that
what is read as a length is a byte of a message: the greeting has been cut off before,
or is not whole yet. That of the second, `PlaceInv`, says where the reader is: as long
as no cut was delicate, the buffer and the unfinished message together are the
stream from the end of the last queued message up to what was read (`End`, `From`).
The stream is the concatenation of its messages, a recursive function of their
number. What it holds from one message's end to the next is unfolded by an induction over
numbers which is itself proved, from the well-foundedness of `<`
(`LeastNumber`, `Induction`).

The same module is about `DataRanges` and `HeaderRanges` for all heights.
`StridesAreAnswered` says that requests as long as the download's are answered with
all that the peer has, which `IBDSync`'s small instance cannot show;
`CheckupsAreAnswered` says the same of the checkups of disjoint heads from height 12
on, with its one exception (`node.go:838`); `AnswersAreBounded` bounds the size of an
answer. `RangesAreCheckedApart` says what is left of the header check.

### What is only model-checked

- What of the chain, the log, the readers and the tree's rounds holds with pruning or
  failing transactions, beyond `OverlineDBProofs` and `OverlineDBRestartProofs`
  (`db_prune`, `db_restart` check it).
- All liveness, which the prover does not do.

## Not modelled

Block validation and transaction parsing, olhash, the genesis builder and the
protocol buffers are stateless functions, and the models take their results as
constants. Trackers, DHT and RPC servers are third-party I/O. `src/p2p` is not
imported by the node, `src/rovers` has no code. In the node's own part: a node that
restarts while its peers go on, a peer that connects and says nothing (it holds the
listening goroutine), and the blacklist of addresses.

The models stand for two fifths of the hand-written Go code. Of all Go lines they
are a ninth, since nearly three quarters of them are generated protocol
buffers, which keep no state.

## Plan

1. Done: the store, its log, its readers and the proofs; the tree; the download;
   the peers, their locks and the proofs; the framing; the ranges.
2. Done: the proofs of the store, the log, restarts, readers, the tree with its best
   block and its answers, the download, the handlers and the framing: every
   safety property of a passing run is a theorem, some of them under the assumptions
   named above. Left: what of `ChainInv` survives pruning above the first chunk.
3. Algorithms as operators: the difficulty of `olhash/difficulty.go`.

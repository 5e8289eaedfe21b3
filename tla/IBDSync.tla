------------------------------- MODULE IBDSync ------------------------------
(***************************************************************************)
(* The initial block download (src/node/node.go): the thread that asks the *)
(* peers for blocks, stride by stride, and the message loop that takes     *)
(* their answers, on top of the block store and its ingestion thread.      *)
(*                                                                         *)
(* Strides of blockStride blocks are asked for one after the other; after  *)
(* a batch of batchStrides of them the thread waits until every block it   *)
(* asked for (AllowedBlocks) has come, or asks for the batch again.  The   *)
(* message loop works in passes: it looks at the peers' heights, and then  *)
(* empties the message queue while it holds the queue's lock, which the    *)
(* thread needs for every request.  So no request falls into a pass, and   *)
(* the queue need not be told from the answers on their way: an answer     *)
(* handled in a pass may as well have been queued when it began.  Peers    *)
(* answer in goroutines, in any order.                                     *)
(***************************************************************************)
EXTENDS OverlineDB, DataRanges, Bags

CONSTANTS
  Peers,          \* those the node has shaken hands with
  PeerChain,      \* the chain the peers follow: the block of every height
  PeerHeights,    \* the heights peers may report
  Starts,         \* <<serialized height, height>> the node may start with
  Networks,       \* "reliable": every request is answered within the timeout
  blockStride, batchStrides, nMaxRetries,
  EndDistance,    \* the download ends this far below the highest peer
  StrideCap       \* the model counts strides to here, then batch by batch

ASSUME SyncAssumption ==
  /\ PeerChain \in Seq(Blocks) /\ PeerChain[1] = Genesis
  /\ \A h \in 2..Len(PeerChain) : OrderedBlockPairIsValid(PeerChain[h - 1], PeerChain[h])
  /\ PeerHeights \subseteq 1..Len(PeerChain)
  /\ Starts \subseteq Nat \X Nat
  /\ \A s \in Starts : /\ s[1] % AncientChunkSize = 0 /\ s[1] < s[2]
                       /\ s[2] <= Len(PeerChain)
                       /\ s[1] = 0 => s[2] = 1
  /\ Networks \subseteq {"reliable", "unreliable"}
  /\ blockStride \in Nat \ {0} /\ batchStrides \in Nat \ {0}
  /\ nMaxRetries \in Nat /\ EndDistance \in Nat
  /\ StrideCap \in Nat \ {0} /\ StrideCap % batchStrides = 0
  /\ StrideCap * blockStride > Len(PeerChain) + 2 * batchStrides * blockStride

VARIABLES
  network, startingHeight,
  peerHeight,         \* Peer.Height in the handler map, 0 before its first BLOCK
  replies,            \* answers on their way or in the queue: a bag of ranges
  ibdMode, isFollowingChain,
  chainBlocks,        \* heights of the blocks handed to the block tree
  AllowedBlocks,      \* heights of ibdWorkList.AllowedBlocks
  \* the download thread
  ibdPc, iStride, topRange, nRetriesThisChunk, localHandlers, toAsk,
  \* the message loop: a pass, and what is left of AddBlockRange in it
  inPass, highestPeerHeight, toAdd

netVars == <<network, startingHeight, peerHeight>>
threadVars == <<ibdPc, iStride, topRange, nRetriesThisChunk, localHandlers, toAsk>>
loopVars == <<inPass, highestPeerHeight, toAdd>>
syncVars == <<netVars, replies, ibdMode, isFollowingChain, chainBlocks,
              AllowedBlocks, threadVars, loopVars>>
allVars == <<vars, syncVars>>

Highest(S) == Max(S \cup {0})

-----------------------------------------------------------------------------
(* The download thread *)

StrideLow == (iStride - 1) * blockStride + startingHeight + 1
StrideHigh == iStride * blockStride + startingHeight + 1

BugNextTwo == iStride + 2
NextStride == IF iStride < StrideCap THEN iStride + 1 ELSE iStride + 1 - batchStrides

\* The top of the loop: it ends after too many retries, or when the download is
\* over; while no peer has a height it spins.
LoopEnds ==
  /\ proc = "up" /\ ibdPc = "top"
  /\ nRetriesThisChunk > nMaxRetries \/ ~ ibdMode
  /\ ibdMode' = FALSE
  /\ ibdPc' = "done"
  /\ UNCHANGED <<vars, netVars, replies, isFollowingChain, chainBlocks, AllowedBlocks,
                 iStride, topRange, nRetriesThisChunk, localHandlers, toAsk, loopVars>>

StartStride ==
  /\ proc = "up" /\ ibdPc = "top"
  /\ nRetriesThisChunk <= nMaxRetries /\ ibdMode
  /\ \E p \in Peers : peerHeight[p] > 0
  /\ localHandlers' = peerHeight
  /\ toAsk' = Peers
  /\ ibdPc' = "ask"
  /\ UNCHANGED <<vars, netVars, replies, ibdMode, isFollowingChain, chainBlocks,
                 AllowedBlocks, iStride, topRange, nRetriesThisChunk, loopVars>>

\* A peer is asked for the stride, its last block included, if its height was
\* at least topRange.  It answers as its own message loop does.  An unreliable
\* network may lose the request or the answer.
TooLow(p) == \/ localHandlers[p] = 0
             \/ localHandlers[p] < StrideLow
             \/ localHandlers[p] < topRange

AskPeer(p) ==
  LET high == Min({StrideHigh, localHandlers[p]}) IN
  /\ proc = "up" /\ ibdPc = "ask" /\ p \in toAsk
  /\ ~ inPass
  /\ toAsk' = toAsk \ {p}
  /\ \/ TooLow(p) /\ UNCHANGED <<AllowedBlocks, replies, topRange>>
     \/ /\ ~ TooLow(p)
        /\ AllowedBlocks' = AllowedBlocks \cup StrideLow..(high - 1)
        /\ \/ replies' = replies (+) SetToBag({AnsweredRange(StrideLow, high, localHandlers[p])})
           \/ network = "unreliable" /\ UNCHANGED replies
        /\ topRange' = startingHeight + (iStride + 1) * blockStride + 1
  /\ UNCHANGED <<vars, netVars, ibdMode, isFollowingChain, chainBlocks, ibdPc,
                 iStride, nRetriesThisChunk, localHandlers, loopVars>>

\* After the peers: wait at the end of a batch, or go on to the next stride.
BugBatchEnds == FALSE
BatchEnds == iStride % batchStrides = 0

AfterPeers ==
  /\ proc = "up" /\ ibdPc = "ask" /\ toAsk = {}
  /\ \/ /\ BatchEnds
        /\ ibdPc' = "wait"
        /\ UNCHANGED iStride
     \/ /\ ~ BatchEnds
        /\ ibdPc' = "top"
        /\ iStride' = NextStride
  /\ UNCHANGED <<vars, netVars, replies, ibdMode, isFollowingChain, chainBlocks,
                 AllowedBlocks, topRange, nRetriesThisChunk, localHandlers, toAsk, loopVars>>

BatchDone ==
  /\ proc = "up" /\ ibdPc = "wait"
  /\ AllowedBlocks = {}
  /\ nRetriesThisChunk' = 0
  /\ ibdPc' = "top"
  /\ iStride' = NextStride
  /\ UNCHANGED <<vars, netVars, replies, ibdMode, isFollowingChain, chainBlocks,
                 AllowedBlocks, topRange, localHandlers, toAsk, loopVars>>

\* The timeout, and the reset of the work list some time after it.
BatchTimesOut ==
  /\ proc = "up" /\ ibdPc = "wait"
  /\ AllowedBlocks # {} /\ network = "unreliable"
  /\ ibdPc' = "retry"
  /\ iStride' = iStride - (batchStrides - 1)
  /\ nRetriesThisChunk' = nRetriesThisChunk + 1
  /\ UNCHANGED <<vars, netVars, replies, ibdMode, isFollowingChain, chainBlocks,
                 AllowedBlocks, topRange, localHandlers, toAsk, loopVars>>

ResetWorkList ==
  /\ proc = "up" /\ ibdPc = "retry"
  /\ AllowedBlocks' = {}
  /\ ibdPc' = "top"
  /\ UNCHANGED <<vars, netVars, replies, ibdMode, isFollowingChain, chainBlocks, iStride,
                 topRange, nRetriesThisChunk, localHandlers, toAsk, loopVars>>

-----------------------------------------------------------------------------
(* The message loop *)

SerializedHeight == IF tipOfSerializedChain = NoBlock THEN 0
                    ELSE Height[tipOfSerializedChain]

\* "lowest * (1 - 0.005) < serialized height + AncientChunkSize"
BeginPass ==
  LET known == {peerHeight[p] : p \in Peers} \ {0} IN
  /\ proc = "up" /\ ~ inPass
  /\ inPass' = TRUE
  /\ highestPeerHeight' = Highest(known)
  /\ isFollowingChain' =
       (isFollowingChain \/ /\ known # {}
                            /\ 199 * Min(known) < 200 * (SerializedHeight + AncientChunkSize))
  /\ UNCHANGED <<vars, netVars, replies, ibdMode, chainBlocks, AllowedBlocks,
                 threadVars, toAdd>>

NearTop(received) ==
  /\ highestPeerHeight >= EndDistance /\ highestPeerHeight # 0
  /\ highestPeerHeight - EndDistance < received

\* DATA.  During the download only the blocks that were asked for are kept.
\* The blocks go to the block tree if it is followed, to the store if the
\* download is still on, and nowhere otherwise.
HandleData(low, high) ==
  LET good == IF ibdMode THEN (low..high) \cap AllowedBlocks ELSE low..high IN
  /\ proc = "up" /\ inPass /\ toAdd = {}
  /\ BagIn(<<low, high>>, replies)
  /\ replies' = replies (-) SetToBag({<<low, high>>})
  /\ IF ibdMode
     THEN /\ AllowedBlocks' = AllowedBlocks \ good
          /\ ibdMode' = ~ NearTop(Highest(good))
     ELSE UNCHANGED <<AllowedBlocks, ibdMode>>
  /\ chainBlocks' = IF isFollowingChain THEN chainBlocks \cup good ELSE chainBlocks
  /\ toAdd' = IF ~ isFollowingChain /\ ibdMode' THEN good ELSE {}
  /\ UNCHANGED <<vars, netVars, isFollowingChain, threadVars, inPass, highestPeerHeight>>

\* AddBlockRange, one block at a time, in the order they were sent.
AddNextBlock ==
  LET b == PeerChain[Min(toAdd)] IN
  /\ proc = "up" /\ toAdd # {}
  /\ toAdd' = toAdd \ {Min(toAdd)}
  /\ \/ AddBlock(b)
     \/ b \in incomingBlocks /\ UNCHANGED vars
  /\ UNCHANGED <<netVars, replies, ibdMode, isFollowingChain, chainBlocks,
                 AllowedBlocks, threadVars, inPass, highestPeerHeight>>

\* BLOCK: a peer's highest block, in answer to the heartbeat or broadcast.
HandleBlock(p, height) ==
  /\ proc = "up" /\ inPass /\ toAdd = {}
  /\ peerHeight' = [peerHeight EXCEPT ![p] = height]
  /\ chainBlocks' = IF isFollowingChain THEN chainBlocks \cup {height} ELSE chainBlocks
  /\ UNCHANGED <<vars, network, startingHeight, replies, ibdMode, isFollowingChain,
                 AllowedBlocks, threadVars, loopVars>>

EndPass ==
  /\ proc = "up" /\ inPass /\ toAdd = {}
  /\ inPass' = FALSE
  /\ UNCHANGED <<vars, netVars, replies, ibdMode, isFollowingChain, chainBlocks,
                 AllowedBlocks, threadVars, highestPeerHeight, toAdd>>

Ingestion == Run /\ UNCHANGED syncVars

-----------------------------------------------------------------------------
\* The store as Open leaves it: the chain serialized up to a height, and memory
\* filled from there to startingHeight.
StoreUpTo(serialized, height) ==
  LET waiting == {PeerChain[h] : h \in (serialized + 1)..height}
      firsts == {i \in 1..serialized : i % AncientChunkSize = 1}
      firstOf(h) == h - ((h - 1) % AncientChunkSize)
      written == {PeerChain[h] : h \in 1..serialized}
  IN
  /\ incomingBlocks = waiting
  /\ incomingBlocksByHeight = [h \in (serialized + 1)..height |-> PeerChain[h]]
  /\ incomingBlocksByTx \in TxIndexes(waiting, LoadsBefore)
  /\ tipOfSerializedChain = IF serialized = 0 THEN NoBlock ELSE PeerChain[serialized]
  /\ lastWritten = tipOfSerializedChain
  /\ highestBlock = PeerChain[height]
  /\ blockChunks = [c \in {PeerChain[i] : i \in firsts} |->
                      SubSeq(PeerChain, Height[c], Height[c] + AncientChunkSize - 1)]
  /\ hash2chunk = [b \in written |-> PeerChain[firstOf(Height[b])]]
  /\ height2hash = [h \in 1..serialized |-> PeerChain[h]]
  /\ tx2hash \in TxIndexes(written, BlockOrderingRule)
  /\ chainstate = [present |-> serialized > 0, txs |-> {}, mtxs |-> {},
                   blocks |-> IF serialized > 0 THEN waiting ELSE {}]

SyncInit ==
  /\ \E s \in Starts : StoreUpTo(s[1], s[2]) /\ startingHeight = s[2]
  /\ toSerialize = {} /\ txMemPool = {} /\ mtxMemPool = {}
  /\ proc = "up" /\ exit = "clean"
  /\ network \in Networks
  /\ peerHeight = [p \in Peers |-> 0]
  /\ replies = EmptyBag
  /\ ibdMode = TRUE /\ isFollowingChain = FALSE
  /\ chainBlocks = {} /\ AllowedBlocks = {}
  /\ ibdPc = "top" /\ iStride = 1 /\ nRetriesThisChunk = 0
  /\ topRange = startingHeight + blockStride + 1
  /\ localHandlers = peerHeight /\ toAsk = {}
  /\ inPass = FALSE /\ highestPeerHeight = 0 /\ toAdd = {}

Thread ==
  \/ LoopEnds \/ StartStride
  \/ \E p \in Peers : AskPeer(p)
  \/ AfterPeers \/ BatchDone \/ BatchTimesOut \/ ResetWorkList

TakeData == \E r \in BagToSet(replies) : HandleData(r[1], r[2])
TakeBlock == \E p \in Peers, h \in PeerHeights : HandleBlock(p, h)

SyncNext ==
  Thread \/ BeginPass \/ TakeData \/ TakeBlock \/ AddNextBlock \/ EndPass \/ Ingestion

SyncSpec == SyncInit /\ [][SyncNext]_allVars

\* The goroutines are never stopped.  A pass ends and others begin; between two
\* passes the queue's lock is free, and the thread gets it in the end.  What is
\* on its way is in some pass handled: peers answer, and report their heights.
SyncFairSpec ==
  /\ SyncSpec
  /\ SF_allVars(Thread)
  /\ WF_allVars(BeginPass) /\ WF_allVars(EndPass) /\ WF_allVars(AddNextBlock)
  /\ SF_allVars(TakeData) /\ SF_allVars(TakeBlock)
  /\ WF_allVars(Ingestion)

-----------------------------------------------------------------------------
(* Safety *)

Batch == (iStride - 1) \div batchStrides
BatchHeights == (Batch * batchStrides * blockStride + startingHeight + 1)
                  ..((Batch + 1) * batchStrides * blockStride + startingHeight)

\* Blocks are awaited for one batch at a time, through retries and late answers:
\* the next one is asked for only when nothing of this one is missing.  (The
\* download thread's wait, its retry and the message loop's work list.)
OneBatchAtATime == ibdPc # "done" => AllowedBlocks \subseteq BatchHeights

\* The block of a height is in the store, on its way there, or in the tree.
Arrived(h) == Retrievable(PeerChain[h]) \/ h \in toAdd \cup chainBlocks

\* While the download is on, no block up to the last stride that was asked for
\* is forgotten: it is awaited or has arrived.  (Work list, AddBlockRange.)
NothingIsForgotten ==
  network = "reliable" /\ proc = "up" /\ ibdMode =>
    \A h \in (startingHeight + 1)..(topRange - blockStride - 1) :
      h \in AllowedBlocks \/ Arrived(h)

\* One peer, batches and memory exactly as long as a chunk, and at the start at most
\* one block in memory beyond whole chunks.
SteadyDownload ==
  /\ \A p, q \in Peers : p = q
  /\ batchStrides * blockStride = AncientChunkSize /\ IncomingBlocksSize = AncientChunkSize
  /\ startingHeight % AncientChunkSize <= 1

\* With one peer that answers every request in time, though in any order, the store's
\* pair check never ends the process: while a batch has a hole, what lies in memory is
\* no more than IncomingBlocksSize blocks or has a whole chunk below the hole.
DownloadSurvives == network = "reliable" /\ SteadyDownload => exit # "fatal"

-----------------------------------------------------------------------------
(* Liveness *)


-----------------------------------------------------------------------------
(* Inductive strengthenings, for the proofs *)

\* What is asked for is counted from the heights that the thread copied, and only a
\* whole batch is waited for.
StrideInv ==
  /\ startingHeight \in Nat
  /\ peerHeight \in [Peers -> Nat] /\ localHandlers \in [Peers -> Nat]
  /\ ibdPc \in {"top", "ask", "wait", "retry", "done"}
  /\ iStride \in 1..StrideCap
  /\ ibdPc = "wait" => BatchEnds
  /\ OneBatchAtATime

\* Where topRange is while the peers are at height H: as high as the stride before
\* the first peer is asked for it, and a stride higher afterwards; or too high for
\* any peer, and then nothing more is asked for.
AskedInv(H) ==
  /\ peerHeight \in [Peers -> {0, H}] /\ localHandlers \in [Peers -> {0, H}]
  /\ topRange \in Nat
  /\ AllowedBlocks \cup toAdd \subseteq 1..Len(PeerChain)
  /\ network = "reliable" =>
       /\ ibdPc # "retry"
       /\ \/ topRange > H
          \/ ibdPc \in {"ask", "wait"} /\ topRange = StrideHigh + blockStride
          \/ ibdPc = "ask" /\ topRange = StrideHigh /\ \E p \in toAsk : localHandlers[p] = H
          \/ ibdPc = "top" /\ topRange = StrideHigh
          \/ ibdPc = "done"

\* The last height that was asked for, and whether answers go to the store.
LastAsked == topRange - blockStride - 1
Feeding == ibdMode /\ ~ isFollowingChain
MemoryHeights == {h \in 1..Len(PeerChain) : PeerChain[h] \in incomingBlocks}

\* What the download gives the store: blocks of the chain above the serialized tip,
\* each once.
FeedInv(H) ==
  /\ incomingBlocks \subseteq {PeerChain[h] : h \in 1..Len(PeerChain)}
  /\ SerializedHeight \in Nat /\ SerializedHeight % AncientChunkSize = 0
  /\ tipOfSerializedChain # NoBlock =>
       /\ SerializedHeight \in 1..Len(PeerChain)
       /\ tipOfSerializedChain = PeerChain[SerializedHeight]
  /\ \A h \in MemoryHeights \cup toAdd : h > SerializedHeight
  /\ \A b \in Blocks : Stored(b) => Height[b] <= SerializedHeight
  /\ toAdd \cap MemoryHeights = {}
  /\ ~ inPass => toAdd = {}
  /\ Feeding => /\ chainBlocks = {}
                /\ AllowedBlocks \cap (toAdd \cup MemoryHeights) = {}
                /\ \A h \in AllowedBlocks : h > SerializedHeight
  /\ toAsk \subseteq Peers
  /\ ibdPc = "ask" /\ toAsk # {} => topRange > H \/ topRange = StrideHigh

\* Whole batches lie in memory or on disk up to height c, and of the batch above it
\* what has come so far.
WindowFrom(c) ==
  /\ \E k \in Nat : c = startingHeight + k * AncientChunkSize
  /\ (SerializedHeight + 1)..c \subseteq MemoryHeights
  /\ toAdd \subseteq (c + 1)..(c + AncientChunkSize)
  /\ \A h \in MemoryHeights : h <= c + AncientChunkSize
  /\ Feeding => /\ c <= LastAsked /\ LastAsked <= c + AncientChunkSize
                /\ AllowedBlocks \subseteq (c + 1)..LastAsked
                /\ \A h \in MemoryHeights \cup toAdd \cup {SerializedHeight} : h <= LastAsked

=============================================================================

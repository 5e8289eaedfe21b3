-------------------------- MODULE OverlineReaders ---------------------------
(***************************************************************************)
(* Looking blocks up in the store while it serializes (GetBlockByHeight,   *)
(* GetBlockByTx and GetBlockByHash of src/database/db.go).                 *)
(*                                                                         *)
(* A lookup tries the cache, the memory and the disk, in this order and    *)
(* with the store's lock only for the memory: the ingestion thread may     *)
(* serialize, and Close may write, between any two of them.  One lookup is *)
(* followed; the others show in what they put into the cache before it and *)
(* in what they evict.                                                     *)
(***************************************************************************)
EXTENDS OverlineDBLog

CONSTANT Lookups   \* what may be asked for, a subset of Keys

Keys == {<<"height", h>> : h \in Heights(Blocks)} \cup {<<"hash", b>> : b \in Blocks}
          \cup {<<"tx", t>> : t \in Txs}

ASSUME LookupsAssumption == Lookups \subseteq Keys

VARIABLES
  lookupCache,   \* an ARC cache: keys may be evicted at any time
  lookup         \* the lookup under way, or the last one

readersVars == <<vars, lookupCache, lookup>>

BugPlaces == <<"cache", "disk", "memory">>
Places == <<"cache", "memory", "disk">>

\* seeking: what it looks for by now; left: the places where it has not looked;
\* present (history): whether the store had it when the lookup began.
NoLookup == [asked |-> <<>>, seeking |-> <<>>, left |-> <<>>, outcome |-> "none",
             block |-> NoBlock, present |-> FALSE]

At(place) == lookup.left # <<>> /\ Head(lookup.left) = place
By(index) == lookup.seeking[1] = index
Asked(index) == lookup.asked[1] = index

\* What a key leads to in memory: the index first, then the sorted buffer.
InMemory(key) ==
  LET k == key[2]
      found == CASE key[1] = "hash" -> {k} \cap incomingBlocks
                 [] key[1] = "height" -> IF k \in DOMAIN incomingBlocksByHeight
                                         THEN {incomingBlocksByHeight[k]} \cap incomingBlocks
                                         ELSE {}
                 [] key[1] = "tx" -> IF k \in DOMAIN incomingBlocksByTx
                                     THEN {incomingBlocksByTx[k]} \cap incomingBlocks
                                     ELSE {}
      buffered == CASE key[1] = "hash" -> {k} \cap toSerialize
                    [] key[1] = "height" -> {b \in toSerialize : Height[b] = k}
                    [] key[1] = "tx" -> {b \in toSerialize : k \in TxsOf[b]}
  IN  IF found # {} THEN found ELSE buffered

BugOnDisk(key) ==
  CASE key[1] = "hash" -> {key[2]}
    [] key[1] = "height" -> {height2hash[h] : h \in {key[2] - 1} \cap DOMAIN height2hash}
    [] key[1] = "tx" -> {tx2hash[t] : t \in {key[2]} \cap DOMAIN tx2hash}

\* The hash that a key is mapped to on disk.
OnDisk(key) ==
  CASE key[1] = "hash" -> {key[2]}
    [] key[1] = "height" -> {height2hash[h] : h \in {key[2]} \cap DOMAIN height2hash}
    [] key[1] = "tx" -> {tx2hash[t] : t \in {key[2]} \cap DOMAIN tx2hash}

InStore(key) == InMemory(key) # {} \/ \E b \in OnDisk(key) : Stored(b)

BugKeysOf(b) == {<<"height", Height[b]>>, <<"hash", b>>} \cup {<<"hash", t>> : t \in TxsOf[b]}

\* All the keys under which a block is cached.
KeysOf(b) == {<<"height", Height[b]>>, <<"hash", b>>} \cup {<<"tx", t>> : t \in TxsOf[b]}
Cached(b) == [k \in KeysOf(b) |-> b]

-----------------------------------------------------------------------------
StartLookup(key) ==
  /\ Running /\ lookup.left = <<>>
  /\ lookup' = [NoLookup EXCEPT !.asked = key, !.seeking = key, !.left = Places,
                                !.present = InStore(key)]
  /\ UNCHANGED <<vars, lookupCache>>

Answer(outcome, b) ==
  lookup' = [lookup EXCEPT !.left = <<>>, !.outcome = outcome, !.block = b]

\* Not here: on to the next place.
Miss ==
  /\ lookup' = IF Len(lookup.left) > 1
               THEN [lookup EXCEPT !.left = Tail(@)]
               ELSE [lookup EXCEPT !.left = <<>>, !.outcome = "error"]
  /\ UNCHANGED lookupCache

\* A block that was asked for by its transaction is cached under a byte slice,
\* which cannot be the key of a map: a panic.  Only the lookup by hash, if it came
\* to one, has filled the cache by then.
Found(b, cache) ==
  IF Asked("tx")
  THEN /\ Answer("panic", NoBlock)
       /\ lookupCache' = IF By("hash") /\ ~ At("cache") THEN Put(cache, Cached(b)) ELSE cache
  ELSE /\ Answer("block", b)
       /\ lookupCache' = Put(cache, Cached(b))

\* What was asked for is in the cache: it is the answer as it is.
LookInCache ==
  /\ At("cache")
  /\ \/ /\ lookup.seeking \notin DOMAIN lookupCache
        /\ Miss
     \/ /\ lookup.seeking \in DOMAIN lookupCache
        /\ IF lookup.seeking = lookup.asked
           THEN Answer("block", lookupCache[lookup.seeking]) /\ UNCHANGED lookupCache
           ELSE Found(lookupCache[lookup.seeking], lookupCache)
  /\ UNCHANGED vars

\* Under the store's lock, which Close has while it writes.
LookInMemory ==
  /\ At("memory") /\ Running
  /\ \/ InMemory(lookup.seeking) = {} /\ Miss
     \/ \E b \in InMemory(lookup.seeking) : Found(b, lookupCache)
  /\ UNCHANGED vars

\* A bucket that no serialization has made is a nil pointer.
LookWithoutBuckets ==
  /\ At("disk") /\ blockChunks = <<>>
  /\ Answer("panic", NoBlock)
  /\ UNCHANGED <<vars, lookupCache>>

\* An index gives the hash, for which a lookup of its own begins.
LookInIndex ==
  /\ At("disk") /\ blockChunks # <<>> /\ ~ By("hash")
  /\ \/ OnDisk(lookup.seeking) = {} /\ Miss
     \/ \E b \in OnDisk(lookup.seeking) :
          /\ lookup' = [lookup EXCEPT !.seeking = <<"hash", b>>, !.left = Places]
          /\ UNCHANGED lookupCache
  /\ UNCHANGED vars

\* The error of the lookup by hash is lost in the other two (err is declared anew):
\* by height a nil block is cached and is the answer, by transaction it is the
\* panic of Found.
NotInChunk ==
  IF Asked("height")
  THEN /\ lookupCache' = Put(lookupCache, [k \in {lookup.asked} |-> NoBlock])
       /\ Answer("block", NoBlock)
  ELSE /\ Answer(IF Asked("hash") THEN "error" ELSE "panic", NoBlock)
       /\ UNCHANGED lookupCache

\* getSerializedBlock.  The bytes of the chunk are cached under the chunk's key,
\* which is also the hash of one of its blocks.
LookInChunk ==
  LET b == lookup.seeking[2] IN
  /\ At("disk") /\ blockChunks # <<>> /\ By("hash")
  /\ \/ Stored(b) /\ Found(b, Drop(lookupCache, {<<"hash", hash2chunk[b]>>}))
     \/ ~ Stored(b) /\ NotInChunk
  /\ UNCHANGED vars

Look == LookInCache \/ LookInMemory \/ LookWithoutBuckets \/ LookInIndex \/ LookInChunk

\* Other lookups need the room.
Evict(key) ==
  /\ key \in DOMAIN lookupCache
  /\ lookupCache' = Drop(lookupCache, {key})
  /\ UNCHANGED <<vars, lookup>>

ReadersInit == Init /\ lookupCache = <<>> /\ lookup = NoLookup

\* The store's step; the cache and the lookups go with the process.
Store ==
  /\ Next
  /\ IF proc' = "down" THEN lookupCache' = <<>> /\ lookup' = NoLookup
                       ELSE UNCHANGED <<lookupCache, lookup>>

ReadersNext ==
  \/ Store \/ Look
  \/ \E key \in Lookups : StartLookup(key) \/ Evict(key)

ReadersSpec == ReadersInit /\ [][ReadersNext]_readersVars

\* No chunk is ever written over, see OverlineDBLog.
CarefulReadersSpec == ReadersInit /\ [][ReadersNext /\ CarefulStart]_readersVars

-----------------------------------------------------------------------------
ReadersTypeOK ==
  /\ IsMap(lookupCache, Keys, BlockOrNil)
  /\ lookup \in [asked : Keys \cup {<<>>}, seeking : Keys \cup {<<>>},
                 left : {SubSeq(Places, i, 3) : i \in 1..4},
                 outcome : {"none", "block", "error", "panic"},
                 block : BlockOrNil, present : BOOLEAN]

\* Nobody gets a nil block without an error, which the callers would dereference,
\* nor a block other than the one asked for, whatever was cached before and
\* whatever moved to disk meanwhile.  (The three lookups; rpc, GET_DATA.)
AnswersAreRight ==
  lookup.outcome = "block" =>
    /\ lookup.block \in Blocks
    /\ lookup.asked \in KeysOf(lookup.block)

\* A block that the store has when the lookup begins is found, by hash and by
\* height, though it may move from memory to disk while the lookup looks.
\* (The lookups against runSerialization and Close.)
PresentIsFound ==
  lookup.present /\ ~ Asked("tx") => lookup.outcome \in {"none", "block"}

\* What the cache holds is in the store, under that key: an answer from it is
\* one that the store itself could have given.  (Every lookupCache.Add.)
CacheIsBacked ==
  \A k \in DOMAIN lookupCache :
    LET b == lookupCache[k] IN b \in Blocks /\ k \in KeysOf(b) /\ Retrievable(b)

-----------------------------------------------------------------------------
(* Inductive strengthening, for the proofs *)

\* A lookup by hash that follows an index looks for a block of a chunk, which it
\* will find; what was there when the lookup began still is, and on disk if memory
\* did not have it.  The cache and the lookup go with the process.
ReadersInv ==
  /\ ReadersTypeOK
  /\ AnswersAreRight
  /\ PresentIsFound
  /\ CacheIsBacked
  /\ proc \notin {"up", "flushing", "flushed"} => lookupCache = <<>> /\ lookup = NoLookup
  /\ lookup.left # <<>> =>
       /\ lookup.outcome = "none" /\ lookup.asked \in Keys
       /\ \/ lookup.seeking = lookup.asked
          \/ ~ Asked("hash")
             /\ \E b \in Blocks : /\ lookup.seeking = <<"hash", b>>
                                  /\ lookup.asked \in KeysOf(b)
                                  /\ Stored(b)
       /\ lookup.present /\ ~ Asked("tx") =>
            /\ InStore(lookup.asked)
            /\ lookup.left = <<"disk">> /\ lookup.seeking = lookup.asked
                 => \E b \in OnDisk(lookup.asked) : Stored(b)

=============================================================================

------------------------- MODULE OverlineReadersProofs -------------------------
(***************************************************************************)
(* Lookups in the store find what it holds, and nothing else, for every    *)
(* tree of blocks and however the lookup's looks fall among the steps of   *)
(* the store.                                                              *)
(***************************************************************************)
EXTENDS OverlineReaders, OverlineDBLogProofs

-----------------------------------------------------------------------------
(* Keys and places *)

LEMMA PlacesLeft ==
  /\ {SubSeq(Places, i, 3) : i \in 1..4} = {Places, <<"memory", "disk">>, <<"disk">>, <<>>}
  /\ Tail(Places) = <<"memory", "disk">> /\ Tail(<<"memory", "disk">>) = <<"disk">>
<1>1. Places \in Seq({"cache", "memory", "disk"}) /\ Len(Places) = 3 /\ Places # <<>>
  BY DEF Places
<1>2. Tail(Places) = <<"memory", "disk">> /\ Tail(<<"memory", "disk">>) = <<"disk">>
  BY DEF Places
<1>3. SubSeq(Places, 1, 3) = Places
  BY <1>1, SubSeqFull
<1>4. SubSeq(Places, 2, 3) = <<"memory", "disk">>
  BY <1>1, <1>2, TailIsSubSeq
<1>5. SubSeq(Places, 3, 3) = <<"disk">>
  <2>1. 2 \in 1..Len(Places) /\ 3 \in 2..Len(Places) /\ 2 + 1 = 3
    BY <1>1
  <2>2. Tail(SubSeq(Places, 2, 3)) = SubSeq(Places, 2 + 1, 3)
    BY <1>1, <2>1, HeadTailOfSubSeq
  <2>3. QED
    BY <1>2, <1>4, <2>1, <2>2
<1>6. SubSeq(Places, 4, 3) = <<>>
  BY DEF Places
<1>7. 1..4 = {1, 2, 3, 4}
  OBVIOUS
<1>8. QED
  BY <1>2, <1>3, <1>4, <1>5, <1>6, <1>7

LEMMA PlaceOfLookup ==
  ASSUME ReadersTypeOK
  PROVE  /\ lookup.left \in {Places, <<"memory", "disk">>, <<"disk">>, <<>>}
         /\ At("cache") <=> lookup.left = Places
         /\ At("memory") <=> lookup.left = <<"memory", "disk">>
         /\ At("disk") <=> lookup.left = <<"disk">>
<1>1. lookup.left \in {Places, <<"memory", "disk">>, <<"disk">>, <<>>}
  BY PlacesLeft DEF ReadersTypeOK
<1>2. /\ Head(Places) = "cache" /\ Head(<<"memory", "disk">>) = "memory"
      /\ Head(<<"disk">>) = "disk"
      /\ Places # <<>> /\ <<"memory", "disk">> # <<>> /\ <<"disk">> # <<>>
  BY DEF Places
<1>3. QED
  BY <1>1, <1>2 DEF At

\* A key is a height, a hash or a transaction.
LEMMA KeyCases ==
  ASSUME NEW key \in Keys
  PROVE  \/ \E h \in Heights(Blocks) : key = <<"height", h>>
         \/ \E b \in Blocks : key = <<"hash", b>>
         \/ \E t \in Txs : key = <<"tx", t>>
BY DEF Keys

LEMMA KeysOfBlock ==
  ASSUME NEW b \in Blocks
  PROVE  /\ KeysOf(b) \subseteq Keys
         /\ \A h : <<"height", h>> \in KeysOf(b) <=> h = Height[b]
         /\ \A c : <<"hash", c>> \in KeysOf(b) <=> c = b
         /\ \A t : <<"tx", t>> \in KeysOf(b) <=> t \in TxsOf[b]
BY BlocksAssumption DEF KeysOf, Keys, Heights

\* What memory holds under a key is a block with that key.
LEMMA MemoryHolds ==
  ASSUME StoreInv, NEW key \in Keys, NEW b \in InMemory(key)
  PROVE  b \in incomingBlocks /\ b \in Blocks /\ key \in KeysOf(b)
<1>1. /\ toSerialize = {} /\ incomingBlocks \subseteq Blocks
      /\ \A h \in DOMAIN incomingBlocksByHeight : Height[incomingBlocksByHeight[h]] = h
      /\ \A t \in DOMAIN incomingBlocksByTx : t \in TxsOf[incomingBlocksByTx[t]]
  BY DEF StoreInv, BufferInv, TypeOK, MemoryTypeOK, NothingLeftInBuffer, IndexesInv,
         IndexesLeadToBlocks
<1>2. CASE \E h \in Heights(Blocks) : key = <<"height", h>>
  BY <1>1, <1>2 DEF InMemory, KeysOf
<1>3. CASE \E c \in Blocks : key = <<"hash", c>>
  BY <1>1, <1>3 DEF InMemory, KeysOf
<1>4. CASE \E t \in Txs : key = <<"tx", t>>
  BY <1>1, <1>4 DEF InMemory, KeysOf
<1>5. QED
  BY <1>2, <1>3, <1>4, KeyCases

\* What an index on disk leads to is a block of a chunk with that key.
LEMMA IndexLeads ==
  ASSUME StoreInv, NEW key \in Keys, key[1] # "hash", NEW b \in OnDisk(key)
  PROVE  Stored(b) /\ b \in Blocks /\ key \in KeysOf(b)
<1>1. /\ \A h \in DOMAIN height2hash : /\ height2hash[h] \in Blocks
                                       /\ Height[height2hash[h]] = h
                                       /\ Stored(height2hash[h])
      /\ \A t \in DOMAIN tx2hash : /\ tx2hash[t] \in Blocks
                                   /\ t \in TxsOf[tx2hash[t]]
                                   /\ Stored(tx2hash[t])
  BY DEF StoreInv, BufferInv, TypeOK, ChunkBucketsTypeOK, IsMap, BucketsInv, FilesInv
<1>2. CASE \E h \in Heights(Blocks) : key = <<"height", h>>
  BY <1>1, <1>2 DEF OnDisk, KeysOf
<1>3. CASE \E t \in Txs : key = <<"tx", t>>
  BY <1>1, <1>3 DEF OnDisk, KeysOf
<1>4. QED
  BY <1>2, <1>3, KeyCases

-----------------------------------------------------------------------------
(* The store's steps *)

\* Memory holds a height if and only if the index in memory has it.
LEMMA HeightInMemory ==
  ASSUME StoreInv, NEW h
  PROVE  InMemory(<<"height", h>>) # {} <=> h \in DOMAIN incomingBlocksByHeight
BY DEF StoreInv, BufferInv, NothingLeftInBuffer, IndexesInv, IndexesLeadToBlocks, InMemory

\* A height that is indexed before a step of the store is indexed after it: in
\* memory, or on disk if its block went there.
LEMMA HeightsStay ==
  ASSUME PruneHeights = {}, ~ DiskCanFail, StoreInv, [CarefulNext]_vars, proc' # "down",
         proc \in {"up", "flushing", "flushed"}
  PROVE  /\ DOMAIN height2hash \subseteq DOMAIN height2hash'
         /\ \A h \in DOMAIN incomingBlocksByHeight :
              h \in DOMAIN incomingBlocksByHeight' \/ h \in DOMAIN height2hash'
<1>1. ASSUME runSerialization, Cardinality(incomingBlocks) > AncientChunkSize
      PROVE  /\ DOMAIN height2hash \subseteq DOMAIN height2hash'
             /\ \A h \in DOMAIN incomingBlocksByHeight :
                  h \in DOMAIN incomingBlocksByHeight' \/ h \in DOMAIN height2hash'
  <2>1. incomingBlocks \cup toSerialize = incomingBlocks
    BY DEF StoreInv, BufferInv, NothingLeftInBuffer
  <2>2. Cardinality(incomingBlocks) \in Nat
    BY BlocksAssumption, FS_Subset, FS_CardinalityType DEF StoreInv, BufferInv, TypeOK, MemoryTypeOK
  <2>3. ~ (Cardinality(incomingBlocks) <= AncientChunkSize)
    BY <1>1, <2>2, SizesAssumption
  <2>4. PICK c \in Chunks(incomingBlocks) :
          /\ serializeBlocks(c)
          /\ \E f \in HeightIndexes(incomingBlocks \ Range(c), BlockOrderingRule) :
               incomingBlocksByHeight' =
                 Put(Drop(incomingBlocksByHeight, Heights(incomingBlocks)), f)
    BY <1>1, <2>1, <2>3 DEF runSerialization
  <2>5. PICK f \in HeightIndexes(incomingBlocks \ Range(c), BlockOrderingRule) :
          incomingBlocksByHeight' =
            Put(Drop(incomingBlocksByHeight, Heights(incomingBlocks)), f)
    BY <2>4
  <2>6. DOMAIN f = Heights(incomingBlocks \ Range(c))
    BY DEF HeightIndexes
  <2>7. DOMAIN height2hash' = DOMAIN height2hash \cup Heights(Range(c))
    BY <2>4, PutLookup DEF serializeBlocks, Put
  <2>8. ASSUME NEW h \in DOMAIN incomingBlocksByHeight
        PROVE  h \in DOMAIN incomingBlocksByHeight' \/ h \in DOMAIN height2hash'
    <3>1. PICK b \in incomingBlocks : Height[b] = h
      BY DEF StoreInv, IndexesInv, IndexesLeadToBlocks
    <3>2. CASE b \in Range(c)
      BY <2>7, <3>1, <3>2 DEF Heights
    <3>3. CASE b \notin Range(c)
      <4>1. h \in DOMAIN f
        BY <2>6, <3>1, <3>3 DEF Heights
      <4>2. QED
        BY <2>5, <4>1, PutLookup
    <3>4. QED
      BY <3>2, <3>3
  <2>9. QED
    BY <2>7, <2>8
<1>2. CASE Run
  <2>1. Cardinality(incomingBlocks) \in Nat
    BY BlocksAssumption, FS_Subset, FS_CardinalityType DEF StoreInv, BufferInv, TypeOK, MemoryTypeOK
  <2>2. Cardinality(incomingBlocks) > AncientChunkSize
    BY <1>2, <2>1, SizesAssumption DEF Run, MoreThan
  <2>3. QED
    BY <1>1, <1>2, <2>2 DEF Run, SerializationIsFatal, Die
<1>3. CASE FlushSerialize
  <2>1. CASE UNCHANGED <<memory, disk>>
    BY <2>1 DEF memory, disk, indexes, chunkBuckets
  <2>2. CASE ~ UNCHANGED <<memory, disk>>
    BY <1>1, <1>3, <2>2 DEF FlushSerialize, MoreThan, SerializationIsFatal, Die
  <2>3. QED
    BY <2>1, <2>2
<1>4. CASE ~ Run /\ ~ FlushSerialize
  <2>1. CASE \E b \in Blocks : AddBlock(b)
    BY <2>1, PutLookup DEF AddBlock, addBlockUnsafe, disk, chunkBuckets
  <2>2. CASE ~ \E b \in Blocks : AddBlock(b)
    BY <1>4, <2>2
    DEF CarefulNext, Next, Ingest, Close, Open, AddTransaction, AddMarkedTransaction,
        FlushChainstate, CloseDatabase, StartOpen, Load, Crash, Die,
        vars, memory, indexes, disk, chunkBuckets, StoreInv, ChainInv
  <2>3. QED
    BY <2>1, <2>2
<1>5. QED
  BY <1>2, <1>3, <1>4

\* While the process lives, what can be found can still be found after a step of
\* the store, and what is on disk is still on disk.
LEMMA StoreKeeps ==
  ASSUME PruneHeights = {}, ~ DiskCanFail, StoreInv, [CarefulNext]_vars, proc' # "down",
         proc \in {"up", "flushing", "flushed"}
  PROVE  /\ \A b \in Blocks : Stored(b) => Stored(b)'
         /\ \A b \in Blocks : Retrievable(b) => Retrievable(b)'
         /\ \A key \in Keys : key[1] # "tx" =>
              /\ (\E b \in OnDisk(key) : Stored(b)) => (\E b \in OnDisk(key) : Stored(b))'
              /\ InStore(key) => InStore(key)'
<1>1. [Next]_vars /\ StoreInv'
  BY StoreInvStep DEF CarefulNext
<1>2. \A b \in Blocks : Stored(b) => Stored(b)'
  BY <1>1, FilesStep DEF StoreInv
<1>3. \A b \in incomingBlocks : Retrievable(b)'
  BY <1>1, AcceptedStep DEF StoreInv
<1>4. \A b \in Blocks : Retrievable(b) => Retrievable(b)'
  BY <1>2, <1>3 DEF Retrievable, StoreInv, BufferInv, NothingLeftInBuffer
<1>5. \A h \in DOMAIN height2hash' : Stored(height2hash[h])'
  BY <1>1 DEF StoreInv, BucketsInv
<1>6. ASSUME NEW h \in Heights(Blocks)
      PROVE  LET key == <<"height", h>> IN
             /\ (\E b \in OnDisk(key) : Stored(b)) => (\E b \in OnDisk(key) : Stored(b))'
             /\ InStore(key) => InStore(key)'
  <2> DEFINE key == <<"height", h>>
  <2>1. h \in DOMAIN height2hash' => (\E b \in OnDisk(key) : Stored(b))'
    BY <1>5 DEF OnDisk, Stored
  <2>2. (\E b \in OnDisk(key) : Stored(b)) => h \in DOMAIN height2hash
    BY DEF OnDisk
  <2>3. h \in DOMAIN incomingBlocksByHeight' => (InMemory(key) # {})'
    <3>1. (h \in DOMAIN incomingBlocksByHeight => InMemory(key) # {})'
      BY <1>1 DEF StoreInv, BufferInv, NothingLeftInBuffer, IndexesInv, IndexesLeadToBlocks,
                  InMemory
    <3>2. QED
      BY <3>1
  <2>4. InMemory(key) # {} => h \in DOMAIN incomingBlocksByHeight
    BY HeightInMemory
  <2> HIDE DEF key
  <2>5. (\E b \in OnDisk(key) : Stored(b)) => (\E b \in OnDisk(key) : Stored(b))'
    BY <2>1, <2>2, HeightsStay
  <2>6. InStore(key) => InStore(key)'
    BY <2>1, <2>2, <2>3, <2>4, HeightsStay DEF InStore
  <2>7. QED
    BY <2>5, <2>6 DEF key
<1>7. ASSUME NEW c \in Blocks
      PROVE  LET key == <<"hash", c>> IN
             /\ (\E b \in OnDisk(key) : Stored(b)) => (\E b \in OnDisk(key) : Stored(b))'
             /\ InStore(key) => InStore(key)'
  <2>1. OnDisk(<<"hash", c>>) = {c} /\ OnDisk(<<"hash", c>>)' = {c}
    BY DEF OnDisk
  <2>2. /\ InMemory(<<"hash", c>>) # {} <=> c \in incomingBlocks \cup toSerialize
        /\ (InMemory(<<"hash", c>>) # {})' <=> c \in incomingBlocks' \cup toSerialize'
    BY DEF InMemory
  <2>3. /\ InStore(<<"hash", c>>) <=> Retrievable(c)
        /\ InStore(<<"hash", c>>)' <=> Retrievable(c)'
    BY <2>1, <2>2 DEF InStore, Retrievable
  <2>4. QED
    BY <1>2, <1>4, <2>1, <2>3
<1>8. QED
  BY <1>2, <1>4, <1>6, <1>7, KeyCases

-----------------------------------------------------------------------------
(* The looks *)

\* A cache whose entries are blocks of the store, each under one of its keys.
Backed(cache) ==
  /\ IsMap(cache, Keys, BlockOrNil)
  /\ \A k \in DOMAIN cache : cache[k] \in Blocks /\ k \in KeysOf(cache[k]) /\ Retrievable(cache[k])

LEMMA CacheFilled ==
  ASSUME NEW cache, Backed(cache), NEW b \in Blocks, Retrievable(b)
  PROVE  Backed(Put(cache, Cached(b)))
<1>1. DOMAIN Cached(b) = KeysOf(b) /\ \A k \in KeysOf(b) : Cached(b)[k] = b
  BY DEF Cached
<1>2. IsMap(Cached(b), Keys, BlockOrNil)
  BY KeysOfBlock DEF Cached, IsMap, BlockOrNil
<1>3. IsMap(Put(cache, Cached(b)), Keys, BlockOrNil)
  BY <1>2, MapPut DEF Backed
<1>4. ASSUME NEW k \in DOMAIN Put(cache, Cached(b))
      PROVE  LET c == Put(cache, Cached(b))[k] IN c \in Blocks /\ k \in KeysOf(c) /\ Retrievable(c)
  BY <1>1, PutLookup DEF Backed
<1>5. QED
  BY <1>3, <1>4 DEF Backed

LEMMA CacheDropped ==
  ASSUME NEW cache, Backed(cache), NEW keys
  PROVE  Backed(Drop(cache, keys))
<1>1. IsMap(Drop(cache, keys), Keys, BlockOrNil)
  BY MapDropped DEF Backed
<1>2. \A k \in DOMAIN Drop(cache, keys) : k \in DOMAIN cache /\ Drop(cache, keys)[k] = cache[k]
  BY DEF Drop, Restrict
<1>3. QED
  BY <1>1, <1>2 DEF Backed

LEMMA CacheUnchanged ==
  ASSUME UNCHANGED vars, NEW cache, Backed(cache)
  PROVE  Backed(cache)'
BY DEF Backed, Retrievable, Stored, vars, memory, disk, chunkBuckets

\* The block that is found is one that was asked for.
LEMMA SoughtIsAsked ==
  ASSUME ReadersInv, lookup.left # <<>>, NEW b \in Blocks, lookup.seeking \in KeysOf(b)
  PROVE  lookup.asked \in KeysOf(b)
<1>1. CASE lookup.seeking = lookup.asked
  BY <1>1
<1>2. CASE lookup.seeking # lookup.asked
  <2>1. PICK c \in Blocks : lookup.seeking = <<"hash", c>> /\ lookup.asked \in KeysOf(c)
    BY <1>2 DEF ReadersInv
  <2>2. c = b
    BY <2>1, KeysOfBlock
  <2>3. QED
    BY <2>1, <2>2
<1>3. QED
  BY <1>1, <1>2

\* A lookup ends.
LEMMA Answered ==
  ASSUME ReadersInv, UNCHANGED vars, lookup.left # <<>>, Backed(lookupCache'),
         NEW outcome \in {"block", "error", "panic"}, NEW b \in BlockOrNil,
         Answer(outcome, b),
         outcome = "block" => b \in Blocks /\ lookup.asked \in KeysOf(b),
         lookup.present /\ ~ Asked("tx") => outcome = "block"
  PROVE  ReadersInv'
<1>1. /\ lookup'.left = <<>> /\ lookup'.outcome = outcome /\ lookup'.block = b
      /\ lookup'.asked = lookup.asked /\ lookup'.present = lookup.present
  BY DEF Answer, ReadersInv, ReadersTypeOK
<1>2. ReadersTypeOK'
  <2>1. <<>> \in {SubSeq(Places, i, 3) : i \in 1..4}
    BY DEF Places
  <2>2. lookup' \in [asked : Keys \cup {<<>>}, seeking : Keys \cup {<<>>},
                     left : {SubSeq(Places, i, 3) : i \in 1..4},
                     outcome : {"none", "block", "error", "panic"},
                     block : BlockOrNil, present : BOOLEAN]
    BY <2>1 DEF Answer, ReadersInv, ReadersTypeOK
  <2>3. QED
    BY <2>2 DEF ReadersTypeOK, Backed
<1>3. CacheIsBacked'
  BY DEF Backed, CacheIsBacked, Retrievable, Stored, vars, memory, disk, chunkBuckets
<1>4. proc' \in {"up", "flushing", "flushed"}
  BY DEF ReadersInv, NoLookup, vars
<1>5. AnswersAreRight' /\ PresentIsFound'
  BY <1>1 DEF AnswersAreRight, PresentIsFound, Asked
<1>6. QED
  BY <1>1, <1>2, <1>3, <1>4, <1>5 DEF ReadersInv

\* A lookup finds a block.
LEMMA FoundBlock ==
  ASSUME ReadersInv, UNCHANGED vars, lookup.left # <<>>,
         NEW cache, Backed(cache), NEW b \in Blocks, Retrievable(b),
         lookup.seeking \in KeysOf(b), Found(b, cache)
  PROVE  ReadersInv'
<1>1. lookup.asked \in KeysOf(b)
  BY SoughtIsAsked
<1>2. Backed(lookupCache')
  BY CacheFilled DEF Found
<1>3. b \in BlockOrNil /\ NoBlock \in BlockOrNil
  BY DEF BlockOrNil
<1>4. CASE Asked("tx")
  BY <1>2, <1>3, <1>4, Answered DEF Found
<1>5. CASE ~ Asked("tx")
  BY <1>1, <1>2, <1>3, <1>5, Answered DEF Found
<1>6. QED
  BY <1>4, <1>5

\* A lookup goes on to the next place, or ends where what it looks for never was.
LEMMA Missed ==
  ASSUME ReadersInv, UNCHANGED vars, lookup.left # <<>>, Miss,
         lookup.left = <<"memory", "disk">> /\ lookup.seeking = lookup.asked
           /\ lookup.present /\ ~ Asked("tx") => \E b \in OnDisk(lookup.asked) : Stored(b),
         lookup.left = <<"disk">> => ~ (lookup.present /\ ~ Asked("tx"))
  PROVE  ReadersInv'
<1>1. ReadersTypeOK
  BY DEF ReadersInv
<1>2. CASE lookup.left = <<"disk">>
  <2>1. Len(<<"disk">>) = 1
    OBVIOUS
  <2>2. lookup' = [lookup EXCEPT !.left = <<>>, !.outcome = "error"] /\ UNCHANGED lookupCache
    BY <1>2, <2>1 DEF Miss
  <2>3. Answer("error", lookup.block)
    <3>1. [lookup EXCEPT !.left = <<>>, !.outcome = "error"]
            = [lookup EXCEPT !.left = <<>>, !.outcome = "error", !.block = lookup.block]
      BY <1>1 DEF ReadersTypeOK
    <3>2. QED
      BY <2>2, <3>1 DEF Answer
  <2>4. Backed(lookupCache') /\ lookup.block \in BlockOrNil
    BY <2>2 DEF ReadersInv, ReadersTypeOK, CacheIsBacked, Backed
  <2>5. QED
    BY <1>2, <2>3, <2>4, Answered
<1>3. CASE lookup.left # <<"disk">>
  <2>1. lookup.left \in {Places, <<"memory", "disk">>}
    BY <1>1, <1>3, PlaceOfLookup
  <2>2. /\ Tail(Places) = <<"memory", "disk">> /\ Len(Places) > 1
        /\ Tail(<<"memory", "disk">>) = <<"disk">> /\ Len(<<"memory", "disk">>) > 1
        /\ <<"memory", "disk">> # <<"disk">>
    BY DEF Places
  <2>3. lookup' = [lookup EXCEPT !.left = Tail(@)] /\ UNCHANGED lookupCache
    BY <2>1, <2>2 DEF Miss
  <2>4. /\ lookup'.left = Tail(lookup.left) /\ lookup'.left \in {<<"memory", "disk">>, <<"disk">>}
        /\ lookup'.asked = lookup.asked /\ lookup'.seeking = lookup.seeking
        /\ lookup'.outcome = lookup.outcome /\ lookup'.block = lookup.block
        /\ lookup'.present = lookup.present
    BY <1>1, <2>1, <2>2, <2>3 DEF ReadersTypeOK
  <2>5. lookup'.left = <<"disk">> => lookup.left = <<"memory", "disk">>
    BY <2>1, <2>2, <2>4
  <2>6. ReadersTypeOK'
    <3>1. lookup'.left \in {SubSeq(Places, i, 3) : i \in 1..4}
      BY <2>4, PlacesLeft
    <3>2. QED
      BY <1>1, <2>3, <2>4, <3>1 DEF ReadersTypeOK
  <2>7. lookup'.outcome = "none"
    BY <2>4 DEF ReadersInv
  <2>8. AnswersAreRight' /\ PresentIsFound'
    BY <2>7 DEF AnswersAreRight, PresentIsFound
  <2>9. CacheIsBacked'
    BY <2>3 DEF ReadersInv, CacheIsBacked, Retrievable, Stored, vars, memory, disk, chunkBuckets
  <2>10. proc' \in {"up", "flushing", "flushed"}
    BY DEF ReadersInv, NoLookup, vars
  <2>11. \/ lookup'.seeking = lookup'.asked
         \/ ~ Asked("hash")'
             /\ \E b \in Blocks : /\ lookup'.seeking = <<"hash", b>>
                                  /\ lookup'.asked \in KeysOf(b)
                                  /\ Stored(b)'
    BY <2>4 DEF ReadersInv, Asked, Stored, vars, disk, chunkBuckets
  <2>12. lookup'.present /\ ~ Asked("tx")' =>
            /\ InStore(lookup.asked)'
            /\ lookup'.left = <<"disk">> /\ lookup'.seeking = lookup'.asked
                 => (\E b \in OnDisk(lookup.asked) : Stored(b))'
    BY <2>4, <2>5
    DEF ReadersInv, Asked, InStore, InMemory, OnDisk, Stored, vars, memory, indexes, disk,
        chunkBuckets
  <2>13. QED
    BY <2>4, <2>6, <2>7, <2>8, <2>9, <2>10, <2>11, <2>12 DEF ReadersInv
<1>4. QED
  BY <1>2, <1>3

LEMMA LookInCacheStep == ASSUME StoreInv, ReadersInv, LookInCache PROVE ReadersInv'
<1>1. /\ lookup.left = Places /\ lookup.left # <<>> /\ UNCHANGED vars
      /\ Places # <<"disk">> /\ Places # <<"memory", "disk">>
  BY PlaceOfLookup DEF ReadersInv, LookInCache, At, Places
<1>2. Backed(lookupCache)
  BY DEF ReadersInv, ReadersTypeOK, CacheIsBacked, Backed
<1>3. CASE lookup.seeking \notin DOMAIN lookupCache
  BY <1>1, <1>3, Missed DEF LookInCache
<1>4. CASE lookup.seeking \in DOMAIN lookupCache
  <2>1. PICK b \in Blocks : /\ b = lookupCache[lookup.seeking] /\ lookup.seeking \in KeysOf(b)
                            /\ Retrievable(b)
    BY <1>2, <1>4 DEF Backed
  <2>2. CASE lookup.seeking = lookup.asked
    <3>1. Answer("block", b) /\ UNCHANGED lookupCache
      BY <1>4, <2>1, <2>2 DEF LookInCache
    <3>2. b \in BlockOrNil
      BY DEF BlockOrNil
    <3>3. QED
      BY <1>1, <1>2, <2>1, <2>2, <3>1, <3>2, Answered
  <2>3. CASE lookup.seeking # lookup.asked
    <3>1. Found(b, lookupCache)
      BY <1>4, <2>1, <2>3 DEF LookInCache
    <3>2. QED
      BY <1>1, <1>2, <2>1, <3>1, FoundBlock
  <2>4. QED
    BY <2>2, <2>3
<1>5. QED
  BY <1>3, <1>4

LEMMA LookInMemoryStep == ASSUME StoreInv, ReadersInv, LookInMemory PROVE ReadersInv'
<1>1. /\ lookup.left = <<"memory", "disk">> /\ lookup.left # <<>> /\ UNCHANGED vars
      /\ <<"memory", "disk">> # <<"disk">>
  BY PlaceOfLookup DEF ReadersInv, LookInMemory, At
<1>2. lookup.seeking \in Keys
  BY <1>1, KeysOfBlock DEF ReadersInv, Keys
<1>3. CASE InMemory(lookup.seeking) = {} /\ Miss
  <2>1. lookup.seeking = lookup.asked /\ lookup.present /\ ~ Asked("tx") =>
          \E b \in OnDisk(lookup.asked) : Stored(b)
    BY <1>1, <1>3 DEF ReadersInv, InStore
  <2>2. QED
    BY <1>1, <1>3, <2>1, Missed
<1>4. ASSUME NEW b \in InMemory(lookup.seeking), Found(b, lookupCache)
      PROVE  ReadersInv'
  <2>1. b \in Blocks /\ lookup.seeking \in KeysOf(b) /\ Retrievable(b)
    BY <1>2, MemoryHolds DEF Retrievable
  <2>2. Backed(lookupCache)
    BY DEF ReadersInv, ReadersTypeOK, CacheIsBacked, Backed
  <2>3. QED
    BY <1>1, <1>4, <2>1, <2>2, FoundBlock
<1>5. QED
  BY <1>3, <1>4 DEF LookInMemory

\* A lookup that comes to the disk for a block that the store had looks for one
\* of a chunk.
LEMMA SoughtOnDisk ==
  ASSUME ReadersInv, lookup.left = <<"disk">>, lookup.left # <<>>,
         lookup.present, ~ Asked("tx")
  PROVE  \E b \in OnDisk(lookup.seeking) : Stored(b)
<1>1. CASE lookup.seeking = lookup.asked
  BY <1>1 DEF ReadersInv
<1>2. CASE lookup.seeking # lookup.asked
  <2>1. PICK b \in Blocks : lookup.seeking = <<"hash", b>> /\ Stored(b)
    BY <1>2 DEF ReadersInv
  <2>2. QED
    BY <2>1 DEF OnDisk
<1>3. QED
  BY <1>1, <1>2

LEMMA LookOnDiskStep ==
  ASSUME StoreInv, ReadersInv, LookWithoutBuckets \/ LookInIndex \/ LookInChunk
  PROVE  ReadersInv'
<1>1. lookup.left = <<"disk">> /\ lookup.left # <<>> /\ UNCHANGED vars
  BY PlaceOfLookup DEF ReadersInv, LookWithoutBuckets, LookInIndex, LookInChunk, At
<1>2. lookup.seeking \in Keys
  BY <1>1, KeysOfBlock DEF ReadersInv, Keys
<1>3. Backed(lookupCache) /\ NoBlock \in BlockOrNil
  BY DEF ReadersInv, ReadersTypeOK, CacheIsBacked, Backed, BlockOrNil
<1>4. CASE LookWithoutBuckets
  <2>1. ~ (lookup.present /\ ~ Asked("tx"))
    BY <1>1, <1>4, SoughtOnDisk DEF LookWithoutBuckets, Stored
  <2>2. Answer("panic", NoBlock) /\ UNCHANGED lookupCache
    BY <1>4 DEF LookWithoutBuckets
  <2>3. QED
    BY <1>1, <1>3, <2>1, <2>2, Answered
<1>5. CASE LookInIndex
  <2>1. lookup.seeking[1] # "hash"
    BY <1>5 DEF LookInIndex, By
  <2>2. CASE OnDisk(lookup.seeking) = {} /\ Miss
    <3>1. ~ (lookup.present /\ ~ Asked("tx"))
      BY <1>1, <2>2, SoughtOnDisk
    <3>2. QED
      BY <1>1, <2>2, <3>1, Missed
  <2>3. ASSUME NEW b \in OnDisk(lookup.seeking), UNCHANGED lookupCache,
               lookup' = [lookup EXCEPT !.seeking = <<"hash", b>>, !.left = Places]
        PROVE  ReadersInv'
    <3>1. b \in Blocks /\ Stored(b) /\ lookup.seeking \in KeysOf(b)
      BY <1>2, <2>1, IndexLeads
    <3>2. lookup.seeking = lookup.asked /\ lookup.asked \in KeysOf(b) /\ ~ Asked("hash")
      BY <1>1, <2>1, <3>1 DEF ReadersInv, Asked
    <3>3. /\ lookup'.left = Places /\ lookup'.seeking = <<"hash", b>>
          /\ lookup'.asked = lookup.asked /\ lookup'.outcome = "none"
          /\ lookup'.block = lookup.block /\ lookup'.present = lookup.present
      BY <1>1, <2>3 DEF ReadersInv, ReadersTypeOK
    <3>4. ReadersTypeOK'
      <4>1. Places \in {SubSeq(Places, i, 3) : i \in 1..4} /\ <<"hash", b>> \in Keys
        BY <3>1, PlacesLeft DEF Keys
      <4>2. QED
        BY <2>3, <4>1 DEF ReadersInv, ReadersTypeOK
    <3>5. AnswersAreRight' /\ PresentIsFound'
      BY <3>3 DEF AnswersAreRight, PresentIsFound
    <3>6. CacheIsBacked'
      BY <1>1, <2>3
      DEF ReadersInv, CacheIsBacked, Retrievable, Stored, vars, memory, disk, chunkBuckets
    <3>7. proc' \in {"up", "flushing", "flushed"}
      BY <1>1 DEF ReadersInv, NoLookup, vars
    <3>8. Stored(b)' /\ ~ Asked("hash")'
      BY <1>1, <3>1, <3>2, <3>3 DEF Asked, Stored, vars, disk, chunkBuckets
    <3>9. lookup'.present /\ ~ Asked("tx")' => InStore(lookup.asked)'
      <4>1. InStore(lookup.asked)' <=> InStore(lookup.asked)
        BY <1>1, <3>3
        DEF InStore, InMemory, OnDisk, Stored, vars, memory, indexes, disk, chunkBuckets
      <4>2. Asked("tx")' <=> Asked("tx")
        BY <3>3 DEF Asked
      <4>3. QED
        BY <1>1, <3>3, <4>1, <4>2 DEF ReadersInv
    <3>10. lookup'.left # <<"disk">> /\ lookup.asked \in Keys
      BY <1>1, <3>3 DEF Places, ReadersInv
    <3>11. QED
      BY <3>1, <3>2, <3>3, <3>4, <3>5, <3>6, <3>7, <3>8, <3>9, <3>10 DEF ReadersInv
  <2>4. QED
    BY <1>5, <2>2, <2>3 DEF LookInIndex
<1>6. CASE LookInChunk
  <2>1. PICK b \in Blocks : lookup.seeking = <<"hash", b>>
    BY <1>2, <1>6, KeyCases DEF LookInChunk, By
  <2>2. CASE Stored(b)
    <3>1. Found(b, Drop(lookupCache, {<<"hash", hash2chunk[b]>>}))
      BY <1>6, <2>1, <2>2 DEF LookInChunk
    <3>2. Backed(Drop(lookupCache, {<<"hash", hash2chunk[b]>>}))
      BY <1>3, CacheDropped
    <3>3. Retrievable(b) /\ lookup.seeking \in KeysOf(b)
      BY <2>1, <2>2, KeysOfBlock DEF Retrievable
    <3>4. QED
      BY <1>1, <3>1, <3>2, <3>3, FoundBlock
  <2>3. CASE ~ Stored(b)
    <3>1. NotInChunk
      BY <1>6, <2>1, <2>3 DEF LookInChunk
    <3>2. lookup.seeking = lookup.asked
      BY <1>1, <2>1, <2>3 DEF ReadersInv
    <3>3. Asked("hash") /\ ~ Asked("height")
      BY <2>1, <3>2 DEF Asked
    <3>4. ~ (lookup.present /\ ~ Asked("tx"))
      BY <1>1, <2>1, <2>3, SoughtOnDisk DEF OnDisk
    <3>5. Answer("error", NoBlock) /\ UNCHANGED lookupCache
      BY <3>1, <3>3 DEF NotInChunk
    <3>6. QED
      BY <1>1, <1>3, <3>4, <3>5, Answered
  <2>4. QED
    BY <2>2, <2>3
<1>7. QED
  BY <1>4, <1>5, <1>6

-----------------------------------------------------------------------------
(* All steps *)

LEMMA StartLookupStep ==
  ASSUME StoreInv, ReadersInv, NEW key \in Lookups, StartLookup(key)
  PROVE  ReadersInv'
<1>1. key \in Keys /\ UNCHANGED <<vars, lookupCache>> /\ Running
  BY LookupsAssumption DEF StartLookup
<1>2. /\ lookup' = [NoLookup EXCEPT !.asked = key, !.seeking = key, !.left = Places,
                                    !.present = InStore(key)]
      /\ lookup'.asked = key /\ lookup'.seeking = key /\ lookup'.left = Places
      /\ lookup'.outcome = "none" /\ (lookup'.present <=> InStore(key))
  BY DEF StartLookup, NoLookup
<1>3. ReadersTypeOK'
  <2>1. Places \in {SubSeq(Places, i, 3) : i \in 1..4}
    BY PlacesLeft
  <2>2. InStore(key) \in BOOLEAN
    BY DEF InStore
  <2>3. QED
    BY <1>1, <1>2, <2>1, <2>2 DEF ReadersInv, ReadersTypeOK, NoLookup, BlockOrNil
<1>4. AnswersAreRight' /\ PresentIsFound'
  BY <1>2 DEF AnswersAreRight, PresentIsFound
<1>5. CacheIsBacked'
  BY <1>1 DEF ReadersInv, CacheIsBacked, Retrievable, Stored, vars, memory, disk, chunkBuckets
<1>6. proc' \in {"up", "flushing", "flushed"}
  BY <1>1 DEF Running, vars
<1>7. InStore(key)' <=> InStore(key)
  BY <1>1 DEF InStore, InMemory, OnDisk, Stored, vars, memory, indexes, disk, chunkBuckets
<1>8. InStore(lookup.asked)' <=> InStore(key)'
  BY <1>2 DEF InStore, InMemory, OnDisk, Stored
<1>9. lookup'.left # <<"disk">>
  BY <1>2 DEF Places
<1>10. QED
  BY <1>1, <1>2, <1>3, <1>4, <1>5, <1>6, <1>7, <1>8, <1>9 DEF ReadersInv

LEMMA LookupUnchanged ==
  ASSUME ReadersInv, UNCHANGED <<vars, lookup>>, Backed(lookupCache'),
         proc \notin {"up", "flushing", "flushed"} => lookupCache' = <<>>
  PROVE  ReadersInv'
<1>1. ReadersTypeOK' /\ CacheIsBacked'
  BY DEF Backed, CacheIsBacked, ReadersInv, ReadersTypeOK, Retrievable, Stored, vars, memory,
         disk, chunkBuckets
<1>2. AnswersAreRight' /\ PresentIsFound'
  BY DEF ReadersInv, AnswersAreRight, PresentIsFound, Asked
<1>3. /\ InStore(lookup.asked)' <=> InStore(lookup.asked)
      /\ (\E b \in OnDisk(lookup.asked) : Stored(b))' <=> \E b \in OnDisk(lookup.asked) : Stored(b)
      /\ \A b \in Blocks : Stored(b)' <=> Stored(b)
  BY DEF InStore, InMemory, OnDisk, Stored, vars, memory, indexes, disk, chunkBuckets
<1>4. /\ Asked("tx")' <=> Asked("tx")
      /\ Asked("hash")' <=> Asked("hash")
      /\ lookup' = lookup /\ proc' = proc
  BY DEF Asked, vars
<1>5. QED
  BY <1>1, <1>2, <1>3, <1>4 DEF ReadersInv

LEMMA EvictStep == ASSUME ReadersInv, NEW key, Evict(key) PROVE ReadersInv'
<1>1. Backed(Drop(lookupCache, {key}))
  BY CacheDropped DEF ReadersInv, ReadersTypeOK, CacheIsBacked, Backed
<1>2. proc \in {"up", "flushing", "flushed"}
  BY DEF Evict, ReadersInv
<1>3. QED
  BY <1>1, <1>2, LookupUnchanged DEF Evict

LEMMA NothingLookedUp ==
  /\ lookupCache = <<>> /\ lookup = NoLookup => ReadersInv
  /\ lookupCache' = <<>> /\ lookup' = NoLookup => ReadersInv'
<1>1. <<>> \in {SubSeq(Places, i, 3) : i \in 1..4}
  BY PlacesLeft
<1>2. lookupCache = <<>> /\ lookup = NoLookup => ReadersInv
  BY <1>1, EmptyMap
  DEF ReadersTypeOK, BlockOrNil, ReadersInv, AnswersAreRight, PresentIsFound, CacheIsBacked,
      NoLookup
<1>3. lookupCache' = <<>> /\ lookup' = NoLookup => ReadersInv'
  BY <1>1, EmptyMap
  DEF ReadersTypeOK, BlockOrNil, ReadersInv, AnswersAreRight, PresentIsFound, CacheIsBacked,
      NoLookup
<1>4. QED
  BY <1>2, <1>3

LEMMA StoreStep ==
  ASSUME PruneHeights = {}, ~ DiskCanFail, StoreInv, ReadersInv, Store, CarefulStart
  PROVE  ReadersInv'
<1>1. CASE proc' = "down"
  BY <1>1, NothingLookedUp DEF Store
<1>2. CASE proc' # "down" /\ proc \notin {"up", "flushing", "flushed"}
  BY <1>2, NothingLookedUp DEF Store, ReadersInv
<1>3. CASE proc' # "down" /\ proc \in {"up", "flushing", "flushed"}
  <2>1. UNCHANGED <<lookupCache, lookup>> /\ [CarefulNext]_vars
    BY <1>3 DEF Store, CarefulNext
  <2>2. proc' \in {"up", "flushing", "flushed"}
    BY <1>3
    DEF Store, Next, Ingest, Close, Open, AddBlock, AddTransaction, AddMarkedTransaction, Run,
        Running, SerializationIsFatal, FlushSerialize, FlushChainstate, CloseDatabase, StartOpen,
        PruneDatabase, Load, Crash, Die, vars
  <2>3. /\ \A b \in Blocks : Stored(b) => Stored(b)'
        /\ \A b \in Blocks : Retrievable(b) => Retrievable(b)'
        /\ \A key \in Keys : key[1] # "tx" =>
             /\ (\E b \in OnDisk(key) : Stored(b)) => (\E b \in OnDisk(key) : Stored(b))'
             /\ InStore(key) => InStore(key)'
    BY <1>3, <2>1, StoreKeeps
  <2>4. ReadersTypeOK' /\ AnswersAreRight' /\ PresentIsFound'
    BY <2>1 DEF ReadersInv, ReadersTypeOK, AnswersAreRight, PresentIsFound, Asked
  <2>5. CacheIsBacked'
    BY <2>1, <2>3 DEF ReadersInv, CacheIsBacked
  <2>6. /\ lookup' = lookup
        /\ \A index : Asked(index)' <=> Asked(index)
    BY <2>1 DEF Asked
  <2>7. ASSUME lookup.left # <<>>
        PROVE  /\ \/ lookup.seeking = lookup.asked
                  \/ ~ Asked("hash")
                      /\ \E b \in Blocks : /\ lookup.seeking = <<"hash", b>>
                                           /\ lookup.asked \in KeysOf(b)
                                           /\ Stored(b)'
               /\ lookup.present /\ ~ Asked("tx") =>
                    /\ InStore(lookup.asked)'
                    /\ lookup.left = <<"disk">> /\ lookup.seeking = lookup.asked
                         => (\E b \in OnDisk(lookup.asked) : Stored(b))'
    <3>1. PICK key \in Keys : key = lookup.asked
      BY <2>7 DEF ReadersInv
    <3>2. /\ InStore(key)' => InStore(lookup.asked)'
          /\ (\E b \in OnDisk(key) : Stored(b))' => (\E b \in OnDisk(lookup.asked) : Stored(b))'
      BY <2>6, <3>1 DEF InStore, InMemory, OnDisk, Stored
    <3>3. Asked("tx") <=> key[1] = "tx"
      BY <3>1 DEF Asked
    <3>4. QED
      BY <2>3, <2>7, <3>1, <3>2, <3>3 DEF ReadersInv
  <2>8. QED
    BY <2>2, <2>4, <2>5, <2>6, <2>7 DEF ReadersInv
<1>4. QED
  BY <1>1, <1>2, <1>3

LEMMA ReadersInvStep ==
  ASSUME PruneHeights = {}, ~ DiskCanFail, StoreInv, ReadersInv,
         [ReadersNext /\ CarefulStart]_readersVars
  PROVE  StoreInv' /\ ReadersInv'
<1>1. CASE Store /\ CarefulStart
  BY <1>1, StoreInvStep, StoreStep DEF Store, CarefulNext
<1>2. ASSUME UNCHANGED vars PROVE StoreInv'
  BY <1>2, StoreInvStep
<1>3. CASE Look
  BY <1>2, <1>3, LookInCacheStep, LookInMemoryStep, LookOnDiskStep
  DEF Look, LookInCache, LookInMemory, LookWithoutBuckets, LookInIndex, LookInChunk
<1>4. CASE \E key \in Lookups : StartLookup(key) \/ Evict(key)
  BY <1>2, <1>4, StartLookupStep, EvictStep DEF StartLookup, Evict
<1>5. CASE UNCHANGED readersVars
  <2>1. ReadersInv'
    <3>1. Backed(lookupCache)
      BY DEF ReadersInv, ReadersTypeOK, CacheIsBacked, Backed
    <3>2. QED
      BY <1>5, <3>1, LookupUnchanged DEF readersVars, ReadersInv
  <2>2. QED
    BY <1>2, <1>5, <2>1 DEF readersVars
<1>6. QED
  BY <1>1, <1>3, <1>4, <1>5 DEF ReadersNext

LEMMA ReadersInvariants ==
  ASSUME PruneHeights = {}, ~ DiskCanFail
  PROVE  CarefulReadersSpec => [](StoreInv /\ ReadersInv)
<1>1. ReadersInit => StoreInv /\ ReadersInv
  BY StoreInvInit, NothingLookedUp DEF ReadersInit
<1>2. (StoreInv /\ ReadersInv) /\ [ReadersNext /\ CarefulStart]_readersVars
        => (StoreInv /\ ReadersInv)'
  BY ReadersInvStep
<1>3. QED
  BY <1>1, <1>2, PTL DEF CarefulReadersSpec

\* The lookup's state and the cache are what the code's types make them.
THEOREM ReadersTypeCorrect ==
  ASSUME PruneHeights = {}, ~ DiskCanFail
  PROVE  CarefulReadersSpec => []ReadersTypeOK
<1>1. StoreInv /\ ReadersInv => ReadersTypeOK
  BY DEF ReadersInv
<1>2. QED
  BY <1>1, ReadersInvariants, PTL

\* Every entry of the cache is a block that the store holds, under one of that
\* block's keys: no look for height, hash or transaction ever caches a nil block,
\* and serialization takes away nothing that is cached.  (Every lookupCache.Add.)
THEOREM CacheBacked ==
  ASSUME PruneHeights = {}, ~ DiskCanFail
  PROVE  CarefulReadersSpec => []CacheIsBacked
<1>1. StoreInv /\ ReadersInv => CacheIsBacked
  BY DEF ReadersInv
<1>2. QED
  BY <1>1, ReadersInvariants, PTL

\* A lookup that ends without an error or a panic has the block that was asked
\* for.  (GetBlockByHeight, GetBlockByTx, GetBlockByHash.)
THEOREM AnswersRight ==
  ASSUME PruneHeights = {}, ~ DiskCanFail
  PROVE  CarefulReadersSpec => []AnswersAreRight
<1>1. StoreInv /\ ReadersInv => AnswersAreRight
  BY DEF ReadersInv
<1>2. QED
  BY <1>1, ReadersInvariants, PTL

\* A block that the store has when it is asked for by hash or height is found,
\* wherever serialization moves it meanwhile.  (The lookups against
\* runSerialization and Close.)
THEOREM PresentFound ==
  ASSUME PruneHeights = {}, ~ DiskCanFail
  PROVE  CarefulReadersSpec => []PresentIsFound
<1>1. StoreInv /\ ReadersInv => PresentIsFound
  BY DEF ReadersInv
<1>2. QED
  BY <1>1, ReadersInvariants, PTL

=============================================================================

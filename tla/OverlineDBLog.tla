---------------------------- MODULE OverlineDBLog ---------------------------
(***************************************************************************)
(* OverlineDB implements ChainLog, provided that a database which holds a  *)
(* serialized chain but no chainstate buckets (its first run was killed)   *)
(* is opened with -drop-chainstate, which creates them.  Without the flag  *)
(* Open takes it for an uninitialized one (see the findings).              *)
(***************************************************************************)
EXTENDS OverlineDB

serializedLog ==
  IF lastWritten = NoBlock THEN <<>>
  ELSE [h \in 1..Height[lastWritten] |-> height2hash[h]]

Log == INSTANCE ChainLog WITH log <- serializedLog

CarefulStart ==
  proc = "down" /\ proc' = "opening" => lastWritten = NoBlock \/ chainstate'.present

CarefulNext == Next /\ CarefulStart

CarefulSpec == Init /\ [][CarefulNext]_vars

\* Inductive, for the proofs: a process that has no tip finds nothing written.
LogInv ==
  /\ proc \in {"up", "flushing", "flushed"} /\ tipOfSerializedChain = NoBlock
       => lastWritten = NoBlock
  /\ proc = "opening" => lastWritten = NoBlock \/ chainstate.present
  /\ Log!IsChain(serializedLog)

\* No chunk is keyed above the tip, so none is ever written over, and the index of
\* transactions leads into the chunks.
FilesInv ==
  /\ \A k \in DOMAIN blockChunks :
       lastWritten # NoBlock /\ Height[k] <= Height[lastWritten]
  /\ \A t \in DOMAIN tx2hash : Stored(tx2hash[t]) /\ t \in TxsOf[tx2hash[t]]

\* Serialization, crashes, fatal exits and restarts, with forks and
\* redeliveries among the blocks, only ever append linked chunks to the log
\* that height2hash and SYNC-INFO spell.  (runSerialization, serializeBlocks,
\* Open.)
ImplementsChainLog == Log!Spec

=============================================================================

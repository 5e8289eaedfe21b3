-------------------------- MODULE OverlineDBRestart -------------------------
(***************************************************************************)
(* OverlineDB with a history variable: what memory held when Close last    *)
(* wrote it, which is what the next run should find again.                 *)
(***************************************************************************)
EXTENDS OverlineDB

VARIABLE flushed   \* [blocks, txs] at the last FlushChainstate

Nothing == [blocks |-> {}, txs |-> {}]

RestartInit == Init /\ flushed = Nothing

RestartNext ==
  /\ Next
  /\ flushed' =
       IF proc = "flushing" /\ proc' = "flushed"
       THEN [blocks |-> incomingBlocks, txs |-> txMemPool]
       ELSE IF proc = "down" /\ chainstate' # chainstate
       THEN Nothing                       \* -drop-chainstate
       ELSE flushed

RestartSpec == RestartInit /\ [][RestartNext]_<<vars, flushed>>

\* Whatever happened since (more serialization, crashes), a process that comes
\* up on a serialized chain has again every block above its tip, and every
\* transaction, that the last clean Close wrote.  (FlushToDisk, Open.)
RestartKeepsMemory ==
  [][proc = "opening" /\ proc' = "up"
       => /\ \A b \in flushed.blocks :
               Height[b] > Height[tipOfSerializedChain'] => b \in incomingBlocks'
          /\ flushed.txs \subseteq txMemPool']_<<vars, flushed>>

\* After Open every block in memory can be found by its height.
\* (addBlockUnsafe under Open, and the purge of stale heights.)
OpenIndexesEveryHeight ==
  [][proc = "opening" /\ proc' = "up"
       => DOMAIN incomingBlocksByHeight' = Heights(incomingBlocks')]_<<vars, flushed>>

=============================================================================

------------------------------ MODULE ChainLog ------------------------------
(***************************************************************************)
(* What the serialized part of the block store promises its readers: a log *)
(* of blocks that begins with the genesis block, in which every block is   *)
(* followed by a valid child, and to which whole chunks are appended and   *)
(* from which nothing is ever taken away.                                  *)
(***************************************************************************)
EXTENDS OverlineBlocks, Sequences

CONSTANT AncientChunkSize

VARIABLE log

IsChain(s) ==
  /\ s # <<>> => s[1] = Genesis
  /\ \A i \in 1..(Len(s) - 1) : OrderedBlockPairIsValid(s[i], s[i + 1])

Init == log = <<>>

AppendChunk ==
  \E chunk \in [1..AncientChunkSize -> Blocks] :
    /\ log' = log \o chunk
    /\ IsChain(log')

Spec == Init /\ [][AppendChunk]_log

=============================================================================

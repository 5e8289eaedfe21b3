------------------------------ MODULE MCIBDSync -----------------------------
(***************************************************************************)
(* A short chain on which TLC checks IBDSync: blocks are named by their    *)
(* heights.                                                                *)
(***************************************************************************)
EXTENDS IBDSync

CONSTANT ChainLength

ChainBlocks == 1..ChainLength
ChainHeight == [b \in ChainBlocks |-> b]
ChainPrevious == [b \in ChainBlocks |-> b - 1]
ChainTxs == [b \in ChainBlocks |-> {}]
FreshStart == {<<0, 1>>}
SomeStarts == {<<0, 1>>, <<2, 3>>, <<2, 4>>}

=============================================================================

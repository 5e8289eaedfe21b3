--------------------------- MODULE MCPeerHandlers ---------------------------
(***************************************************************************)
(* Two nodes on which TLC checks PeerHandlers.                             *)
(***************************************************************************)
EXTENDS PeerHandlers

CONSTANTS a, b, AskA, AskB, BeatA, BeatB

OneDials == {<<a, b>>}
BothDial == {<<a, b>>, <<b, a>>}
Asks == [n \in Nodes |-> IF n = a THEN AskA ELSE AskB]
Beats == [n \in Nodes |-> IF n = a THEN BeatA ELSE BeatB]

=============================================================================

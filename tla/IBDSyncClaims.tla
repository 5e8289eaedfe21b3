---------------------------- MODULE IBDSyncClaims ---------------------------
(***************************************************************************)
(* What src/node/node.go says of the initial block download, stated as     *)
(* properties.  The code does otherwise.                                   *)
(***************************************************************************)
EXTENDS IBDSync

\* "if we wait this long then we re-try the last 1000 blocks": a batch of which
\* an answer was lost is asked for again, and the node goes on.  The first
\* blocks of the second try complete the chunk, which is serialized; those that
\* follow were accepted again and are now below the tip, and the next
\* serialization ends the process.
RetriedBatchSurvives == exit # "fatal"

=============================================================================

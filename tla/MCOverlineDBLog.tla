-------------------------- MODULE MCOverlineDBLog ---------------------------
(***************************************************************************)
(* OverlineDBLog on the block trees of MCOverlineDB.                       *)
(***************************************************************************)
EXTENDS MCOverlineDB, OverlineDBLog

=============================================================================

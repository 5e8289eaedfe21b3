--------------------------- MODULE MCIBDSyncClaims --------------------------
(***************************************************************************)
(* IBDSyncClaims on the chain of MCIBDSync.                                *)
(***************************************************************************)
EXTENDS MCIBDSync, IBDSyncClaims

=============================================================================

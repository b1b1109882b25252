-------------------------- MODULE MCStorageCutover --------------------------
(***************************************************************************)
(* TLC instances of StorageCutover.                                        *)
(***************************************************************************)
EXTENDS StorageCutover, TLC
=============================================================================

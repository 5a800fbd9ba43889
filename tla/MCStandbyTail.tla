---------------------------- MODULE MCStandbyTail ----------------------------
(***************************************************************************)
(* StandbyTail's partitions, by name: the first account partition and the  *)
(* store's own.                                                            *)
(***************************************************************************)
EXTENDS StandbyTail

CONSTANTS P0, Control

=============================================================================

---------------------------- MODULE MCCapturedLog ----------------------------
(***************************************************************************)
(* CapturedLog's instances.                                                *)
(***************************************************************************)
EXTENDS CapturedLog

CONSTANTS n1, n2, j
=============================================================================

--------------------------- MODULE MCWriterLease ---------------------------
(***************************************************************************)
(* WriterLease's members, by name.  The runs have the chart's settings     *)
(* (renewed every 2 s for 6 s) at a tick a second.                         *)
(***************************************************************************)
EXTENDS WriterLease

CONSTANTS m1, m2

=============================================================================

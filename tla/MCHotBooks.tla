----------------------------- MODULE MCHotBooks -----------------------------
(***************************************************************************)
(* HotBooks' instances: a book costs more the longer its journal.          *)
(***************************************************************************)
EXTENDS HotBooks

MCCost == [n \in 0 .. MaxEntries |-> 1 + n]

=============================================================================

---------------------------- MODULE MCOrderPath -----------------------------
(***************************************************************************)
(* OrderPath's instances.                                                  *)
(***************************************************************************)
EXTENDS OrderPath

\* An order with a child and a placement; one order with a fill corrected
\* twice; one order with a placement, its fill, and the fill's correction.
MCShapes == {<<2, 1, 0>>, <<1, 0, 3>>, <<1, 1, 2>>}
=============================================================================

----------------------------- MODULE OrderTable -----------------------------
(***************************************************************************)
(* The table of an order's transitions the book holds its commands to      *)
(* (crates/bor/src/transitions.rs), with the order's rows the modelled     *)
(* commands name.  A row says which states it starts from and which it may *)
(* reach; a row that reaches none leaves the state as it was.              *)
(***************************************************************************)

Ended       == {"refused", "cancelled", "expired"}
OrderStates == {"proposed", "released", "working", "filled"} \union Ended

Row(from, to) == [from |-> from, to |-> to]

Rows ==
    [r1  |-> Row({"proposed"}, {"released"}),
     r5  |-> Row({"released"}, {"proposed"}),
     r6  |-> Row({"released"}, {"working"}),
     r8  |-> Row({"released", "working"}, {}),
     r15 |-> Row({"released", "working"}, {}),
     i1  |-> Row({"proposed"}, {"cancelled"}),
     i3  |-> Row({"released", "working"}, {"cancelled"}),
     i4  |-> Row({"released", "working"}, {"expired"}),
     i7  |-> Row({"proposed"}, {"expired"})]

\* Mutant: a row's first states are not looked at.
StartsAnywhere(row, from) == TRUE

\* `starts_from`, and `admits` with where it leaves the order.
StartsFrom(row, from) == from \in row.from
Admits(row, from, to) == StartsFrom(row, from) /\ to \in row.to \union {from}

=============================================================================

------------------------------ MODULE FencedLog ------------------------------
(***************************************************************************)
(* What a store's change log promises whoever follows it or commands it    *)
(* (crates/changes/src/lib.rs, the module's comment): each partition's     *)
(* entries in order with no holes and never rewritten, each command        *)
(* applied once, and every entry made under the epoch in force by the      *)
(* member that raised it.  How processes, transactions, locks and takeovers*)
(* keep that promise is BookStore's to say.                                *)
(***************************************************************************)
EXTENDS Naturals, Sequences

CONSTANTS
    Members, Leased, Partitions, Empty,
    Nobody         \* no member has raised the epoch yet

VARIABLES
    log,           \* each partition's entries, in order
    term,          \* the epoch in force, on every partition
    holder         \* the member that raised it

vars == <<log, term, holder>>

Init ==
    /\ log = [p \in Partitions |-> <<>>]
    /\ term = 1
    /\ holder = Nobody

\* Where a partition's numbers end.
End(p) == IF log[p] = <<>> THEN 0 ELSE log[p][Len(log[p])].last

\* Two entries of one command: the same message, or the same key of the
\* same account.
SameCommand(d, e) ==
    \/ d.message # Empty /\ d.message = e.message
    \/ d.key # Empty /\ d.account = e.account /\ d.key = e.key

InLog(e) == \E p \in Partitions : \E i \in DOMAIN log[p] : SameCommand(log[p][i], e)

\* A member takes the log over: nothing more is made under the last epoch.
Raise(m) ==
    /\ term' = term + 1
    /\ holder' = m
    /\ UNCHANGED log

\* One command's entry is made, numbered on from the partition's end.
Made(p, e) ==
    /\ log' = [log EXCEPT ![p] = Append(@, e)]
    /\ e.first = End(p) + 1
    /\ e.last >= e.first
    /\ e.epoch = term
    /\ e.by \in Leased => e.by = holder
    /\ ~InLog(e)
    /\ UNCHANGED <<term, holder>>

Next ==
    \/ \E m \in Members : Raise(m)
    \/ \E p \in Partitions :
        /\ Len(log'[p]) > Len(log[p])
        /\ Made(p, log'[p][Len(log[p]) + 1])

Spec == Init /\ [][Next]_vars

=============================================================================

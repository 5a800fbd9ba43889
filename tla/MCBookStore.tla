----------------------------- MODULE MCBookStore -----------------------------
(***************************************************************************)
(* BookStore's instance for TLC: an account of one partition, an account   *)
(* of the control partition, and commands that repeat a message, repeat a  *)
(* key, and name a key for another request.                                *)
(***************************************************************************)
EXTENDS BookStore

CONSTANTS n1, n2, n3, a1, ctl, m1, k1, r1, r2, P0

MCAccounts == {a1, ctl}
MCPartitions == {P0, Control}
MCFirstPartition == [a \in MCAccounts |-> IF a = ctl THEN Control ELSE P0]

Sent(a, m, k, r) == [account |-> a, message |-> m, key |-> k, request |-> r]

\* A command under a key, another request under that key, and the message it
\* came in sent again: with no key, and to another partition's account.
MCCommands ==
    {Sent(a1, Empty, k1, r1), Sent(a1, m1, k1, r2),
     Sent(a1, m1, Empty, r1), Sent(ctl, m1, Empty, r1)}

=============================================================================

--------------------------- MODULE OrderPathProofs --------------------------
(***************************************************************************)
(* The order path's properties, for any quantities, times in force, events *)
(* and number of orders, placements and executions.                        *)
(*                                                                         *)
(* Every entry is a ledger whose orders were settled.  An order that ended *)
(* stays so (EndedForGood) because settling ends only what has not ended   *)
(* (SettleKeeps) and what each command or fact asks leaves an ended order  *)
(* as it was (EndedIn).  A fact changes the fills of the order it names,   *)
(* which is flagged (ReportsFlagged), and an answer to unmatched fills     *)
(* those of an order that has not ended (AcceptsFlagged).                  *)
(*                                                                         *)
(* The rest rests on Typed, the type invariant of any ledger: each step is *)
(* the entry of a typed one (StepEntered), and so leaves one.  What ends   *)
(* with an entry is the recursion down the live children (EndsIs), so none *)
(* is left that only an entry to come would end (EndsWithItsParts).  The   *)
(* executions are numbered as their facts and superseded by at most one    *)
(* later (ExecutionsOK), so what is filled is what was last told of each   *)
(* (FilledAsTold).  What the entries moved past what counts sums to zero   *)
(* until a correction is itself superseded (Even): an answer moves what it *)
(* makes count, a fact what it supersedes back (PositionIsOfFills).        *)
(***************************************************************************)
EXTENDS OrderPath, FoldLemmas, TLAPS

IsOrder(r) ==
    /\ {"ending", "ended", "lateFact"} \subseteq DOMAIN r
    /\ r.ending \in {"no", "cancelled", "expired"} /\ r.ended \in {"no"} \union Ended

IsSeq(s) == s \in Seq({s[i] : i \in DOMAIN s})

AreOrders(os) == IsSeq(os) /\ \A o \in DOMAIN os : IsOrder(os[o])

IsLedger(l) == {"orders", "executions"} \subseteq DOMAIN l

\* The orders there are, and others, of which each that ended is as it ended.
EndedIn(os) ==
    /\ AreOrders(os)
    /\ DOMAIN orders \subseteq DOMAIN os
    /\ \A o \in DOMAIN orders :
          orders[o].ended # "no" => os[o].ended = orders[o].ended

NoneResumes ==
    \A o \in Orders : orders[o].ended # "no" => orders'[o].ended = orders[o].ended

-----------------------------------------------------------------------------
(* Orders, one changed or each.                                            *)

LEMMA MappedIs ==
    ASSUME NEW s, IsSeq(s), NEW t, t = [i \in DOMAIN s |-> t[i]]
    PROVE  IsSeq(t)
<1>1. DOMAIN t = 1 .. Len(s) /\ Len(s) \in Nat
  BY DEF IsSeq
<1>2. t \in [1 .. Len(s) -> {t[i] : i \in DOMAIN t}]
  BY <1>1
<1> QED
  BY <1>1, <1>2 DEF IsSeq

LEMMA AppendedIs ==
    ASSUME NEW s, IsSeq(s), NEW r
    PROVE  /\ IsSeq(Append(s, r)) /\ Len(s) \in Nat
           /\ DOMAIN s = 1 .. Len(s) /\ DOMAIN Append(s, r) = 1 .. Len(s) + 1
           /\ \A i \in 1 .. Len(s) : Append(s, r)[i] = s[i]
           /\ Append(s, r)[Len(s) + 1] = r
<1> DEFINE S == {s[i] : i \in DOMAIN s} \union {r}
           t == Append(s, r)
<1>1. s \in Seq(S) /\ r \in S
  <2>1. s \in Seq({s[i] : i \in DOMAIN s})
    BY DEF IsSeq
  <2>2. s \in [1 .. Len(s) -> S] /\ Len(s) \in Nat
    BY <2>1
  <2> QED
    BY <2>2
<1> HIDE DEF S
<1>2. /\ t \in Seq(S) /\ Len(t) = Len(s) + 1 /\ Len(s) \in Nat
      /\ DOMAIN s = 1 .. Len(s) /\ DOMAIN t = 1 .. Len(s) + 1
      /\ \A i \in 1 .. Len(s) : t[i] = s[i]
      /\ t[Len(s) + 1] = r
  BY <1>1
<1> HIDE DEF t
<1>3. t \in [1 .. Len(t) -> {t[i] : i \in DOMAIN t}] /\ Len(t) \in Nat
  BY <1>2
<1>4. IsSeq(t)
  BY <1>3 DEF IsSeq
<1> QED
  BY <1>2, <1>4 DEF t

LEMMA OrdersMapped ==
    ASSUME NEW os, AreOrders(os), NEW new, new = [o \in DOMAIN os |-> new[o]],
           \A o \in DOMAIN os : IsOrder(new[o])
    PROVE  AreOrders(new)
<1>1. IsSeq(new)
  BY MappedIs DEF AreOrders
<1> QED
  BY <1>1 DEF AreOrders

\* The fields an order's steps change.
LEMMA EndIs ==
    ASSUME NEW r, IsOrder(r), NEW as \in {"no"} \union Ended
    PROVE  IsOrder(End(r, as)) /\ End(r, as).ended = as
  BY DEF End, IsOrder

LEMMA AskedIs ==
    ASSUME NEW r, IsOrder(r), NEW asked
    PROVE  /\ IsOrder([r EXCEPT !.cancelAsked = asked])
           /\ [r EXCEPT !.cancelAsked = asked].ended = r.ended
           /\ r.ending \in {"no"} \union Ended
  BY DEF IsOrder, Ended

LEMMA NewIs ==
    ASSUME NEW parent, NEW quantity, NEW tif, NEW released
    PROVE  IsOrder(NewOrder(parent, quantity, tif, released))
  BY DEF IsOrder, NewOrder

LEMMA OneChanged ==
    ASSUME AreOrders(orders), NEW o, NEW r,
           o \in Orders => IsOrder(r) /\ (orders[o].ended # "no" => r.ended = orders[o].ended)
    PROVE  EndedIn([orders EXCEPT ![o] = r])
<1> DEFINE new == [orders EXCEPT ![o] = r]
<1>1. /\ DOMAIN new = DOMAIN orders
      /\ \A a \in DOMAIN orders : new[a] = IF a = o THEN r ELSE orders[a]
      /\ new = [a \in DOMAIN orders |-> new[a]]
  OBVIOUS
<1>2. \A a \in DOMAIN orders : IsOrder(new[a])
  BY <1>1 DEF AreOrders, Orders
<1> HIDE DEF new
<1>3. AreOrders(new)
  BY <1>1, <1>2, OrdersMapped
<1>4. EndedIn(new)
  BY <1>1, <1>3 DEF EndedIn, Orders
<1> QED
  BY <1>4 DEF new

LEMMA OneOpened ==
    ASSUME AreOrders(orders), NEW r, IsOrder(r)
    PROVE  EndedIn(Opens(r))
<1> DEFINE new == Append(orders, r)
<1>1. /\ IsSeq(new) /\ Len(orders) \in Nat
      /\ DOMAIN orders = 1 .. Len(orders) /\ DOMAIN new = 1 .. Len(orders) + 1
      /\ \A o \in 1 .. Len(orders) : new[o] = orders[o]
      /\ new[Len(orders) + 1] = r
  BY AppendedIs DEF AreOrders
<1> HIDE DEF new
<1>2. \A o \in DOMAIN new : IsOrder(new[o])
  BY <1>1 DEF AreOrders
<1>3. AreOrders(new)
  BY <1>1, <1>2 DEF AreOrders
<1>4. EndedIn(new)
  BY <1>1, <1>3 DEF EndedIn
<1> QED
  BY <1>4 DEF new, Opens

\* An order that has not ended is in a state of those that have not, and one
\* that has is in that one.
LEMMA NowEnded ==
    ASSUME AreOrders(orders), NEW o \in Orders
    PROVE  /\ orders[o].ended # "no" => Now(o) = orders[o].ended
           /\ Now(o) \in {"proposed", "released", "working", "filled"} => orders[o].ended = "no"
<1>1. orders[o].ended \in {"no"} \union Ended
  BY DEF AreOrders, Orders, IsOrder
<1>2. orders[o].ended # "no" => Now(o) = orders[o].ended
  BY DEF Now, State, Ledger
<1> QED
  BY <1>1, <1>2 DEF Ended

-----------------------------------------------------------------------------
(* An entry.                                                               *)

\* Settling ends only orders that have not ended.
LEMMA SettleKeeps ==
    ASSUME NEW l, IsLedger(l), EndedIn(l.orders)
    PROVE  EndedIn(Settle(l).orders)
<1> DEFINE asked(o) == [l.orders[o] EXCEPT !.cancelAsked =
                           l.orders[o].cancelAsked /\ l.orders[o].ending # "cancelled"]
           new == [o \in DOMAIN l.orders |->
                     IF o \notin Ends(l) THEN l.orders[o]
                     ELSE End(asked(o), l.orders[o].ending)]
<1>1. Settle(l).orders = new
  BY DEF Settle, IsLedger
<1>2. \A o \in Ends(l) : o \in DOMAIN l.orders /\ l.orders[o].ended = "no"
  BY DEF Ends
<1>3. ASSUME NEW o \in DOMAIN l.orders
      PROVE  /\ IsOrder(new[o])
             /\ l.orders[o].ended # "no" => new[o].ended = l.orders[o].ended
  <2>1. IsOrder(l.orders[o])
    BY DEF EndedIn, AreOrders
  <2>2. IsOrder(asked(o)) /\ l.orders[o].ending \in {"no"} \union Ended
    BY <2>1, AskedIs
  <2>3. IsOrder(End(asked(o), l.orders[o].ending))
    BY <2>2, EndIs
  <2> QED
    BY <1>2, <2>1, <2>3
<1>4. new = [o \in DOMAIN l.orders |-> new[o]] /\ DOMAIN new = DOMAIN l.orders
  OBVIOUS
<1> HIDE DEF new
<1>5. AreOrders(new)
  BY <1>3, <1>4, OrdersMapped DEF EndedIn
<1> QED
  BY <1>1, <1>3, <1>4, <1>5 DEF EndedIn

LEMMA EntryKeeps ==
    ASSUME NEW l, IsLedger(l), EndedIn(l.orders),
           Enters(l) \/ \E o, rows : Commits(l, o, rows)
    PROVE  AreOrders(orders') /\ NoneResumes
<1>1. orders' = Settle(l).orders
  BY DEF Enters, Commits, Becomes
<1> QED
  BY <1>1, SettleKeeps DEF EndedIn, NoneResumes, Orders

\* A ledger with these orders, whatever its placements and executions.
LEMMA LedgersOf ==
    ASSUME NEW os, NEW ps, NEW es
    PROVE  /\ IsLedger(With(os)) /\ With(os).orders = os
           /\ LET l == [Ledger EXCEPT !.placements = ps]
              IN  IsLedger(l) /\ l.orders = orders
           /\ LET l == [With(os) EXCEPT !.placements = ps]
              IN  IsLedger(l) /\ l.orders = os
           /\ LET l == [With(os) EXCEPT !.placements = ps, !.executions = es]
              IN  IsLedger(l) /\ l.orders = os
           /\ LET l == [Ledger EXCEPT !.executions = es, !.orders = os]
              IN  IsLedger(l) /\ l.orders = os
  BY DEF IsLedger, With, Ledger

LEMMA OneOf ==
    ASSUME NEW l, IsLedger(l), NEW o, NEW r
    PROVE  /\ IsLedger([l EXCEPT !.orders[o] = r])
           /\ [l EXCEPT !.orders[o] = r].orders = [l.orders EXCEPT ![o] = r]
           /\ [l EXCEPT !.orders[o] = r].executions = l.executions
<1> DEFINE os == [l.orders EXCEPT ![o] = r]
           m  == [l EXCEPT !.orders = os]
<1>1. IsLedger(m) /\ m.orders = os /\ m.executions = l.executions
  BY DEF IsLedger
<1> QED
  BY <1>1

\* What a step changes of an order that is not its end.
LEMMA FieldIs ==
    ASSUME NEW r, IsOrder(r), NEW v
    PROVE  /\ IsOrder([r EXCEPT !.released = v]) /\ [r EXCEPT !.released = v].ended = r.ended
           /\ IsOrder([r EXCEPT !.tif = v]) /\ [r EXCEPT !.tif = v].ended = r.ended
           /\ IsOrder([r EXCEPT !.quantity = v]) /\ [r EXCEPT !.quantity = v].ended = r.ended
           /\ IsOrder([r EXCEPT !.lateFact = v]) /\ [r EXCEPT !.lateFact = v].ended = r.ended
  BY DEF IsOrder

LEMMA Unchanged ==
    ASSUME AreOrders(orders)
    PROVE  EndedIn(orders)
  BY DEF EndedIn

LEMMA OpensOne ==
    ASSUME AreOrders(orders), NEW parent, NEW quantity, NEW tif, NEW released,
           Enters(With(Opens(NewOrder(parent, quantity, tif, released))))
    PROVE  AreOrders(orders') /\ NoneResumes
<1> DEFINE os == Opens(NewOrder(parent, quantity, tif, released))
<1>1. EndedIn(os)
  BY NewIs, OneOpened, SMTT(20)
<1> HIDE DEF os
<1>2. IsLedger(With(os)) /\ With(os).orders = os
  BY LedgersOf
<1>3. EndedIn(With(os).orders)
  BY <1>1, <1>2
<1> QED
  BY <1>2, <1>3, EntryKeeps DEF os

\* Cancelling an order's parts asks of orders to end, and ends none.
LEMMA CancelKeeps ==
    ASSUME AreOrders(orders), NEW o, NEW as \in {"cancelled", "expired"}, NEW asked
    PROVE  /\ IsLedger(CancelParts(o, as, asked))
           /\ EndedIn(CancelParts(o, as, asked).orders)
<1> DEFINE below == LiveBelow(o)
           new == [a \in Orders |->
                IF a \in below
                THEN [orders[a] EXCEPT !.ending = as, !.cancelAsked = TRUE]
                ELSE IF a = o
                THEN [orders[a] EXCEPT !.ending = as, !.cancelAsked = @ \/ asked]
                ELSE orders[a]]
<1>1. IsLedger(CancelParts(o, as, asked)) /\ CancelParts(o, as, asked).orders = new
  BY DEF CancelParts, IsLedger, Ledger
<1>2. ASSUME NEW r, IsOrder(r), NEW v
      PROVE  /\ IsOrder([r EXCEPT !.ending = as, !.cancelAsked = v])
             /\ [r EXCEPT !.ending = as, !.cancelAsked = v].ended = r.ended
  BY <1>2 DEF IsOrder
<1>3. \A a \in Orders : IsOrder(orders[a])
  BY DEF AreOrders, Orders
<1>4. \A a \in Orders : IsOrder(new[a]) /\ new[a].ended = orders[a].ended
  BY <1>2, <1>3
<1>5. new = [a \in DOMAIN orders |-> new[a]] /\ DOMAIN new = DOMAIN orders
  BY DEF Orders
<1> HIDE DEF new
<1>6. AreOrders(new)
  BY <1>4, <1>5, OrdersMapped DEF Orders
<1>7. EndedIn(new)
  BY <1>4, <1>5, <1>6 DEF EndedIn, Orders
<1> QED
  BY <1>1, <1>7

\* One order is changed, and whatever of the placements.
LEMMA OneEntered ==
    ASSUME AreOrders(orders), NEW l, IsLedger(l), NEW o, NEW r,
           l.orders = [orders EXCEPT ![o] = r],
           o \in Orders => IsOrder(r) /\ (orders[o].ended # "no" => r.ended = orders[o].ended),
           Enters(l) \/ \E a, rows : Commits(l, a, rows)
    PROVE  AreOrders(orders') /\ NoneResumes
<1>1. EndedIn(l.orders)
  BY OneChanged
<1> QED
  BY <1>1, EntryKeeps

LEMMA NoneEntered ==
    ASSUME AreOrders(orders), NEW l, IsLedger(l), l.orders = orders,
           Enters(l) \/ \E a, rows : Commits(l, a, rows)
    PROVE  AreOrders(orders') /\ NoneResumes
  BY EntryKeeps, Unchanged

-----------------------------------------------------------------------------
(* The steps.                                                              *)

LEMMA CommandsKeep ==
    ASSUME AreOrders(orders), Commands
    PROVE  AreOrders(orders') /\ NoneResumes
<1>1. \A o \in Orders : IsOrder(orders[o])
  BY DEF AreOrders, Orders
<1>2. ASSUME NEW quantity, NEW tif, ProposeOrder(quantity, tif)
      PROVE  AreOrders(orders') /\ NoneResumes
  BY <1>2, OpensOne DEF ProposeOrder
<1>3. ASSUME NEW quantity, NEW tif, RecordOrder(quantity, tif)
      PROVE  AreOrders(orders') /\ NoneResumes
  BY <1>3, OpensOne DEF RecordOrder
<1>4. ASSUME NEW o, NEW quantity, NEW tif, SplitOrder(o, quantity, tif)
      PROVE  AreOrders(orders') /\ NoneResumes
  BY <1>4, OpensOne DEF SplitOrder
<1>5. ASSUME NEW o \in Orders, ReleaseOrder(o)
      PROVE  AreOrders(orders') /\ NoneResumes
  <2> DEFINE r  == [orders[o] EXCEPT !.released = TRUE]
             os == [orders EXCEPT ![o] = r]
  <2>1. IsOrder(r) /\ r.ended = orders[o].ended
    BY <1>1, FieldIs
  <2>2. IsLedger(With(os)) /\ With(os).orders = os
    BY LedgersOf
  <2>3. Commits(With(os), o, {"r1"})
    BY <1>5 DEF ReleaseOrder
  <2> QED
    BY <2>1, <2>2, <2>3, OneEntered
<1>6. ASSUME NEW o \in Orders, CancelOrder(o)
      PROVE  AreOrders(orders') /\ NoneResumes
  <2>1. /\ IsLedger(CancelParts(o, "cancelled", TRUE))
        /\ EndedIn(CancelParts(o, "cancelled", TRUE).orders)
    BY CancelKeeps
  <2>2. Commits(CancelParts(o, "cancelled", TRUE), o, {"i3"})
    BY <1>6 DEF CancelOrder
  <2> QED
    BY <2>1, <2>2, EntryKeeps
<1>7. ASSUME NEW o \in Orders, WithdrawOrder(o)
      PROVE  AreOrders(orders') /\ NoneResumes
  <2> DEFINE r  == End(orders[o], "cancelled")
             os == [orders EXCEPT ![o] = r]
  <2>1. Now(o) = "proposed"
    BY <1>7 DEF WithdrawOrder, StartsFrom, Rows, Row
  <2>2. IsOrder(r) /\ orders[o].ended = "no"
    BY <1>1, <2>1, EndIs, NowEnded DEF Ended
  <2>3. IsLedger(With(os)) /\ With(os).orders = os
    BY LedgersOf
  <2>4. Commits(With(os), o, {"i1"})
    BY <1>7 DEF WithdrawOrder
  <2> QED
    BY <2>2, <2>3, <2>4, OneEntered
<1>8. ASSUME NEW o \in Orders, RecallOrder(o)
      PROVE  AreOrders(orders') /\ NoneResumes
  <2> DEFINE r  == [orders[o] EXCEPT !.released = FALSE]
             os == [orders EXCEPT ![o] = r]
  <2>1. IsOrder(r) /\ r.ended = orders[o].ended
    BY <1>1, FieldIs
  <2>2. IsLedger(With(os)) /\ With(os).orders = os
    BY LedgersOf
  <2>3. Commits(With(os), o, {"r5"})
    BY <1>8 DEF RecallOrder
  <2> QED
    BY <2>1, <2>2, <2>3, OneEntered
<1>9. ASSUME NEW o \in Orders, AcknowledgeFlag(o)
      PROVE  AreOrders(orders') /\ NoneResumes
  <2> DEFINE r  == [orders[o] EXCEPT !.lateFact = FALSE]
             os == [orders EXCEPT ![o] = r]
  <2>1. IsOrder(r) /\ r.ended = orders[o].ended
    BY <1>1, FieldIs
  <2>2. IsLedger(With(os)) /\ With(os).orders = os
    BY LedgersOf
  <2>3. Enters(With(os))
    BY <1>9 DEF AcknowledgeFlag
  <2> QED
    BY <2>1, <2>2, <2>3, OneEntered
<1>10. ASSUME NEW o \in Orders, NEW tif, AmendOrder(o, tif)
       PROVE  AreOrders(orders') /\ NoneResumes
  <2> DEFINE r  == [orders[o] EXCEPT !.tif = tif]
             os == [orders EXCEPT ![o] = r]
             ps == [p \in DOMAIN placements |->
                      IF p \in LivePlacements(Ledger, o)
                      THEN [placements[p] EXCEPT !.asks = Append(@, "replace")]
                      ELSE placements[p]]
             l  == [With(os) EXCEPT !.placements = ps]
  <2>1. IsOrder(r) /\ r.ended = orders[o].ended
    BY <1>1, FieldIs
  <2>2. Enters(With(os)) \/ Commits(l, o, {"r15"})
    BY <1>10, SMTT(20) DEF AmendOrder
  <2> HIDE DEF ps, os
  <2>3. IsLedger(With(os)) /\ With(os).orders = os /\ IsLedger(l) /\ l.orders = os
    BY LedgersOf
  <2> HIDE DEF l
  <2> QED
    BY <2>1, <2>2, <2>3, OneEntered DEF os
<1>11. ASSUME NEW o \in Orders, NEW quantity, ChangeQuantity(o, quantity)
       PROVE  AreOrders(orders') /\ NoneResumes
  <2> DEFINE r  == [orders[o] EXCEPT !.quantity = quantity]
             os == [orders EXCEPT ![o] = r]
  <2>1. IsOrder(r) /\ r.ended = orders[o].ended
    BY <1>1, FieldIs
  <2>2. IsLedger(With(os)) /\ With(os).orders = os
    BY LedgersOf
  <2>3. Enters(With(os))
    BY <1>11 DEF ChangeQuantity
  <2> QED
    BY <2>1, <2>2, <2>3, OneEntered
<1>12. ASSUME NEW o \in Orders, NEW quantity, CreatePlacement(o, quantity)
       PROVE  AreOrders(orders') /\ NoneResumes
  <2> DEFINE ps == Append(placements, NewPlacement(o, quantity, orders[o].tif))
             l  == [Ledger EXCEPT !.placements = ps]
  <2>1. Commits(l, o, {"r6", "r8"})
    BY <1>12, SMTT(20) DEF CreatePlacement, Ledger
  <2> HIDE DEF ps
  <2>2. IsLedger(l) /\ l.orders = orders
    BY LedgersOf
  <2> HIDE DEF l
  <2> QED
    BY <2>1, <2>2, NoneEntered
<1>13. ASSUME NEW S, NEW o \in Orders, AcceptExecutions(S, o)
       PROVE  AreOrders(orders') /\ NoneResumes
  <2>1. Enters(Accepted(Ledger, S, o))
    BY <1>13 DEF AcceptExecutions
  <2>2. IsLedger(Accepted(Ledger, S, o)) /\ Accepted(Ledger, S, o).orders = orders
    BY DEF Accepted, IsLedger, Ledger
  <2> QED
    BY <2>1, <2>2, NoneEntered
<1>14. ASSUME NEW S, AcceptToNewOrder(S)
       PROVE  AreOrders(orders') /\ NoneResumes
  <2> DEFINE total == Quantities(Ledger, S)
             os == Opens(NewOrder(0, total, "day", TRUE))
             l  == Accepted(With(os), S, Len(orders) + 1)
  <2>1. Enters(l)
    BY <1>14 DEF AcceptToNewOrder
  <2> HIDE DEF total
  <2>2. EndedIn(os)
    BY NewIs, OneOpened
  <2> HIDE DEF os
  <2>3. IsLedger(l) /\ l.orders = os
    BY DEF Accepted, With, IsLedger, Ledger
  <2> HIDE DEF l
  <2> QED
    BY <2>1, <2>2, <2>3, EntryKeeps
<1>15. ASSUME NEW e, DontKnow(e)
       PROVE  AreOrders(orders') /\ NoneResumes
  <2> DEFINE l == [Ledger EXCEPT !.executions[e].state = "dont_know"]
  <2>1. Enters(l)
    BY <1>15 DEF DontKnow
  <2>2. IsLedger(l) /\ l.orders = orders
    BY DEF IsLedger, Ledger
  <2> HIDE DEF l
  <2> QED
    BY <2>1, <2>2, NoneEntered
<1>16. ASSUME NEW p, NEW kind, RequestPlacementChange(p, kind)
       PROVE  AreOrders(orders') /\ NoneResumes
  <2> DEFINE l == [Ledger EXCEPT !.placements[p].asks = Append(@, kind)]
  <2>1. Enters(l)
    BY <1>16 DEF RequestPlacementChange
  <2>2. IsLedger(l) /\ l.orders = orders
    BY DEF IsLedger, Ledger
  <2> HIDE DEF l
  <2> QED
    BY <2>1, <2>2, NoneEntered
<1> QED
  BY <1>2, <1>3, <1>4, <1>5, <1>6, <1>7, <1>8, <1>9, <1>10, <1>11, <1>12, <1>13,
     <1>14, <1>15, <1>16 DEF Commands

LEMMA FactsKeep ==
    ASSUME AreOrders(orders), Facts
    PROVE  AreOrders(orders') /\ NoneResumes
<1>1. \A o \in Orders : IsOrder(orders[o])
  BY DEF AreOrders, Orders
<1>2. ASSUME NEW p, NEW event, NEW quantity, ReportPlacement(p, event, quantity)
      PROVE  AreOrders(orders') /\ NoneResumes
  <2> DEFINE o == placements[p].order
             after == [Ledger EXCEPT !.placements[p] = Reported(@, event, quantity)]
             past  == event = "restated" /\ quantity > orders[o].quantity
             flagged == [orders[o] EXCEPT !.lateFact = @ \/ past]
             r == IF EndsUnfilled(after, p, event) THEN End(flagged, "cancelled") ELSE flagged
             l == [after EXCEPT !.orders[o] = r]
  <2>1. after.orders = orders /\ IsLedger(after)
    BY DEF Ledger, IsLedger
  <2>2. Enters(l)
    BY <1>2 DEF ReportPlacement
  <2> HIDE DEF after, past
  <2>3. EndsUnfilled(after, p, event) /\ o \in Orders => orders[o].ended = "no"
    BY NowEnded DEF EndsUnfilled
  <2>4. ASSUME o \in Orders
        PROVE  IsOrder(r) /\ (orders[o].ended # "no" => r.ended = orders[o].ended)
    <3>1. IsOrder(flagged) /\ flagged.ended = orders[o].ended
      BY <1>1, <2>4, FieldIs
    <3> HIDE DEF flagged
    <3>2. IsOrder(End(flagged, "cancelled"))
      BY <3>1, EndIs DEF Ended
    <3> QED
      BY <2>3, <2>4, <3>1, <3>2
  <2> HIDE DEF r
  <2>5. IsLedger(l) /\ l.orders = [after.orders EXCEPT ![o] = r]
    BY <2>1, OneOf
  <2> HIDE DEF l, o
  <2> QED
    BY <2>1, <2>2, <2>4, <2>5, OneEntered
<1>3. ASSUME NEW x, ReportExecution(x)
      PROVE  AreOrders(orders') /\ NoneResumes
  <2>1. CASE Seen(x)
    BY <1>3, <2>1 DEF ReportExecution, NoneResumes, vars
  <2>2. CASE ~Seen(x)
    <3> DEFINE o == x.order
               r == [orders[o] EXCEPT !.lateFact = TRUE]
               es == Executed(x)
               os == Flags(o)
               l == [Ledger EXCEPT !.executions = es, !.orders = os]
    <3>1. Enters(l)
      BY <1>3, <2>2 DEF ReportExecution
    <3>2. os = orders \/ os = [orders EXCEPT ![o] = r]
      BY SMTT(20) DEF Flags
    <3> HIDE DEF es, os
    <3>3. IsLedger(l) /\ l.orders = os
      BY LedgersOf
    <3>4. o \in Orders => IsOrder(r) /\ r.ended = orders[o].ended
      BY <1>1, FieldIs
    <3> HIDE DEF l, r, o
    <3> QED
      BY <3>1, <3>2, <3>3, <3>4, OneEntered, NoneEntered
  <2> QED
    BY <2>1, <2>2
<1> QED
  BY <1>2, <1>3 DEF Facts, Fill, FillAway, FillUnplaced, Supersede, Resend

LEMMA ClockKeeps ==
    ASSUME AreOrders(orders), Clock
    PROVE  AreOrders(orders') /\ NoneResumes
<1>1. \A o \in Orders : IsOrder(orders[o])
  BY DEF AreOrders, Orders
<1>2. PICK o \in Orders : ExpireOrder(o)
  BY DEF Clock
<1> DEFINE r  == End(orders[o], "expired")
           os == [orders EXCEPT ![o] = r]
<1>3. Enters(With(os)) \/ Enters(CancelParts(o, "expired", FALSE))
  BY <1>2 DEF ExpireOrder
<1>4. IsOrder(r) /\ orders[o].ended = "no"
  BY <1>1, <1>2, EndIs DEF ExpireOrder, Ended
<1>5. IsLedger(With(os)) /\ With(os).orders = os
  BY LedgersOf
<1>6. /\ IsLedger(CancelParts(o, "expired", FALSE))
      /\ EndedIn(CancelParts(o, "expired", FALSE).orders)
  BY CancelKeeps
<1> QED
  BY <1>3, <1>4, <1>5, <1>6, OneEntered, EntryKeeps

LEMMA OrdersStep ==
    ASSUME AreOrders(orders), [Next]_vars
    PROVE  AreOrders(orders') /\ [NoneResumes]_vars
<1>1. CASE Next
  BY <1>1, CommandsKeep, FactsKeep, ClockKeeps DEF Next
<1>2. CASE UNCHANGED vars
  BY <1>2 DEF vars
<1> QED
  BY <1>1, <1>2

(***************************************************************************)
(* An order refused, cancelled or expired stays so, whatever is reported,  *)
(* answered, busted or asked of it or of its children afterwards.          *)
(***************************************************************************)
THEOREM EndedForGood == Spec => EndedStays
<1>1. Init => AreOrders(orders)
  BY DEF Init, AreOrders, IsSeq
<1>2. AreOrders(orders) /\ [Next]_vars => AreOrders(orders)' /\ [NoneResumes]_vars
  <2>1. AreOrders(orders)' <=> AreOrders(orders')
    BY DEF AreOrders, IsSeq
  <2> QED
    BY <2>1, OrdersStep
<1> QED
  BY <1>1, <1>2, PTL DEF Spec, EndedStays, NoneResumes

-----------------------------------------------------------------------------
(* The fills of an order that ended.                                       *)

IsExecution(x) ==
    /\ {"order", "quantity", "supersededBy", "state"} \subseteq DOMAIN x
    /\ x.state = "unmatched" => x.order = 0

AreExecutions(es) == IsSeq(es) /\ \A e \in DOMAIN es : IsExecution(es[e])

FillsFlagged ==
    \A o \in Orders :
        orders[o].ended # "no" /\ Fills(Ledger, o) # Fills(Ledger', o) => orders'[o].lateFact

\* The executions that stand on an order, and their quantities, make its fills.
LEMMA SameFills ==
    ASSUME NEW o,
           \A e : e \in DOMAIN executions' /\ executions'[e].supersededBy = 0
                    /\ executions'[e].order = o
                 <=> e \in DOMAIN executions /\ executions[e].supersededBy = 0
                    /\ executions[e].order = o,
           \A e \in DOMAIN executions :
              executions[e].order = o => executions'[e].quantity = executions[e].quantity
    PROVE  Fills(Ledger, o) = Fills(Ledger', o)
<1> DEFINE on == {e \in DOMAIN executions : executions[e].supersededBy = 0
                                             /\ executions[e].order = o}
<1>1. Fills(Ledger, o) = [e \in on |-> executions[e].quantity]
  BY DEF Fills, Standing, Ledger
<1>2. on = {e \in DOMAIN executions' : executions'[e].supersededBy = 0
                                       /\ executions'[e].order = o}
  OBVIOUS
<1>3. Fills(Ledger', o) = [e \in on |-> executions'[e].quantity]
  BY <1>2 DEF Fills, Standing, Ledger
<1> QED
  BY <1>1, <1>3

LEMMA SettleFlags ==
    ASSUME NEW l, IsLedger(l), AreOrders(l.orders), NEW o \in DOMAIN l.orders
    PROVE  Settle(l).orders[o].lateFact = l.orders[o].lateFact
<1> DEFINE asked == [l.orders[o] EXCEPT !.cancelAsked =
                        l.orders[o].cancelAsked /\ l.orders[o].ending # "cancelled"]
<1>1. Settle(l).orders[o] \in {l.orders[o], End(asked, l.orders[o].ending)}
  BY DEF Settle, IsLedger
<1>2. IsOrder(l.orders[o])
  BY DEF AreOrders
<1>3. IsOrder(asked) /\ asked.lateFact = l.orders[o].lateFact
  BY <1>2 DEF IsOrder
<1> HIDE DEF asked
<1>4. End(asked, l.orders[o].ending).lateFact = asked.lateFact
  BY <1>3 DEF End, IsOrder
<1> QED
  BY <1>1, <1>3, <1>4

LEMMA EntryExecutions ==
    ASSUME NEW l, IsLedger(l), Enters(l) \/ \E o, rows : Commits(l, o, rows)
    PROVE  executions' = l.executions
  BY DEF Enters, Commits, Becomes, Settle, IsLedger

LEMMA Appends ==
    ASSUME AreExecutions(executions), NEW x,
           executions' = Executed(x),
           x.supersedes \in DOMAIN executions => executions[x.supersedes].order = x.order
    PROVE  /\ AreExecutions(executions')
           /\ \A o : o # x.order /\ o # 0 => Fills(Ledger, o) = Fills(Ledger', o)
<1> DEFINE e == Len(executions) + 1
           marked == [d \in DOMAIN executions |->
                        IF d = x.supersedes THEN [executions[d] EXCEPT !.supersededBy = e]
                        ELSE executions[d]]
           r == [fact |-> x.fact, order |-> x.order, placement |-> x.placement,
                 quantity |-> x.quantity, supersedes |-> x.supersedes, supersededBy |-> 0,
                 state |-> IF x.order # 0 THEN "matched" ELSE "unmatched",
                 moved |-> IF x.order # 0 THEN Reversed(x.supersedes) + x.quantity ELSE 0]
<1>0. executions' = Append(marked, r)
  BY DEF Executed
<1>1. executions' = Append(marked, r) /\ IsExecution(r) /\ r.order = x.order
  BY <1>0 DEF IsExecution
<1> HIDE DEF r
<1>2. \A d \in DOMAIN executions :
        /\ IsExecution(marked[d]) /\ marked[d].order = executions[d].order
        /\ marked[d].quantity = executions[d].quantity
        /\ d # x.supersedes => marked[d] = executions[d]
  BY DEF AreExecutions, IsExecution
<1>3. marked = [d \in DOMAIN executions |-> marked[d]] /\ DOMAIN marked = DOMAIN executions
  OBVIOUS
<1> HIDE DEF marked
<1>4. IsSeq(marked)
  BY <1>3, MappedIs DEF AreExecutions
<1>5. /\ IsSeq(executions') /\ Len(marked) \in Nat
      /\ DOMAIN executions = 1 .. Len(marked)
      /\ DOMAIN executions' = 1 .. Len(marked) + 1
      /\ \A d \in 1 .. Len(marked) : executions'[d] = marked[d]
      /\ executions'[Len(marked) + 1] = r
  BY <1>1, <1>3, <1>4, AppendedIs
<1>6. AreExecutions(executions')
  <2>1. \A d \in DOMAIN executions' : IsExecution(executions'[d])
    BY <1>1, <1>2, <1>5
  <2> QED
    BY <1>5, <2>1 DEF AreExecutions
<1>7. ASSUME NEW o, o # x.order, o # 0
      PROVE  Fills(Ledger, o) = Fills(Ledger', o)
  <2>1. \A d \in DOMAIN executions : executions[d].order = o => executions'[d] = executions[d]
    BY <1>2, <1>5, <1>7
  <2>2. \A d \in DOMAIN executions : executions'[d].order = executions[d].order
    BY <1>2, <1>5
  <2>3. \A d \in DOMAIN executions' : executions'[d].order = o => d \in DOMAIN executions
    BY <1>1, <1>5, <1>7
  <2>4. DOMAIN executions \subseteq DOMAIN executions'
    BY <1>5
  <2> QED
    BY <2>1, <2>2, <2>3, <2>4, SameFills
<1> QED
  BY <1>6, <1>7

\* Accepting fills that named no order, or not knowing one, leaves what
\* stands on every other order.
LEMMA Answers ==
    ASSUME AreExecutions(executions), NEW es, executions' = es,
           es = [e \in DOMAIN executions |-> es[e]],
           \A e \in DOMAIN executions :
              \/ es[e] = executions[e]
              \/ /\ IsExecution(es[e]) /\ executions[e].state = "unmatched"
                 /\ es[e].quantity = executions[e].quantity,
           NEW o, \A e \in DOMAIN executions : es[e].order \in {executions[e].order, o},
           \A e \in DOMAIN executions : es[e].supersededBy = executions[e].supersededBy
    PROVE  /\ AreExecutions(executions')
           /\ \A a : a # o /\ a # 0 => Fills(Ledger, a) = Fills(Ledger', a)
<1>1. IsSeq(es) /\ DOMAIN es = DOMAIN executions
  BY MappedIs DEF AreExecutions
<1>2. AreExecutions(executions')
  BY <1>1 DEF AreExecutions
<1>3. ASSUME NEW a, a # o, a # 0
      PROVE  Fills(Ledger, a) = Fills(Ledger', a)
  <2>1. \A e \in DOMAIN executions :
           /\ es[e].order = a <=> executions[e].order = a
           /\ executions[e].order = a => es[e] = executions[e]
    BY <1>3 DEF AreExecutions, IsExecution
  <2> QED
    BY <1>1, <2>1, SameFills
<1> QED
  BY <1>2, <1>3

LEMMA AcceptsFlagged ==
    ASSUME AreOrders(orders), AreExecutions(executions), NEW l, NEW S, NEW o,
           IsLedger(l), \A e \in S : Answerable(e), o \in Orders => orders[o].ended = "no",
           0 \notin Orders, Enters(Accepted(l, S, o))
    PROVE  AreExecutions(executions') /\ FillsFlagged
<1> DEFINE p  == Len(placements) + 1
           new(e) == [executions[e] EXCEPT !.order = o, !.placement = p, !.state = "matched",
                                           !.moved = @ + executions[e].quantity]
           es == [e \in DOMAIN executions |-> IF e \notin S THEN executions[e] ELSE new(e)]
<1>1. executions' = es
  <2>1. IsLedger(Accepted(l, S, o)) /\ Accepted(l, S, o).executions = es
    BY DEF Accepted, IsLedger
  <2> QED
    BY <2>1, EntryExecutions
<1>2. \A e \in DOMAIN executions :
        /\ IsExecution(new(e)) /\ new(e).quantity = executions[e].quantity
        /\ new(e).order = o /\ new(e).supersededBy = executions[e].supersededBy
  BY DEF AreExecutions, IsExecution
<1> HIDE DEF new
<1>3. \A e \in DOMAIN executions :
        IF e \in S THEN es[e] = new(e) /\ executions[e].state = "unmatched"
        ELSE es[e] = executions[e]
  BY DEF Answerable
<1>4. es = [e \in DOMAIN executions |-> es[e]]
  OBVIOUS
<1> HIDE DEF es
<1>5. \A e \in DOMAIN executions :
        /\ \/ es[e] = executions[e]
           \/ /\ IsExecution(es[e]) /\ executions[e].state = "unmatched"
              /\ es[e].quantity = executions[e].quantity
        /\ es[e].order \in {executions[e].order, o}
        /\ es[e].supersededBy = executions[e].supersededBy
  BY <1>2, <1>3
<1>6. /\ AreExecutions(executions')
      /\ \A a : a # o /\ a # 0 => Fills(Ledger, a) = Fills(Ledger', a)
  BY <1>1, <1>4, <1>5, Answers, SMTT(20)
<1> QED
  BY <1>6 DEF FillsFlagged

LEMMA SameExecutions ==
    ASSUME AreExecutions(executions), executions' = executions
    PROVE  AreExecutions(executions') /\ FillsFlagged
<1>1. \A o : Fills(Ledger, o) = Fills(Ledger', o)
  BY SameFills
<1> QED
  BY <1>1 DEF FillsFlagged

\* A fact's entry flags the order it names where that has ended.
LEMMA ReportsFlagged ==
    ASSUME AreOrders(orders), AreExecutions(executions), NEW x, ReportExecution(x),
           x.supersedes \in DOMAIN executions => executions[x.supersedes].order = x.order
    PROVE  AreExecutions(executions') /\ FillsFlagged
<1>1. CASE Seen(x)
  BY <1>1, SameExecutions DEF ReportExecution, vars
<1>2. CASE ~Seen(x)
  <2> DEFINE o == x.order
             es == Executed(x)
             os == Flags(o)
             l == [Ledger EXCEPT !.executions = es, !.orders = os]
  <2>1. Enters(l)
    BY <1>2 DEF ReportExecution
  <2>2. os = IF o # 0 /\ Now(o) \in Ended THEN [orders EXCEPT ![o].lateFact = TRUE] ELSE orders
    BY DEF Flags
  <2> HIDE DEF es, os
  <2>3. IsLedger(l) /\ l.orders = os /\ l.executions = es
    BY DEF IsLedger, Ledger
  <2> HIDE DEF l
  <2>4. executions' = es
    BY <2>1, <2>3, EntryExecutions
  <2>5. /\ AreExecutions(executions')
        /\ \A a : a # o /\ a # 0 => Fills(Ledger, a) = Fills(Ledger', a)
    BY <2>4, Appends DEF es
  <2>6. 0 \notin Orders
    BY DEF AreOrders, IsSeq, Orders
  <2>7. ASSUME o \in Orders, orders[o].ended # "no"
        PROVE  orders'[o].lateFact
    <3> DEFINE r == [orders[o] EXCEPT !.lateFact = TRUE]
    <3>1. Now(o) \in Ended
      <4>1. orders[o].ended \in Ended
        BY <2>7 DEF AreOrders, Orders, IsOrder
      <4> QED
        BY <2>7, <4>1, NowEnded
    <3>2. os = [orders EXCEPT ![o] = r]
      BY <2>2, <2>6, <2>7, <3>1
    <3>3. IsOrder(orders[o])
      BY <2>7 DEF AreOrders, Orders
    <3>4. IsOrder(r) /\ r.lateFact /\ r.ended = orders[o].ended
      BY <3>3 DEF IsOrder
    <3> HIDE DEF r
    <3>5. AreOrders(os) /\ o \in DOMAIN os /\ os[o] = r
      BY <2>7, <3>2, <3>4, OneChanged DEF EndedIn, Orders
    <3>6. orders' = Settle(l).orders
      BY <2>1 DEF Enters, Becomes
    <3> QED
      BY <2>3, <3>4, <3>5, <3>6, SettleFlags
  <2> QED
    BY <2>5, <2>6, <2>7 DEF FillsFlagged
<1> QED
  BY <1>1, <1>2

\* Every command but the answers to unmatched fills leaves the executions.
LEMMA CommandExecutions ==
    ASSUME Commands
    PROVE  \/ executions' = executions
           \/ \E o \in Orders : \E S : AcceptExecutions(S, o)
           \/ \E S : AcceptToNewOrder(S)
           \/ \E e \in DOMAIN executions : DontKnow(e)
<1>1. ASSUME NEW os, Enters(With(os)) \/ \E o, rows : Commits(With(os), o, rows)
      PROVE  executions' = executions
  <2>1. IsLedger(With(os)) /\ With(os).executions = executions
    BY DEF With, Ledger, IsLedger
  <2> QED
    BY <1>1, <2>1, EntryExecutions
<1>2. ASSUME NEW ps, NEW os,
             LET l == [With(os) EXCEPT !.placements = ps]
             IN  Enters(l) \/ \E o, rows : Commits(l, o, rows)
      PROVE  executions' = executions
  <2> DEFINE l == [With(os) EXCEPT !.placements = ps]
  <2>1. IsLedger(l) /\ l.executions = executions
    BY DEF With, Ledger, IsLedger
  <2>2. Enters(l) \/ \E o, rows : Commits(l, o, rows)
    BY <1>2
  <2> HIDE DEF l
  <2> QED
    BY <2>1, <2>2, EntryExecutions
<1>3. ASSUME NEW ps,
             LET l == [Ledger EXCEPT !.placements = ps]
             IN  Enters(l) \/ \E o, rows : Commits(l, o, rows)
      PROVE  executions' = executions
  <2> DEFINE l == [Ledger EXCEPT !.placements = ps]
  <2>1. IsLedger(l) /\ l.executions = executions
    BY DEF Ledger, IsLedger
  <2>2. Enters(l) \/ \E o, rows : Commits(l, o, rows)
    BY <1>3
  <2> HIDE DEF l
  <2> QED
    BY <2>1, <2>2, EntryExecutions
<1>4. ASSUME NEW o, NEW rows, Commits(CancelParts(o, "cancelled", TRUE), o, rows)
      PROVE  executions' = executions
  <2>1. /\ IsLedger(CancelParts(o, "cancelled", TRUE))
        /\ CancelParts(o, "cancelled", TRUE).executions = executions
    BY DEF CancelParts, Ledger, IsLedger
  <2> QED
    BY <1>4, <2>1, EntryExecutions
<1>5. ASSUME NEW quantity, NEW tif, ProposeOrder(quantity, tif) \/ RecordOrder(quantity, tif)
      PROVE  executions' = executions
  BY <1>1, <1>5 DEF ProposeOrder, RecordOrder
<1>6. ASSUME NEW o, NEW quantity, NEW tif, SplitOrder(o, quantity, tif)
      PROVE  executions' = executions
  BY <1>1, <1>6 DEF SplitOrder
<1>7. ASSUME NEW o, \/ ReleaseOrder(o) \/ WithdrawOrder(o) \/ RecallOrder(o)
                   \/ AcknowledgeFlag(o)
      PROVE  executions' = executions
  BY <1>1, <1>7, Zenon DEF ReleaseOrder, WithdrawOrder, RecallOrder, AcknowledgeFlag
<1>8. ASSUME NEW o, CancelOrder(o)
      PROVE  executions' = executions
  BY <1>4, <1>8 DEF CancelOrder
<1>9. ASSUME NEW o, NEW tif, AmendOrder(o, tif)
      PROVE  executions' = executions
  BY <1>1, <1>2, <1>9 DEF AmendOrder
<1>10. ASSUME NEW o, NEW quantity, ChangeQuantity(o, quantity)
       PROVE  executions' = executions
  BY <1>1, <1>10, Zenon DEF ChangeQuantity
<1>11. ASSUME NEW o, NEW quantity, CreatePlacement(o, quantity)
       PROVE  executions' = executions
  <2> DEFINE ps == Append(placements, NewPlacement(o, quantity, orders[o].tif))
  <2>1. Commits([Ledger EXCEPT !.placements = ps], o, {"r6", "r8"})
    BY <1>11 DEF CreatePlacement, Ledger
  <2> HIDE DEF ps
  <2> QED
    BY <1>3, <2>1
<1>12. ASSUME NEW p, NEW kind, RequestPlacementChange(p, kind)
       PROVE  executions' = executions
  <2> DEFINE l == [Ledger EXCEPT !.placements[p].asks = Append(@, kind)]
  <2>1. Enters(l)
    BY <1>12 DEF RequestPlacementChange
  <2>2. IsLedger(l) /\ l.executions = executions
    BY DEF IsLedger, Ledger
  <2> HIDE DEF l
  <2> QED
    BY <2>1, <2>2, EntryExecutions
<1> QED
  BY <1>5, <1>6, <1>7, <1>8, <1>9, <1>10, <1>11, <1>12 DEF Commands

LEMMA FlaggedStep ==
    ASSUME AreOrders(orders), AreExecutions(executions), [Next]_vars
    PROVE  AreExecutions(executions') /\ FillsFlagged
<1>1. 0 \notin Orders /\ Len(orders) + 1 \notin Orders /\ 0 \notin DOMAIN executions
  BY DEF AreOrders, AreExecutions, IsSeq, Orders
<1>2. CASE executions' = executions
  BY <1>2, SameExecutions
<1>3. ASSUME NEW S, NEW o \in Orders, AcceptExecutions(S, o)
      PROVE  AreExecutions(executions') /\ FillsFlagged
  <2>1. IsLedger(Ledger) /\ Enters(Accepted(Ledger, S, o)) /\ \A e \in S : Answerable(e)
    BY <1>3 DEF AcceptExecutions, IsLedger, Ledger
  <2>2. orders[o].ended = "no"
    BY <1>3, NowEnded DEF AcceptExecutions
  <2> QED
    BY <1>1, <2>1, <2>2, AcceptsFlagged
<1>4. ASSUME NEW S, AcceptToNewOrder(S)
      PROVE  AreExecutions(executions') /\ FillsFlagged
  <2> DEFINE total == Quantities(Ledger, S)
             l == With(Opens(NewOrder(0, total, "day", TRUE)))
  <2>1. Enters(Accepted(l, S, Len(orders) + 1)) /\ \A e \in S : Answerable(e)
    BY <1>4 DEF AcceptToNewOrder
  <2>2. IsLedger(l)
    BY LedgersOf
  <2> HIDE DEF l
  <2> QED
    BY <1>1, <2>1, <2>2, AcceptsFlagged
<1>5. ASSUME NEW e \in DOMAIN executions, DontKnow(e)
      PROVE  AreExecutions(executions') /\ FillsFlagged
  <2> DEFINE new == [executions[e] EXCEPT !.state = "dont_know"]
             es  == [executions EXCEPT ![e] = new]
             l   == [Ledger EXCEPT !.executions = es]
  <2>1. Enters(l) /\ executions[e].state = "unmatched"
    BY <1>5 DEF DontKnow, Answerable, Ledger
  <2>2. IsLedger(l) /\ l.executions = es
    BY DEF IsLedger, Ledger
  <2>3. IsExecution(executions[e])
    BY DEF AreExecutions
  <2>4. /\ IsExecution(new) /\ new.quantity = executions[e].quantity
        /\ new.order = executions[e].order
        /\ new.supersededBy = executions[e].supersededBy
    BY <2>3 DEF IsExecution
  <2> HIDE DEF new, l
  <2>5. executions' = es
    BY <2>1, <2>2, EntryExecutions
  <2>6. /\ es = [d \in DOMAIN executions |-> es[d]]
        /\ \A d \in DOMAIN executions : es[d] = IF d = e THEN new ELSE executions[d]
    OBVIOUS
  <2> HIDE DEF es
  <2>7. \A d \in DOMAIN executions :
          /\ \/ es[d] = executions[d]
             \/ /\ IsExecution(es[d]) /\ executions[d].state = "unmatched"
                /\ es[d].quantity = executions[d].quantity
          /\ es[d].order \in {executions[d].order, 0}
          /\ es[d].supersededBy = executions[d].supersededBy
    BY <2>1, <2>4, <2>6
  <2>8. /\ AreExecutions(executions')
        /\ \A a : a # 0 /\ a # 0 => Fills(Ledger, a) = Fills(Ledger', a)
    BY <2>5, <2>6, <2>7, Answers
  <2> QED
    BY <1>1, <2>8 DEF FillsFlagged
<1>6. CASE Facts
  <2>1. ASSUME NEW p, NEW event, NEW quantity, ReportPlacement(p, event, quantity)
        PROVE  executions' = executions
    <3> DEFINE after == [Ledger EXCEPT !.placements[p] = Reported(@, event, quantity)]
               o == placements[p].order
               past  == event = "restated" /\ quantity > orders[o].quantity
               flagged == [orders[o] EXCEPT !.lateFact = @ \/ past]
               r == IF EndsUnfilled(after, p, event) THEN End(flagged, "cancelled") ELSE flagged
               l == [after EXCEPT !.orders[o] = r]
    <3>1. Enters(l)
      BY <2>1 DEF ReportPlacement
    <3>2. IsLedger(after) /\ after.executions = executions
      BY DEF IsLedger, Ledger
    <3> HIDE DEF after, r, o
    <3>3. IsLedger(l) /\ l.executions = after.executions
      BY <3>2, OneOf
    <3> HIDE DEF l
    <3> QED
      BY <3>1, <3>2, <3>3, EntryExecutions
  <2>2. ASSUME NEW x, ReportExecution(x), x.supersedes = 0
        PROVE  AreExecutions(executions') /\ FillsFlagged
    BY <1>1, <2>2, ReportsFlagged
  <2>3. ASSUME NEW quantity, \/ FillUnplaced(quantity) \/ \E p : Fill(p, quantity)
                             \/ \E o : FillAway(o, quantity)
        PROVE  AreExecutions(executions') /\ FillsFlagged
    BY <2>2, <2>3 DEF FillUnplaced, Fill, FillAway, Fact
  <2>4. ASSUME NEW e \in DOMAIN executions, NEW quantity, Supersede(e, quantity)
        PROVE  AreExecutions(executions') /\ FillsFlagged
    <3> DEFINE x == Fact(NewFact, executions[e].placement, executions[e].order, quantity, e)
    <3>1. ReportExecution(x) /\ x.supersedes = e /\ x.order = executions[e].order
      BY <2>4 DEF Supersede, Fact
    <3> HIDE DEF x
    <3> QED
      BY <3>1, ReportsFlagged
  <2>5. ASSUME NEW e \in DOMAIN executions, Resend(e)
        PROVE  executions' = executions
    BY <2>5 DEF Resend, ReportExecution, Seen, Fact, vars
  <2> QED
    BY <1>2, <1>6, <2>1, <2>3, <2>4, <2>5 DEF Facts
<1>7. CASE Clock
  <2>1. PICK o \in Orders : ExpireOrder(o)
    BY <1>7 DEF Clock
  <2> DEFINE os == [orders EXCEPT ![o] = End(@, "expired")]
  <2>2. Enters(With(os)) \/ Enters(CancelParts(o, "expired", FALSE))
    BY <2>1 DEF ExpireOrder
  <2>3. /\ IsLedger(With(os)) /\ With(os).executions = executions
        /\ IsLedger(CancelParts(o, "expired", FALSE))
        /\ CancelParts(o, "expired", FALSE).executions = executions
    BY DEF CancelParts, With, Ledger, IsLedger
  <2> QED
    BY <1>2, <2>2, <2>3, EntryExecutions
<1>8. CASE UNCHANGED vars
  BY <1>2, <1>8 DEF vars
<1> QED
  BY <1>2, <1>3, <1>4, <1>5, <1>6, <1>7, <1>8, CommandExecutions DEF Next

\* What is filled on an order itself is its fills', whatever they sum to.
LEMMA FilledByFills ==
    ASSUME FillsFlagged
    PROVE  \A o \in Orders :
              /\ orders[o].ended # "no"
              /\ OwnFilled(Ledger, o) # OwnFilled(Ledger', o)
              => orders'[o].lateFact
<1>1. ASSUME NEW o, Fills(Ledger, o) = Fills(Ledger', o)
      PROVE  OwnFilled(Ledger, o) = OwnFilled(Ledger', o)
  BY <1>1, Zenon DEF OwnFilled
<1> QED
  BY <1>1 DEF FillsFlagged

(***************************************************************************)
(* What a fact changes of an order that has ended is flagged on the order  *)
(* it names: no fill, bust or correction moves it in silence.              *)
(***************************************************************************)
THEOREM LateFillsFlagged == Spec => LateIsFlagged
<1> DEFINE Inv == AreOrders(orders) /\ AreExecutions(executions)
           Flagged == \A o \in Orders :
              /\ orders[o].ended # "no"
              /\ OwnFilled(Ledger, o) # OwnFilled(Ledger', o)
              => orders'[o].lateFact
<1>1. Init => Inv
  BY DEF Init, AreOrders, AreExecutions, IsSeq
<1>2. Inv /\ [Next]_vars => Inv' /\ [Flagged]_vars
  <2>1. Inv' <=> AreOrders(orders') /\ AreExecutions(executions')
    BY DEF AreOrders, AreExecutions, IsSeq
  <2> QED
    BY <2>1, OrdersStep, FlaggedStep, FilledByFills
<1> HIDE DEF Inv
<1>3. Spec => [][Flagged]_vars
  BY <1>1, <1>2, PTL DEF Spec
<1> QED
  BY <1>3 DEF LateIsFlagged

-----------------------------------------------------------------------------
(* The types of a ledger.                                                  *)

ExecutionType ==
    [fact : Nat, order : Nat, placement : Nat, quantity : Nat, supersedes : Nat,
     supersededBy : Nat, state : {"unmatched", "matched", "dont_know"}, moved : Int]

OrdersOK(os) == os \in Seq(OrderType) /\ \A o \in DOMAIN os : os[o].parent < o

PlacementsOK(ps, os) ==
    ps \in Seq(PlacementType) /\ \A p \in DOMAIN ps : ps[p].order \in DOMAIN os

\* Facts are numbered as they are first told, and each knows what it
\* supersedes and whether it was superseded.
ExecutionsOK(es) ==
    /\ es \in Seq(ExecutionType)
    /\ \A e \in DOMAIN es :
          /\ es[e].fact = e /\ es[e].supersedes < e /\ es[e].supersededBy <= Len(es)
          /\ es[e].state = "matched" <=> es[e].order # 0
          /\ es[e].supersededBy = 0 <=> \A d \in DOMAIN es : es[d].supersedes # e

\* An execution's placement is one of the order it is on.
LinksOK(es, ps, os) ==
    \A e \in DOMAIN es :
        /\ es[e].order \in DOMAIN os \union {0}
        /\ es[e].placement \in DOMAIN ps \union {0}
        /\ es[e].placement # 0 => ps[es[e].placement].order = es[e].order

Typed(l) ==
    /\ {"orders", "placements", "executions"} \subseteq DOMAIN l
    /\ OrdersOK(l.orders) /\ PlacementsOK(l.placements, l.orders)
    /\ ExecutionsOK(l.executions) /\ LinksOK(l.executions, l.placements, l.orders)

LEMMA OrderFields ==
    ASSUME NEW r \in OrderType
    PROVE  /\ \A v \in BOOLEAN : /\ [r EXCEPT !.released = v] \in OrderType
                                 /\ [r EXCEPT !.cancelAsked = v] \in OrderType
                                 /\ [r EXCEPT !.lateFact = v] \in OrderType
           /\ \A v \in Nat : [r EXCEPT !.quantity = v] \in OrderType
           /\ \A v \in Tifs \union {"day"} : [r EXCEPT !.tif = v] \in OrderType
           /\ \A v \in {"cancelled", "expired"} :
                 /\ End(r, v) \in OrderType
                 /\ \A b \in BOOLEAN : [r EXCEPT !.ending = v, !.cancelAsked = b] \in OrderType
BY DEF OrderType, End, Ended

LEMMA OrdersEach ==
    ASSUME NEW os, OrdersOK(os), NEW new, new = [o \in DOMAIN os |-> new[o]],
           \A o \in DOMAIN os : new[o] \in OrderType /\ new[o].parent = os[o].parent
    PROVE  OrdersOK(new) /\ DOMAIN new = DOMAIN os /\ Len(new) = Len(os)
<1>1. os \in Seq(OrderType) /\ DOMAIN os = 1 .. Len(os) /\ Len(os) \in Nat
  BY DEF OrdersOK
<1>2. new \in [1 .. Len(os) -> OrderType]
  BY <1>1
<1>3. new \in Seq(OrderType) /\ Len(new) = Len(os)
  BY <1>1, <1>2
<1> QED
  BY <1>1, <1>3 DEF OrdersOK

LEMMA OrdersOne ==
    ASSUME NEW os, OrdersOK(os), NEW o,
           NEW r, o \in DOMAIN os => r \in OrderType /\ r.parent = os[o].parent
    PROVE  /\ OrdersOK([os EXCEPT ![o] = r]) /\ DOMAIN [os EXCEPT ![o] = r] = DOMAIN os
<1> DEFINE new == [os EXCEPT ![o] = r]
<1>1. new = [a \in DOMAIN os |-> new[a]]
  OBVIOUS
<1>2. \A a \in DOMAIN os : new[a] = IF a = o THEN r ELSE os[a]
  OBVIOUS
<1>3. \A a \in DOMAIN os : os[a] \in OrderType
  BY DEF OrdersOK
<1> HIDE DEF new
<1>4. \A a \in DOMAIN os : new[a] \in OrderType /\ new[a].parent = os[a].parent
  BY <1>2, <1>3
<1>5. OrdersOK(new) /\ DOMAIN new = DOMAIN os
  BY <1>1, <1>4, OrdersEach
<1> QED
  BY <1>5 DEF new

LEMMA OrdersOpened ==
    ASSUME NEW os, OrdersOK(os), NEW r \in OrderType, r.parent <= Len(os)
    PROVE  /\ OrdersOK(Append(os, r)) /\ DOMAIN Append(os, r) = DOMAIN os \union {Len(os) + 1}
           /\ Append(os, r)[Len(os) + 1] = r
           /\ \A o \in DOMAIN os : Append(os, r)[o] = os[o]
<1>1. os \in Seq(OrderType) /\ Len(os) \in Nat /\ \A o \in DOMAIN os : os[o].parent < o
  BY DEF OrdersOK
<1>2. /\ Append(os, r) \in Seq(OrderType) /\ Len(Append(os, r)) = Len(os) + 1
      /\ DOMAIN os = 1 .. Len(os) /\ DOMAIN Append(os, r) = 1 .. Len(os) + 1
      /\ \A o \in 1 .. Len(os) : Append(os, r)[o] = os[o]
      /\ Append(os, r)[Len(os) + 1] = r
  BY <1>1
<1>3. r.parent \in Nat
  BY DEF OrderType
<1>4. \A o \in DOMAIN Append(os, r) : Append(os, r)[o].parent < o
  BY <1>1, <1>2, <1>3
<1> QED
  BY <1>1, <1>2, <1>4 DEF OrdersOK

\* Settling changes of an order only how it ends.
LEMMA SettledOrders ==
    ASSUME NEW l, Typed(l)
    PROVE  LET os == Settle(l).orders
           IN  /\ OrdersOK(os) /\ DOMAIN os = DOMAIN l.orders
               /\ Settle(l).placements = l.placements /\ Settle(l).executions = l.executions
               /\ \A o \in DOMAIN l.orders :
                     /\ os[o].parent = l.orders[o].parent
                     /\ os[o].quantity = l.orders[o].quantity
                     /\ IF o \in Ends(l) THEN os[o].ended # "no" ELSE os[o] = l.orders[o]
<1> DEFINE asked(o) == [l.orders[o] EXCEPT !.cancelAsked =
                           l.orders[o].cancelAsked /\ l.orders[o].ending # "cancelled"]
           new == [o \in DOMAIN l.orders |->
                     IF o \notin Ends(l) THEN l.orders[o]
                     ELSE End(asked(o), l.orders[o].ending)]
<1>1. /\ Settle(l).orders = new
      /\ Settle(l).placements = l.placements /\ Settle(l).executions = l.executions
  BY DEF Settle, Typed
<1>2. \A o \in Ends(l) : l.orders[o].ending # "no"
  BY DEF Ends
<1>3. ASSUME NEW o \in DOMAIN l.orders
      PROVE  /\ new[o] \in OrderType /\ new[o].parent = l.orders[o].parent
             /\ new[o].quantity = l.orders[o].quantity
             /\ IF o \in Ends(l) THEN new[o].ended # "no" ELSE new[o] = l.orders[o]
  <2> DEFINE r == l.orders[o]
  <2>1. r \in OrderType
    BY DEF Typed, OrdersOK
  <2>2. CASE o \notin Ends(l)
    BY <2>1, <2>2
  <2>3. CASE o \in Ends(l)
    <3>1. r.ending \in {"cancelled", "expired"}
      BY <1>2, <2>1, <2>3 DEF OrderType
    <3>2. asked(o) \in OrderType /\ asked(o).parent = r.parent /\ asked(o).quantity = r.quantity
      BY <2>1 DEF OrderType
    <3>3. new[o] = End(asked(o), r.ending)
      BY <2>3
    <3> HIDE DEF asked, new, r
    <3>4. /\ End(asked(o), r.ending) \in OrderType
          /\ End(asked(o), r.ending).parent = asked(o).parent
          /\ End(asked(o), r.ending).quantity = asked(o).quantity
          /\ End(asked(o), r.ending).ended = r.ending
      BY <3>1, <3>2 DEF OrderType, End, Ended
    <3> QED
      BY <2>3, <3>1, <3>2, <3>3, <3>4 DEF r
  <2> QED
    BY <2>2, <2>3
<1>4. new = [o \in DOMAIN l.orders |-> new[o]]
  OBVIOUS
<1> HIDE DEF new
<1>5. OrdersOK(new) /\ DOMAIN new = DOMAIN l.orders
  BY <1>3, <1>4, OrdersEach DEF Typed
<1> QED
  BY <1>1, <1>3, <1>5

\* An entry of a well-typed ledger leaves one.
LEMMA EntryTyped ==
    ASSUME NEW l, Typed(l), Enters(l) \/ \E o, rows : Commits(l, o, rows)
    PROVE  Typed(Ledger')
<1>1. /\ orders' = Settle(l).orders /\ placements' = Settle(l).placements
      /\ executions' = Settle(l).executions
  BY DEF Enters, Commits, Becomes
<1>2. /\ OrdersOK(orders') /\ DOMAIN orders' = DOMAIN l.orders
      /\ placements' = l.placements /\ executions' = l.executions
  BY <1>1, SettledOrders
<1>3. /\ Ledger'.orders = orders' /\ Ledger'.placements = placements'
      /\ Ledger'.executions = executions'
      /\ {"orders", "placements", "executions"} \subseteq DOMAIN Ledger'
  BY DEF Ledger
<1>4. PlacementsOK(placements', orders') /\ LinksOK(executions', placements', orders')
  BY <1>2 DEF Typed, PlacementsOK, LinksOK
<1> QED
  BY <1>2, <1>3, <1>4 DEF Typed

-----------------------------------------------------------------------------
(* What is filled is a number.                                             *)

LEMMA QuantitiesNat ==
    ASSUME NEW l, ExecutionsOK(l.executions), NEW S \in SUBSET DOMAIN l.executions
    PROVE  Quantities(l, S) \in Nat
<1> DEFINE f == [e \in S |-> l.executions[e].quantity]
<1>1. IsFiniteSet(S)
  <2>1. DOMAIN l.executions = 1 .. Len(l.executions) /\ Len(l.executions) \in Nat
    BY DEF ExecutionsOK
  <2>2. IsFiniteSet(1 .. Len(l.executions))
    BY <2>1, FS_Interval
  <2> QED
    BY <2>1, <2>2, FS_Subset
<1>2. \A e \in S : f[e] \in Nat
  <2>1. \A e \in DOMAIN l.executions : l.executions[e] \in ExecutionType
    BY DEF ExecutionsOK
  <2>2. \A r \in ExecutionType : r.quantity \in Nat
    BY DEF ExecutionType
  <2> QED
    BY <2>1, <2>2
<1>3. Quantities(l, S) = SumFunctionOnSet(f, S)
  BY DEF Quantities, SumFunction
<1> HIDE DEF f
<1> QED
  BY <1>1, <1>2, <1>3, SumNat

\* The sum up the chain is what its recursion says, where a parent is
\* numbered before its children.
LEMMA UpTheChainIs ==
    ASSUME NEW n \in Nat, NEW own, DOMAIN own = 1 .. n,
           NEW parent, \A c \in 1 .. n : parent[c] < c
    PROVE  UpTheChain(own, parent) = [o \in 1 .. n |->
               own[o] + SumFunctionOnSet(UpTheChain(own, parent),
                                         {c \in 1 .. n : parent[c] = o})]
<1> DEFINE kids == [o \in 1 .. n |-> {c \in 1 .. n : parent[c] = o}]
           Solves(sum) == sum = [o \in 1 .. n |->
               own[o] + SumFunctionOnSet(sum, {c \in 1 .. n : parent[c] = o})]
<1>1. \A o \in 1 .. n : kids[o] \subseteq o + 1 .. n
  OBVIOUS
<1>3. PICK sum : SumsUp(sum, n, own, kids)
  <2> HIDE DEF kids
  <2> QED
    BY <1>1, SumsUpExist
<1>4. Solves(sum)
  BY <1>3 DEF SumsUp
<1>5. UpTheChain(own, parent) = CHOOSE s : Solves(s)
  BY Zenon DEF UpTheChain
<1>6. Solves(UpTheChain(own, parent))
  <2> HIDE DEF Solves
  <2> QED
    BY <1>4, <1>5
<1> QED
  BY <1>6

LEMMA UpTheChainNat ==
    ASSUME NEW n \in Nat, NEW own \in [1 .. n -> Nat],
           NEW parent, \A c \in 1 .. n : parent[c] < c
    PROVE  UpTheChain(own, parent) \in [1 .. n -> Nat]
<1> DEFINE sum     == UpTheChain(own, parent)
           kids(o) == {c \in 1 .. n : parent[c] = o}
           Bad     == {k \in 0 .. n - 1 : sum[n - k] \notin Nat}
<1>1. sum = [o \in 1 .. n |-> own[o] + SumFunctionOnSet(sum, kids(o))]
  BY UpTheChainIs
<1> HIDE DEF sum
<1>2. ASSUME NEW k \in Bad, \A m \in Bad : k <= m
      PROVE  FALSE
  <2> DEFINE o == n - k
  <2>1. o \in 1 .. n /\ sum[o] \notin Nat
    OBVIOUS
  <2>2. ASSUME NEW c \in kids(o)
        PROVE  sum[c] \in Nat
    <3>1. n - c \in 0 .. n - 1 /\ ~ (k <= n - c) /\ n - (n - c) = c
      BY <2>1
    <3> QED
      BY <1>2, <3>1
  <2>3. IsFiniteSet(kids(o))
    BY FS_Interval, FS_Subset
  <2>4. SumFunctionOnSet(sum, kids(o)) \in Nat
    <3> HIDE DEF kids
    <3> QED
      BY <2>2, <2>3, SumNat
  <2> DEFINE kidsum == SumFunctionOnSet(sum, kids(o))
  <2>5. sum[o] = own[o] + kidsum
    <3> HIDE DEF kids, o
    <3> QED
      BY <1>1, <2>1
  <2> HIDE DEF kidsum, o
  <2>6. own[o] \in Nat
    BY <2>1
  <2> QED
    BY <2>1, <2>4, <2>5, <2>6 DEF kidsum
<1>3. Bad = {}
  <2>1. Bad \in SUBSET Nat
    OBVIOUS
  <2> HIDE DEF Bad
  <2> QED
    BY <1>2, <2>1, LeastNumber
<1>4. ASSUME NEW o \in 1 .. n
      PROVE  sum[o] \in Nat
  <2>1. n - o \in 0 .. n - 1 /\ n - (n - o) = o
    OBVIOUS
  <2> QED
    BY <1>3, <2>1
<1> QED
  BY <1>1, <1>4 DEF sum

LEMMA FilledNat ==
    ASSUME NEW l, Typed(l)
    PROVE  Filled(l) \in [DOMAIN l.orders -> Nat]
<1> DEFINE n   == Len(l.orders)
           own == [o \in DOMAIN l.orders |-> OwnFilled(l, o)]
<1>1. n \in Nat /\ DOMAIN l.orders = 1 .. n
  BY DEF Typed, OrdersOK
<1>2. \A o : OwnFilled(l, o) \in Nat
  <2>1. ASSUME NEW o
        PROVE  OwnFilled(l, o) \in Nat
    <3> DEFINE S == {d \in Standing(l) : l.executions[d].order = o}
    <3>1. OwnFilled(l, o) = Quantities(l, S)
      BY DEF OwnFilled, Fills, Quantities
    <3>2. S \in SUBSET DOMAIN l.executions
      BY DEF Standing
    <3> QED
      BY <3>1, <3>2, QuantitiesNat DEF Typed
  <2> QED
    BY <2>1
<1>3. own \in [1 .. n -> Nat]
  BY <1>1, <1>2
<1>4. \A c \in 1 .. n : Parents(l)[c] < c
  BY <1>1 DEF Parents, Typed, OrdersOK
<1>5. Filled(l) = UpTheChain(own, Parents(l))
  BY DEF Filled
<1> HIDE DEF n, own
<1> QED
  BY <1>1, <1>3, <1>4, <1>5, UpTheChainNat

-----------------------------------------------------------------------------
(* The ledger of each entry is well typed.                                 *)

LEMMA TypedIs ==
    Typed(Ledger) <=>
        /\ OrdersOK(orders) /\ PlacementsOK(placements, orders)
        /\ ExecutionsOK(executions) /\ LinksOK(executions, placements, orders)
BY DEF Typed, Ledger

\* A ledger with these parts.
LEMMA TypedOf ==
    ASSUME NEW l, {"orders", "placements", "executions"} \subseteq DOMAIN l,
           NEW os, NEW ps, NEW es, l.orders = os, l.placements = ps, l.executions = es,
           OrdersOK(os), PlacementsOK(ps, os), ExecutionsOK(es), LinksOK(es, ps, os)
    PROVE  Typed(l)
BY DEF Typed

\* More orders hold the same placements and executions.
LEMMA MoreOrders ==
    ASSUME NEW os, NEW ps, NEW es, NEW new, DOMAIN os \subseteq DOMAIN new,
           PlacementsOK(ps, os), LinksOK(es, ps, os)
    PROVE  PlacementsOK(ps, new) /\ LinksOK(es, ps, new)
BY DEF PlacementsOK, LinksOK

LEMMA PlacementsEach ==
    ASSUME NEW os, NEW ps, PlacementsOK(ps, os), NEW new, new = [p \in DOMAIN ps |-> new[p]],
           \A p \in DOMAIN ps : new[p] \in PlacementType /\ new[p].order = ps[p].order,
           NEW es, LinksOK(es, ps, os)
    PROVE  PlacementsOK(new, os) /\ LinksOK(es, new, os)
<1>1. ps \in Seq(PlacementType) /\ DOMAIN ps = 1 .. Len(ps) /\ Len(ps) \in Nat
  BY DEF PlacementsOK
<1>2. new \in [1 .. Len(ps) -> PlacementType]
  BY <1>1
<1>3. new \in Seq(PlacementType) /\ DOMAIN new = DOMAIN ps
  BY <1>1, <1>2
<1>4. PlacementsOK(new, os)
  BY <1>3 DEF PlacementsOK
<1>5. LinksOK(es, new, os)
  BY <1>3 DEF LinksOK
<1> QED
  BY <1>4, <1>5

LEMMA PlacementsOpened ==
    ASSUME NEW os, NEW ps, PlacementsOK(ps, os), NEW es, LinksOK(es, ps, os),
           NEW r \in PlacementType, r.order \in DOMAIN os
    PROVE  /\ PlacementsOK(Append(ps, r), os) /\ LinksOK(es, Append(ps, r), os)
           /\ Len(ps) + 1 \in DOMAIN Append(ps, r) /\ Append(ps, r)[Len(ps) + 1] = r
<1>1. ps \in Seq(PlacementType) /\ DOMAIN ps = 1 .. Len(ps) /\ Len(ps) \in Nat
      /\ \A p \in DOMAIN ps : ps[p].order \in DOMAIN os
  BY DEF PlacementsOK
<1> DEFINE new == Append(ps, r)
<1>2. /\ new \in Seq(PlacementType) /\ DOMAIN new = 1 .. Len(ps) + 1
      /\ \A p \in 1 .. Len(ps) : new[p] = ps[p]
      /\ new[Len(ps) + 1] = r
  BY <1>1
<1> HIDE DEF new
<1>3. PlacementsOK(new, os)
  <2>1. \A p \in DOMAIN new : p \in 1 .. Len(ps) \/ p = Len(ps) + 1
    BY <1>1, <1>2
  <2> QED
    BY <1>1, <1>2, <2>1 DEF PlacementsOK
<1>4. LinksOK(es, new, os)
  <2>1. \A p \in DOMAIN ps : p \in DOMAIN new /\ new[p] = ps[p]
    BY <1>1, <1>2
  <2>2. 0 \notin DOMAIN ps
    BY <1>1
  <2> QED
    BY <2>1, <2>2 DEF LinksOK
<1> QED
  BY <1>1, <1>2, <1>3, <1>4 DEF new

LEMMA NewOrderType ==
    ASSUME NEW parent \in Nat, NEW quantity \in Nat, NEW tif \in Tifs \union {"day"},
           NEW released \in BOOLEAN
    PROVE  /\ NewOrder(parent, quantity, tif, released) \in OrderType
           /\ NewOrder(parent, quantity, tif, released).parent = parent
           /\ NewOrder(parent, quantity, tif, released).tif = tif
BY DEF NewOrder, OrderType

LEMMA NewPlacementType ==
    ASSUME NEW o \in Nat, NEW quantity \in Nat, NEW tif \in Tifs \union {"day"}
    PROVE  /\ NewPlacement(o, quantity, tif) \in PlacementType
           /\ NewPlacement(o, quantity, tif).order = o
<1>1. <<>> \in Seq({"cancel", "replace"})
  OBVIOUS
<1> QED
  BY <1>1 DEF NewPlacement, PlacementType, LivePlacementStates

\* Changed orders, with the placements and executions there are.
LEMMA WithTyped ==
    ASSUME Typed(Ledger), NEW os, OrdersOK(os), DOMAIN orders \subseteq DOMAIN os
    PROVE  Typed(With(os))
<1>1. /\ {"orders", "placements", "executions"} \subseteq DOMAIN With(os)
      /\ With(os).orders = os /\ With(os).placements = placements
      /\ With(os).executions = executions
  BY DEF With, Ledger
<1>2. PlacementsOK(placements, os) /\ LinksOK(executions, placements, os)
  BY TypedIs, MoreOrders
<1> QED
  BY <1>1, <1>2, TypedIs, TypedOf

LEMMA OneTyped ==
    ASSUME Typed(Ledger), NEW o,
           NEW r, o \in Orders => r \in OrderType /\ r.parent = orders[o].parent
    PROVE  Typed(With([orders EXCEPT ![o] = r]))
<1>1. /\ OrdersOK([orders EXCEPT ![o] = r])
      /\ DOMAIN [orders EXCEPT ![o] = r] = DOMAIN orders
  BY TypedIs, OrdersOne DEF Orders
<1> QED
  BY <1>1, WithTyped

LEMMA OpenTyped ==
    ASSUME Typed(Ledger), NEW parent \in {0} \union Orders, NEW quantity \in Nat,
           NEW tif \in Tifs \union {"day"}, NEW released \in BOOLEAN
    PROVE  Typed(With(Opens(NewOrder(parent, quantity, tif, released))))
<1> DEFINE r == NewOrder(parent, quantity, tif, released)
<1>1. parent \in Nat /\ parent <= Len(orders)
  BY TypedIs DEF OrdersOK, Orders
<1>2. r \in OrderType /\ r.parent = parent
  BY <1>1, NewOrderType
<1> HIDE DEF r
<1>3. OrdersOK(Append(orders, r)) /\ DOMAIN orders \subseteq DOMAIN Append(orders, r)
  BY <1>1, <1>2, TypedIs, OrdersOpened
<1>4. Typed(With(Append(orders, r)))
  BY <1>3, WithTyped
<1> QED
  BY <1>4 DEF r, Opens

\* The orders and placements one by one.
LEMMA EachTyped ==
    ASSUME Typed(Ledger)
    PROVE  /\ \A o \in Orders : orders[o] \in OrderType
           /\ \A p \in DOMAIN placements :
                 /\ placements[p] \in PlacementType
                 /\ placements[p].order \in Orders
           /\ \A e \in DOMAIN executions :
                 /\ executions[e] \in ExecutionType
                 /\ executions[e].order \in Orders \union {0}
           /\ DOMAIN orders = 1 .. Len(orders) /\ Len(orders) \in Nat
           /\ DOMAIN executions = 1 .. Len(executions) /\ Len(executions) \in Nat
           /\ Orders \subseteq Nat \ {0}
<1>1. /\ OrdersOK(orders) /\ PlacementsOK(placements, orders)
      /\ ExecutionsOK(executions) /\ LinksOK(executions, placements, orders)
  BY TypedIs
<1>2. \A o \in Orders : orders[o] \in OrderType
  BY <1>1 DEF OrdersOK, Orders
<1>3. \A p \in DOMAIN placements :
        placements[p] \in PlacementType /\ placements[p].order \in Orders
  BY <1>1 DEF PlacementsOK, Orders
<1>4. \A e \in DOMAIN executions :
        executions[e] \in ExecutionType /\ executions[e].order \in Orders \union {0}
  BY <1>1 DEF ExecutionsOK, LinksOK, Orders
<1>5. DOMAIN orders = 1 .. Len(orders) /\ Len(orders) \in Nat
  BY <1>1 DEF OrdersOK
<1>6. DOMAIN executions = 1 .. Len(executions) /\ Len(executions) \in Nat
  BY <1>1 DEF ExecutionsOK
<1> QED
  BY <1>2, <1>3, <1>4, <1>5, <1>6 DEF Orders

LEMMA AsksFields ==
    ASSUME NEW r \in PlacementType, NEW kind \in {"cancel", "replace"}
    PROVE  /\ [r EXCEPT !.asks = Append(@, kind)] \in PlacementType
           /\ [r EXCEPT !.asks = Append(@, kind)].order = r.order
<1>1. r.asks \in Seq({"cancel", "replace"})
  BY DEF PlacementType
<1>2. Append(r.asks, kind) \in Seq({"cancel", "replace"})
  BY <1>1
<1> QED
  BY <1>2 DEF PlacementType

\* Changed orders and placements, with the executions there are.
LEMMA BothTyped ==
    ASSUME Typed(Ledger), NEW os, OrdersOK(os), DOMAIN orders = DOMAIN os,
           NEW ps, ps = [p \in DOMAIN placements |-> ps[p]],
           \A p \in DOMAIN placements :
              ps[p] \in PlacementType /\ ps[p].order = placements[p].order,
           NEW l, {"orders", "placements", "executions"} \subseteq DOMAIN l,
           l.orders = os, l.placements = ps, l.executions = executions
    PROVE  Typed(l)
<1>1. PlacementsOK(ps, orders) /\ LinksOK(executions, ps, orders)
  BY TypedIs, PlacementsEach
<1>2. PlacementsOK(ps, os) /\ LinksOK(executions, ps, os)
  BY <1>1, MoreOrders
<1> QED
  BY <1>2, TypedIs, TypedOf

LEMMA CancelTyped ==
    ASSUME Typed(Ledger), NEW o, NEW as \in {"cancelled", "expired"}, NEW asked \in BOOLEAN
    PROVE  Typed(CancelParts(o, as, asked))
<1> DEFINE below == LiveBelow(o)
           parts == UNION {LivePlacements(Ledger, a) : a \in below \union {o}}
           os == [a \in Orders |->
                IF a \in below
                THEN [orders[a] EXCEPT !.ending = as, !.cancelAsked = TRUE]
                ELSE IF a = o
                THEN [orders[a] EXCEPT !.ending = as, !.cancelAsked = @ \/ asked]
                ELSE orders[a]]
           ps == [p \in DOMAIN placements |->
                IF p \in parts /\ "cancel" \notin Range(placements[p].asks)
                THEN [placements[p] EXCEPT !.asks = Append(@, "cancel")]
                ELSE placements[p]]
<1>1. LET l == CancelParts(o, as, asked)
      IN  /\ {"orders", "placements", "executions"} \subseteq DOMAIN l
          /\ l.orders = os /\ l.placements = ps /\ l.executions = executions
  BY DEF CancelParts, Ledger
<1>2. ASSUME NEW r \in OrderType, NEW v \in BOOLEAN
      PROVE  /\ [r EXCEPT !.ending = as, !.cancelAsked = v] \in OrderType
             /\ [r EXCEPT !.ending = as, !.cancelAsked = v].parent = r.parent
  BY <1>2 DEF OrderType
<1>3. \A a \in Orders : orders[a] \in OrderType /\ orders[a].cancelAsked \in BOOLEAN
  BY EachTyped DEF OrderType
<1>4. \A a \in Orders : os[a] \in OrderType /\ os[a].parent = orders[a].parent
  BY <1>2, <1>3
<1>5. os = [a \in DOMAIN orders |-> os[a]]
  BY DEF Orders
<1>6. \A p \in DOMAIN placements :
        ps[p] \in PlacementType /\ ps[p].order = placements[p].order
  BY EachTyped, AsksFields
<1>7. ps = [p \in DOMAIN placements |-> ps[p]]
  OBVIOUS
<1> HIDE DEF os, ps
<1>8. OrdersOK(os) /\ DOMAIN os = DOMAIN orders
  BY <1>4, <1>5, TypedIs, OrdersEach DEF Orders
<1> QED
  BY <1>1, <1>6, <1>7, <1>8, BothTyped

\* A cancel pending is a change pending.
LEMMA CancelsType ==
    ASSUME NEW asks \in Seq({"cancel", "replace"})
    PROVE  Cancels(asks) \in Seq({"cancel", "replace"})
<1> DEFINE S == {j \in DOMAIN asks : asks[j] = "cancel"}
           k == Cardinality(S)
<1>1. IsFiniteSet(S)
  <2>1. DOMAIN asks = 1 .. Len(asks) /\ Len(asks) \in Nat
    OBVIOUS
  <2>2. IsFiniteSet(1 .. Len(asks))
    BY <2>1, FS_Interval
  <2> QED
    BY <2>1, <2>2, FS_Subset
<1>2. k \in Nat
  BY <1>1, FS_CardinalityType
<1>3. Cancels(asks) = [i \in 1 .. k |-> "cancel"]
  BY DEF Cancels
<1> HIDE DEF k
<1> QED
  BY <1>2, <1>3

LEMMA FrontType ==
    ASSUME NEW S, NEW s \in Seq(S), s # <<>>
    PROVE  Front(s) \in Seq(S)
<1>1. Len(s) \in Nat /\ Len(s) # 0 /\ DOMAIN s = 1 .. Len(s) /\ \A i \in 1 .. Len(s) : s[i] \in S
  OBVIOUS
<1>2. Front(s) = [i \in 1 .. Len(s) - 1 |-> s[i]]
  BY <1>1 DEF Front
<1> DEFINE n == Len(s) - 1
           t == [i \in 1 .. n |-> s[i]]
<1>3. n \in Nat /\ \A i \in 1 .. n : s[i] \in S
  BY <1>1
<1> HIDE DEF n
<1>4. t \in Seq(S)
  BY <1>3
<1> QED
  BY <1>2, <1>4 DEF n

LEMMA PlacementFields ==
    ASSUME NEW r \in PlacementType
    PROVE  /\ \A v \in LivePlacementStates \union {"cancelled", "expired", "rejected"} :
                 /\ [r EXCEPT !.state = v] \in PlacementType
                 /\ [r EXCEPT !.state = v].order = r.order
           /\ \A v \in BOOLEAN : /\ [r EXCEPT !.unknown = v] \in PlacementType
                                 /\ [r EXCEPT !.unknown = v].order = r.order
           /\ \A v \in Nat : /\ [r EXCEPT !.quantity = v] \in PlacementType
                             /\ [r EXCEPT !.quantity = v].order = r.order
           /\ \A v \in Seq({"cancel", "replace"}) :
                 /\ [r EXCEPT !.asks = v] \in PlacementType
                 /\ [r EXCEPT !.asks = v].order = r.order
BY DEF PlacementType

LEMMA ReportedType ==
    ASSUME NEW r \in PlacementType, NEW quantity \in Nat,
           NEW event \in {"sent", "acknowledged", "replaced", "done_for_day", "restated",
                          "cancelled", "expired", "rejected", "unknown", "resolved"}
    PROVE  /\ Reported(r, event, quantity) \in PlacementType
           /\ Reported(r, event, quantity).order = r.order
<1> DEFINE States == LivePlacementStates \union {"cancelled", "expired", "rejected"}
           Good(x) == x \in PlacementType /\ x.order = r.order
           live == r.state \in LivePlacementStates
           moved(s) == [r EXCEPT !.state = s]
           stated(s) == [r EXCEPT !.state = IF live THEN s ELSE @]
           ended(s) == [r EXCEPT !.state = IF live THEN s ELSE @, !.asks = <<>>]
<1>1. /\ {"sent", "working", "done_for_day", "cancelled", "expired", "rejected"}
            \subseteq States
      /\ r.state \in States /\ r.asks \in Seq({"cancel", "replace"})
  BY DEF LivePlacementStates, PlacementType
<1>2. \A s \in States : Good(moved(s))
  BY PlacementFields
<1>3. <<>> \in Seq({"cancel", "replace"})
  OBVIOUS
<1>4. ASSUME NEW s \in States
      PROVE  Good(ended(s))
  <2> DEFINE v == IF live THEN s ELSE r.state
             m == [r EXCEPT !.state = v]
  <2>1. v \in States
    BY <1>1
  <2>2. Good(m)
    <3> HIDE DEF v
    <3> QED
      BY <2>1, PlacementFields
  <2>3. Good([m EXCEPT !.asks = <<>>])
    <3> HIDE DEF m
    <3> QED
      BY <1>3, <2>2, PlacementFields
  <2>4. ended(s) = [m EXCEPT !.asks = <<>>]
    OBVIOUS
  <2> QED
    BY <2>3, <2>4
<1>5. Good(r)
  OBVIOUS
<1>6. CASE event \in {"sent", "acknowledged", "done_for_day"}
  BY <1>1, <1>2, <1>5, <1>6 DEF Reported
<1>7. CASE event = "replaced"
  <2> DEFINE m == [r EXCEPT !.quantity = quantity]
  <2>1. Good(m)
    BY PlacementFields
  <2>2. Good([m EXCEPT !.asks = Cancels(r.asks)])
    <3> HIDE DEF m
    <3> QED
      BY <1>1, <2>1, CancelsType, PlacementFields
  <2>3. Reported(r, event, quantity) = [m EXCEPT !.asks = Cancels(r.asks)]
    BY <1>7 DEF Reported
  <2> QED
    BY <2>2, <2>3
<1>8. CASE event = "restated"
  <2> DEFINE m == [r EXCEPT !.quantity = quantity]
             v == IF r.state = "done_for_day" THEN "working" ELSE r.state
  <2>1. Good(m) /\ v \in States
    BY <1>1, PlacementFields
  <2>2. Good([m EXCEPT !.state = v])
    <3> HIDE DEF m, v
    <3> QED
      BY <2>1, PlacementFields
  <2>3. Reported(r, event, quantity) = [m EXCEPT !.state = v]
    BY <1>8 DEF Reported
  <2> QED
    BY <2>2, <2>3
<1>9. CASE event \in {"cancelled", "expired"}
  <2>1. Reported(r, event, quantity) = [ended(event) EXCEPT !.unknown = FALSE]
    BY <1>9 DEF Reported
  <2>2. Good(ended(event))
    BY <1>1, <1>4, <1>9
  <2> HIDE DEF ended
  <2>3. Good([ended(event) EXCEPT !.unknown = FALSE])
    BY <2>2, PlacementFields
  <2> QED
    BY <2>1, <2>3
<1>10. CASE event = "rejected"
  <2>1. r.asks # <<>> => Front(r.asks) \in Seq({"cancel", "replace"})
    BY <1>1, FrontType
  <2>2. r.asks # <<>> => Good([r EXCEPT !.asks = Front(r.asks)])
    BY <2>1, PlacementFields
  <2>3. Good(ended("rejected"))
    BY <1>1, <1>4
  <2>4. Reported(r, event, quantity) =
          IF r.state \in {"working", "done_for_day"} /\ r.asks # <<>>
          THEN [r EXCEPT !.asks = Front(r.asks)] ELSE ended("rejected")
    BY <1>10 DEF Reported
  <2> HIDE DEF ended
  <2> QED
    BY <2>2, <2>3, <2>4
<1>11. CASE event = "unknown"
  BY <1>11, PlacementFields DEF Reported
<1>12. CASE event = "resolved"
  BY <1>12, PlacementFields DEF Reported
<1> QED
  BY <1>6, <1>7, <1>8, <1>9, <1>10, <1>11, <1>12

-----------------------------------------------------------------------------
(* Executions.                                                             *)

\* An execution answered is of the same fact, superseded as it was.
LEMMA ExecutionsEach ==
    ASSUME NEW es, ExecutionsOK(es), NEW new, new = [e \in DOMAIN es |-> new[e]],
           \A e \in DOMAIN es :
              /\ new[e] \in ExecutionType
              /\ new[e].fact = es[e].fact /\ new[e].supersedes = es[e].supersedes
              /\ new[e].supersededBy = es[e].supersededBy
              /\ new[e].state = "matched" <=> new[e].order # 0
    PROVE  ExecutionsOK(new)
<1>1. es \in Seq(ExecutionType) /\ DOMAIN es = 1 .. Len(es) /\ Len(es) \in Nat
  BY DEF ExecutionsOK
<1>2. new \in [1 .. Len(es) -> ExecutionType]
  BY <1>1
<1>3. new \in Seq(ExecutionType) /\ DOMAIN new = DOMAIN es /\ Len(new) = Len(es)
  BY <1>1, <1>2
<1>4. ASSUME NEW e \in DOMAIN new
      PROVE  /\ new[e].fact = e /\ new[e].supersedes < e /\ new[e].supersededBy <= Len(new)
             /\ new[e].state = "matched" <=> new[e].order # 0
             /\ new[e].supersededBy = 0 <=> \A d \in DOMAIN new : new[d].supersedes # e
  <2>1. /\ es[e].fact = e /\ es[e].supersedes < e /\ es[e].supersededBy <= Len(es)
        /\ es[e].supersededBy = 0 <=> \A d \in DOMAIN es : es[d].supersedes # e
    BY <1>3 DEF ExecutionsOK
  <2>2. \A d \in DOMAIN new : new[d].supersedes = es[d].supersedes
    BY <1>3
  <2>3. (\A d \in DOMAIN new : new[d].supersedes # e) <=>
          \A d \in DOMAIN es : es[d].supersedes # e
    BY <1>3, <2>2
  <2> QED
    BY <1>3, <2>1, <2>3
<1> QED
  BY <1>3, <1>4 DEF ExecutionsOK

\* A fact reported is the last, and supersedes what none did.
LEMMA ExecutedOK ==
    ASSUME Typed(Ledger),
           NEW x, x.fact = NewFact, x.quantity \in Nat,
           x.supersedes \in Standing(Ledger) \union {0},
           x.order \in Orders \union {0}, x.placement \in DOMAIN placements \union {0},
           x.placement # 0 => placements[x.placement].order = x.order,
           NEW os, DOMAIN os = DOMAIN orders
    PROVE  ExecutionsOK(Executed(x)) /\ LinksOK(Executed(x), placements, os)
<1> DEFINE n == Len(executions)
           marked == [d \in DOMAIN executions |->
                      IF d = x.supersedes THEN [executions[d] EXCEPT !.supersededBy = n + 1]
                      ELSE executions[d]]
           r == [fact |-> x.fact, order |-> x.order, placement |-> x.placement,
                 quantity |-> x.quantity, supersedes |-> x.supersedes, supersededBy |-> 0,
                 state |-> IF x.order # 0 THEN "matched" ELSE "unmatched",
                 moved |-> IF x.order # 0 THEN Reversed(x.supersedes) + x.quantity ELSE 0]
           new == Append(marked, r)
<1>1. /\ executions \in Seq(ExecutionType) /\ DOMAIN executions = 1 .. n /\ n \in Nat
      /\ ExecutionsOK(executions) /\ LinksOK(executions, placements, orders)
  BY TypedIs DEF ExecutionsOK
<1>2. Executed(x) = new
  BY DEF Executed
<1>3. /\ x.fact = n + 1 /\ x.supersedes \in 0 .. n
      /\ x.supersedes # 0 => executions[x.supersedes].supersededBy = 0
  BY <1>1 DEF NewFact, Standing, Ledger
<1>4. Reversed(x.supersedes) \in Int
  <2>1. x.supersedes # 0 => executions[x.supersedes].moved \in Int
    <3>1. x.supersedes # 0 => executions[x.supersedes] \in ExecutionType
      BY <1>1, <1>3
    <3> QED
      BY <3>1 DEF ExecutionType
  <2> QED
    BY <2>1, <1>3 DEF Reversed
<1>5. x.order \in Nat /\ x.placement \in Nat
  BY TypedIs DEF OrdersOK, Orders, PlacementsOK
<1>6. r \in ExecutionType
  <2> DEFINE v == Reversed(x.supersedes)
  <2>1. v \in Int
    BY <1>4
  <2> HIDE DEF v
  <2>2. (IF x.order # 0 THEN v + x.quantity ELSE 0) \in Int
    BY <2>1
  <2> QED
    BY <1>1, <1>3, <1>5, <2>2 DEF ExecutionType, v
<1>7. ASSUME NEW d \in 1 .. n
      PROVE  /\ marked[d] \in ExecutionType
             /\ marked[d].fact = executions[d].fact
             /\ marked[d].supersedes = executions[d].supersedes
             /\ marked[d].order = executions[d].order
             /\ marked[d].placement = executions[d].placement
             /\ marked[d].state = executions[d].state
             /\ marked[d].supersededBy =
                   IF d = x.supersedes THEN n + 1 ELSE executions[d].supersededBy
  <2>1. executions[d] \in ExecutionType
    BY <1>1
  <2>2. \A v \in Nat, e \in ExecutionType :
          /\ [e EXCEPT !.supersededBy = v] \in ExecutionType
          /\ [e EXCEPT !.supersededBy = v].fact = e.fact
          /\ [e EXCEPT !.supersededBy = v].supersedes = e.supersedes
          /\ [e EXCEPT !.supersededBy = v].order = e.order
          /\ [e EXCEPT !.supersededBy = v].placement = e.placement
          /\ [e EXCEPT !.supersededBy = v].state = e.state
          /\ [e EXCEPT !.supersededBy = v].supersededBy = v
    BY DEF ExecutionType
  <2>3. n + 1 \in Nat
    BY <1>1
  <2>4. marked[d] = IF d = x.supersedes THEN [executions[d] EXCEPT !.supersededBy = n + 1]
                    ELSE executions[d]
    BY <1>1
  <2> HIDE DEF n, marked
  <2> QED
    BY <2>1, <2>2, <2>3, <2>4
<1>8. marked \in [1 .. n -> ExecutionType]
  BY <1>1, <1>7
<1>9. /\ r.fact = n + 1 /\ r.supersedes = x.supersedes /\ r.supersededBy = 0
      /\ r.state = "matched" <=> r.order # 0
      /\ r.order = x.order /\ r.placement = x.placement
  BY <1>3
<1> HIDE DEF marked, r
<1>10. /\ new \in Seq(ExecutionType) /\ Len(new) = n + 1 /\ DOMAIN new = 1 .. n + 1
       /\ \A d \in 1 .. n : new[d] = marked[d]
       /\ new[n + 1] = r
  <2>1. marked \in Seq(ExecutionType) /\ Len(marked) = n
    BY <1>1, <1>8
  <2> QED
    BY <1>1, <1>6, <2>1
<1> HIDE DEF new, n
<1>11. ASSUME NEW e \in 1 .. n
       PROVE  /\ executions[e].fact = e /\ executions[e].supersedes < e
              /\ executions[e].supersededBy <= n
              /\ executions[e].state = "matched" <=> executions[e].order # 0
              /\ executions[e].supersededBy = 0 <=>
                    \A d \in 1 .. n : executions[d].supersedes # e
              /\ executions[e].supersedes \in Nat /\ executions[e].supersededBy \in Nat
  <2>1. executions[e] \in ExecutionType
    BY <1>1
  <2> QED
    BY <1>1, <2>1 DEF ExecutionsOK, n, ExecutionType
<1>12. ASSUME NEW e \in 1 .. n + 1
       PROVE  /\ new[e].fact = e /\ new[e].supersedes < e /\ new[e].supersededBy <= n + 1
              /\ new[e].state = "matched" <=> new[e].order # 0
              /\ new[e].supersededBy = 0 <=> \A d \in 1 .. n + 1 : new[d].supersedes # e
  <2>1. CASE e = n + 1
    <3>1. ASSUME NEW d \in 1 .. n + 1
          PROVE  new[d].supersedes # e
      <4>1. CASE d = n + 1
        BY <1>1, <1>3, <1>9, <1>10, <2>1, <4>1
      <4>2. CASE d \in 1 .. n
        <5>1. new[d].supersedes = executions[d].supersedes
          BY <1>7, <1>10, <4>2
        <5>2. executions[d].supersedes < d /\ executions[d].supersedes \in Nat
          BY <1>11, <4>2
        <5> QED
          BY <1>1, <2>1, <4>2, <5>1, <5>2
      <4> QED
        BY <1>1, <4>1, <4>2
    <3> QED
      BY <1>1, <1>3, <1>9, <1>10, <2>1, <3>1
  <2>2. CASE e \in 1 .. n
    <3>1. \A d \in 1 .. n : new[d].supersedes = executions[d].supersedes
      BY <1>7, <1>10
    <3>2. /\ new[e].fact = e /\ new[e].supersedes < e
          /\ new[e].state = "matched" <=> new[e].order # 0
          /\ new[e].supersededBy =
                IF e = x.supersedes THEN n + 1 ELSE executions[e].supersededBy
      BY <1>7, <1>10, <1>11, <2>2
    <3>3. (\A d \in 1 .. n + 1 : new[d].supersedes # e) <=>
            (\A d \in 1 .. n : executions[d].supersedes # e) /\ x.supersedes # e
      <4>1. \A d \in 1 .. n + 1 : d \in 1 .. n \/ d = n + 1
        BY <1>1
      <4>2. \A d \in 1 .. n : d \in 1 .. n + 1
        BY <1>1
      <4>3. n + 1 \in 1 .. n + 1
        BY <1>1
      <4> QED
        BY <1>9, <1>10, <3>1, <4>1, <4>2, <4>3
    <3> QED
      BY <1>1, <1>11, <2>2, <3>2, <3>3
  <2> QED
    BY <1>1, <2>1, <2>2
<1>13. ExecutionsOK(new)
  BY <1>10, <1>12 DEF ExecutionsOK
<1>14. LinksOK(new, placements, os)
  <2>1. \A e \in DOMAIN new : e \in 1 .. n \/ e = n + 1
    BY <1>1, <1>10
  <2>2. ASSUME NEW e \in DOMAIN new
        PROVE  /\ new[e].order \in DOMAIN os \union {0}
               /\ new[e].placement \in DOMAIN placements \union {0}
               /\ new[e].placement # 0 => placements[new[e].placement].order = new[e].order
    <3>1. CASE e = n + 1
      BY <1>9, <1>10, <3>1 DEF Orders
    <3>2. CASE e \in 1 .. n
      BY <1>1, <1>7, <1>10, <3>2 DEF LinksOK
    <3> QED
      BY <2>1, <3>1, <3>2
  <2> QED
    BY <2>2 DEF LinksOK
<1> QED
  BY <1>2, <1>13, <1>14

\* Fills accepted are on an order, and on the placement made for them.
LEMMA AcceptedTyped ==
    ASSUME Typed(Ledger), NEW l, Typed(l), l.placements = placements,
           l.executions = executions, NEW o \in DOMAIN l.orders,
           NEW S, \A e \in S : Answerable(e)
    PROVE  Typed(Accepted(l, S, o))
<1> DEFINE p  == Len(placements) + 1
           r  == NewPlacement(o, Quantities(Ledger, S), l.orders[o].tif)
           ps == Append(placements, r)
           new(e) == [executions[e] EXCEPT !.order = o, !.placement = p, !.state = "matched",
                                           !.moved = @ + executions[e].quantity]
           es == [e \in DOMAIN executions |-> IF e \notin S THEN executions[e] ELSE new(e)]
<1>1. LET m == Accepted(l, S, o)
      IN  /\ {"orders", "placements", "executions"} \subseteq DOMAIN m
          /\ m.orders = l.orders /\ m.placements = ps /\ m.executions = es
  BY DEF Accepted, Typed
<1>2. /\ OrdersOK(l.orders) /\ PlacementsOK(placements, l.orders)
      /\ ExecutionsOK(executions) /\ LinksOK(executions, placements, l.orders)
  BY DEF Typed
<1>3. S \in SUBSET DOMAIN executions
  BY DEF Answerable, Standing, Ledger
<1>4. Quantities(Ledger, S) \in Nat
  BY <1>2, <1>3, QuantitiesNat DEF Ledger
<1>5. o \in Nat /\ o # 0 /\ l.orders[o].tif \in Tifs \union {"day"}
  <2>1. l.orders[o] \in OrderType /\ o \in Nat \ {0}
    BY <1>2 DEF OrdersOK
  <2> QED
    BY <2>1 DEF OrderType
<1>6. r \in PlacementType /\ r.order = o
  BY <1>4, <1>5, NewPlacementType
<1> HIDE DEF r
<1>7. /\ PlacementsOK(ps, l.orders) /\ LinksOK(executions, ps, l.orders)
      /\ p \in DOMAIN ps /\ ps[p] = r
  BY <1>2, <1>6, PlacementsOpened
<1>8. p \in Nat
  BY <1>2 DEF PlacementsOK
<1> HIDE DEF p, ps
<1>9. ASSUME NEW e \in DOMAIN executions
      PROVE  /\ new(e) \in ExecutionType
             /\ new(e).fact = executions[e].fact
             /\ new(e).supersedes = executions[e].supersedes
             /\ new(e).supersededBy = executions[e].supersededBy
             /\ new(e).state = "matched" /\ new(e).order = o /\ new(e).placement = p
  <2> DEFINE x == executions[e]
             m == x.moved + x.quantity
             y == [x EXCEPT !.order = o, !.placement = p, !.state = "matched", !.moved = m]
  <2>1. x \in ExecutionType
    BY <1>2 DEF ExecutionsOK
  <2>2. m \in Int
    BY <2>1 DEF ExecutionType
  <2>3. new(e) = y
    OBVIOUS
  <2> HIDE DEF x, m
  <2>4. /\ y \in ExecutionType
        /\ y.fact = x.fact /\ y.supersedes = x.supersedes /\ y.supersededBy = x.supersededBy
        /\ y.state = "matched" /\ y.order = o /\ y.placement = p
    BY <1>5, <1>8, <2>1, <2>2 DEF ExecutionType
  <2> HIDE DEF y, new
  <2> QED
    BY <2>3, <2>4 DEF x
<1> HIDE DEF new
<1>10. \A e \in DOMAIN executions :
         /\ executions[e] \in ExecutionType
         /\ executions[e].state = "matched" <=> executions[e].order # 0
  BY <1>2 DEF ExecutionsOK
<1>11. es = [e \in DOMAIN executions |-> es[e]]
  OBVIOUS
<1>12. \A e \in DOMAIN executions : es[e] = IF e \notin S THEN executions[e] ELSE new(e)
  OBVIOUS
<1> HIDE DEF es
<1>13. ASSUME NEW e \in DOMAIN executions
       PROVE  /\ es[e] \in ExecutionType
              /\ es[e].fact = executions[e].fact
              /\ es[e].supersedes = executions[e].supersedes
              /\ es[e].supersededBy = executions[e].supersededBy
              /\ es[e].state = "matched" <=> es[e].order # 0
  <2>1. CASE e \in S
    BY <1>5, <1>9, <1>12, <2>1
  <2>2. CASE e \notin S
    BY <1>10, <1>12, <2>2
  <2> QED
    BY <2>1, <2>2
<1>14. ExecutionsOK(es)
  BY <1>2, <1>11, <1>13, ExecutionsEach
<1>15. LinksOK(es, ps, l.orders)
  <2>1. ASSUME NEW e \in DOMAIN executions
        PROVE  /\ es[e].order \in DOMAIN l.orders \union {0}
               /\ es[e].placement \in DOMAIN ps \union {0}
               /\ es[e].placement # 0 => ps[es[e].placement].order = es[e].order
    <3>1. CASE e \in S
      BY <1>6, <1>7, <1>9, <1>12, <3>1
    <3>2. CASE e \notin S
      BY <1>7, <1>12, <3>2 DEF LinksOK
    <3> QED
      BY <3>1, <3>2
  <2>2. DOMAIN es = DOMAIN executions
    BY <1>11
  <2> QED
    BY <2>1, <2>2 DEF LinksOK
<1> QED
  BY <1>1, <1>2, <1>7, <1>14, <1>15, TypedOf

LEMMA DontKnowTyped ==
    ASSUME Typed(Ledger), NEW e \in DOMAIN executions, Answerable(e)
    PROVE  Typed([Ledger EXCEPT !.executions[e].state = "dont_know"])
<1> DEFINE r  == [executions[e] EXCEPT !.state = "dont_know"]
           es == [executions EXCEPT ![e] = r]
           l  == [Ledger EXCEPT !.executions[e].state = "dont_know"]
<1>1. /\ OrdersOK(orders) /\ PlacementsOK(placements, orders)
      /\ ExecutionsOK(executions) /\ LinksOK(executions, placements, orders)
  BY TypedIs
<1>2. /\ {"orders", "placements", "executions"} \subseteq DOMAIN l
      /\ l.orders = orders /\ l.placements = placements /\ l.executions = es
  BY DEF Ledger
<1>3. \A d \in DOMAIN executions :
        /\ executions[d] \in ExecutionType
        /\ executions[d].state = "matched" <=> executions[d].order # 0
  BY <1>1 DEF ExecutionsOK
<1>4. executions[e].state = "unmatched" /\ executions[e].order = 0
  BY <1>3 DEF Answerable
<1>5. /\ r \in ExecutionType /\ r.fact = executions[e].fact
      /\ r.supersedes = executions[e].supersedes
      /\ r.supersededBy = executions[e].supersededBy
      /\ r.state # "matched" /\ r.order = 0 /\ r.placement = executions[e].placement
  BY <1>3, <1>4 DEF ExecutionType
<1>6. /\ es = [d \in DOMAIN executions |-> es[d]] /\ DOMAIN es = DOMAIN executions
      /\ \A d \in DOMAIN executions : es[d] = IF d = e THEN r ELSE executions[d]
  OBVIOUS
<1> HIDE DEF es, r, l
<1>7. ASSUME NEW d \in DOMAIN executions
      PROVE  /\ es[d] \in ExecutionType
             /\ es[d].fact = executions[d].fact
             /\ es[d].supersedes = executions[d].supersedes
             /\ es[d].supersededBy = executions[d].supersededBy
             /\ es[d].state = "matched" <=> es[d].order # 0
             /\ es[d].order = executions[d].order /\ es[d].placement = executions[d].placement
  <2>1. CASE d = e
    BY <1>4, <1>5, <1>6, <2>1
  <2>2. CASE d # e
    BY <1>3, <1>6, <2>2
  <2> QED
    BY <2>1, <2>2
<1>8. ExecutionsOK(es)
  BY <1>1, <1>6, <1>7, ExecutionsEach
<1>9. LinksOK(es, placements, orders)
  BY <1>1, <1>6, <1>7 DEF LinksOK
<1> QED
  BY <1>1, <1>2, <1>8, <1>9, TypedOf DEF l

-----------------------------------------------------------------------------
(* Each step is the entry of a well typed ledger.                          *)

Entered == \E l : Typed(l) /\ Becomes(Settle(l))

LEMMA EntryOf ==
    ASSUME NEW l, Typed(l), Enters(l) \/ \E o, rows : Commits(l, o, rows)
    PROVE  Entered
BY DEF Entered, Enters, Commits

LEMMA CommandsEntered ==
    ASSUME Typed(Ledger), Commands
    PROVE  Entered
<1>1. /\ \A o \in Orders : orders[o] \in OrderType /\ o \in {0} \union Orders
      /\ Tifs \subseteq Tifs \union {"day"} /\ Ordered \subseteq Nat /\ Parts \subseteq Nat
      /\ Changes \subseteq {"cancel", "replace"} /\ Ended = {"refused", "cancelled", "expired"}
  BY EachTyped, PathAssumption DEF Ended
<1>2. ASSUME NEW quantity \in Ordered, NEW tif \in Tifs, ProposeOrder(quantity, tif)
      PROVE  Entered
  BY <1>1, <1>2, OpenTyped, EntryOf DEF ProposeOrder
<1>3. ASSUME NEW quantity \in Ordered, NEW tif \in Tifs, RecordOrder(quantity, tif)
      PROVE  Entered
  BY <1>1, <1>3, OpenTyped, EntryOf DEF RecordOrder
<1>4. ASSUME NEW o \in Orders, NEW quantity \in Ordered, NEW tif \in Tifs,
             SplitOrder(o, quantity, tif)
      PROVE  Entered
  BY <1>1, <1>4, OpenTyped, EntryOf DEF SplitOrder
<1>5. ASSUME NEW o \in Orders, NEW r \in OrderType, r.parent = orders[o].parent,
             Enters(With([orders EXCEPT ![o] = r]))
               \/ \E a, rows : Commits(With([orders EXCEPT ![o] = r]), a, rows)
      PROVE  Entered
  BY <1>5, OneTyped, EntryOf
<1>6. ASSUME NEW o \in Orders, ReleaseOrder(o)
      PROVE  Entered
  <2> DEFINE r == [orders[o] EXCEPT !.released = TRUE]
  <2>1. r \in OrderType /\ r.parent = orders[o].parent
    BY <1>1 DEF OrderType
  <2>2. \E a, rows : Commits(With([orders EXCEPT ![o] = r]), a, rows)
    BY <1>6 DEF ReleaseOrder
  <2> HIDE DEF r
  <2> QED
    BY <1>5, <2>1, <2>2
<1>7. ASSUME NEW o \in Orders, CancelOrder(o)
      PROVE  Entered
  <2>1. Typed(CancelParts(o, "cancelled", TRUE))
    BY CancelTyped
  <2> QED
    BY <1>7, <2>1, EntryOf DEF CancelOrder
<1>8. ASSUME NEW o \in Orders, WithdrawOrder(o)
      PROVE  Entered
  <2> DEFINE r == End(orders[o], "cancelled")
  <2>1. r \in OrderType /\ r.parent = orders[o].parent
    BY <1>1 DEF OrderType, End, Ended
  <2>2. \E a, rows : Commits(With([orders EXCEPT ![o] = r]), a, rows)
    BY <1>8 DEF WithdrawOrder
  <2> HIDE DEF r
  <2> QED
    BY <1>5, <2>1, <2>2
<1>9. ASSUME NEW o \in Orders, RecallOrder(o)
      PROVE  Entered
  <2> DEFINE r == [orders[o] EXCEPT !.released = FALSE]
  <2>1. r \in OrderType /\ r.parent = orders[o].parent
    BY <1>1 DEF OrderType
  <2>2. \E a, rows : Commits(With([orders EXCEPT ![o] = r]), a, rows)
    BY <1>9 DEF RecallOrder
  <2> HIDE DEF r
  <2> QED
    BY <1>5, <2>1, <2>2
<1>10. ASSUME NEW o \in Orders, AcknowledgeFlag(o)
       PROVE  Entered
  <2> DEFINE r == [orders[o] EXCEPT !.lateFact = FALSE]
  <2>1. r \in OrderType /\ r.parent = orders[o].parent
    BY <1>1 DEF OrderType
  <2>2. Enters(With([orders EXCEPT ![o] = r]))
    BY <1>10 DEF AcknowledgeFlag
  <2> HIDE DEF r
  <2> QED
    BY <1>5, <2>1, <2>2
<1>11. ASSUME NEW o \in Orders, NEW tif \in Tifs, AmendOrder(o, tif)
       PROVE  Entered
  <2> DEFINE r  == [orders[o] EXCEPT !.tif = tif]
             os == [orders EXCEPT ![o] = r]
             ps == [p \in DOMAIN placements |->
                      IF p \in LivePlacements(Ledger, o)
                      THEN [placements[p] EXCEPT !.asks = Append(@, "replace")]
                      ELSE placements[p]]
             l  == [With(os) EXCEPT !.placements = ps]
  <2>1. r \in OrderType /\ r.parent = orders[o].parent
    BY <1>1 DEF OrderType
  <2>2. Enters(With(os)) \/ Commits(l, o, {"r15"})
    BY <1>11, SMTT(20) DEF AmendOrder
  <2>3. /\ {"orders", "placements", "executions"} \subseteq DOMAIN l
        /\ l.orders = os /\ l.placements = ps /\ l.executions = executions
    BY DEF With, Ledger
  <2>4. \A p \in DOMAIN placements :
          ps[p] \in PlacementType /\ ps[p].order = placements[p].order
    BY EachTyped, AsksFields
  <2>5. ps = [p \in DOMAIN placements |-> ps[p]]
    OBVIOUS
  <2> HIDE DEF r, ps, l
  <2>6. OrdersOK(os) /\ DOMAIN os = DOMAIN orders
    BY <2>1, TypedIs, OrdersOne DEF Orders
  <2>7. Typed(l)
    BY <2>3, <2>4, <2>5, <2>6, BothTyped
  <2> QED
    BY <1>5, <2>1, <2>2, <2>7, EntryOf
<1>12. ASSUME NEW o \in Orders, NEW quantity \in {0, Filled(Ledger)[o]} \union Ordered,
              ChangeQuantity(o, quantity)
       PROVE  Entered
  <2> DEFINE r == [orders[o] EXCEPT !.quantity = quantity]
  <2>1. quantity \in Nat
    <3>1. Filled(Ledger) \in [Orders -> Nat]
      BY FilledNat DEF Ledger, Orders
    <3> QED
      BY <1>1, <3>1
  <2>2. r \in OrderType /\ r.parent = orders[o].parent
    BY <1>1, <2>1 DEF OrderType
  <2>3. Enters(With([orders EXCEPT ![o] = r]))
    BY <1>12 DEF ChangeQuantity
  <2> HIDE DEF r
  <2> QED
    BY <1>5, <2>2, <2>3
<1>13. ASSUME NEW o \in Orders, NEW quantity \in Parts, CreatePlacement(o, quantity)
       PROVE  Entered
  <2> DEFINE r == NewPlacement(o, quantity, orders[o].tif)
             l == [Ledger EXCEPT !.placements = Append(placements, r)]
  <2>1. r \in PlacementType /\ r.order = o
    <3>1. o \in Nat /\ quantity \in Nat /\ orders[o].tif \in Tifs \union {"day"}
      BY <1>1, EachTyped DEF OrderType
    <3> QED
      BY <3>1, NewPlacementType
  <2>2. \E a, rows : Commits(l, a, rows)
    BY <1>13 DEF CreatePlacement, Ledger
  <2> HIDE DEF r
  <2>3. /\ {"orders", "placements", "executions"} \subseteq DOMAIN l
        /\ l.orders = orders /\ l.placements = Append(placements, r)
        /\ l.executions = executions
    BY DEF Ledger
  <2>4. PlacementsOK(Append(placements, r), orders)
          /\ LinksOK(executions, Append(placements, r), orders)
    BY <2>1, TypedIs, PlacementsOpened DEF Orders
  <2> HIDE DEF l
  <2> QED
    BY <2>2, <2>3, <2>4, TypedIs, TypedOf, EntryOf
<1>14. ASSUME NEW S, NEW o \in Orders, AcceptExecutions(S, o)
       PROVE  Entered
  <2>1. Typed(Accepted(Ledger, S, o))
    BY <1>14, AcceptedTyped DEF AcceptExecutions, Ledger, Orders
  <2> QED
    BY <1>14, <2>1, EntryOf DEF AcceptExecutions
<1>15. ASSUME NEW S, AcceptToNewOrder(S)
       PROVE  Entered
  <2> DEFINE total == Quantities(Ledger, S)
             r == NewOrder(0, total, "day", TRUE)
             l == With(Opens(r))
  <2>1. \A e \in S : Answerable(e)
    BY <1>15 DEF AcceptToNewOrder
  <2>2. S \in SUBSET DOMAIN executions
    BY <2>1 DEF Answerable, Standing, Ledger
  <2>3. total \in Nat
    BY <2>2, TypedIs, QuantitiesNat DEF Ledger
  <2>4. Typed(l)
    BY <2>3, OpenTyped
  <2>5. r \in OrderType /\ r.parent = 0
    BY <2>3, NewOrderType
  <2> HIDE DEF total, r
  <2>6. l.orders = Append(orders, r) /\ l.placements = placements /\ l.executions = executions
    BY DEF With, Ledger, Opens
  <2>7. Len(orders) + 1 \in DOMAIN l.orders
    BY <2>5, <2>6, TypedIs, OrdersOpened, EachTyped
  <2>8. Enters(Accepted(l, S, Len(orders) + 1))
    BY <1>15 DEF AcceptToNewOrder, total, r
  <2> HIDE DEF l
  <2>9. Typed(Accepted(l, S, Len(orders) + 1))
    BY <2>1, <2>4, <2>6, <2>7, AcceptedTyped
  <2> QED
    BY <2>8, <2>9, EntryOf
<1>16. ASSUME NEW e \in DOMAIN executions, DontKnow(e)
       PROVE  Entered
  BY <1>16, DontKnowTyped, EntryOf DEF DontKnow
<1>17. ASSUME NEW p \in DOMAIN placements, NEW kind \in Changes, RequestPlacementChange(p, kind)
       PROVE  Entered
  <2> DEFINE r  == [placements[p] EXCEPT !.asks = Append(@, kind)]
             ps == [placements EXCEPT ![p] = r]
             l  == [Ledger EXCEPT !.placements[p].asks = Append(@, kind)]
  <2>1. /\ {"orders", "placements", "executions"} \subseteq DOMAIN l
        /\ l.orders = orders /\ l.placements = ps /\ l.executions = executions
    BY DEF Ledger
  <2>2. r \in PlacementType /\ r.order = placements[p].order
    BY <1>1, EachTyped, AsksFields
  <2>3. /\ ps = [q \in DOMAIN placements |-> ps[q]]
        /\ \A q \in DOMAIN placements : ps[q] = IF q = p THEN r ELSE placements[q]
    OBVIOUS
  <2>4. Enters(l)
    BY <1>17 DEF RequestPlacementChange
  <2> HIDE DEF r, ps, l
  <2>5. \A q \in DOMAIN placements :
          ps[q] \in PlacementType /\ ps[q].order = placements[q].order
    BY <2>2, <2>3, EachTyped
  <2>6. Typed(l)
    BY <2>1, <2>3, <2>5, TypedIs, BothTyped
  <2> QED
    BY <2>4, <2>6, EntryOf
<1> QED
  BY <1>2, <1>3, <1>4, <1>6, <1>7, <1>8, <1>9, <1>10, <1>11, <1>12, <1>13, <1>14, <1>15,
     <1>16, <1>17 DEF Commands

\* A fact reported names the parts of a placement or an order there are, and
\* supersedes at most an execution that stands.
IsFact(x) ==
    /\ x.fact = NewFact /\ x.quantity \in Nat
    /\ x.supersedes \in Standing(Ledger) \union {0}
    /\ x.order \in Orders \union {0} /\ x.placement \in DOMAIN placements \union {0}
    /\ x.placement # 0 => placements[x.placement].order = x.order
    /\ x.supersedes # 0 => executions[x.supersedes].order = x.order

LEMMA ReportEntered ==
    ASSUME Typed(Ledger), NEW x, ReportExecution(x), IsFact(x)
    PROVE  Entered \/ UNCHANGED vars
<1>1. CASE Seen(x)
  BY <1>1 DEF ReportExecution
<1>2. CASE ~ Seen(x)
  <2> DEFINE es == Executed(x)
             os == Flags(x.order)
             l  == [Ledger EXCEPT !.executions = es, !.orders = os]
  <2>1. Enters(l)
    BY <1>2 DEF ReportExecution
  <2>2. OrdersOK(os) /\ DOMAIN os = DOMAIN orders
    <3> DEFINE r == [orders[x.order] EXCEPT !.lateFact = TRUE]
    <3>1. os = orders \/ (x.order \in Orders /\ os = [orders EXCEPT ![x.order] = r])
      BY SMTT(20) DEF Flags, IsFact
    <3>2. x.order \in Orders => r \in OrderType /\ r.parent = orders[x.order].parent
      <4>1. x.order \in Orders => orders[x.order] \in OrderType
        BY EachTyped
      <4> QED
        BY <4>1 DEF OrderType
    <3> HIDE DEF os, r
    <3> QED
      BY <3>1, <3>2, TypedIs, OrdersOne DEF Orders
  <2>3. ExecutionsOK(es) /\ LinksOK(es, placements, os)
    BY <2>2, ExecutedOK DEF IsFact
  <2>4. /\ {"orders", "placements", "executions"} \subseteq DOMAIN l
        /\ l.orders = os /\ l.placements = placements /\ l.executions = es
    BY DEF Ledger
  <2> HIDE DEF l, es, os
  <2>5. PlacementsOK(placements, os)
    BY <2>2, TypedIs, MoreOrders
  <2> QED
    BY <2>1, <2>2, <2>3, <2>4, <2>5, TypedOf, EntryOf
<1> QED
  BY <1>1, <1>2

LEMMA FactsAre ==
    ASSUME Typed(Ledger), Facts
    PROVE  \/ \E p \in DOMAIN placements, event \in Events :
                \E quantity \in Parts \union {placements[p].quantity} :
                    ReportPlacement(p, event, quantity)
           \/ \E x : IsFact(x) /\ ReportExecution(x)
           \/ UNCHANGED vars
<1>1. /\ Parts \subseteq Nat /\ 0 \notin Orders
      /\ \A p \in DOMAIN placements : placements[p].order \in Orders
  BY PathAssumption, EachTyped
<1>2. \A id, p, o, quantity, s :
        LET x == Fact(id, p, o, quantity, s)
        IN  /\ x.fact = id /\ x.placement = p /\ x.order = o /\ x.quantity = quantity
            /\ x.supersedes = s
  BY DEF Fact
<1>3. ASSUME NEW quantity \in Parts, FillUnplaced(quantity)
      PROVE  \E x : IsFact(x) /\ ReportExecution(x)
  BY <1>1, <1>2, <1>3 DEF FillUnplaced, IsFact
<1>4. ASSUME NEW quantity \in Parts, NEW p \in DOMAIN placements, Fill(p, quantity)
      PROVE  \E x : IsFact(x) /\ ReportExecution(x)
  BY <1>1, <1>2, <1>4 DEF Fill, IsFact
<1>5. ASSUME NEW quantity \in Parts, NEW o \in Orders, FillAway(o, quantity)
      PROVE  \E x : IsFact(x) /\ ReportExecution(x)
  BY <1>1, <1>2, <1>5 DEF FillAway, IsFact
<1>6. ASSUME NEW e \in DOMAIN executions, NEW quantity \in {0} \union Parts,
             Supersede(e, quantity)
      PROVE  \E x : IsFact(x) /\ ReportExecution(x)
  <2> DEFINE x == Fact(NewFact, executions[e].placement, executions[e].order, quantity, e)
  <2>1. e \in Standing(Ledger) /\ ReportExecution(x)
    BY <1>6 DEF Supersede
  <2>2. /\ executions[e].order \in Orders \union {0}
        /\ executions[e].placement \in DOMAIN placements \union {0}
        /\ executions[e].placement # 0 =>
              placements[executions[e].placement].order = executions[e].order
    BY TypedIs DEF LinksOK, Orders
  <2>3. /\ x.fact = NewFact /\ x.placement = executions[e].placement
        /\ x.order = executions[e].order /\ x.quantity = quantity /\ x.supersedes = e
    BY <1>2
  <2>4. quantity \in Nat
    BY <1>1
  <2> HIDE DEF x
  <2>5. IsFact(x)
    BY <2>1, <2>2, <2>3, <2>4 DEF IsFact
  <2> QED
    BY <2>1, <2>5
<1>7. ASSUME NEW e \in DOMAIN executions, Resend(e)
      PROVE  UNCHANGED vars
  <2> DEFINE y == executions[e]
             x == Fact(y.fact, y.placement, y.order, y.quantity, y.supersedes)
  <2>1. ReportExecution(x)
    BY <1>7 DEF Resend
  <2>2. Seen(x)
    BY <1>2 DEF Seen
  <2> QED
    BY <2>1, <2>2 DEF ReportExecution
<1> QED
  BY <1>3, <1>4, <1>5, <1>6, <1>7 DEF Facts

LEMMA PlacementEntered ==
    ASSUME Typed(Ledger), NEW p \in DOMAIN placements, NEW event \in Events,
           NEW quantity \in Parts \union {placements[p].quantity},
           ReportPlacement(p, event, quantity)
    PROVE  Entered
<1> DEFINE o     == placements[p].order
           after == [Ledger EXCEPT !.placements[p] = Reported(@, event, quantity)]
           past  == event = "restated" /\ quantity > orders[o].quantity
           flagged == [orders[o] EXCEPT !.lateFact = @ \/ past]
           r  == IF EndsUnfilled(after, p, event) THEN End(flagged, "cancelled") ELSE flagged
           os == [orders EXCEPT ![o] = r]
           q  == Reported(placements[p], event, quantity)
           ps == [placements EXCEPT ![p] = q]
           l  == [after EXCEPT !.orders[o] = r]
<1>1. Enters(l)
  BY DEF ReportPlacement
<1>2. /\ {"orders", "placements", "executions"} \subseteq DOMAIN after
      /\ after.orders = orders /\ after.placements = ps /\ after.executions = executions
  BY DEF Ledger
<1>3. o \in Orders /\ orders[o] \in OrderType /\ placements[p] \in PlacementType
  BY EachTyped
<1>4. quantity \in Nat
  BY <1>3, PathAssumption DEF PlacementType
<1>5. q \in PlacementType /\ q.order = o
  <2>1. event \in {"sent", "acknowledged", "replaced", "done_for_day", "restated",
                   "cancelled", "expired", "rejected", "unknown", "resolved"}
    BY PathAssumption
  <2> QED
    BY <1>3, <1>4, <2>1, ReportedType
<1>6. r \in OrderType /\ r.parent = orders[o].parent
  <2>1. flagged \in OrderType /\ flagged.parent = orders[o].parent
    <3> DEFINE v == orders[o].lateFact \/ past
               x == orders[o]
    <3>1. v \in BOOLEAN /\ x \in OrderType
      BY <1>3
    <3>2. flagged = [x EXCEPT !.lateFact = v]
      OBVIOUS
    <3> HIDE DEF v, x, flagged
    <3>3. [x EXCEPT !.lateFact = v] \in OrderType /\ [x EXCEPT !.lateFact = v].parent = x.parent
      BY <3>1 DEF OrderType
    <3> QED
      BY <3>2, <3>3 DEF x
  <2> HIDE DEF flagged, after
  <2>2. /\ End(flagged, "cancelled") \in OrderType
        /\ End(flagged, "cancelled").parent = flagged.parent
    BY <2>1 DEF OrderType, End, Ended
  <2> QED
    BY <2>1, <2>2
<1> HIDE DEF r, q, after
<1>7. /\ {"orders", "placements", "executions"} \subseteq DOMAIN l
      /\ l.orders = os /\ l.placements = ps /\ l.executions = executions
  BY <1>2
<1>8. /\ ps = [a \in DOMAIN placements |-> ps[a]]
      /\ \A a \in DOMAIN placements : ps[a] = IF a = p THEN q ELSE placements[a]
  OBVIOUS
<1> HIDE DEF ps, l
<1>9. \A a \in DOMAIN placements :
        ps[a] \in PlacementType /\ ps[a].order = placements[a].order
  BY <1>5, <1>8, EachTyped
<1>10. OrdersOK(os) /\ DOMAIN os = DOMAIN orders
  BY <1>6, TypedIs, OrdersOne DEF Orders
<1> HIDE DEF os
<1>11. Typed(l)
  BY <1>7, <1>8, <1>9, <1>10, BothTyped
<1> QED
  BY <1>1, <1>11, EntryOf

LEMMA ClockEntered ==
    ASSUME Typed(Ledger), Clock
    PROVE  Entered
<1>1. PICK o \in Orders : ExpireOrder(o)
  BY DEF Clock
<1> DEFINE r == End(orders[o], "expired")
<1>2. r \in OrderType /\ r.parent = orders[o].parent
  <2>1. orders[o] \in OrderType
    BY EachTyped
  <2> QED
    BY <2>1 DEF OrderType, End, Ended
<1>3. Enters(With([orders EXCEPT ![o] = r])) \/ Enters(CancelParts(o, "expired", FALSE))
  BY <1>1 DEF ExpireOrder
<1> HIDE DEF r
<1>4. Typed(With([orders EXCEPT ![o] = r]))
  BY <1>2, OneTyped
<1>5. Typed(CancelParts(o, "expired", FALSE))
  BY CancelTyped
<1> QED
  BY <1>3, <1>4, <1>5, EntryOf

LEMMA StepEntered ==
    ASSUME Typed(Ledger), [Next]_vars
    PROVE  Entered \/ UNCHANGED vars
<1>1. ASSUME Facts
      PROVE  Entered \/ UNCHANGED vars
  BY <1>1, FactsAre, PlacementEntered, ReportEntered
<1> QED
  BY <1>1, CommandsEntered, ClockEntered DEF Next

LEMMA TypedStep ==
    ASSUME Typed(Ledger), [Next]_vars
    PROVE  Typed(Ledger')
<1>1. CASE UNCHANGED vars
  BY <1>1 DEF vars, Ledger
<1>2. CASE Entered
  <2>1. PICK l : Typed(l) /\ Becomes(Settle(l))
    BY <1>2 DEF Entered
  <2>2. Enters(l)
    BY <2>1 DEF Enters
  <2> QED
    BY <2>1, <2>2, EntryTyped
<1> QED
  BY <1>1, <1>2, StepEntered

LEMMA TypedInit ==
    ASSUME Init
    PROVE  Typed(Ledger)
<1>1. orders = <<>> /\ placements = <<>> /\ executions = <<>>
  BY DEF Init
<1>2. /\ OrdersOK(<<>>) /\ PlacementsOK(<<>>, <<>>) /\ ExecutionsOK(<<>>)
      /\ LinksOK(<<>>, <<>>, <<>>)
  BY DEF OrdersOK, PlacementsOK, ExecutionsOK, LinksOK
<1> QED
  BY <1>1, <1>2, TypedIs

(***************************************************************************)
(* Types; an order's parent, an execution's placement and order, and what  *)
(* it supersedes were minted before it, and a placement's executions are   *)
(* of the placement's order.                                               *)
(***************************************************************************)
THEOREM TypeCorrect == Spec => []TypeOK
<1>1. Init => Typed(Ledger)
  BY TypedInit
<1>2. Typed(Ledger) /\ [Next]_vars => Typed(Ledger)'
  <2>1. Typed(Ledger)' <=> Typed(Ledger')
    BY DEF Typed, OrdersOK, PlacementsOK, ExecutionsOK, LinksOK, Ledger
  <2> QED
    BY <2>1, TypedStep
<1>3. Typed(Ledger) => TypeOK
  <2> SUFFICES ASSUME Typed(Ledger) PROVE TypeOK
    OBVIOUS
  <2>1. /\ OrdersOK(orders) /\ PlacementsOK(placements, orders)
        /\ ExecutionsOK(executions) /\ LinksOK(executions, placements, orders)
    BY TypedIs
  <2>2. \A e \in DOMAIN executions :
          /\ executions[e] \in ExecutionType
          /\ executions[e].supersedes < e
          /\ executions[e].state = "matched" <=> executions[e].order # 0
    BY <2>1 DEF ExecutionsOK
  <2>3. \A e \in DOMAIN executions :
          executions[e].state \in {"unmatched", "matched", "dont_know"}
    BY <2>2 DEF ExecutionType
  <2> QED
    BY <2>1, <2>2, <2>3 DEF TypeOK, OrdersOK, PlacementsOK, LinksOK, Orders
<1> QED
  BY <1>1, <1>2, <1>3, PTL DEF Spec

-----------------------------------------------------------------------------
(* What ends with an entry.                                                *)

Ending(l) ==
    {o \in DOMAIN l.orders :
        l.orders[o].ending # "no" /\ l.orders[o].ended = "no" /\ LivePlacements(l, o) = {}}

\* An order ends that is ending, has no live placement, and of whose live
\* children each ends with it.
LEMMA EndsIs ==
    ASSUME NEW l, Typed(l), NEW o \in DOMAIN l.orders
    PROVE  o \in Ends(l) <=> o \in Ending(l) /\ LiveChildren(l, o) \subseteq Ends(l)
<1> DEFINE n    == Len(l.orders)
           kids == [a \in 1 .. n |-> LiveChildren(l, a)]
           Solves(holds) == holds = [a \in DOMAIN l.orders |->
                               a \in Ending(l) /\ \A c \in LiveChildren(l, a) : holds[c]]
           ends == CHOOSE holds : Solves(holds)
<1>1. /\ n \in Nat /\ DOMAIN l.orders = 1 .. n
      /\ \A c \in DOMAIN l.orders : l.orders[c].parent < c
  BY DEF Typed, OrdersOK
<1>2. \A a \in 1 .. n : kids[a] \subseteq a + 1 .. n
  BY <1>1 DEF LiveChildren, Children
<1>3. PICK holds : HoldsUp(holds, n, Ending(l), kids)
  <2> HIDE DEF n, kids
  <2> QED
    BY <1>1, <1>2, HoldsUpExist
<1>4. Solves(holds)
  BY <1>1, <1>3, Zenon DEF HoldsUp
<1>5. Solves(ends)
  <2> HIDE DEF Solves
  <2> QED
    BY <1>4
<1>6. Ends(l) = {a \in Ending(l) : ends[a]}
  BY Zenon DEF Ends, Ending
<1> HIDE DEF ends
<1>7. \A a \in DOMAIN l.orders :
        ends[a] <=> a \in Ending(l) /\ \A c \in LiveChildren(l, a) : ends[c]
  BY <1>5, Zenon
<1>8. LiveChildren(l, o) \subseteq DOMAIN l.orders
  BY DEF LiveChildren, Children
<1>9. \A a \in DOMAIN l.orders : a \in Ends(l) <=> ends[a]
  BY <1>6, <1>7, Zenon
<1> QED
  BY <1>7, <1>8, <1>9, Zenon

\* What is filled of an order and what is live on it are of the executions and
\* placements, and of how the orders hang together.
LEMMA FoldSame ==
    ASSUME NEW l, NEW m, m.executions = l.executions, m.placements = l.placements,
           DOMAIN m.orders = DOMAIN l.orders,
           \A o \in DOMAIN l.orders : m.orders[o].parent = l.orders[o].parent
    PROVE  /\ Filled(m) = Filled(l)
           /\ \A o : LivePlacements(m, o) = LivePlacements(l, o) /\ Children(m, o) = Children(l, o)
<1>1. Parents(m) = Parents(l)
  BY DEF Parents
<1>2. Standing(m) = Standing(l)
  BY DEF Standing
<1>3. \A o : OwnFilled(m, o) = OwnFilled(l, o)
  BY <1>2 DEF OwnFilled, Fills
<1>4. [o \in DOMAIN m.orders |-> OwnFilled(m, o)] = [o \in DOMAIN l.orders |-> OwnFilled(l, o)]
  BY <1>3
<1>5. Filled(m) = Filled(l)
  BY <1>1, <1>4 DEF Filled
<1>6. \A p : PlacementFilled(m, p) = PlacementFilled(l, p)
  BY <1>2 DEF PlacementFilled, Quantities
<1>7. \A p : PlacementLive(m, p) = PlacementLive(l, p)
  BY <1>6 DEF PlacementLive, PlacementState
<1>8. \A o : LivePlacements(m, o) = LivePlacements(l, o)
  BY <1>7 DEF LivePlacements, PlacementsOf
<1>9. \A o : Children(m, o) = Children(l, o)
  BY DEF Children
<1> QED
  BY <1>5, <1>8, <1>9

\* After an entry the live children of an order are those that did not end
\* with it.
LEMMA SettledChildren ==
    ASSUME NEW l, Typed(l)
    PROVE  LET m == Settle(l)
           IN  \A o : /\ LivePlacements(m, o) = LivePlacements(l, o)
                      /\ LiveChildren(m, o) = LiveChildren(l, o) \ Ends(l)
<1> DEFINE m == Settle(l)
<1>1. /\ DOMAIN m.orders = DOMAIN l.orders
      /\ m.placements = l.placements /\ m.executions = l.executions
      /\ \A o \in DOMAIN l.orders :
            /\ m.orders[o].parent = l.orders[o].parent
            /\ m.orders[o].quantity = l.orders[o].quantity
            /\ IF o \in Ends(l) THEN m.orders[o].ended # "no" ELSE m.orders[o] = l.orders[o]
  BY SettledOrders
<1> HIDE DEF m
<1>2. /\ Filled(m) = Filled(l)
      /\ \A o : LivePlacements(m, o) = LivePlacements(l, o) /\ Children(m, o) = Children(l, o)
  BY <1>1, FoldSame
<1>3. \A o \in DOMAIN l.orders : Complete(m, o) <=> Complete(l, o)
  BY <1>1, <1>2 DEF Complete
<1>4. \A o \in DOMAIN l.orders : OrderLive(m, o) <=> OrderLive(l, o) /\ o \notin Ends(l)
  <2>1. \A o \in Ends(l) : o \in DOMAIN l.orders
    BY DEF Ends
  <2> QED
    BY <1>1, <1>3 DEF OrderLive
<1>5. \A o : Children(l, o) \subseteq DOMAIN l.orders
  BY DEF Children
<1>6. \A o : LiveChildren(m, o) = LiveChildren(l, o) \ Ends(l)
  BY <1>2, <1>4, <1>5 DEF LiveChildren
<1> QED
  BY <1>2, <1>6 DEF m

LEMMA EntryEnds ==
    ASSUME NEW l, Typed(l), Becomes(Settle(l))
    PROVE  NothingLiveIsEnded'
<1>1. orders' = Settle(l).orders /\ placements' = Settle(l).placements
        /\ executions' = Settle(l).executions
  BY DEF Becomes
<1>2. /\ Settle(l).placements = l.placements /\ Settle(l).executions = l.executions
      /\ DOMAIN orders' = DOMAIN l.orders
      /\ \A o \in DOMAIN l.orders :
            /\ orders'[o].parent = l.orders[o].parent
            /\ IF o \in Ends(l) THEN orders'[o].ended # "no" ELSE orders'[o] = l.orders[o]
  BY <1>1, SettledOrders
<1>3. /\ Ledger'.orders = Settle(l).orders /\ Ledger'.placements = Settle(l).placements
      /\ Ledger'.executions = Settle(l).executions
  BY <1>1 DEF Ledger
<1>4. \A o : /\ LivePlacements(Ledger', o) = LivePlacements(Settle(l), o)
             /\ LiveChildren(Ledger', o) = LiveChildren(Settle(l), o)
  <2>1. /\ Filled(Ledger') = Filled(Settle(l))
        /\ \A o : /\ LivePlacements(Ledger', o) = LivePlacements(Settle(l), o)
                  /\ Children(Ledger', o) = Children(Settle(l), o)
    BY <1>3, FoldSame
  <2> QED
    BY <1>3, <2>1 DEF LiveChildren, OrderLive, Complete
<1>5. \A o : /\ LivePlacements(Ledger', o) = LivePlacements(l, o)
             /\ LiveChildren(Ledger', o) = LiveChildren(l, o) \ Ends(l)
  BY <1>4, SettledChildren
<1>6. ASSUME NEW o \in DOMAIN orders', orders'[o].ending # "no", orders'[o].ended = "no",
             LivePlacements(Ledger', o) = {}, LiveChildren(Ledger', o) = {}
      PROVE  FALSE
  <2>1. o \notin Ends(l) /\ orders'[o] = l.orders[o] /\ o \in DOMAIN l.orders
    BY <1>2, <1>6
  <2>2. o \in Ending(l)
    BY <1>5, <1>6, <2>1 DEF Ending
  <2>3. LiveChildren(l, o) \subseteq Ends(l)
    BY <1>5, <1>6
  <2> QED
    BY <2>1, <2>2, <2>3, EndsIs
<1> QED
  BY <1>6 DEF NothingLiveIsEnded, Orders, Ledger

(***************************************************************************)
(* An order asked to end ends with the entry that left nothing of it live, *)
(* whichever command or fact that was and however many orders up the chain *)
(* wait for it.                                                            *)
(***************************************************************************)
THEOREM EndsWithItsParts == Spec => []NothingLiveIsEnded
<1> DEFINE Inv == Typed(Ledger) /\ NothingLiveIsEnded
<1>1. Init => Inv
  <2>1. Init => NothingLiveIsEnded
    BY DEF Init, NothingLiveIsEnded, Orders
  <2> QED
    BY <2>1, TypedInit
<1>2. Inv /\ [Next]_vars => Inv'
  <2> SUFFICES ASSUME Inv, [Next]_vars PROVE Inv'
    OBVIOUS
  <2>1. Typed(Ledger')
    BY TypedStep
  <2>2. Typed(Ledger)' <=> Typed(Ledger')
    BY DEF Typed, OrdersOK, PlacementsOK, ExecutionsOK, LinksOK, Ledger
  <2>3. NothingLiveIsEnded'
    <3>1. CASE Entered
      BY <3>1, EntryEnds DEF Entered
    <3>2. CASE UNCHANGED vars
      <4>1. orders' = orders /\ Ledger' = Ledger
        BY <3>2 DEF vars, Ledger
      <4> QED
        BY <4>1 DEF NothingLiveIsEnded, Orders
    <3> QED
      BY <3>1, <3>2, StepEntered
  <2> QED
    BY <2>1, <2>2, <2>3
<1> QED
  BY <1>1, <1>2, PTL DEF Spec

-----------------------------------------------------------------------------
(* What is filled is of the facts.                                         *)

LEMMA FilledIsTold ==
    ASSUME Typed(Ledger)
    PROVE  FilledByItsFacts
<1> DEFINE last(e) == \A d \in DOMAIN executions : executions[d].supersedes # e
           facts(o) == {e \in DOMAIN executions : last(e) /\ executions[e].order = o}
           stands(o) == {executions[e].fact : e \in facts(o)}
           says(f) == executions[CHOOSE d \in DOMAIN executions :
                                    executions[d].fact = f].quantity
           told == [o \in Orders |-> SumFunction([f \in stands(o) |-> says(f)])]
           own  == [o \in Orders |-> OwnFilled(Ledger, o)]
<1>1. \A e \in DOMAIN executions :
        /\ executions[e].fact = e
        /\ executions[e].supersededBy = 0 <=> last(e)
  BY TypedIs DEF ExecutionsOK
<1>2. ASSUME NEW o \in Orders
      PROVE  told[o] = own[o]
  <2>1. stands(o) = facts(o)
    BY <1>1
  <2>2. facts(o) = {d \in Standing(Ledger) : executions[d].order = o}
    BY <1>1 DEF Standing, Ledger
  <2>3. \A f \in facts(o) : says(f) = executions[f].quantity
    <3>1. ASSUME NEW f \in DOMAIN executions
          PROVE  (CHOOSE d \in DOMAIN executions : executions[d].fact = f) = f
      BY <1>1
    <3> QED
      BY <3>1
  <2> HIDE DEF facts, stands, says
  <2>4. [f \in stands(o) |-> says(f)] = Fills(Ledger, o)
    <3>1. Fills(Ledger, o) = [f \in facts(o) |-> executions[f].quantity]
      BY <2>2 DEF Fills, Ledger
    <3> QED
      BY <2>1, <2>3, <3>1
  <2> QED
    BY <2>4 DEF OwnFilled
<1> HIDE DEF last, facts, stands, says
<1>3. told = own
  BY <1>2
<1>4. Filled(Ledger) = UpTheChain(own, Parents(Ledger))
  BY DEF Filled, Orders, Ledger
<1> HIDE DEF own
<1> QED
  BY <1>3, <1>4 DEF FilledByItsFacts, last, facts, stands, says

(***************************************************************************)
(* What is filled is what the venue says stands: of each fill the last     *)
(* correction alone, none once busted, and a fact sent again not once      *)
(* more.                                                                   *)
(***************************************************************************)
THEOREM FilledAsTold == Spec => []FilledByItsFacts
<1>1. Init => Typed(Ledger)
  BY TypedInit
<1>2. Typed(Ledger) /\ [Next]_vars => Typed(Ledger)'
  <2>1. Typed(Ledger)' <=> Typed(Ledger')
    BY DEF Typed, OrdersOK, PlacementsOK, ExecutionsOK, LinksOK, Ledger
  <2> QED
    BY <2>1, TypedStep
<1> QED
  BY <1>1, <1>2, FilledIsTold, PTL DEF Spec

-----------------------------------------------------------------------------
(* What the entries moved.                                                 *)

Counted(es, e) ==
    IF es[e].supersededBy = 0 /\ es[e].order # 0 THEN es[e].quantity ELSE 0

\* What an execution moved past what it counts.
Off(es) == [e \in DOMAIN es |-> es[e].moved - Counted(es, e)]

MovesOK(es) ==
    \A e \in DOMAIN es :
        /\ es[e].order = 0 => es[e].moved = 0
        /\ es[e].order # 0 /\ es[e].supersedes = 0 /\ es[e].supersededBy = 0 =>
              es[e].moved = es[e].quantity

\* Some correction was itself corrected or busted.
Twice(es) == \E e \in DOMAIN es : es[e].supersedes # 0 /\ es[es[e].supersedes].supersedes # 0

Even(es) == Twice(es) \/ SumFunctionOnSet(Off(es), DOMAIN es) = 0

LEMMA ExecutionsFinite ==
    ASSUME NEW es, ExecutionsOK(es)
    PROVE  /\ IsFiniteSet(DOMAIN es) /\ DOMAIN es = 1 .. Len(es) /\ Len(es) \in Nat
           /\ \A e \in DOMAIN es :
                 /\ es[e].moved \in Int /\ es[e].quantity \in Nat /\ es[e].order \in Nat
                 /\ es[e].supersedes \in Nat /\ es[e].supersededBy \in Nat
                 /\ Counted(es, e) \in Nat /\ Off(es)[e] \in Int
<1>1. DOMAIN es = 1 .. Len(es) /\ Len(es) \in Nat /\ \A e \in DOMAIN es : es[e] \in ExecutionType
  BY DEF ExecutionsOK
<1>2. IsFiniteSet(1 .. Len(es))
  BY <1>1, FS_Interval
<1>3. ASSUME NEW e \in DOMAIN es
      PROVE  /\ es[e].moved \in Int /\ es[e].quantity \in Nat /\ es[e].order \in Nat
             /\ es[e].supersedes \in Nat /\ es[e].supersededBy \in Nat
             /\ Counted(es, e) \in Nat /\ Off(es)[e] \in Int
  <2>1. /\ es[e].moved \in Int /\ es[e].quantity \in Nat /\ es[e].order \in Nat
        /\ es[e].supersedes \in Nat /\ es[e].supersededBy \in Nat
    BY <1>1 DEF ExecutionType
  <2>2. Counted(es, e) \in Nat
    BY <2>1 DEF Counted
  <2>3. Off(es)[e] = es[e].moved - Counted(es, e)
    BY DEF Off
  <2> QED
    BY <2>1, <2>2, <2>3
<1> QED
  BY <1>1, <1>2, <1>3

LEMMA OffIs ==
    ASSUME NEW es, ExecutionsOK(es)
    PROVE  LET all   == SumFunction([e \in DOMAIN es |-> es[e].moved])
               stood == SumFunction([e \in {c \in {d \in DOMAIN es : es[d].supersededBy = 0} :
                                              es[c].order # 0} |-> es[e].quantity])
           IN  (all = stood) <=> SumFunctionOnSet(Off(es), DOMAIN es) = 0
<1> DEFINE D  == DOMAIN es
           C  == {c \in {d \in D : es[d].supersededBy = 0} : es[c].order # 0}
           mv == [e \in D |-> es[e].moved]
           ct == [e \in D |-> Counted(es, e)]
           qs == [e \in C |-> es[e].quantity]
<1>1. /\ IsFiniteSet(D)
      /\ \A e \in D : /\ es[e].moved \in Int /\ es[e].quantity \in Nat
                      /\ Counted(es, e) \in Nat
  BY ExecutionsFinite
<1>2. C \in SUBSET D /\ IsFiniteSet(C)
  BY <1>1, FS_Subset
<1>3. \A e \in D : /\ ct[e] \in Int /\ mv[e] \in Int /\ Off(es)[e] = mv[e] - ct[e]
                   /\ IF e \in C THEN ct[e] = qs[e] ELSE ct[e] = 0
  BY <1>1 DEF Off, Counted
<1>4. SumFunction(mv) = SumFunctionOnSet(mv, D) /\ SumFunction(qs) = SumFunctionOnSet(qs, C)
  BY DEF SumFunction
<1> HIDE DEF C, D, mv, ct, qs
<1>5. SumFunctionOnSet(Off(es), D) = SumFunctionOnSet(mv, D) - SumFunctionOnSet(ct, D)
  BY <1>1, <1>3, SumDifference
<1>6. SumFunctionOnSet(ct, D) = SumFunctionOnSet(ct, C)
  BY <1>1, <1>2, <1>3, SumOfPart
<1>7. SumFunctionOnSet(ct, C) = SumFunctionOnSet(qs, C)
  BY <1>2, <1>3, SumSame
<1>8. SumFunctionOnSet(mv, D) \in Int /\ SumFunctionOnSet(ct, D) \in Int
  BY <1>1, <1>3, SumInt
<1>9. SumFunction(mv) = SumFunction(qs) <=> SumFunctionOnSet(Off(es), D) = 0
  BY <1>4, <1>5, <1>6, <1>7, <1>8
<1> QED
  BY <1>9 DEF C, D, mv, qs

\* Answering fills moves of each what it then counts.
LEMMA AnsweredEven ==
    ASSUME NEW es, ExecutionsOK(es), MovesOK(es), Even(es),
           NEW new, DOMAIN new = DOMAIN es, ExecutionsOK(new),
           \A e \in DOMAIN es :
              \/ new[e] = es[e]
              \/ /\ es[e].order = 0
                 /\ new[e].quantity = es[e].quantity /\ new[e].supersedes = es[e].supersedes
                 /\ es[e].supersededBy = 0 /\ new[e].supersededBy = 0
                 /\ new[e].moved = IF new[e].order = 0 THEN es[e].moved
                                   ELSE es[e].moved + es[e].quantity
    PROVE  MovesOK(new) /\ Even(new)
<1>1. \A e \in DOMAIN es : Off(new)[e] = Off(es)[e] /\ new[e].supersedes = es[e].supersedes
  <2>1. ASSUME NEW e \in DOMAIN es
        PROVE  Off(new)[e] = Off(es)[e] /\ new[e].supersedes = es[e].supersedes
    <3>1. /\ Off(new)[e] = new[e].moved - Counted(new, e)
          /\ Off(es)[e] = es[e].moved - Counted(es, e)
      BY DEF Off
    <3>2. es[e].moved \in Int /\ es[e].quantity \in Nat
      BY ExecutionsFinite
    <3>3. CASE new[e] = es[e]
      BY <3>1, <3>3 DEF Counted
    <3>4. CASE new[e] # es[e]
      <4>1. es[e].moved = 0 /\ Counted(es, e) = 0
        BY <3>4 DEF MovesOK, Counted
      <4>2. new[e].moved = Counted(new, e)
        BY <3>2, <3>4, <4>1 DEF Counted
      <4> QED
        BY <3>1, <3>2, <3>4, <4>1, <4>2 DEF Counted
    <3> QED
      BY <3>3, <3>4
  <2> QED
    BY <2>1
<1>2. SumFunctionOnSet(Off(new), DOMAIN new) = SumFunctionOnSet(Off(es), DOMAIN es)
  BY <1>1, ExecutionsFinite, SumSame
<1>3. Twice(es) => Twice(new)
  <2>1. ASSUME NEW e \in DOMAIN es, es[e].supersedes # 0, es[es[e].supersedes].supersedes # 0
        PROVE  Twice(new)
    <3>1. es[e].supersedes \in DOMAIN es
      <4>1. es[e].supersedes < e
        BY DEF ExecutionsOK
      <4> QED
        BY <2>1, <4>1, ExecutionsFinite
    <3> QED
      BY <1>1, <2>1, <3>1 DEF Twice
  <2> QED
    BY <2>1 DEF Twice
<1>4. MovesOK(new)
  <2>1. ASSUME NEW e \in DOMAIN es
        PROVE  /\ new[e].order = 0 => new[e].moved = 0
               /\ new[e].order # 0 /\ new[e].supersedes = 0 /\ new[e].supersededBy = 0 =>
                     new[e].moved = new[e].quantity
    <3>1. es[e].moved \in Int /\ es[e].quantity \in Nat
      BY ExecutionsFinite
    <3> QED
      BY <3>1 DEF MovesOK
  <2> QED
    BY <2>1 DEF MovesOK
<1> QED
  BY <1>2, <1>3, <1>4 DEF Even

LEMMA ExecutedIs ==
    ASSUME Typed(Ledger), NEW x
    PROVE  LET n   == Len(executions)
               new == Executed(x)
           IN  /\ DOMAIN new = 1 .. n + 1
               /\ \A d \in 1 .. n :
                     /\ new[d].order = executions[d].order
                     /\ new[d].quantity = executions[d].quantity
                     /\ new[d].supersedes = executions[d].supersedes
                     /\ new[d].moved = executions[d].moved
                     /\ new[d].supersededBy =
                           IF d = x.supersedes THEN n + 1 ELSE executions[d].supersededBy
               /\ new[n + 1].order = x.order /\ new[n + 1].quantity = x.quantity
               /\ new[n + 1].supersedes = x.supersedes /\ new[n + 1].supersededBy = 0
               /\ new[n + 1].moved =
                     IF x.order # 0 THEN Reversed(x.supersedes) + x.quantity ELSE 0
<1> DEFINE n == Len(executions)
           marked == [d \in DOMAIN executions |->
                      IF d = x.supersedes THEN [executions[d] EXCEPT !.supersededBy = n + 1]
                      ELSE executions[d]]
           r == [fact |-> x.fact, order |-> x.order, placement |-> x.placement,
                 quantity |-> x.quantity, supersedes |-> x.supersedes, supersededBy |-> 0,
                 state |-> IF x.order # 0 THEN "matched" ELSE "unmatched",
                 moved |-> IF x.order # 0 THEN Reversed(x.supersedes) + x.quantity ELSE 0]
<1>1. /\ DOMAIN executions = 1 .. n /\ n \in Nat
      /\ \A d \in 1 .. n : executions[d] \in ExecutionType
  BY EachTyped
<1>2. Executed(x) = Append(marked, r)
  BY DEF Executed
<1>3. ASSUME NEW d \in 1 .. n
      PROVE  /\ marked[d].order = executions[d].order
             /\ marked[d].quantity = executions[d].quantity
             /\ marked[d].supersedes = executions[d].supersedes
             /\ marked[d].moved = executions[d].moved
             /\ marked[d].supersededBy =
                   IF d = x.supersedes THEN n + 1 ELSE executions[d].supersededBy
  <2>1. \A e \in ExecutionType : \A v :
          /\ [e EXCEPT !.supersededBy = v].order = e.order
          /\ [e EXCEPT !.supersededBy = v].quantity = e.quantity
          /\ [e EXCEPT !.supersededBy = v].supersedes = e.supersedes
          /\ [e EXCEPT !.supersededBy = v].moved = e.moved
          /\ [e EXCEPT !.supersededBy = v].supersededBy = v
    BY DEF ExecutionType
  <2>2. marked[d] = IF d = x.supersedes THEN [executions[d] EXCEPT !.supersededBy = n + 1]
                    ELSE executions[d]
    BY <1>1
  <2> HIDE DEF n, marked
  <2> QED
    BY <1>1, <2>1, <2>2
<1>4. /\ r.order = x.order /\ r.quantity = x.quantity
      /\ r.supersedes = x.supersedes /\ r.supersededBy = 0
      /\ r.moved = IF x.order # 0 THEN Reversed(x.supersedes) + x.quantity ELSE 0
  OBVIOUS
<1>5. marked = [d \in 1 .. n |-> marked[d]] /\ IsSeq(executions)
  <2>1. executions \in Seq(ExecutionType)
    BY TypedIs DEF ExecutionsOK
  <2>2. executions \in [1 .. n -> {executions[i] : i \in DOMAIN executions}]
    BY <1>1, <2>1
  <2> QED
    BY <1>1, <2>1, <2>2 DEF IsSeq
<1> HIDE DEF marked, r
<1>6. IsSeq(marked) /\ DOMAIN marked = 1 .. n
  BY <1>1, <1>5, MappedIs
<1>7. Len(marked) = n
  BY <1>1, <1>6 DEF IsSeq
<1>8. /\ DOMAIN Append(marked, r) = 1 .. n + 1
      /\ \A d \in 1 .. n : Append(marked, r)[d] = marked[d]
      /\ Append(marked, r)[n + 1] = r
  <2> HIDE DEF n
  <2> QED
    BY <1>6, <1>7, AppendedIs
<1> HIDE DEF n
<1> QED
  BY <1>2, <1>3, <1>4, <1>8 DEF n

\* A fact's entry moves what it then counts, and what it supersedes back.
LEMMA ExecutedEven ==
    ASSUME Typed(Ledger), MovesOK(executions), Even(executions),
           NEW x, IsFact(x), ExecutionsOK(Executed(x))
    PROVE  MovesOK(Executed(x)) /\ Even(Executed(x))
<1> DEFINE n   == Len(executions)
           s   == x.supersedes
           new == Executed(x)
<1>1. /\ DOMAIN new = 1 .. n + 1
      /\ \A d \in 1 .. n :
            /\ new[d].order = executions[d].order
            /\ new[d].quantity = executions[d].quantity
            /\ new[d].supersedes = executions[d].supersedes
            /\ new[d].moved = executions[d].moved
            /\ new[d].supersededBy = IF d = s THEN n + 1 ELSE executions[d].supersededBy
      /\ new[n + 1].order = x.order /\ new[n + 1].quantity = x.quantity
      /\ new[n + 1].supersedes = s /\ new[n + 1].supersededBy = 0
      /\ new[n + 1].moved = IF x.order # 0 THEN Reversed(s) + x.quantity ELSE 0
  BY ExecutedIs
<1>2. ExecutionsOK(executions) /\ ExecutionsOK(new)
  BY TypedIs
<1>3. /\ n \in Nat /\ DOMAIN executions = 1 .. n /\ IsFiniteSet(1 .. n)
      /\ \A d \in 1 .. n :
            /\ executions[d].moved \in Int /\ executions[d].quantity \in Nat
            /\ executions[d].supersedes \in Nat
            /\ Off(executions)[d] = executions[d].moved - Counted(executions, d)
            /\ executions[d].supersedes < d
  <2>1. /\ n \in Nat /\ DOMAIN executions = 1 .. n /\ IsFiniteSet(1 .. n)
        /\ \A d \in 1 .. n : /\ executions[d].moved \in Int /\ executions[d].quantity \in Nat
                             /\ executions[d].supersedes \in Nat
    BY <1>2, ExecutionsFinite
  <2>2. \A d \in 1 .. n : executions[d].supersedes < d
    BY <1>2, <2>1 DEF ExecutionsOK
  <2>3. \A d \in 1 .. n : Off(executions)[d] = executions[d].moved - Counted(executions, d)
    BY <2>1 DEF Off
  <2> QED
    BY <2>1, <2>2, <2>3
<1>4. /\ x.quantity \in Nat /\ s \in 0 .. n
      /\ s # 0 => executions[s].supersededBy = 0 /\ executions[s].order = x.order
      /\ Reversed(s) = IF s = 0 THEN 0 ELSE - executions[s].moved
  <2>1. /\ x.quantity \in Nat /\ s \in 0 .. n
        /\ s # 0 => executions[s].supersededBy = 0 /\ executions[s].order = x.order
    BY <1>3 DEF IsFact, Standing, Ledger
  <2> QED
    BY <2>1 DEF Reversed
<1> HIDE DEF n, s, new
<1>5. \A d \in 1 .. n + 1 : d \in 1 .. n \/ d = n + 1
  BY <1>3
<1>6. /\ \A d \in 1 .. n : d \in 1 .. n + 1
      /\ n + 1 \in 1 .. n + 1 /\ n + 1 \notin 1 .. n /\ n + 1 # 0
      /\ 1 .. n + 1 = (1 .. n) \union {n + 1}
  BY <1>3
<1>7. \A d \in 1 .. n + 1 : Off(new)[d] = new[d].moved - Counted(new, d)
  BY <1>1 DEF Off
<1>8. MovesOK(new)
  <2>1. ASSUME NEW d \in 1 .. n + 1
        PROVE  /\ new[d].order = 0 => new[d].moved = 0
               /\ new[d].order # 0 /\ new[d].supersedes = 0 /\ new[d].supersededBy = 0 =>
                     new[d].moved = new[d].quantity
    <3>1. CASE d = n + 1
      BY <1>1, <1>4, <3>1
    <3>2. CASE d \in 1 .. n
      <4>1. /\ executions[d].order = 0 => executions[d].moved = 0
            /\ executions[d].order # 0 /\ executions[d].supersedes = 0
                  /\ executions[d].supersededBy = 0 =>
                  executions[d].moved = executions[d].quantity
        BY <1>3, <3>2 DEF MovesOK
      <4>2. new[d].supersededBy = 0 => executions[d].supersededBy = 0
        BY <1>1, <1>3, <3>2
      <4> QED
        BY <1>1, <3>2, <4>1, <4>2
    <3> QED
      BY <1>5, <3>1, <3>2
  <2> QED
    BY <1>1, <2>1 DEF MovesOK
<1>9. CASE Twice(executions)
  <2>1. PICK e \in 1 .. n : executions[e].supersedes # 0
                            /\ executions[executions[e].supersedes].supersedes # 0
    BY <1>3, <1>9 DEF Twice
  <2>2. executions[e].supersedes \in 1 .. n
    BY <1>3, <2>1
  <2>3. Twice(new)
    BY <1>1, <1>6, <2>1, <2>2 DEF Twice
  <2> QED
    BY <1>8, <2>3 DEF Even, new
<1>10. CASE s # 0 /\ executions[s].supersedes # 0
  <2>1. s \in 1 .. n
    BY <1>3, <1>4, <1>10
  <2>2. Twice(new)
    BY <1>1, <1>6, <1>10, <2>1 DEF Twice
  <2> QED
    BY <1>8, <2>2 DEF Even, new
<1>11. CASE SumFunctionOnSet(Off(executions), 1 .. n) = 0
              /\ (s # 0 => executions[s].supersedes = 0)
  <2> DEFINE old == Off(executions)
             off == Off(new)
  <2>1. \A d \in 1 .. n : d # s => off[d] = old[d]
    BY <1>1, <1>3, <1>6, <1>7 DEF Counted
  <2>2. \A d \in 1 .. n + 1 : off[d] \in Int
    BY <1>1, <1>2, ExecutionsFinite
  <2>3. SumFunctionOnSet(off, 1 .. n + 1) = off[n + 1] + SumFunctionOnSet(off, 1 .. n)
    <3> HIDE DEF off
    <3> QED
      BY <1>3, <1>6, <2>2, SumAdded
  <2>4. SumFunctionOnSet(off, 1 .. n + 1) = 0
    <3>1. CASE s = 0
      <4>1. off[n + 1] = 0
        BY <1>1, <1>4, <1>6, <1>7, <3>1 DEF Counted
      <4>2. \A d \in 1 .. n : off[d] = old[d]
        BY <2>1, <3>1
      <4> HIDE DEF off, old
      <4>3. SumFunctionOnSet(off, 1 .. n) = SumFunctionOnSet(old, 1 .. n)
        BY <1>3, <4>2, SumSame
      <4> QED
        BY <1>11, <2>3, <4>1, <4>3 DEF old
    <3>2. CASE s # 0
      <4> DEFINE rest == (1 .. n) \ {s}
      <4>1. s \in 1 .. n
        BY <1>3, <1>4, <3>2
      <4>2. old[s] = 0
        BY <1>3, <1>4, <1>11, <3>2, <4>1 DEF MovesOK, Counted
      <4>3. off[s] = executions[s].moved
        BY <1>1, <1>3, <1>6, <1>7, <4>1 DEF Counted
      <4>4. off[n + 1] = - executions[s].moved
        <5>1. executions[s].order = 0 => executions[s].moved = 0
          BY <1>3, <4>1 DEF MovesOK
        <5> QED
          BY <1>1, <1>3, <1>4, <1>6, <1>7, <3>2, <4>1, <5>1 DEF Counted
      <4>5. \A d \in 1 .. n : old[d] \in Int
        BY <1>2, <1>3, ExecutionsFinite
      <4>6. IsFiniteSet(rest)
        BY <1>3, FS_Subset
      <4>7. \A d \in rest : off[d] = old[d]
        BY <2>1
      <4>8. \A d \in 1 .. n : off[d] \in Int
        BY <1>6, <2>2
      <4> HIDE DEF off, old
      <4>9. SumFunctionOnSet(old, 1 .. n) = old[s] + SumFunctionOnSet(old, rest)
        BY <1>3, <4>1, <4>5, SumWithout
      <4>10. SumFunctionOnSet(off, 1 .. n) = off[s] + SumFunctionOnSet(off, rest)
        BY <1>3, <4>1, <4>8, SumWithout
      <4>11. SumFunctionOnSet(off, rest) = SumFunctionOnSet(old, rest)
        <5> HIDE DEF rest
        <5> QED
          BY <4>6, <4>7, SumSame
      <4>12. SumFunctionOnSet(old, rest) \in Int
        BY <4>5, <4>6, SumInt
      <4>13. SumFunctionOnSet(old, 1 .. n) = 0
        BY <1>11 DEF old
      <4> HIDE DEF rest
      <4>14. SumFunctionOnSet(off, rest) = 0
        BY <4>2, <4>9, <4>11, <4>12, <4>13
      <4> QED
        BY <1>3, <2>3, <4>1, <4>3, <4>4, <4>10, <4>14
    <3> QED
      BY <3>1, <3>2
  <2> QED
    BY <1>1, <1>8, <2>4 DEF Even, new
<1> QED
  BY <1>3, <1>9, <1>10, <1>11 DEF Even

Answered(es, new) ==
    /\ DOMAIN new = DOMAIN es
    /\ \A e \in DOMAIN es :
          \/ new[e] = es[e]
          \/ /\ es[e].order = 0
             /\ new[e].quantity = es[e].quantity /\ new[e].supersedes = es[e].supersedes
             /\ es[e].supersededBy = 0 /\ new[e].supersededBy = 0
             /\ new[e].moved = IF new[e].order = 0 THEN es[e].moved
                               ELSE es[e].moved + es[e].quantity

LEMMA AnswerableIs ==
    ASSUME Typed(Ledger), NEW e, Answerable(e)
    PROVE  /\ e \in DOMAIN executions /\ executions[e] \in ExecutionType
           /\ executions[e].order = 0 /\ executions[e].supersededBy = 0
<1>1. e \in DOMAIN executions /\ executions[e].supersededBy = 0 /\ executions[e].state = "unmatched"
  BY DEF Answerable, Standing, Ledger
<1>2. executions[e] \in ExecutionType /\ (executions[e].state = "matched" <=> executions[e].order # 0)
  BY <1>1, TypedIs DEF ExecutionsOK
<1> QED
  BY <1>1, <1>2

LEMMA AcceptAnswers ==
    ASSUME Typed(Ledger), NEW l, IsLedger(l), NEW S, NEW o, o # 0,
           \A e \in S : Answerable(e), Enters(Accepted(l, S, o))
    PROVE  Answered(executions, executions')
<1> DEFINE p  == Len(placements) + 1
           new(e) == [executions[e] EXCEPT !.order = o, !.placement = p, !.state = "matched",
                                           !.moved = @ + executions[e].quantity]
           es == [e \in DOMAIN executions |-> IF e \notin S THEN executions[e] ELSE new(e)]
<1>1. executions' = es
  <2>1. IsLedger(Accepted(l, S, o)) /\ Accepted(l, S, o).executions = es
    BY DEF Accepted, IsLedger
  <2> QED
    BY <2>1, EntryExecutions
<1>2. ASSUME NEW e \in S
      PROVE  /\ executions[e].order = 0 /\ executions[e].supersededBy = 0
             /\ new(e).quantity = executions[e].quantity
             /\ new(e).supersedes = executions[e].supersedes
             /\ new(e).supersededBy = executions[e].supersededBy
             /\ new(e).order = o /\ new(e).moved = executions[e].moved + executions[e].quantity
  <2>1. /\ executions[e] \in ExecutionType
        /\ executions[e].order = 0 /\ executions[e].supersededBy = 0
    BY AnswerableIs
  <2> QED
    BY <2>1 DEF ExecutionType
<1> HIDE DEF new
<1> QED
  BY <1>1, <1>2 DEF Answered

\* What a step does to the executions: an answer, a fact, or nothing.
LEMMA StepExecutions ==
    ASSUME Typed(Ledger), [Next]_vars
    PROVE  \/ executions' = executions
           \/ Answered(executions, executions')
           \/ \E x : IsFact(x) /\ executions' = Executed(x)
<1>1. ASSUME NEW S, NEW o \in Orders, AcceptExecutions(S, o)
      PROVE  Answered(executions, executions')
  <2>1. IsLedger(Ledger) /\ o # 0
    BY EachTyped DEF IsLedger, Ledger
  <2> QED
    BY <1>1, <2>1, AcceptAnswers DEF AcceptExecutions
<1>2. ASSUME NEW S, AcceptToNewOrder(S)
      PROVE  Answered(executions, executions')
  <2> DEFINE os == Opens(NewOrder(0, Quantities(Ledger, S), "day", TRUE))
             l  == With(os)
  <2>1. IsLedger(l) /\ Len(orders) + 1 # 0
    <3>1. IsLedger(l)
      <4> HIDE DEF os
      <4> QED
        BY LedgersOf
    <3>2. Len(orders) \in Nat
      BY EachTyped
    <3>3. Len(orders) + 1 # 0
      BY <3>2
    <3> HIDE DEF l
    <3> QED
      BY <3>1, <3>3
  <2>2. (\A e \in S : Answerable(e)) /\ Enters(Accepted(l, S, Len(orders) + 1))
    BY <1>2 DEF AcceptToNewOrder
  <2> HIDE DEF l
  <2> QED
    BY <2>1, <2>2, AcceptAnswers
<1>3. ASSUME NEW e \in DOMAIN executions, DontKnow(e)
      PROVE  Answered(executions, executions')
  <2> DEFINE l == [Ledger EXCEPT !.executions[e].state = "dont_know"]
             r == [executions[e] EXCEPT !.state = "dont_know"]
  <2>1. Enters(l) /\ Answerable(e)
    BY <1>3 DEF DontKnow
  <2>2. IsLedger(l) /\ l.executions = [executions EXCEPT ![e] = r]
    BY DEF IsLedger, Ledger
  <2>3. /\ executions[e].order = 0 /\ executions[e].supersededBy = 0
        /\ executions[e] \in ExecutionType
    BY <2>1, AnswerableIs
  <2>4. /\ r.quantity = executions[e].quantity /\ r.supersedes = executions[e].supersedes
        /\ r.supersededBy = 0 /\ r.order = 0 /\ r.moved = executions[e].moved
    BY <2>3 DEF ExecutionType
  <2> HIDE DEF l, r
  <2>5. executions' = [executions EXCEPT ![e] = r]
    BY <2>1, <2>2, EntryExecutions
  <2> QED
    BY <2>3, <2>4, <2>5 DEF Answered
<1>4. ASSUME NEW x, IsFact(x), ReportExecution(x)
      PROVE  executions' = executions \/ executions' = Executed(x)
  <2>1. CASE Seen(x)
    BY <1>4, <2>1 DEF ReportExecution, vars
  <2>2. CASE ~ Seen(x)
    <3> DEFINE l == [Ledger EXCEPT !.executions = Executed(x), !.orders = Flags(x.order)]
    <3>1. Enters(l)
      BY <1>4, <2>2 DEF ReportExecution
    <3>2. IsLedger(l) /\ l.executions = Executed(x)
      BY DEF IsLedger, Ledger
    <3> QED
      BY <3>1, <3>2, EntryExecutions
  <2> QED
    BY <2>1, <2>2
<1>5. ASSUME NEW p, NEW event, NEW quantity, ReportPlacement(p, event, quantity)
      PROVE  executions' = executions
  <2> DEFINE o     == placements[p].order
             after == [Ledger EXCEPT !.placements[p] = Reported(@, event, quantity)]
             past  == event = "restated" /\ quantity > orders[o].quantity
             flagged == [orders[o] EXCEPT !.lateFact = @ \/ past]
             r == IF EndsUnfilled(after, p, event) THEN End(flagged, "cancelled") ELSE flagged
             l == [after EXCEPT !.orders[o] = r]
  <2>1. IsLedger(after) /\ after.executions = executions
    BY DEF Ledger, IsLedger
  <2>2. Enters(l)
    BY <1>5 DEF ReportPlacement
  <2> HIDE DEF after, r
  <2>3. IsLedger(l) /\ l.executions = executions
    BY <2>1, OneOf
  <2> HIDE DEF l
  <2> QED
    BY <2>2, <2>3, EntryExecutions
<1>6. ASSUME Clock
      PROVE  executions' = executions
  <2>1. PICK o \in Orders : ExpireOrder(o)
    BY <1>6 DEF Clock
  <2> DEFINE os == [orders EXCEPT ![o] = End(@, "expired")]
  <2>2. Enters(With(os)) \/ Enters(CancelParts(o, "expired", FALSE))
    BY <2>1 DEF ExpireOrder
  <2>3. /\ IsLedger(With(os)) /\ With(os).executions = executions
        /\ IsLedger(CancelParts(o, "expired", FALSE))
        /\ CancelParts(o, "expired", FALSE).executions = executions
    BY DEF With, CancelParts, IsLedger, Ledger
  <2> QED
    BY <2>2, <2>3, EntryExecutions
<1>7. CASE UNCHANGED vars
  BY <1>7 DEF vars
<1>8. CASE Facts
  BY <1>4, <1>5, <1>7, <1>8, FactsAre
<1>9. CASE Commands
  BY <1>1, <1>2, <1>3, <1>9, CommandExecutions
<1> QED
  BY <1>6, <1>7, <1>8, <1>9 DEF Next

LEMMA EvenStep ==
    ASSUME Typed(Ledger), MovesOK(executions), Even(executions), [Next]_vars
    PROVE  MovesOK(executions') /\ Even(executions')
<1>1. ExecutionsOK(executions) /\ ExecutionsOK(executions')
  <2>1. Typed(Ledger')
    BY TypedStep
  <2> QED
    BY <2>1, TypedIs DEF Typed, Ledger
<1>2. CASE Answered(executions, executions')
  BY <1>1, <1>2, AnsweredEven DEF Answered
<1>3. ASSUME NEW x, IsFact(x), executions' = Executed(x)
      PROVE  MovesOK(executions') /\ Even(executions')
  BY <1>1, <1>3, ExecutedEven
<1> QED
  BY <1>2, <1>3, StepExecutions

(***************************************************************************)
(* The position the entries moved is the fills that stand, unless one was  *)
(* corrected and its correction then busted or corrected.                  *)
(***************************************************************************)
THEOREM PositionIsOfFills == Spec => []PositionFollowsFills
<1> DEFINE Inv == Typed(Ledger) /\ MovesOK(executions) /\ Even(executions)
<1>1. Init => Inv
  <2>1. Init => MovesOK(executions)
    BY DEF Init, MovesOK
  <2>2. Init => SumFunctionOnSet(Off(executions), DOMAIN executions) = 0
    <3> SUFFICES ASSUME Init
                 PROVE  SumFunctionOnSet(Off(executions), DOMAIN executions) = 0
      OBVIOUS
    <3>1. DOMAIN executions = {}
      BY DEF Init
    <3> QED
      BY <3>1, SumEmpty
  <2> QED
    BY <2>1, <2>2, TypedInit DEF Even
<1>2. Inv /\ [Next]_vars => Inv'
  <2> SUFFICES ASSUME Inv, [Next]_vars PROVE Inv'
    OBVIOUS
  <2>1. Typed(Ledger')
    BY TypedStep
  <2>2. Typed(Ledger)' <=> Typed(Ledger')
    BY DEF Typed, OrdersOK, PlacementsOK, ExecutionsOK, LinksOK, Ledger
  <2>3. MovesOK(executions') /\ Even(executions')
    BY EvenStep
  <2>4. MovesOK(executions)' <=> MovesOK(executions')
    BY DEF MovesOK
  <2>5. Even(executions)' <=> Even(executions')
    BY DEF Even, Twice, Off, Counted
  <2> QED
    BY <2>1, <2>2, <2>3, <2>4, <2>5
<1>3. Inv => PositionFollowsFills
  <2> SUFFICES ASSUME Inv PROVE PositionFollowsFills
    OBVIOUS
  <2>1. CASE Twice(executions)
    BY <2>1 DEF PositionFollowsFills, Twice
  <2>2. CASE SumFunctionOnSet(Off(executions), DOMAIN executions) = 0
    <3>1. ExecutionsOK(executions)
      BY TypedIs
    <3>2. Standings = SumFunction([e \in {c \in {d \in DOMAIN executions :
                                                   executions[d].supersededBy = 0} :
                                            executions[c].order # 0} |-> executions[e].quantity])
      BY DEF Standings, Quantities, Standing, Ledger
    <3>3. Position = Standings
      BY <2>2, <3>1, <3>2, OffIs DEF Position
    <3> QED
      BY <3>3 DEF PositionFollowsFills
  <2> QED
    BY <2>1, <2>2 DEF Even
<1> QED
  BY <1>1, <1>2, <1>3, PTL DEF Spec

=============================================================================

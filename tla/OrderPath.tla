----------------------------- MODULE OrderPath ------------------------------
(***************************************************************************)
(* The order path in one account's book (crates/bor/src/orders.rs,         *)
(* order_decide.rs): orders and their split children, their placements at  *)
(* venues, the venues' executions, and the changes asked of each.          *)
(*                                                                         *)
(* The ledger keeps what was asked and reported; an order's state and      *)
(* quantities are folded from it and never kept.  A command or a fact is   *)
(* one entry: its acts, with the ends that follow from them (`settle`).    *)
(* A command the table does not allow is refused; a venue's fact never is. *)
(*                                                                         *)
(* Orders, placements and executions are numbered as they are minted; 0    *)
(* names none.  The account has one instrument, side and price.            *)
(***************************************************************************)
EXTENDS OrderTable, Integers, SequencesExt

CONSTANTS
    Tifs,            \* the times in force orders are given
    Events,          \* the placement events the venue reports
    Ordered,         \* bound: the quantities orders are given
    Parts,           \* bound: those of placements and fills
    Changes,         \* the changes the ems asks of a placement
    Shapes,          \* bound: how many orders, placements and executions are minted
    MaxRoots,        \* bound: how many orders have no parent
    MaxAsks          \* bound: the changes pending on one placement

ASSUME PathAssumption ==
    /\ Tifs \subseteq {"day", "immediate", "gtc"}
    /\ Events \subseteq {"sent", "acknowledged", "replaced", "done_for_day", "restated",
                         "cancelled", "expired", "rejected", "unknown", "resolved"}
    /\ Ordered \subseteq Nat \ {0} /\ Parts \subseteq Nat \ {0}
    /\ Changes \subseteq {"cancel", "replace"}
    /\ Shapes \subseteq Nat \X Nat \X Nat
    /\ {MaxRoots, MaxAsks} \subseteq Nat

VARIABLES
    orders,      \* Ledger.orders
    placements,  \* Ledger.placements, each with the changes pending on it
    executions   \* Ledger.executions, each with what its entry moved

vars == <<orders, placements, executions>>

Ledger == [orders |-> orders, placements |-> placements, executions |-> executions]

Init ==
    /\ orders = <<>>
    /\ placements = <<>>
    /\ executions = <<>>

MayMint(o, p, e) ==
    \E shape \in Shapes :
        /\ Len(orders) + o <= shape[1]
        /\ Len(placements) + p <= shape[2]
        /\ Len(executions) + e <= shape[3]

NewOrder(parent, quantity, tif, released) ==
    [parent |-> parent, quantity |-> quantity, tif |-> tif, released |-> released,
     ending |-> "no", ended |-> "no", cancelAsked |-> FALSE, lateFact |-> FALSE]

NewPlacement(o, quantity, tif) ==
    [order |-> o, quantity |-> quantity, tif |-> tif, state |-> "queued",
     unknown |-> FALSE, asks |-> <<>>]

MayOpen ==
    MayMint(1, 0, 0) /\ Cardinality({o \in DOMAIN orders : orders[o].parent = 0}) < MaxRoots

-----------------------------------------------------------------------------
(* The fold.                                                               *)

Children(l, o)     == {c \in DOMAIN l.orders : l.orders[c].parent = o}
PlacementsOf(l, o) == {p \in DOMAIN l.placements : l.placements[p].order = o}

\* Mutant: a superseded execution counts on.
StandingAll(l) == DOMAIN l.executions

\* The executions that count: on the order, and superseded by none.
Standing(l) == {e \in DOMAIN l.executions : l.executions[e].supersededBy = 0}

Fills(l, o) ==
    [e \in {d \in Standing(l) : l.executions[d].order = o} |-> l.executions[e].quantity]

OwnFilled(l, o) == SumFunction(Fills(l, o))

\* What is each order's own and its children's, up the chain.
UpTheChain(own, parent) ==
    LET sum[o \in DOMAIN own] ==
          own[o] + SumFunctionOnSet(sum, {c \in DOMAIN own : parent[c] = o})
    IN  sum

Parents(l) == [o \in DOMAIN l.orders |-> l.orders[o].parent]
Filled(l)  == UpTheChain([o \in DOMAIN l.orders |-> OwnFilled(l, o)], Parents(l))

Quantities(l, S) == SumFunction([e \in S |-> l.executions[e].quantity])

PlacementFilled(l, p) ==
    Quantities(l, {e \in Standing(l) : l.executions[e].placement = p})

LivePlacementStates == {"queued", "sent", "working", "done_for_day"}

PlacementState(l, p) ==
    LET pl == l.placements[p]
    IN  IF /\ pl.state \in LivePlacementStates
           /\ pl.quantity # 0
           /\ PlacementFilled(l, p) >= pl.quantity
        THEN "filled" ELSE pl.state

\* Open at the venue, or not known not to be.
PlacementLive(l, p) ==
    LET state == PlacementState(l, p)
    IN  state \in LivePlacementStates \/ (l.placements[p].unknown /\ state # "filled")

PlacementOpen(l, p) ==
    IF PlacementLive(l, p)
    THEN Max({0, l.placements[p].quantity - PlacementFilled(l, p)}) ELSE 0

Complete(l, o) == l.orders[o].quantity # 0 /\ Filled(l)[o] >= l.orders[o].quantity
OrderLive(l, o) == l.orders[o].ended = "no" /\ ~Complete(l, o)

Committed(l, o) ==
    SumFunction([p \in PlacementsOf(l, o) |-> PlacementOpen(l, p)])
      + SumFunction([c \in {d \in Children(l, o) : OrderLive(l, d)} |->
                        Max({0, l.orders[c].quantity - Filled(l)[c]})])

State(l, o) ==
    IF l.orders[o].ended # "no" THEN l.orders[o].ended
    ELSE IF Complete(l, o) THEN "filled"
    ELSE IF ~l.orders[o].released THEN "proposed"
    ELSE IF Filled(l)[o] # 0 \/ Committed(l, o) # 0 THEN "working"
    ELSE "released"

LivePlacements(l, o) == {p \in PlacementsOf(l, o) : PlacementLive(l, p)}
LiveChildren(l, o)   == {c \in Children(l, o) : OrderLive(l, c)}

-----------------------------------------------------------------------------
(* An entry.                                                               *)

\* Mutant: one pass, so that a parent waits for the next entry.
EndsOnce(l) ==
    {o \in DOMAIN l.orders :
        /\ l.orders[o].ending # "no" /\ l.orders[o].ended = "no"
        /\ LivePlacements(l, o) = {} /\ LiveChildren(l, o) = {}}

\* The orders that end with an entry: ending, with no live placement and no
\* live child but one that ends with it.
Ends(l) ==
    LET ending == {o \in DOMAIN l.orders :
                      /\ l.orders[o].ending # "no" /\ l.orders[o].ended = "no"
                      /\ LivePlacements(l, o) = {}}
        ends[o \in DOMAIN l.orders] == o \in ending /\ \A c \in LiveChildren(l, o) : ends[c]
    IN  {o \in ending : ends[o]}

End(order, as) == [order EXCEPT !.ended = as, !.ending = "no"]

Settle(l) ==
    [l EXCEPT !.orders =
        [o \in DOMAIN l.orders |->
            IF o \notin Ends(l) THEN l.orders[o]
            ELSE End([l.orders[o] EXCEPT
                        !.cancelAsked = @ /\ l.orders[o].ending # "cancelled"],
                     l.orders[o].ending)]]

Becomes(l) ==
    /\ orders' = l.orders
    /\ placements' = l.placements
    /\ executions' = l.executions

\* A fact's entry, and a command's that its row allows: what it leaves the
\* order in is checked against the row before it is kept.
Enters(l) == Becomes(Settle(l))
Commits(l, o, rows) ==
    /\ \E r \in rows : Admits(Rows[r], State(Ledger, o), State(Settle(l), o))
    /\ Becomes(Settle(l))

-----------------------------------------------------------------------------
(* The commands on an order.                                               *)

Orders      == DOMAIN orders
Now(o)      == State(Ledger, o)
With(news)  == [Ledger EXCEPT !.orders = news]
Opens(order) == Append(orders, order)

ProposeOrder(quantity, tif) ==
    /\ MayOpen
    /\ Enters(With(Opens(NewOrder(0, quantity, tif, FALSE))))

\* A telephoned order: released as it is recorded, never through the gate.
RecordOrder(quantity, tif) ==
    /\ MayOpen
    /\ Enters(With(Opens(NewOrder(0, quantity, tif, TRUE))))

\* A split child: released on creation, within its parent.
SplitOrder(parent, quantity, tif) ==
    /\ MayMint(1, 0, 0)
    /\ Now(parent) \in {"released", "working"}
    /\ Enters(With(Opens(NewOrder(parent, quantity, tif, TRUE))))

\* Its gate is OrderGate's.
ReleaseOrder(o) ==
    /\ StartsFrom(Rows.r1, Now(o))
    /\ Commits(With([orders EXCEPT ![o].released = TRUE]), o, {"r1"})

\* The live orders below an order, each reached through live ones.
LiveBelow(o) ==
    LET below[a \in Orders] ==
          LiveChildren(Ledger, a) \union UNION {below[c] : c \in LiveChildren(Ledger, a)}
    IN  below[o]

\* `cancel_parts`, and the order's own end to come: every live placement of
\* it and of the live orders below is asked to cancel, once.
CancelParts(o, as, asked) ==
    LET below == LiveBelow(o)
        parts == UNION {LivePlacements(Ledger, a) : a \in below \union {o}}
    IN  [Ledger EXCEPT
            !.orders = [a \in Orders |->
                IF a \in below
                THEN [orders[a] EXCEPT !.ending = as, !.cancelAsked = TRUE]
                ELSE IF a = o
                THEN [orders[a] EXCEPT !.ending = as, !.cancelAsked = @ \/ asked]
                ELSE orders[a]],
            !.placements = [p \in DOMAIN placements |->
                IF p \in parts /\ "cancel" \notin Range(placements[p].asks)
                THEN [placements[p] EXCEPT !.asks = Append(@, "cancel")]
                ELSE placements[p]]]

CancelOrder(o) ==
    /\ StartsFrom(Rows.i3, Now(o))
    /\ Commits(CancelParts(o, "cancelled", TRUE), o, {"i3"})

WithdrawOrder(o) ==
    /\ StartsFrom(Rows.i1, Now(o))
    /\ Commits(With([orders EXCEPT ![o] = End(@, "cancelled")]), o, {"i1"})

RecallOrder(o) ==
    /\ StartsFrom(Rows.r5, Now(o))
    /\ Committed(Ledger, o) = 0 /\ Filled(Ledger)[o] = 0
    /\ Commits(With([orders EXCEPT ![o].released = FALSE]), o, {"r5"})

\* Its time in force, limit or instructions: carried to its live placements
\* as replaces, once it is released.
AmendOrder(o, tif) ==
    LET amended == [orders EXCEPT ![o].tif = tif]
        carried == LivePlacements(Ledger, o)
    IN  /\ Now(o) \notin Ended \union {"filled"}
        /\ \A p \in carried : Len(placements[p].asks) < MaxAsks
        /\ IF Now(o) = "proposed" THEN Enters(With(amended))
           ELSE Commits([With(amended) EXCEPT
                            !.placements = [p \in DOMAIN placements |->
                                IF p \in carried
                                THEN [placements[p] EXCEPT !.asks = Append(@, "replace")]
                                ELSE placements[p]]], o, {"r15"})

\* The proposer's to any quantity, another's only to what was filled; held to
\* no row.
ChangeQuantity(o, quantity) ==
    /\ Now(o) \notin Ended
    /\ quantity \in {0, Filled(Ledger)[o]} \union Ordered
    /\ Enters(With([orders EXCEPT ![o].quantity = quantity]))

\* The order's time in force ends, by the deployment's clock.
ExpireOrder(o) ==
    /\ orders[o].tif = "day"
    /\ orders[o].ending = "no" /\ orders[o].ended = "no"
    /\ \/ /\ StartsFrom(Rows.i7, Now(o))
          /\ Enters(With([orders EXCEPT ![o] = End(@, "expired")]))
       \/ /\ StartsFrom(Rows.i4, Now(o))
          /\ Enters(CancelParts(o, "expired", FALSE))

AcknowledgeFlag(o) ==
    /\ orders[o].lateFact
    /\ Enters(With([orders EXCEPT ![o].lateFact = FALSE]))

-----------------------------------------------------------------------------
(* Placements.                                                             *)

CreatePlacement(o, quantity) ==
    /\ MayMint(0, 1, 0)
    /\ Now(o) \in {"released", "working"}
    /\ Commits([Ledger EXCEPT !.placements =
                    Append(@, NewPlacement(o, quantity, orders[o].tif))], o, {"r6", "r8"})

\* The ems's of a live placement; a cancel the venue sent under a stop is of
\* any.
RequestPlacementChange(p, kind) ==
    /\ Len(placements[p].asks) < MaxAsks
    /\ kind = "cancel" \/ PlacementLive(Ledger, p)
    /\ Enters([Ledger EXCEPT !.placements[p].asks = Append(@, kind)])

\* Of the changes pending, the cancels: every other is a replace.
Cancels(asks) ==
    [i \in 1 .. Cardinality({j \in DOMAIN asks : asks[j] = "cancel"}) |-> "cancel"]

\* What the venue's event makes of the placement (`Ledger::reported`).
Reported(pl, event, quantity) ==
    LET live    == pl.state \in LivePlacementStates
        moved(s) == [pl EXCEPT !.state = s]
        ended(s) == [pl EXCEPT !.state = IF live THEN s ELSE @, !.asks = <<>>]
    IN  CASE event = "sent" -> IF pl.state = "queued" THEN moved("sent") ELSE pl
          [] event = "acknowledged" ->
                IF pl.state \in {"queued", "sent"} THEN moved("working") ELSE pl
          [] event = "replaced" ->
                [pl EXCEPT !.quantity = quantity,
                           !.asks = Cancels(@)]
          [] event = "done_for_day" -> IF live THEN moved("done_for_day") ELSE pl
          [] event = "restated" ->
                [pl EXCEPT !.quantity = quantity,
                           !.state = IF @ = "done_for_day" THEN "working" ELSE @]
          [] event \in {"cancelled", "expired"} -> [ended(event) EXCEPT !.unknown = FALSE]
          [] event = "rejected" ->
                IF pl.state \in {"working", "done_for_day"} /\ pl.asks # <<>>
                THEN [pl EXCEPT !.asks = Front(@)] ELSE ended("rejected")
          [] event = "unknown"  -> [pl EXCEPT !.unknown = TRUE]
          [] event = "resolved" -> [pl EXCEPT !.unknown = FALSE]

\* An immediate order ends when its immediate placement ended unfilled and no
\* part of it is live (row 21).
EndsUnfilled(after, p, event) ==
    LET o == placements[p].order
    IN  /\ event \in {"cancelled", "expired", "rejected"}
        /\ PlacementFilled(Ledger, p) = 0
        /\ placements[p].tif = "immediate" /\ orders[o].tif = "immediate"
        /\ Now(o) \in {"released", "working"}
        /\ LivePlacements(after, o) = {} /\ LiveChildren(after, o) = {}

ReportPlacement(p, event, quantity) ==
    LET o     == placements[p].order
        after == [Ledger EXCEPT !.placements[p] = Reported(@, event, quantity)]
        past  == event = "restated" /\ quantity > orders[o].quantity
        flagged == [orders[o] EXCEPT !.lateFact = @ \/ past]
    IN  /\ event \in Events
        /\ event \in {"replaced", "restated"} \/ quantity = placements[p].quantity
        /\ Enters([after EXCEPT !.orders[o] =
              IF EndsUnfilled(after, p, event) THEN End(flagged, "cancelled") ELSE flagged])

-----------------------------------------------------------------------------
(* Executions.                                                             *)

\* A fact: the venue's identifier, the placement or the order it names (0 of
\* both where it knows neither), its quantity, 0 in a bust, and what it
\* supersedes.
Fact(id, p, o, quantity, supersedes) ==
    [fact |-> id, placement |-> p, order |-> o, quantity |-> quantity,
     supersedes |-> supersedes]

\* `venue_facts`: the fact was applied already.
Seen(x) ==
    \E e \in DOMAIN executions :
        executions[e].fact = x.fact /\ executions[e].supersedes = x.supersedes

\* Mutant: what a correction corrects is left in the position.
ReversedNever(s) == 0

\* What the superseded execution's entry moved, negated (`reversal_lines`).
Reversed(s) ==
    IF s = 0 \/ executions[s].supersededBy # 0 THEN 0 ELSE - executions[s].moved

\* A matched fact's entry moves the reversal of what it supersedes and its own.
Executed(x) ==
    LET e       == Len(executions) + 1
        matched == x.order # 0
        marked  == [d \in DOMAIN executions |->
                      IF d = x.supersedes THEN [executions[d] EXCEPT !.supersededBy = e]
                      ELSE executions[d]]
    IN  Append(marked,
          [fact |-> x.fact, order |-> x.order, placement |-> x.placement,
           quantity |-> x.quantity, supersedes |-> x.supersedes, supersededBy |-> 0,
           state |-> IF matched THEN "matched" ELSE "unmatched",
           moved |-> IF matched THEN Reversed(x.supersedes) + x.quantity ELSE 0])

\* Mutant: a late fill is not flagged.
FlagsNone(o) == orders

\* A fill after its order ended is flagged.
Flags(o) ==
    IF o # 0 /\ Now(o) \in Ended THEN [orders EXCEPT ![o].lateFact = TRUE] ELSE orders

ReportExecution(x) ==
    IF Seen(x) THEN UNCHANGED vars
    ELSE /\ MayMint(0, 0, 1)
         /\ Enters([Ledger EXCEPT !.executions = Executed(x), !.orders = Flags(x.order)])

NewFact == Len(executions) + 1

\* Mutant: a fill keeps its placement and not the order the placement is of.
FillOfNoOrder(p, quantity) == ReportExecution(Fact(NewFact, p, 0, quantity, 0))

Fill(p, quantity) == ReportExecution(Fact(NewFact, p, placements[p].order, quantity, 0))

\* Done away or entered by hand: against the order, on no placement.
FillAway(o, quantity) == ReportExecution(Fact(NewFact, 0, o, quantity, 0))

FillUnplaced(quantity) == ReportExecution(Fact(NewFact, 0, 0, quantity, 0))

\* A bust or a correction names the last correction, not the original, and the
\* placement or order that execution is on.
Supersede(e, quantity) ==
    /\ e \in Standing(Ledger) /\ executions[e].quantity # 0
    /\ ReportExecution(Fact(NewFact, executions[e].placement, executions[e].order,
                            quantity, e))

\* The venue or its plugin sends a fact again.
Resend(e) ==
    LET x == executions[e]
    IN  ReportExecution(Fact(x.fact, x.placement, x.order, x.quantity, x.supersedes))

Answerable(e) ==
    /\ executions[e].state = "unmatched"
    /\ e \in Standing(Ledger)
    /\ executions[e].quantity # 0

\* The accepting ems's placement, made for the fills it accepts, and the fills
\* on it; each moves the position by its own lines.
Accepted(l, S, o) ==
    LET p == Len(placements) + 1
    IN  [l EXCEPT
            !.placements =
                Append(@, NewPlacement(o, Quantities(Ledger, S), l.orders[o].tif)),
            !.executions = [e \in DOMAIN executions |->
                IF e \notin S THEN executions[e]
                ELSE [executions[e] EXCEPT !.order = o, !.placement = p,
                                           !.state = "matched", !.moved = @ + executions[e].quantity]]]

AcceptExecutions(S, o) ==
    /\ S # {} /\ \A e \in S : Answerable(e)
    /\ MayMint(0, 1, 0)
    /\ Now(o) \in {"released", "working", "filled"}
    /\ Filled(Ledger)[o] + Quantities(Ledger, S) <= orders[o].quantity
    /\ Enters(Accepted(Ledger, S, o))

AcceptToNewOrder(S) ==
    LET order == NewOrder(0, Quantities(Ledger, S), "day", TRUE)
    IN  /\ S # {} /\ \A e \in S : Answerable(e)
        /\ MayOpen /\ MayMint(1, 1, 0)
        /\ Enters(Accepted(With(Opens(order)), S, Len(orders) + 1))

DontKnow(e) ==
    /\ Answerable(e)
    /\ Enters([Ledger EXCEPT !.executions[e].state = "dont_know"])

-----------------------------------------------------------------------------

Commands ==
    \/ \E quantity \in Ordered, tif \in Tifs :
        \/ ProposeOrder(quantity, tif)
        \/ RecordOrder(quantity, tif)
        \/ \E o \in Orders : SplitOrder(o, quantity, tif)
    \/ \E o \in Orders :
        \/ ReleaseOrder(o)
        \/ CancelOrder(o)
        \/ WithdrawOrder(o)
        \/ RecallOrder(o)
        \/ AcknowledgeFlag(o)
        \/ \E tif \in Tifs : AmendOrder(o, tif)
        \/ \E quantity \in {0, Filled(Ledger)[o]} \union Ordered : ChangeQuantity(o, quantity)
        \/ \E quantity \in Parts : CreatePlacement(o, quantity)
        \/ \E S \in SUBSET DOMAIN executions : AcceptExecutions(S, o)
    \/ \E S \in SUBSET DOMAIN executions : AcceptToNewOrder(S)
    \/ \E e \in DOMAIN executions : DontKnow(e)
    \/ \E p \in DOMAIN placements, kind \in Changes : RequestPlacementChange(p, kind)

Facts ==
    \/ \E p \in DOMAIN placements, event \in Events :
        \E quantity \in Parts \union {placements[p].quantity} :
            ReportPlacement(p, event, quantity)
    \/ \E quantity \in Parts :
        \/ FillUnplaced(quantity)
        \/ \E p \in DOMAIN placements : Fill(p, quantity)
        \/ \E o \in Orders : FillAway(o, quantity)
    \/ \E e \in DOMAIN executions :
        \/ \E quantity \in {0} \union Parts : Supersede(e, quantity)
        \/ Resend(e)

Clock == \E o \in Orders : ExpireOrder(o)

Next == Commands \/ Facts \/ Clock

Spec == Init /\ [][Next]_vars

-----------------------------------------------------------------------------
(* Properties.                                                             *)

OrderType ==
    [parent : Nat, quantity : Nat, tif : Tifs \union {"day"}, released : BOOLEAN,
     ending : {"no", "cancelled", "expired"}, ended : {"no"} \union Ended,
     cancelAsked : BOOLEAN, lateFact : BOOLEAN]

PlacementType ==
    [order : Nat, quantity : Nat, tif : Tifs \union {"day"},
     state : LivePlacementStates \union {"cancelled", "expired", "rejected"},
     unknown : BOOLEAN, asks : Seq({"cancel", "replace"})]

\* Types; a part names what was minted before it.
TypeOK ==
    /\ orders \in Seq(OrderType)
    /\ \A o \in Orders : orders[o].parent < o
    /\ placements \in Seq(PlacementType)
    /\ \A p \in DOMAIN placements : placements[p].order \in Orders
    /\ \A e \in DOMAIN executions :
          /\ executions[e].order \in Orders \union {0}
          /\ executions[e].placement \in DOMAIN placements \union {0}
          /\ executions[e].placement # 0 =>
                placements[executions[e].placement].order = executions[e].order
          /\ executions[e].supersedes < e
          /\ executions[e].state \in {"unmatched", "matched", "dont_know"}
          /\ executions[e].state = "matched" <=> executions[e].order # 0

\* An order asked to end ends with the entry that left nothing of it live,
\* whichever command or fact that was and however many orders up the chain
\* wait for it: none is left for an entry that may never come.
NothingLiveIsEnded ==
    \A o \in Orders :
        orders[o].ending # "no" /\ orders[o].ended = "no" =>
            LivePlacements(Ledger, o) # {} \/ LiveChildren(Ledger, o) # {}

\* An order refused, cancelled or expired stays so, whatever is reported,
\* answered, busted or asked of it or of its children afterwards.
EndedStays ==
    [][\A o \in Orders : orders[o].ended # "no" => orders'[o].ended = orders[o].ended]_vars

\* What is filled is what the venue says stands: of each fill the last
\* correction alone, none once busted, and a fact sent again not once more.
FilledByItsFacts ==
    LET last(e) == \A d \in DOMAIN executions : executions[d].supersedes # e
        facts(o) == {e \in DOMAIN executions :
                        last(e) /\ executions[e].order = o}
        stands(o) == {executions[e].fact : e \in facts(o)}
        says(f) == LET e == CHOOSE d \in DOMAIN executions : executions[d].fact = f
                   IN  executions[e].quantity
        told == [o \in Orders |-> SumFunction([f \in stands(o) |-> says(f)])]
    IN  \A o \in Orders : Filled(Ledger)[o] = UpTheChain(told, Parents(Ledger))[o]

\* What a fact changes of an order that has ended is flagged on the order it
\* names until a person acknowledges it.
LateIsFlagged ==
    [][\A o \in Orders :
        /\ orders[o].ended # "no"
        /\ OwnFilled(Ledger, o) # OwnFilled(Ledger', o)
        => orders'[o].lateFact]_vars

Position  == SumFunction([e \in DOMAIN executions |-> executions[e].moved])
Standings == Quantities(Ledger, {e \in Standing(Ledger) : executions[e].order # 0})

\* The position the entries moved is the fills that stand, unless one was
\* corrected and its correction then busted or corrected.
PositionFollowsFills ==
    \/ Position = Standings
    \/ \E e \in DOMAIN executions :
          LET s == executions[e].supersedes
          IN  s # 0 /\ executions[s].supersedes # 0

\* "A superseded execution's lines, negated: the position it moved reversed by
\* the superseding entry" (order_decide.rs:3498).
PositionIsFills == Position = Standings

=============================================================================

-------------------------- MODULE CapturedLogProofs -------------------------
(***************************************************************************)
(* A captured change log implements FencedLog, for any members, batch and  *)
(* page sizes and bounds.                                                  *)
(*                                                                         *)
(* One transaction at most has taken a sequence, and it holds the head     *)
(* row: what it took is the head's next, under the epoch in force, and it  *)
(* names that epoch if it names one (HoldsTheHead).  A leased member's     *)
(* transactions name the epoch it raised itself (NamesItsOwn), and each    *)
(* epoch is raised once (Raised).                                          *)
(*                                                                         *)
(* The rows of the log run on, and so do those of a transaction that took  *)
(* a sequence, from the head (Running).  What the tail has read and has    *)
(* not published is every row committed between two sequences: the one     *)
(* published last and the one read last (TailFollows).                     *)
(***************************************************************************)
EXTENDS CapturedLog, FoldLemmas, TLAPS

Row == [sequence : Nat, ordinal : Int, epoch : Nat]

Transaction ==
    [named : Nat, sequence : Nat, ordinal : Int, claimed : BOOLEAN, rows : Seq(Row)]

Entry ==
    [account : {Empty}, message : {Empty}, key : {Empty}, by : Members,
     rows : Seq(Row), first : Nat, last : Nat, epoch : Nat]

Types ==
    /\ sequence \in Nat /\ epoch \in Nat \ {0}
    /\ log \in Seq(Entry)
    /\ lock \in Members \union {None}
    /\ mode \in [Members -> {"standby", "taking", "writer"}]
    /\ snap \in [Members -> 0 .. epoch] /\ fence \in [Members -> 0 .. epoch]
    /\ tx \in [Members -> Transaction \union {None}]

\* The transaction that took a sequence holds the head row, took the next, and
\* was let through under the epoch it still finds there.
HoldsTheHead ==
    \A m \in Members :
        /\ lock = m <=> tx[m] # None /\ Took(tx[m])
        /\ lock = m =>
              /\ tx[m].rows[1].sequence = sequence + 1
              /\ tx[m].rows[1].epoch = epoch
              /\ tx[m].sequence >= sequence + 1
              /\ tx[m].named \in {0, epoch}

\* A leased member that writes names the epoch recorded as its own.
NamesItsOwn ==
    \A m \in Members :
        /\ mode[m] # "standby" => m \in Leased
        /\ mode[m] = "writer" =>
              fence[m] # 0 /\ [epoch |-> fence[m], member |-> m] \in tookOver
        /\ m \in Leased /\ tx[m] # None => mode[m] = "writer" /\ tx[m].named = fence[m]

\* Each epoch from the second is raised once, and one read is not past it.
Raised ==
    /\ \A t \in tookOver : t.epoch \in 2 .. epoch
    /\ \A e \in 2 .. epoch : Recorded(e)
    /\ \A t, u \in tookOver : t.epoch = u.epoch => t = u
    /\ \A m \in Members : mode[m] = "taking" => snap[m] # 0

\* The head row's sequence is where the log ends.
AtTheEnd == sequence = IF log = <<>> THEN 0 ELSE log[Len(log)].last

\* A page is being published exactly while one is there and read whole.
TailReads ==
    /\ tail = [at |-> tail.at, after |-> tail.after, head |-> tail.head,
               from |-> tail.from, page |-> tail.page]
    /\ tail.at \in {"down", "waits", "reads", "pages", "publishes"}
    /\ tail.at = "publishes" <=> tail.page # {} /\ tail.at # "pages"

CapturedInv ==
    Types /\ HoldsTheHead /\ NamesItsOwn /\ Raised /\ AtTheEnd /\ TailReads

-----------------------------------------------------------------------------
(* The operators.                                                          *)

LEMMA SomeTransaction ==
    ASSUME NEW t \in Transaction
    PROVE  t # None
<1> SUFFICES ASSUME t = None PROVE FALSE
  OBVIOUS
<1>1. DOMAIN t = {"named", "sequence", "ordinal", "claimed", "rows"}
  BY DEF Transaction
<1>2. DOMAIN t = {}
  BY DEF None
<1> QED
  BY <1>1, <1>2

\* A row taken for a transaction leaves the ones before it, and the epoch
\* named; its first is the head's next sequence, under the head's epoch.
Takes(t, n) ==
    /\ n \in Transaction /\ n.rows # <<>> /\ n.named = t.named
    /\ Took(t) => n.rows[1] = t.rows[1] /\ n.sequence >= t.sequence
    /\ ~Took(t) =>
          /\ n.rows[1].sequence = sequence + 1 /\ n.rows[1].epoch = epoch
          /\ n.sequence = sequence + 1

\* What the row is taken from: the transaction, numbered on.
NumberedOn(t, n) ==
    /\ n \in Transaction /\ n.rows = t.rows /\ n.named = t.named
    /\ Took(t) => n.sequence >= t.sequence
    /\ ~Took(t) => n.sequence = sequence + 1

LEMMA RowTaken ==
    ASSUME NEW t \in Transaction, NEW n, NumberedOn(t, n),
           epoch \in Nat, sequence \in Nat
    PROVE  Takes(t, [n EXCEPT !.rows =
                        Append(@, [sequence |-> n.sequence, ordinal |-> n.ordinal,
                                   epoch |-> epoch])])
<1> DEFINE row  == [sequence |-> n.sequence, ordinal |-> n.ordinal, epoch |-> epoch]
           more == Append(n.rows, row)
           next == [n EXCEPT !.rows = more]
<1>1. row \in Row /\ row.sequence = n.sequence /\ row.epoch = epoch
  BY DEF Row, Transaction, NumberedOn
<1>2. t.rows \in Seq(Row) /\ n.rows = t.rows /\ n \in Transaction
  BY DEF Transaction, NumberedOn
<1> HIDE DEF row
<1>3. /\ more \in Seq(Row) /\ more # <<>>
      /\ t.rows # <<>> => more[1] = t.rows[1]
      /\ t.rows = <<>> => more[1] = row
  BY <1>1, <1>2
<1> HIDE DEF more
<1>4. next \in Transaction /\ next.rows = more /\ next.named = n.named
      /\ next.sequence = n.sequence
  BY <1>2, <1>3 DEF Transaction
<1> HIDE DEF next
<1>5. Takes(t, next)
  BY <1>1, <1>3, <1>4 DEF Takes, Took, NumberedOn
<1> QED
  BY <1>5 DEF next, more, row

LEMMA CaptureTakes ==
    ASSUME NEW t \in Transaction, epoch \in Nat, sequence \in Nat
    PROVE  Takes(t, Capture(t))
<1>1. NumberedOn(t, Numbers(t))
  <2>1. CASE Took(t)
    <3>1. Numbers(t) = [named |-> t.named, sequence |-> t.sequence,
                        ordinal |-> t.ordinal + 1, claimed |-> t.claimed, rows |-> t.rows]
      BY <2>1 DEF Numbers, Transaction
    <3> QED
      BY <2>1, <3>1 DEF NumberedOn, Transaction
  <2>2. CASE ~Took(t)
    <3>1. Numbers(t) = [named |-> t.named, sequence |-> sequence + 1, ordinal |-> 0,
                        claimed |-> FALSE, rows |-> t.rows]
      BY <2>2 DEF Numbers, Transaction
    <3> QED
      BY <2>2, <3>1 DEF NumberedOn, Transaction
  <2> QED
    BY <2>1, <2>2
<1> QED
  BY <1>1, RowTaken DEF Capture

LEMMA CaptureClaimedTakes ==
    ASSUME NEW t \in Transaction, epoch \in Nat, sequence \in Nat
    PROVE  Takes(t, CaptureClaimed(t))
<1> DEFINE n == [Claim(t) EXCEPT !.ordinal = @ + 1]
<1>1. NumberedOn(t, Claim(t))
  <2>1. CASE Took(t) /\ ~t.claimed
    <3>1. Claim(t) = [named |-> t.named, sequence |-> t.sequence,
                      ordinal |-> t.ordinal, claimed |-> TRUE, rows |-> t.rows]
      BY <2>1 DEF Claim, Transaction
    <3> QED
      BY <2>1, <3>1 DEF NumberedOn, Transaction
  <2>2. CASE ~(Took(t) /\ ~t.claimed)
    <3> DEFINE s == IF Took(t) THEN t.sequence + 1 ELSE sequence + 1
    <3>1. Claim(t) = [t EXCEPT !.sequence = s, !.ordinal = -1, !.claimed = TRUE]
      BY <2>2 DEF Claim
    <3>2. /\ s \in Nat
          /\ Took(t) => s >= t.sequence
          /\ ~Took(t) => s = sequence + 1
      BY DEF Transaction
    <3> HIDE DEF s
    <3>3. Claim(t) = [named |-> t.named, sequence |-> s, ordinal |-> -1,
                      claimed |-> TRUE, rows |-> t.rows]
      BY <3>1 DEF Transaction
    <3> QED
      BY <3>2, <3>3 DEF NumberedOn, Transaction
  <2> QED
    BY <2>1, <2>2
<1>2. NumberedOn(t, n)
  BY <1>1 DEF NumberedOn, Transaction
<1>3. CaptureClaimed(t) =
        [n EXCEPT !.rows = Append(@, [sequence |-> n.sequence, ordinal |-> n.ordinal,
                                      epoch |-> epoch])]
  BY DEF CaptureClaimed
<1> HIDE DEF n
<1> QED
  BY <1>2, <1>3, RowTaken

-----------------------------------------------------------------------------
(* The steps.                                                              *)

LEMMA CapturedInvInit == Init => CapturedInv
<1> SUFFICES ASSUME Init PROVE CapturedInv
  OBVIOUS
<1>1. Types
  BY DEF Init, Types
<1>2. HoldsTheHead
  BY CapturedAssumption DEF Init, HoldsTheHead
<1>3. NamesItsOwn /\ Raised /\ AtTheEnd
  BY DEF Init, NamesItsOwn, Raised, AtTheEnd
<1>4. TailReads
  BY DEF Init, TailReads, Down
<1> QED
  BY <1>1, <1>2, <1>3, <1>4 DEF CapturedInv

\* A process that ends lets the head row go, with what its transaction took.
LEMMA EndsKeepsInv ==
    ASSUME CapturedInv, NEW m \in Members, Ends(m)
    PROVE  CapturedInv'
<1> USE DEF CapturedInv
<1>1. /\ mode' = [mode EXCEPT ![m] = "standby"] /\ snap' = [snap EXCEPT ![m] = 0]
      /\ fence' = [fence EXCEPT ![m] = 0] /\ tx' = [tx EXCEPT ![m] = None]
      /\ lock' = (IF lock = m THEN None ELSE lock)
      /\ UNCHANGED <<sequence, epoch, log, tookOver, tail>>
  BY DEF Ends, Unlocked, record
<1>2. Types'
  BY <1>1 DEF Types
<1>3. HoldsTheHead'
  <2> SUFFICES ASSUME NEW n \in Members
               PROVE  /\ lock' = n <=> tx'[n] # None /\ Took(tx'[n])
                      /\ lock' = n =>
                            /\ tx'[n].rows[1].sequence = sequence + 1
                            /\ tx'[n].rows[1].epoch = epoch
                            /\ tx'[n].sequence >= sequence + 1
                            /\ tx'[n].named \in {0, epoch}
    BY <1>1 DEF HoldsTheHead, Took
  <2>1. CASE n = m
    BY <1>1, <2>1, CapturedAssumption DEF Types
  <2>2. CASE n # m
    <3>1. tx'[n] = tx[n] /\ (lock' = n <=> lock = n)
      BY <1>1, <2>2, CapturedAssumption DEF Types
    <3> QED
      BY <3>1 DEF HoldsTheHead
  <2> QED
    BY <2>1, <2>2
<1>4. NamesItsOwn'
  BY <1>1 DEF NamesItsOwn, Types
<1>5. Raised'
  BY <1>1 DEF Raised, Types, Recorded
<1>6. AtTheEnd' /\ TailReads'
  BY <1>1 DEF AtTheEnd, TailReads
<1> QED
  BY <1>2, <1>3, <1>4, <1>5, <1>6

\* What leaves the head row, the log and the transactions as they are.
LEMMA AdoptKeepsInv ==
    ASSUME CapturedInv, NEW m \in Members, Adopt(m)
    PROVE  CapturedInv'
<1> USE DEF CapturedInv
<1>1. /\ m \notin Leased /\ fence' = [fence EXCEPT ![m] = epoch]
      /\ UNCHANGED <<sequence, epoch, log, tookOver, lock, mode, snap, tx, tail>>
  BY DEF Adopt, record
<1>2. Types'
  BY <1>1 DEF Types
<1>3. HoldsTheHead'
  BY <1>1 DEF HoldsTheHead
<1>4. NamesItsOwn'
  BY <1>1 DEF NamesItsOwn, Types
<1>5. Raised' /\ AtTheEnd' /\ TailReads'
  BY <1>1 DEF Raised, AtTheEnd, TailReads, Recorded
<1> QED
  BY <1>2, <1>3, <1>4, <1>5

LEMMA StartTakeOverKeepsInv ==
    ASSUME CapturedInv, NEW m \in Members, StartTakeOver(m)
    PROVE  CapturedInv'
<1> USE DEF CapturedInv
<1>1. /\ m \in Leased /\ mode[m] = "standby"
      /\ mode' = [mode EXCEPT ![m] = "taking"] /\ snap' = [snap EXCEPT ![m] = epoch]
      /\ UNCHANGED <<sequence, epoch, log, tookOver, lock, fence, tx, tail>>
  BY DEF StartTakeOver, record
<1>2. Types'
  BY <1>1 DEF Types
<1>3. HoldsTheHead'
  BY <1>1 DEF HoldsTheHead
<1>4. NamesItsOwn'
  BY <1>1 DEF NamesItsOwn, Types
<1>5. Raised'
  BY <1>1 DEF Raised, Types, Recorded
<1>6. AtTheEnd' /\ TailReads'
  BY <1>1 DEF AtTheEnd, TailReads
<1> QED
  BY <1>2, <1>3, <1>4, <1>5, <1>6

\* What was read before the takeover waited is the epoch still, where nobody
\* recorded the next.
LEMMA TakeOverRaises ==
    ASSUME CapturedInv, NEW m \in Members, TakeOver(m)
    PROVE  /\ snap[m] = epoch
           /\ epoch' = epoch + 1
           /\ tookOver' = tookOver \union {[epoch |-> epoch + 1, member |-> m]}
<1> USE DEF CapturedInv
<1>1. mode[m] = "taking" /\ ~Recorded(snap[m] + 1)
  BY DEF TakeOver
<1>2. snap[m] \in 1 .. epoch /\ epoch \in Nat
  BY <1>1 DEF Types, Raised
<1>3. snap[m] = epoch
  <2> SUFFICES ASSUME snap[m] # epoch PROVE FALSE
    OBVIOUS
  <2>1. snap[m] + 1 \in 2 .. epoch
    BY <1>2
  <2> QED
    BY <1>1, <2>1 DEF Raised
<1> QED
  BY <1>3 DEF TakeOver

LEMMA TakeOverKeepsInv ==
    ASSUME CapturedInv, NEW m \in Members, TakeOver(m)
    PROVE  CapturedInv'
<1> USE DEF CapturedInv
<1> DEFINE new == [epoch |-> epoch + 1, member |-> m]
<1>1. /\ mode[m] = "taking" /\ lock = None
      /\ epoch' = epoch + 1 /\ tookOver' = tookOver \union {new}
      /\ mode' = [mode EXCEPT ![m] = "writer"]
      /\ fence' = [fence EXCEPT ![m] = epoch + 1] /\ snap' = [snap EXCEPT ![m] = 0]
      /\ UNCHANGED <<sequence, log, lock, tx, tail>>
  BY TakeOverRaises DEF TakeOver
<1>2. new.epoch = epoch + 1 /\ new.member = m /\ epoch \in Nat \ {0}
  BY DEF Types
<1> HIDE DEF new
<1>3. Types'
  BY <1>1, <1>2 DEF Types
<1>4. HoldsTheHead'
  <2>1. \A n \in Members : lock' # n
    BY <1>1, CapturedAssumption
  <2> QED
    BY <1>1, <2>1 DEF HoldsTheHead
<1>5. NamesItsOwn'
  <2> SUFFICES ASSUME NEW n \in Members
               PROVE  /\ mode'[n] # "standby" => n \in Leased
                      /\ mode'[n] = "writer" =>
                            fence'[n] # 0 /\ [epoch |-> fence'[n], member |-> n] \in tookOver'
                      /\ n \in Leased /\ tx'[n] # None =>
                            mode'[n] = "writer" /\ tx'[n].named = fence'[n]
    BY DEF NamesItsOwn
  <2>1. CASE n = m
    <3>1. fence'[n] = epoch + 1 /\ mode'[n] = "writer" /\ n \in Leased /\ tx'[n] = None
      BY <1>1, <2>1 DEF Types, NamesItsOwn
    <3>2. [epoch |-> fence'[n], member |-> n] = new
      BY <2>1, <3>1 DEF new
    <3> QED
      BY <1>1, <1>2, <3>1, <3>2
  <2>2. CASE n # m
    BY <1>1, <2>2 DEF Types, NamesItsOwn
  <2> QED
    BY <2>1, <2>2
<1>6. Raised'
  <2>1. \A t \in tookOver' : t.epoch \in 2 .. epoch'
    BY <1>1, <1>2 DEF Raised
  <2>2. \A e \in 2 .. epoch' : Recorded(e)'
    <3> SUFFICES ASSUME NEW e \in 2 .. epoch' PROVE \E t \in tookOver' : t.epoch = e
      BY DEF Recorded
    <3>1. e \in 2 .. epoch \/ e = epoch + 1
      BY <1>1, <1>2
    <3>2. ASSUME e \in 2 .. epoch PROVE \E t \in tookOver : t.epoch = e
      BY <3>2 DEF Raised, Recorded
    <3> QED
      BY <1>1, <1>2, <3>1, <3>2
  <2>3. \A t, u \in tookOver' : t.epoch = u.epoch => t = u
    <3>1. \A t \in tookOver : t.epoch # new.epoch
      BY <1>2 DEF Raised
    <3> QED
      BY <1>1, <3>1 DEF Raised
  <2>4. \A n \in Members : mode'[n] = "taking" => snap'[n] # 0
    BY <1>1 DEF Raised, Types
  <2> QED
    BY <2>1, <2>2, <2>3, <2>4 DEF Raised
<1>7. AtTheEnd' /\ TailReads'
  BY <1>1 DEF AtTheEnd, TailReads
<1> QED
  BY <1>3, <1>4, <1>5, <1>6, <1>7

LEMMA CheckoutKeepsInv ==
    ASSUME CapturedInv, NEW m \in Members, Checkout(m)
    PROVE  CapturedInv'
<1> USE DEF CapturedInv
<1> DEFINE new == [named |-> fence[m], sequence |-> 0, ordinal |-> 0, claimed |-> FALSE,
                   rows |-> <<>>]
<1>1. /\ m \in Leased => mode[m] = "writer"
      /\ tx[m] = None /\ tx' = [tx EXCEPT ![m] = new]
      /\ UNCHANGED <<sequence, epoch, log, tookOver, lock, mode, snap, fence, tail>>
  BY DEF Checkout, record, member
<1>2. new \in Transaction /\ new.rows = <<>> /\ new.named = fence[m]
  BY DEF Types, Transaction
<1> HIDE DEF new
<1>3. Types'
  BY <1>1, <1>2 DEF Types
<1>4. lock # m
  BY <1>1 DEF HoldsTheHead
<1>5. HoldsTheHead'
  BY <1>1, <1>2, <1>4 DEF HoldsTheHead, Took, Types
<1>6. NamesItsOwn'
  BY <1>1, <1>2 DEF NamesItsOwn, Types
<1>7. Raised' /\ AtTheEnd' /\ TailReads'
  BY <1>1 DEF Raised, AtTheEnd, TailReads, Recorded
<1> QED
  BY <1>3, <1>5, <1>6, <1>7

\* A row written under the head row's lock is the transaction's next, or the
\* head's under the epoch it was let through.
LEMMA WritesKeepsInv ==
    ASSUME CapturedInv, NEW m \in Members, NEW t, Takes(tx[m], t), Writes(m, t)
    PROVE  CapturedInv'
<1> USE DEF CapturedInv
<1>1. /\ tx[m] # None /\ lock \in {None, m} /\ tx[m].named \in {0, epoch}
      /\ lock' = m /\ tx' = [tx EXCEPT ![m] = t]
      /\ UNCHANGED <<sequence, epoch, log, tookOver, mode, snap, fence, tail>>
  BY DEF Writes, Locks, Fenced, record, member
<1>2. /\ t \in Transaction /\ t # None /\ Took(t) /\ t.named = tx[m].named
  BY SomeTransaction DEF Takes, Took
<1>3. Types'
  BY <1>1, <1>2 DEF Types
<1>4. /\ t.rows[1].sequence = sequence + 1 /\ t.rows[1].epoch = epoch
      /\ t.sequence >= sequence + 1
  <2>1. CASE Took(tx[m])
    <3>1. /\ tx[m].rows[1].sequence = sequence + 1 /\ tx[m].rows[1].epoch = epoch
          /\ tx[m].sequence >= sequence + 1
      BY <1>1, <2>1 DEF HoldsTheHead
    <3>2. t.rows[1] = tx[m].rows[1] /\ t.sequence >= tx[m].sequence
      BY <2>1 DEF Takes
    <3>3. tx[m].sequence \in Nat /\ t.sequence \in Nat /\ sequence \in Nat
      BY <1>1, <1>2 DEF Types, Transaction
    <3> QED
      BY <3>1, <3>2, <3>3
  <2>2. CASE ~Took(tx[m])
    BY <2>2 DEF Takes, Types
  <2> QED
    BY <2>1, <2>2
<1>5. HoldsTheHead'
  <2> SUFFICES ASSUME NEW n \in Members
               PROVE  /\ lock' = n <=> tx'[n] # None /\ Took(tx'[n])
                      /\ lock' = n =>
                            /\ tx'[n].rows[1].sequence = sequence + 1
                            /\ tx'[n].rows[1].epoch = epoch
                            /\ tx'[n].sequence >= sequence + 1
                            /\ tx'[n].named \in {0, epoch}
    BY <1>1 DEF HoldsTheHead, Took
  <2>1. CASE n = m
    <3>1. tx'[n] = t /\ lock' = n
      BY <1>1, <2>1 DEF Types
    <3> QED
      BY <1>1, <1>2, <1>4, <3>1
  <2>2. CASE n # m
    <3>1. tx'[n] = tx[n] /\ lock' # n /\ lock # n
      BY <1>1, <2>2, CapturedAssumption DEF Types
    <3> QED
      BY <3>1 DEF HoldsTheHead
  <2> QED
    BY <2>1, <2>2
<1>6. NamesItsOwn'
  BY <1>1, <1>2 DEF NamesItsOwn, Types
<1>7. Raised' /\ AtTheEnd' /\ TailReads'
  BY <1>1 DEF Raised, AtTheEnd, TailReads, Recorded
<1> QED
  BY <1>3, <1>5, <1>6, <1>7

LEMMA TakesKeepsInv ==
    ASSUME CapturedInv, NEW m \in Members, Write(m) \/ NextChange(m)
    PROVE  CapturedInv'
<1>1. tx[m] \in Transaction /\ epoch \in Nat /\ sequence \in Nat
  BY DEF Write, NextChange, CapturedInv, Types
<1>2. Takes(tx[m], Capture(tx[m])) /\ Takes(tx[m], CaptureClaimed(tx[m]))
  BY <1>1, CaptureTakes, CaptureClaimedTakes
<1>3. Writes(m, Capture(tx[m])) \/ Writes(m, CaptureClaimed(tx[m]))
  BY DEF Write, NextChange
<1> QED
  BY <1>2, <1>3, WritesKeepsInv

LEMMA RollsBackKeepsInv ==
    ASSUME CapturedInv, NEW m \in Members, RollsBack(m)
    PROVE  CapturedInv'
<1> USE DEF CapturedInv
<1>1. /\ tx' = [tx EXCEPT ![m] = None]
      /\ lock' = (IF lock = m THEN None ELSE lock)
      /\ UNCHANGED <<sequence, epoch, log, tookOver, mode, snap, fence, tail>>
  BY DEF RollsBack, Unlocked, record, member
<1>2. Types'
  BY <1>1 DEF Types
<1>3. HoldsTheHead'
  <2>1. \A n \in Members : n # m => tx'[n] = tx[n] /\ (lock' = n <=> lock = n)
    BY <1>1, CapturedAssumption DEF Types
  <2>2. tx'[m] = None /\ lock' # m
    BY <1>1, CapturedAssumption DEF Types
  <2> QED
    BY <1>1, <2>1, <2>2 DEF HoldsTheHead, Took
<1>4. NamesItsOwn'
  BY <1>1 DEF NamesItsOwn, Types
<1>5. Raised' /\ AtTheEnd' /\ TailReads'
  BY <1>1 DEF Raised, AtTheEnd, TailReads, Recorded
<1> QED
  BY <1>2, <1>3, <1>4, <1>5

\* The entry a transaction commits as, by what it holds.
LEMMA EntryCommitted ==
    ASSUME CapturedInv, NEW m \in Members, Commit(m)
    PROVE  /\ EntryOf(m) \in Entry
           /\ EntryOf(m).first = sequence + 1 /\ EntryOf(m).last >= sequence + 1
           /\ EntryOf(m).last = tx[m].sequence
           /\ EntryOf(m).epoch = epoch /\ EntryOf(m).by = m
           /\ EntryOf(m).message = Empty /\ EntryOf(m).key = Empty
           /\ lock = m /\ tx[m] \in Transaction
<1> USE DEF CapturedInv
<1>1. lock = m /\ tx[m] \in Transaction
  BY DEF Commit, HoldsTheHead, Types
<1>2. /\ tx[m].rows[1].sequence = sequence + 1 /\ tx[m].rows[1].epoch = epoch
      /\ tx[m].sequence >= sequence + 1
  BY <1>1 DEF HoldsTheHead
<1>3. tx[m].rows \in Seq(Row) /\ tx[m].sequence \in Nat
  BY <1>1 DEF Transaction
<1>4. EntryOf(m) = [account |-> Empty, message |-> Empty, key |-> Empty, by |-> m,
                    rows |-> tx[m].rows, first |-> sequence + 1,
                    last |-> tx[m].sequence, epoch |-> epoch]
  BY <1>2 DEF EntryOf
<1> QED
  BY <1>1, <1>2, <1>3, <1>4 DEF Entry, Types

LEMMA CommitKeepsInv ==
    ASSUME CapturedInv, NEW m \in Members, Commit(m)
    PROVE  CapturedInv'
<1> USE DEF CapturedInv
<1> DEFINE e == EntryOf(m)
<1>1. /\ log' = Append(log, e) /\ sequence' = tx[m].sequence
      /\ tx' = [tx EXCEPT ![m] = None] /\ lock' = None
      /\ UNCHANGED <<epoch, tookOver, mode, snap, fence, tail>>
  BY EntryCommitted DEF Commit, Unlocked, member
<1>2. /\ e \in Entry /\ e.last = tx[m].sequence /\ lock = m /\ tx[m].sequence \in Nat
  BY EntryCommitted DEF Transaction
<1> HIDE DEF e
<1>3. Types'
  BY <1>1, <1>2 DEF Types
<1>4. HoldsTheHead'
  <2>1. \A n \in Members : lock' # n
    BY <1>1, CapturedAssumption
  <2>2. \A n \in Members : n # m => tx'[n] = tx[n] /\ ~(tx[n] # None /\ Took(tx[n]))
    BY <1>1, <1>2 DEF Types, HoldsTheHead
  <2>3. tx'[m] = None
    BY <1>1 DEF Types
  <2> QED
    BY <2>1, <2>2, <2>3 DEF HoldsTheHead, Took
<1>5. NamesItsOwn'
  BY <1>1 DEF NamesItsOwn, Types
<1>6. AtTheEnd'
  <2>1. log' # <<>> /\ log'[Len(log')] = e
    BY <1>1, <1>2 DEF Types
  <2> QED
    BY <1>1, <1>2, <2>1 DEF AtTheEnd
<1>7. Raised' /\ TailReads'
  BY <1>1 DEF Raised, TailReads, Recorded
<1> QED
  BY <1>3, <1>4, <1>5, <1>6, <1>7

\* The tail's thread takes nothing from the processes.
LEMMA TailKeepsInv ==
    ASSUME CapturedInv, TailRuns \/ TailStops
    PROVE  CapturedInv'
<1> USE DEF CapturedInv
<1>1. UNCHANGED <<sequence, epoch, log, tookOver, lock, mode, snap, fence, tx>>
  BY DEF TailRuns, TailStops, TailStarts, TailWakes, ReadsHead, ReadsBatch, TailPublishes,
         Process, record, member
<1>2. TailReads'
  <2>1. ASSUME NEW a \in {"down", "waits", "reads", "pages"}, NEW f,
               tail' = [Down EXCEPT !.after = f, !.at = a]
        PROVE  TailReads'
    <3>1. tail' = [at |-> a, after |-> f, head |-> 0, from |-> 0, page |-> {}]
      BY <2>1 DEF Down
    <3> QED
      BY <3>1 DEF TailReads
  <2>2. CASE TailStarts
    <3>1. tail' = [at |-> "waits", after |-> sequence, head |-> 0, from |-> 0, page |-> {}]
      BY <2>2 DEF TailStarts, Down
    <3> QED
      BY <3>1 DEF TailReads
  <2>3. CASE TailStops
    BY <2>3 DEF TailStops, TailReads, Down
  <2>4. CASE TailWakes
    <3>1. tail' = [at |-> "reads", after |-> tail.after, head |-> tail.head,
                   from |-> tail.from, page |-> tail.page]
      BY <2>4 DEF TailWakes, TailReads
    <3> QED
      BY <2>4, <3>1 DEF TailReads, TailWakes
  <2>5. CASE ReadsHead
    <3>1. tail' = [at |-> "pages", after |-> tail.after, head |-> sequence,
                   from |-> tail.after, page |-> tail.page]
      BY <2>5 DEF ReadsHead, TailReads
    <3> QED
      BY <2>5, <3>1 DEF TailReads, ReadsHead
  <2>6. ASSUME NEW rows, NEW taken, TakesBatch(rows, taken) PROVE TailReads'
    <3> DEFINE page == tail.page \union taken
               ends == rows = {} \/ taken # rows \/ Cardinality(page) >= PageMost
               from == IF taken = {} THEN tail.from ELSE Max(Numbered(taken))
               at   == IF ends THEN "publishes" ELSE "pages"
    <3>1. tail' = IF ends /\ page = {}
                  THEN [Down EXCEPT !.at = "waits", !.after = tail.after]
                  ELSE [tail EXCEPT !.page = page, !.from = from, !.at = at]
      BY <2>6 DEF TakesBatch
    <3>2. at = "publishes" <=> ends
      OBVIOUS
    <3>3. at \in {"publishes", "pages"}
      OBVIOUS
    <3> HIDE DEF page, ends, from, at
    <3>4. CASE ends /\ page = {}
      <4>1. tail' = [at |-> "waits", after |-> tail.after, head |-> 0, from |-> 0,
                     page |-> {}]
        BY <3>1, <3>4 DEF Down
      <4> QED
        BY <4>1 DEF TailReads
    <3>5. CASE ~(ends /\ page = {})
      <4>1. tail' = [at |-> at, after |-> tail.after, head |-> tail.head, from |-> from,
                     page |-> page]
        BY <3>1, <3>5 DEF TailReads
      <4> QED
        BY <3>2, <3>3, <3>5, <4>1 DEF TailReads
    <3> QED
      BY <3>4, <3>5
  <2>7. CASE ReadsBatch
    BY <2>6, <2>7 DEF ReadsBatch
  <2>8. CASE TailPublishes
    <3> DEFINE f    == Published.sequence
               rest == tail.page \ Published.rows
               a    == IF f >= tail.head THEN "waits" ELSE "reads"
    <3>1. /\ tail.at = "publishes"
          /\ tail' = IF rest # {} THEN [tail EXCEPT !.after = f, !.page = rest]
                     ELSE [Down EXCEPT !.after = f, !.at = a]
      BY <2>8 DEF TailPublishes
    <3>2. a \in {"waits", "reads"}
      OBVIOUS
    <3> HIDE DEF f, rest, a
    <3>3. CASE rest # {}
      <4>1. tail' = [at |-> "publishes", after |-> f, head |-> tail.head,
                     from |-> tail.from, page |-> rest]
        BY <3>1, <3>3 DEF TailReads
      <4> QED
        BY <3>3, <4>1 DEF TailReads
    <3>4. CASE rest = {}
      BY <2>1, <3>1, <3>2, <3>4
    <3> QED
      BY <3>3, <3>4
  <2> QED
    BY <2>2, <2>3, <2>4, <2>5, <2>7, <2>8 DEF TailRuns
<1>3. Types' /\ HoldsTheHead' /\ NamesItsOwn' /\ Raised' /\ AtTheEnd'
  BY <1>1 DEF Types, HoldsTheHead, NamesItsOwn, Raised, AtTheEnd, Recorded, Took
<1> QED
  BY <1>2, <1>3

LEMMA CapturedStep == CapturedInv /\ [Next]_vars => CapturedInv'
<1> SUFFICES ASSUME CapturedInv, [Next]_vars PROVE CapturedInv'
  OBVIOUS
<1>1. CASE UNCHANGED vars
  BY <1>1 DEF vars, record, member, CapturedInv, Types, HoldsTheHead, NamesItsOwn, Raised,
              AtTheEnd, TailReads, Recorded, Took
<1>2. CASE TailRuns \/ TailStops
  BY <1>2, TailKeepsInv
<1>3. ASSUME NEW m \in Members,
             \/ Adopt(m) \/ StartTakeOver(m) \/ TakeOver(m) \/ TakeOverFails(m)
             \/ StepDown(m) \/ Crash(m)
             \/ Checkout(m) \/ Write(m) \/ NextChange(m) \/ Refused(m) \/ Rollback(m)
             \/ Commit(m)
      PROVE  CapturedInv'
  <2>1. TakeOverFails(m) \/ StepDown(m) \/ Crash(m) => Ends(m)
    BY DEF TakeOverFails, StepDown, Crash
  <2>2. Refused(m) \/ Rollback(m) => RollsBack(m)
    BY DEF Refused, Rollback
  <2> QED
    BY <1>3, <2>1, <2>2, AdoptKeepsInv, StartTakeOverKeepsInv, TakeOverKeepsInv,
       EndsKeepsInv, CheckoutKeepsInv, TakesKeepsInv, RollsBackKeepsInv, CommitKeepsInv
<1> QED
  BY <1>1, <1>2, <1>3 DEF Next

LEMMA CapturedInvHolds == Spec => []CapturedInv
<1> QED
  BY CapturedInvInit, CapturedStep, PTL DEF Spec

\* The head row, the processes, their transactions and the tail have their
\* types, and one transaction at most has taken a sequence.
THEOREM CapturedTypeOK == Spec => []TypeOK
<1>1. CapturedInv => TypeOK
  BY DEF CapturedInv, TypeOK, Types, HoldsTheHead, TailReads
<1> QED
  BY <1>1, CapturedInvHolds, PTL

-----------------------------------------------------------------------------
(* CapturedLog implements FencedLog.                                       *)

LEMMA HolderIs ==
    ASSUME NEW took, NEW t \in took, \A u \in took : u.epoch = t.epoch => u = t
    PROVE  HolderOf(took, t.epoch) = t.member
<1>1. took # {}
  OBVIOUS
<1>2. (CHOOSE u \in took : u.epoch = t.epoch) = t
  OBVIOUS
<1> QED
  BY <1>1, <1>2 DEF HolderOf

\* The store starts as the promise does.
LEMMA InitPromise == Init => Log!Init
  BY DEF Init, Log!Init, HolderOf

\* A takeover raises the epoch to the member recorded.
LEMMA TakeOverPromise ==
    ASSUME CapturedInv, CapturedInv', NEW m \in Members, TakeOver(m)
    PROVE  Log!Next
<1> DEFINE new == [epoch |-> epoch + 1, member |-> m]
<1>1. epoch' = epoch + 1 /\ tookOver' = tookOver \union {new} /\ log' = log
  BY TakeOverRaises DEF TakeOver
<1>2. new \in tookOver' /\ new.epoch = epoch' /\ new.member = m
  BY <1>1
<1> HIDE DEF new
<1>3. \A u \in tookOver' : u.epoch = new.epoch => u = new
  BY <1>2 DEF CapturedInv, Raised
<1>4. HolderOf(tookOver', epoch') = m
  BY <1>2, <1>3, HolderIs
<1> QED
  BY <1>1, <1>4 DEF Log!Next, Log!Raise

\* A commit makes one entry, numbered on, under the epoch in force.
LEMMA CommitPromise ==
    ASSUME CapturedInv, NEW m \in Members, Commit(m)
    PROVE  Log!Next
<1> DEFINE e    == EntryOf(m)
           logs == [p \in {Partition} |-> log]
<1>1. /\ log' = Append(log, e) /\ UNCHANGED <<epoch, tookOver>>
      /\ e.first = sequence + 1 /\ e.last >= sequence + 1 /\ e.epoch = epoch /\ e.by = m
      /\ e.message = Empty /\ e.key = Empty /\ lock = m /\ tx[m] # None
  BY EntryCommitted DEF Commit
<1> HIDE DEF e
<1>2. /\ log \in Seq(Entry) /\ Len(log') > Len(log) /\ log'[Len(log) + 1] = e
  BY <1>1 DEF CapturedInv, Types
<1>3. e.first = Log!End(Partition) + 1
  BY <1>1 DEF Log!End, CapturedInv, AtTheEnd
<1>4. ASSUME m \in Leased PROVE HolderOf(tookOver, epoch) = m
  <2> DEFINE t == [epoch |-> epoch, member |-> m]
  <2>1. /\ mode[m] = "writer" /\ tx[m].named = fence[m] /\ fence[m] # 0
        /\ [epoch |-> fence[m], member |-> m] \in tookOver
    BY <1>1, <1>4 DEF CapturedInv, NamesItsOwn
  <2>2. tx[m].named \in {0, epoch}
    BY <1>1 DEF CapturedInv, HoldsTheHead
  <2>3. t \in tookOver /\ t.epoch = epoch /\ t.member = m
    BY <2>1, <2>2
  <2> HIDE DEF t
  <2>4. \A u \in tookOver : u.epoch = t.epoch => u = t
    BY <2>3 DEF CapturedInv, Raised
  <2> QED
    BY <2>3, <2>4, HolderIs
<1>5. ~Log!InLog(e)
  BY <1>1 DEF Log!InLog, Log!SameCommand, CapturedInv, Types, Entry
<1>6. [p \in {Partition} |-> log'] = [logs EXCEPT ![Partition] = Append(log, e)]
  BY <1>1
<1>7. Log!Made(Partition, e)
  BY <1>1, <1>3, <1>4, <1>5, <1>6, CapturedAssumption DEF Log!Made, CapturedInv, Types
<1> QED
  BY <1>2, <1>7 DEF Log!Next

LEMMA StepPromise == CapturedInv /\ CapturedInv' /\ [Next]_vars => [Log!Next]_Log!vars
<1> SUFFICES ASSUME CapturedInv, CapturedInv', [Next]_vars PROVE [Log!Next]_Log!vars
  OBVIOUS
<1>1. ASSUME NEW m \in Members, TakeOver(m) PROVE Log!Next
  BY <1>1, TakeOverPromise
<1>2. ASSUME NEW m \in Members, Commit(m) PROVE Log!Next
  BY <1>2, CommitPromise
<1>3. CASE UNCHANGED <<log, epoch, tookOver>>
  BY <1>3 DEF Log!vars
<1>4. \/ UNCHANGED <<log, epoch, tookOver>>
      \/ \E m \in Members : TakeOver(m) \/ Commit(m)
  BY DEF Next, vars, record, member, Adopt, StartTakeOver, TakeOverFails, StepDown, Crash,
         Ends, Checkout, Write, NextChange, Writes, Refused, Rollback, RollsBack,
         TailRuns, TailStops, TailStarts, TailWakes, ReadsHead, ReadsBatch, TailPublishes,
         Process
<1> QED
  BY <1>1, <1>2, <1>3, <1>4

\* A captured log keeps the promise of FencedLog, whatever is rolled back,
\* fenced or taken over: entries numbered on and never rewritten, each under
\* the epoch in force, a leased writer's only under the epoch it raised.
THEOREM CapturedKeepsThePromise == Spec => KeepsThePromise
<1> QED
  BY InitPromise, CapturedStep, StepPromise, CapturedInvHolds, PTL
     DEF Spec, KeepsThePromise, Log!Spec

-----------------------------------------------------------------------------
(* The rows run on.                                                        *)

Follows(before, row) ==
    \/ row.sequence = before.sequence /\ row.ordinal = before.ordinal + 1
    \/ row.sequence = before.sequence + 1 /\ row.ordinal = 0

\* Each row follows the one before it, the first the head's own; the last is
\* numbered as the transaction is.
NumberedAs(t, head) ==
    /\ t.rows[1].sequence = head + 1 /\ t.rows[1].ordinal = 0
    /\ \A i \in DOMAIN t.rows : i # 1 => Follows(t.rows[i - 1], t.rows[i])
    /\ \A i \in DOMAIN t.rows : t.rows[i].sequence \in head + 1 .. t.sequence
    /\ t.rows[Len(t.rows)].sequence = t.sequence
    /\ t.rows[Len(t.rows)].ordinal = t.ordinal

Origin == [sequence |-> 0, ordinal |-> 0]

\* The rows of the log, from none to the head's sequence.
RunOnTo(rows, head) ==
    /\ head = IF rows = <<>> THEN 0 ELSE rows[Len(rows)].sequence
    /\ \A i \in DOMAIN rows : Follows(IF i = 1 THEN Origin ELSE rows[i - 1], rows[i])
    /\ \A i \in DOMAIN rows : rows[i].sequence \in 1 .. head

Running ==
    /\ RunOnTo(Rows, sequence)
    /\ \A m \in Members : tx[m] # None /\ Took(tx[m]) => NumberedAs(tx[m], sequence)

LEMMA RowsAreRows ==
    ASSUME CapturedInv
    PROVE  Rows \in Seq(Row)
<1> DEFINE n == Len(log)
           s == [i \in DOMAIN log |-> log[i].rows]
           t == [i \in 1 .. n + 1 |-> IF i = n + 1 THEN <<>> ELSE s[i]]
<1>1. n \in Nat /\ DOMAIN log = 1 .. n /\ \A i \in 1 .. n : log[i] \in Entry
  BY DEF CapturedInv, Types
<1>2. \A i \in 1 .. n : log[i].rows \in Seq(Row)
  BY <1>1 DEF Entry
<1>3. s \in [1 .. n -> Seq(Row)]
  BY <1>1, <1>2
<1>4. t \in [1 .. n + 1 -> Seq(Row)] /\ \A i \in 1 .. n : t[i] = s[i]
  <2> HIDE DEF s
  <2> QED
    BY <1>1, <1>3
<1>5. FlattenSeq(s) \in Seq(Row)
  <2> HIDE DEF n, s, t
  <2> QED
    BY <1>1, <1>3, <1>4, FlattenMore
<1> QED
  BY <1>5 DEF Rows

\* A commit appends its rows.
LEMMA CommitAppends ==
    ASSUME CapturedInv, NEW m \in Members, Commit(m)
    PROVE  Rows' = Rows \o tx[m].rows
<1> DEFINE n == Len(log)
           s == [i \in DOMAIN log |-> log[i].rows]
           t == [i \in DOMAIN log' |-> log'[i].rows]
<1>1. n \in Nat /\ DOMAIN log = 1 .. n /\ \A i \in 1 .. n : log[i] \in Entry
  BY DEF CapturedInv, Types
<1>2. /\ log' = Append(log, EntryOf(m)) /\ EntryOf(m) \in Entry
      /\ EntryOf(m).rows = tx[m].rows
  BY EntryCommitted DEF Commit, EntryOf
<1>3. log \in Seq(Entry)
  BY DEF CapturedInv, Types
<1>4. /\ DOMAIN log' = 1 .. n + 1 /\ \A i \in 1 .. n : log'[i] = log[i]
      /\ log'[n + 1] = EntryOf(m)
  BY <1>2, <1>3
<1>5. \A i \in 1 .. n : log[i].rows \in Seq(Row)
  BY <1>1 DEF Entry
<1>6. tx[m].rows \in Seq(Row)
  BY <1>2 DEF Entry
<1>7. s \in [1 .. n -> Seq(Row)]
  BY <1>1, <1>5
<1>8. t[n + 1] = tx[m].rows /\ \A i \in 1 .. n : t[i] = s[i]
  BY <1>1, <1>2, <1>4
<1>9. t \in [1 .. n + 1 -> Seq(Row)]
  <2>1. \A i \in 1 .. n + 1 : log'[i].rows \in Seq(Row)
    BY <1>1, <1>2, <1>4, <1>5, <1>6
  <2> QED
    BY <1>4, <2>1
<1>10. Rows = FlattenSeq(s) /\ Rows' = FlattenSeq(t)
  BY DEF Rows
<1> HIDE DEF n, s, t
<1> QED
  BY <1>1, <1>7, <1>8, <1>9, <1>10, FlattenMore

\* What a row is taken from, numbered on from the transaction's last row.
NumberedNext(t, n) ==
    /\ n \in Transaction /\ n.rows = t.rows
    /\ Took(t) => \/ n.sequence = t.sequence /\ n.ordinal = t.ordinal + 1
                  \/ n.sequence = t.sequence + 1 /\ n.ordinal = 0
    /\ ~Took(t) => n.sequence = sequence + 1 /\ n.ordinal = 0

LEMMA RowFollows ==
    ASSUME NEW t \in Transaction, NEW n, NumberedNext(t, n),
           epoch \in Nat, sequence \in Nat, Took(t) => NumberedAs(t, sequence)
    PROVE  NumberedAs([n EXCEPT !.rows =
                          Append(@, [sequence |-> n.sequence, ordinal |-> n.ordinal,
                                     epoch |-> epoch])], sequence)
<1> DEFINE row  == [sequence |-> n.sequence, ordinal |-> n.ordinal, epoch |-> epoch]
           more == Append(n.rows, row)
           next == [n EXCEPT !.rows = more]
<1>1. row \in Row /\ row.sequence = n.sequence /\ row.ordinal = n.ordinal
  BY DEF Row, Transaction, NumberedNext
<1>2. /\ t.rows \in Seq(Row) /\ n.rows = t.rows /\ n \in Transaction
      /\ n.sequence \in Nat /\ t.sequence \in Nat /\ t.ordinal \in Int /\ n.ordinal \in Int
  BY DEF Transaction, NumberedNext
<1> HIDE DEF row
<1>3. /\ more \in Seq(Row) /\ Len(more) = Len(t.rows) + 1 /\ Len(t.rows) \in Nat
      /\ more[Len(t.rows) + 1] = row
      /\ DOMAIN more = 1 .. Len(t.rows) + 1
      /\ \A i \in 1 .. Len(t.rows) : more[i] = t.rows[i]
  BY <1>1, <1>2
<1> HIDE DEF more
<1>4. next.rows = more /\ next.sequence = n.sequence /\ next.ordinal = n.ordinal
  BY <1>2, <1>3 DEF Transaction
<1> HIDE DEF next
<1>5. NumberedAs(next, sequence)
  <2>1. CASE Took(t)
    <3> DEFINE l == Len(t.rows)
    <3>1. /\ l \in Nat \ {0} /\ DOMAIN t.rows = 1 .. l
          /\ t.rows[1].sequence = sequence + 1 /\ t.rows[1].ordinal = 0
          /\ \A i \in 1 .. l : i # 1 => Follows(t.rows[i - 1], t.rows[i])
          /\ \A i \in 1 .. l : t.rows[i].sequence \in sequence + 1 .. t.sequence
          /\ t.rows[l].sequence = t.sequence /\ t.rows[l].ordinal = t.ordinal
      BY <1>2, <2>1 DEF NumberedAs, Took
    <3>2. Follows(t.rows[l], row)
      BY <1>1, <2>1, <3>1 DEF Follows, NumberedNext
    <3> HIDE DEF l
    <3>3. /\ DOMAIN more = 1 .. l + 1 /\ Len(more) = l + 1 /\ more[l + 1] = row
          /\ \A i \in 1 .. l : more[i] = t.rows[i]
      BY <1>3 DEF l
    <3>4. ASSUME NEW i \in 1 .. l + 1, i # 1 PROVE Follows(more[i - 1], more[i])
      <4>1. CASE i = l + 1
        <5>1. i - 1 = l /\ more[i - 1] = t.rows[l] /\ more[i] = row
          BY <3>1, <3>3, <4>1
        <5> QED
          BY <3>2, <5>1
      <4>2. CASE i # l + 1
        <5>1. i \in 1 .. l /\ i - 1 \in 1 .. l
          BY <3>1, <3>4, <4>2
        <5>2. more[i] = t.rows[i] /\ more[i - 1] = t.rows[i - 1]
          BY <3>3, <5>1
        <5> QED
          BY <3>1, <3>4, <5>1, <5>2
      <4> QED
        BY <4>1, <4>2
    <3>5. n.sequence >= t.sequence /\ n.sequence >= sequence + 1
      <4>1. 1 \in 1 .. l
        BY <3>1
      <4>2. t.rows[1].sequence \in sequence + 1 .. t.sequence
        BY <3>1, <4>1
      <4> QED
        BY <1>2, <2>1, <4>2 DEF NumberedNext
    <3>6. ASSUME NEW i \in 1 .. l + 1 PROVE more[i].sequence \in sequence + 1 .. n.sequence
      <4>1. CASE i = l + 1
        BY <1>1, <1>2, <3>3, <3>5, <4>1
      <4>2. CASE i # l + 1
        <5>1. i \in 1 .. l
          BY <3>1, <4>2
        <5>2. t.rows[i].sequence \in sequence + 1 .. t.sequence /\ more[i] = t.rows[i]
          BY <3>1, <3>3, <5>1
        <5> QED
          BY <1>2, <3>5, <5>2
      <4> QED
        BY <4>1, <4>2
    <3>7. more[1] = t.rows[1]
      BY <3>1, <3>3
    <3> QED
      BY <1>1, <1>4, <3>1, <3>3, <3>4, <3>6, <3>7 DEF NumberedAs
  <2>2. CASE ~Took(t)
    <3>1. t.rows = <<>> /\ Len(t.rows) = 0
      BY <2>2 DEF Took
    <3>2. Len(more) = 1 /\ more[1] = row /\ DOMAIN more = 1 .. 1
      BY <1>3, <3>1
    <3>3. row.sequence = sequence + 1 /\ row.ordinal = 0 /\ n.sequence = sequence + 1
          /\ n.ordinal = 0
      BY <1>1, <2>2 DEF NumberedNext
    <3> QED
      BY <1>4, <3>2, <3>3 DEF NumberedAs
  <2> QED
    BY <2>1, <2>2
<1> QED
  BY <1>5 DEF next, more, row

LEMMA CaptureNumbers ==
    ASSUME NEW t \in Transaction, epoch \in Nat, sequence \in Nat,
           Took(t) => NumberedAs(t, sequence)
    PROVE  NumberedAs(Capture(t), sequence)
<1>1. NumberedNext(t, Numbers(t))
  <2>1. CASE Took(t)
    <3>1. Numbers(t) = [named |-> t.named, sequence |-> t.sequence,
                        ordinal |-> t.ordinal + 1, claimed |-> t.claimed, rows |-> t.rows]
      BY <2>1 DEF Numbers, Transaction
    <3> QED
      BY <2>1, <3>1 DEF NumberedNext, Transaction
  <2>2. CASE ~Took(t)
    <3>1. Numbers(t) = [named |-> t.named, sequence |-> sequence + 1, ordinal |-> 0,
                        claimed |-> FALSE, rows |-> t.rows]
      BY <2>2 DEF Numbers, Transaction
    <3> QED
      BY <2>2, <3>1 DEF NumberedNext, Transaction
  <2> QED
    BY <2>1, <2>2
<1> QED
  BY <1>1, RowFollows DEF Capture

LEMMA CaptureClaimedNumbers ==
    ASSUME NEW t \in Transaction, epoch \in Nat, sequence \in Nat,
           Took(t) => NumberedAs(t, sequence)
    PROVE  NumberedAs(CaptureClaimed(t), sequence)
<1> DEFINE n == [Claim(t) EXCEPT !.ordinal = @ + 1]
<1>1. NumberedNext(t, n)
  <2>1. CASE Took(t) /\ ~t.claimed
    <3>1. Claim(t) = [named |-> t.named, sequence |-> t.sequence,
                      ordinal |-> t.ordinal, claimed |-> TRUE, rows |-> t.rows]
      BY <2>1 DEF Claim, Transaction
    <3>2. /\ Claim(t) \in Transaction /\ Claim(t).rows = t.rows
          /\ Claim(t).sequence = t.sequence /\ Claim(t).ordinal = t.ordinal
      BY <3>1 DEF Transaction
    <3> QED
      BY <2>1, <3>2 DEF NumberedNext, Transaction
  <2>2. CASE ~(Took(t) /\ ~t.claimed)
    <3> DEFINE s == IF Took(t) THEN t.sequence + 1 ELSE sequence + 1
    <3>1. Claim(t) = [t EXCEPT !.sequence = s, !.ordinal = -1, !.claimed = TRUE]
      BY <2>2 DEF Claim
    <3>2. /\ s \in Nat
          /\ Took(t) => s = t.sequence + 1
          /\ ~Took(t) => s = sequence + 1
      BY DEF Transaction
    <3> HIDE DEF s
    <3>3. Claim(t) = [named |-> t.named, sequence |-> s, ordinal |-> -1,
                      claimed |-> TRUE, rows |-> t.rows]
      BY <3>1 DEF Transaction
    <3>4. /\ Claim(t) \in Transaction /\ Claim(t).rows = t.rows
          /\ Claim(t).sequence = s /\ Claim(t).ordinal = -1
      BY <3>2, <3>3 DEF Transaction
    <3> QED
      BY <3>2, <3>4 DEF NumberedNext, Transaction
  <2> QED
    BY <2>1, <2>2
<1>2. CaptureClaimed(t) =
        [n EXCEPT !.rows = Append(@, [sequence |-> n.sequence, ordinal |-> n.ordinal,
                                      epoch |-> epoch])]
  BY DEF CaptureClaimed
<1> HIDE DEF n
<1> QED
  BY <1>1, <1>2, RowFollows

LEMMA RunningInit == Init => Running
<1> SUFFICES ASSUME Init PROVE Running
  OBVIOUS
<1> DEFINE s == [i \in DOMAIN log |-> log[i].rows]
<1>1. sequence = 0 /\ s = <<>> /\ \A m \in Members : tx[m] = None
  BY DEF Init
<1>2. Rows = FlattenSeq(s)
  BY DEF Rows
<1> HIDE DEF s
<1>3. Rows = <<>>
  BY <1>1, <1>2 DEF FlattenSeq
<1> QED
  BY <1>1, <1>3 DEF Running, RunOnTo

\* A commit's rows follow those there were: the first is the head's next.
LEMMA CommitKeepsRunning ==
    ASSUME CapturedInv, Running, NEW m \in Members, Commit(m)
    PROVE  Running'
<1> DEFINE t == tx[m]
           rows == Rows
           l == Len(rows)
           k == Len(t.rows)
<1>1. /\ rows \in Seq(Row) /\ t \in Transaction /\ t # None /\ Took(t)
      /\ lock = m
      /\ sequence' = t.sequence /\ sequence \in Nat
  BY RowsAreRows, EntryCommitted DEF Commit, CapturedInv, Types
<1>2. Rows' = rows \o t.rows
  BY CommitAppends
<1>3. RunOnTo(rows, sequence) /\ NumberedAs(t, sequence)
  BY <1>1 DEF Running
<1>4. t.rows \in Seq(Row) /\ k \in Nat \ {0} /\ l \in Nat /\ t.sequence \in Nat
  BY <1>1 DEF Transaction, Took
<1> HIDE DEF t, rows
<1>5. /\ rows \o t.rows \in Seq(Row) /\ Len(rows \o t.rows) = l + k
      /\ DOMAIN (rows \o t.rows) = 1 .. l + k /\ rows \o t.rows # <<>>
      /\ \A i \in 1 .. l : (rows \o t.rows)[i] = rows[i]
      /\ \A i \in l + 1 .. l + k : (rows \o t.rows)[i] = t.rows[i - l]
      /\ DOMAIN rows = 1 .. l /\ DOMAIN t.rows = 1 .. k
  BY <1>1, <1>4
<1>6. (rows = <<>>) <=> l = 0
  BY <1>1
<1> DEFINE more == rows \o t.rows
<1> HIDE DEF more, l, k
<1>7. /\ t.rows[1].sequence = sequence + 1 /\ t.rows[1].ordinal = 0
      /\ \A i \in 1 .. k : i # 1 => Follows(t.rows[i - 1], t.rows[i])
      /\ \A i \in 1 .. k : t.rows[i].sequence \in sequence + 1 .. t.sequence
      /\ t.rows[k].sequence = t.sequence
  BY <1>3, <1>5 DEF NumberedAs, k
<1>8. /\ sequence = IF l = 0 THEN 0 ELSE rows[l].sequence
      /\ \A i \in 1 .. l : Follows(IF i = 1 THEN Origin ELSE rows[i - 1], rows[i])
      /\ \A i \in 1 .. l : rows[i].sequence \in 1 .. sequence
  BY <1>3, <1>5, <1>6 DEF RunOnTo, l
<1>9. sequence <= t.sequence
  <2>1. 1 \in 1 .. k
    BY <1>4
  <2> QED
    BY <1>1, <1>4, <1>7, <2>1
<1>10. /\ Len(more) = l + k /\ DOMAIN more = 1 .. l + k /\ more # <<>>
       /\ \A i \in 1 .. l : more[i] = rows[i]
       /\ \A i \in l + 1 .. l + k : more[i] = t.rows[i - l]
  BY <1>5 DEF more
<1>11. t.sequence = more[l + k].sequence
  <2>1. l + k \in l + 1 .. l + k /\ (l + k) - l = k
    BY <1>4
  <2> QED
    BY <1>7, <1>10, <2>1
<1>12. ASSUME NEW i \in 1 .. l + k
       PROVE  /\ Follows(IF i = 1 THEN Origin ELSE more[i - 1], more[i])
              /\ more[i].sequence \in 1 .. t.sequence
  <2>1. CASE i <= l
    <3>1. i \in 1 .. l /\ more[i] = rows[i]
      BY <1>4, <1>10, <2>1
    <3>2. i # 1 => more[i - 1] = rows[i - 1]
      <4>1. i # 1 => i - 1 \in 1 .. l
        BY <1>4, <3>1
      <4> QED
        BY <1>10, <4>1
    <3>3. Follows(IF i = 1 THEN Origin ELSE rows[i - 1], rows[i])
      BY <1>8, <3>1
    <3>4. rows[i].sequence \in 1 .. sequence
      BY <1>8, <3>1
    <3>5. more[i].sequence \in 1 .. t.sequence
      BY <1>1, <1>4, <1>9, <3>1, <3>4
    <3> QED
      BY <3>1, <3>2, <3>3, <3>5
  <2>2. CASE i = l + 1
    <3>1. more[i] = t.rows[1]
      <4>1. i \in l + 1 .. l + k /\ i - l = 1
        BY <1>4, <2>2
      <4> QED
        BY <1>10, <4>1
    <3>2. CASE l = 0
      BY <1>4, <1>7, <1>8, <1>9, <2>2, <3>1, <3>2 DEF Follows, Origin
    <3>3. CASE l # 0
      <4>1. i # 1 /\ i - 1 = l /\ l \in 1 .. l
        BY <1>4, <2>2, <3>3
      <4>2. more[i - 1] = rows[l] /\ sequence = rows[l].sequence
        BY <1>8, <1>10, <3>3, <4>1
      <4>3. Follows(more[i - 1], more[i])
        BY <1>7, <3>1, <4>2 DEF Follows
      <4> QED
        BY <1>1, <1>4, <1>7, <1>9, <3>1, <4>1, <4>3
    <3> QED
      BY <3>2, <3>3
  <2>3. CASE i > l + 1
    <3>1. /\ i \in l + 1 .. l + k /\ i - 1 \in l + 1 .. l + k /\ i # 1
          /\ i - l \in 1 .. k /\ i - l # 1 /\ (i - 1) - l = (i - l) - 1
      BY <1>4, <2>3
    <3>2. more[i] = t.rows[i - l] /\ more[i - 1] = t.rows[(i - l) - 1]
      BY <1>10, <3>1
    <3>3. Follows(t.rows[(i - l) - 1], t.rows[i - l])
      BY <1>7, <3>1
    <3>4. t.rows[i - l].sequence \in sequence + 1 .. t.sequence
      BY <1>7, <3>1
    <3> QED
      BY <1>1, <1>4, <3>1, <3>2, <3>3, <3>4
  <2> QED
    BY <1>4, <2>1, <2>2, <2>3
<1>13. RunOnTo(more, t.sequence)
  BY <1>10, <1>11, <1>12 DEF RunOnTo
<1>14. \A n \in Members : ~ (tx'[n] # None /\ Took(tx'[n]))
  BY <1>1, EntryCommitted, CommitKeepsInv, CapturedAssumption
     DEF Commit, Unlocked, CapturedInv, HoldsTheHead
<1> QED
  <2>1. RunOnTo(Rows', sequence')
    BY <1>1, <1>2, <1>13 DEF more
  <2> QED
    BY <1>14, <2>1 DEF Running, RunOnTo, Took

LEMMA RunningStep == CapturedInv /\ Running /\ [Next]_vars => Running'
<1> SUFFICES ASSUME CapturedInv, Running, [Next]_vars PROVE Running'
  OBVIOUS
<1>1. ASSUME UNCHANGED <<sequence, log>>,
             \A n \in Members : \/ tx'[n] = tx[n] \/ tx'[n] = None \/ ~Took(tx'[n])
                               \/ NumberedAs(tx'[n], sequence)
      PROVE  Running'
  <2>1. Rows' = Rows
    BY <1>1 DEF Rows
  <2>2. \A n \in Members :
            tx'[n] # None /\ Took(tx'[n]) => NumberedAs(tx'[n], sequence)
    BY <1>1 DEF Running
  <2>3. RunOnTo(Rows, sequence)
    BY DEF Running
  <2> QED
    BY <1>1, <2>1, <2>2, <2>3 DEF Running, RunOnTo, NumberedAs, Took
<1>2. CASE UNCHANGED <<sequence, log, tx>>
  BY <1>1, <1>2
<1>3. ASSUME NEW m \in Members, NEW t, UNCHANGED <<sequence, log>>,
             tx' = [tx EXCEPT ![m] = t],
             t = None \/ ~Took(t) \/ NumberedAs(t, sequence)
      PROVE  Running'
  <2>1. \A n \in Members : IF n = m THEN tx'[n] = t ELSE tx'[n] = tx[n]
    BY <1>3 DEF CapturedInv, Types
  <2>2. \A n \in Members : \/ tx'[n] = tx[n] \/ tx'[n] = None \/ ~Took(tx'[n])
                            \/ NumberedAs(tx'[n], sequence)
    BY <1>3, <2>1
  <2> QED
    BY <1>1, <1>3, <2>2
<1>4. ASSUME NEW m \in Members, Ends(m) \/ RollsBack(m) PROVE Running'
  BY <1>3, <1>4 DEF Ends, RollsBack, record
<1>5. ASSUME NEW m \in Members, Checkout(m) PROVE Running'
  BY <1>3, <1>5 DEF Checkout, record, Took
<1>6. ASSUME NEW m \in Members, Write(m) \/ NextChange(m) PROVE Running'
  <2>1. /\ tx[m] \in Transaction /\ epoch \in Nat /\ sequence \in Nat
        /\ Took(tx[m]) => NumberedAs(tx[m], sequence)
    BY <1>6 DEF Write, NextChange, CapturedInv, Types, Running
  <2>2. /\ NumberedAs(Capture(tx[m]), sequence)
        /\ NumberedAs(CaptureClaimed(tx[m]), sequence)
    BY <2>1, CaptureNumbers, CaptureClaimedNumbers
  <2>3. Writes(m, Capture(tx[m])) \/ Writes(m, CaptureClaimed(tx[m]))
    BY <1>6 DEF Write, NextChange
  <2> QED
    BY <1>3, <2>2, <2>3 DEF Writes, record
<1>7. ASSUME NEW m \in Members, Commit(m) PROVE Running'
  BY <1>7, CommitKeepsRunning
<1>8. \/ UNCHANGED <<sequence, log, tx>>
      \/ \E m \in Members : Ends(m) \/ RollsBack(m) \/ Checkout(m) \/ Write(m)
                           \/ NextChange(m) \/ Commit(m)
  BY DEF Next, vars, record, member, Adopt, StartTakeOver, TakeOver, TakeOverFails, StepDown,
         Crash, Refused, Rollback, TailRuns, TailStops, TailStarts, TailWakes, ReadsHead,
         ReadsBatch, TailPublishes, Process
<1> QED
  BY <1>2, <1>4, <1>5, <1>6, <1>7, <1>8

LEMMA RunningHolds == Spec => []Running
<1> QED
  BY CapturedInvHolds, RunningInit, RunningStep, PTL DEF Spec

\* The rows committed are numbered on from 1 to the head, one sequence after
\* the other and each with its ordinals from 0, whatever a transaction claims,
\* and whatever is rolled back, fenced or taken over.
THEOREM RowsFollow == Spec => []RowsRunOn
<1>1. CapturedInv /\ Running => RowsRunOn
  BY DEF Running, RunOnTo, RowsRunOn, Follows, Origin, Last
<1> QED
  BY <1>1, CapturedInvHolds, RunningHolds, PTL

-----------------------------------------------------------------------------
(* What the tail reads.                                                    *)

\* A read's rows: with each row those before it, one at least where there is
\* one, and all there are where it takes fewer than it may.
LEMMA EarliestAre ==
    ASSUME NEW rows \in SUBSET Row, IsFiniteSet(rows), NEW n \in Nat \ {0}
    PROVE  /\ Earliest(rows, n) \subseteq rows
           /\ \A r \in Earliest(rows, n), q \in rows :
                  Before(q, r) => q \in Earliest(rows, n)
           /\ rows # {} => Earliest(rows, n) # {}
           /\ Cardinality(Earliest(rows, n)) < n => Earliest(rows, n) = rows
           /\ IsFiniteSet(Earliest(rows, n))
<1> DEFINE ahead(r) == {q \in rows : Before(q, r)}
           first == Earliest(rows, n)
<1>1. first = {r \in rows : Cardinality(ahead(r)) < n}
  BY DEF Earliest
<1>2. \A r \in rows : r.sequence \in Nat /\ r.ordinal \in Int
  BY DEF Row
<1>3. \A r \in rows : IsFiniteSet(ahead(r)) /\ Cardinality(ahead(r)) \in Nat
  BY FS_Subset, FS_CardinalityType
<1>4. ASSUME NEW r \in rows, NEW q \in rows, Before(q, r)
      PROVE  Cardinality(ahead(q)) < Cardinality(ahead(r))
  <2>1. ahead(q) \subseteq ahead(r) /\ q \in ahead(r) /\ q \notin ahead(q)
    BY <1>2, <1>4 DEF Before
  <2>2. Cardinality(ahead(q)) <= Cardinality(ahead(r))
        /\ Cardinality(ahead(q)) # Cardinality(ahead(r))
    <3> HIDE DEF ahead
    <3> QED
      BY <1>3, <2>1, FS_Subset
  <2> HIDE DEF ahead
  <2> QED
    BY <1>3, <2>2
<1> HIDE DEF ahead, first
<1>5. ASSUME NEW r \in first, NEW q \in rows, Before(q, r) PROVE q \in first
  <2>1. r \in rows /\ Cardinality(ahead(r)) < n
    BY <1>1
  <2>2. Cardinality(ahead(q)) < Cardinality(ahead(r))
    BY <1>4, <1>5, <2>1
  <2>3. Cardinality(ahead(q)) < n
    BY <1>3, <2>1, <2>2
  <2> QED
    BY <1>1, <2>3
<1>6. ASSUME NEW some \in SUBSET rows, some # {}
      PROVE  \E r \in some : ahead(r) \cap some = {}
  <2> DEFINE sizes == {Cardinality(ahead(r)) : r \in some}
  <2>1. sizes \in SUBSET Nat /\ sizes # {}
    BY <1>3, <1>6
  <2>2. PICK k \in sizes : \A j \in sizes : k <= j
    <3> HIDE DEF sizes
    <3> QED
      BY <2>1, LeastNumber
  <2>3. PICK r \in some : Cardinality(ahead(r)) = k
    OBVIOUS
  <2>4. ASSUME NEW q \in ahead(r) \cap some PROVE FALSE
    <3>1. q \in rows /\ Before(q, r) /\ r \in rows
      BY DEF ahead
    <3>2. Cardinality(ahead(q)) < Cardinality(ahead(r))
      BY <1>4, <3>1
    <3>3. Cardinality(ahead(q)) \in sizes
      OBVIOUS
    <3>4. Cardinality(ahead(r)) <= Cardinality(ahead(q))
      BY <2>2, <2>3, <3>3
    <3> QED
      BY <1>3, <3>1, <3>2, <3>4
  <2> QED
    BY <2>4
<1>7. ASSUME rows # {} PROVE first # {}
  <2>1. PICK r \in rows : ahead(r) \cap rows = {}
    BY <1>6, <1>7
  <2>2. ahead(r) = {}
    BY <2>1 DEF ahead
  <2>3. Cardinality(ahead(r)) = 0
    BY <2>2, FS_EmptySet
  <2> QED
    BY <1>1, <2>3
<1>8. ASSUME Cardinality(first) < n PROVE first = rows
  <2> SUFFICES ASSUME rows \ first # {} PROVE FALSE
    BY <1>1
  <2>1. PICK r \in rows \ first : ahead(r) \cap (rows \ first) = {}
    BY <1>6
  <2>2. ahead(r) \subseteq first
    BY <2>1 DEF ahead
  <2>3. IsFiniteSet(first)
    BY <1>1, FS_Subset
  <2>4. Cardinality(ahead(r)) <= Cardinality(first) /\ Cardinality(first) \in Nat
    BY <2>2, <2>3, FS_Subset, FS_CardinalityType
  <2>5. Cardinality(ahead(r)) < n
    BY <1>3, <1>8, <2>4
  <2> QED
    BY <1>1, <2>5
<1>9. IsFiniteSet(first) /\ first \subseteq rows
  BY <1>1, FS_Subset
<1> QED
  BY <1>5, <1>7, <1>8, <1>9 DEF first

Unread(from) == {row \in Range(Rows) : row.sequence > from}

LEMMA UnreadRows ==
    ASSUME CapturedInv, Running, NEW from \in Nat
    PROVE  /\ Unread(from) \in SUBSET Row /\ IsFiniteSet(Unread(from))
           /\ \A row \in Range(Rows) : row \in Row /\ row.sequence \in 1 .. sequence
           /\ Unread(from) = {} => sequence <= from
           /\ sequence \in Nat
<1> DEFINE rows == Rows
           n == Len(rows)
<1>1. rows \in Seq(Row)
  BY RowsAreRows
<1>2. RunOnTo(rows, sequence) /\ sequence \in Nat
  BY DEF Running, CapturedInv, Types
<1>3. Unread(from) = {row \in Range(rows) : row.sequence > from}
  BY DEF Unread
<1> HIDE DEF rows
<1>4. n \in Nat /\ DOMAIN rows = 1 .. n /\ \A i \in 1 .. n : rows[i] \in Row
  BY <1>1
<1>5. \A row \in Range(rows) : row \in Row /\ row.sequence \in 1 .. sequence
  BY <1>2, <1>4 DEF RunOnTo, Range
<1>6. IsFiniteSet(Range(rows))
  <2>1. rows \in Surjection(1 .. n, Range(rows))
    BY <1>1, <1>4 DEF Surjection, Range
  <2>2. IsFiniteSet(1 .. n)
    BY <1>4, FS_Interval
  <2> DEFINE all   == Range(rows)
             index == 1 .. n
  <2> HIDE DEF all, index
  <2>3. rows \in Surjection(index, all) /\ IsFiniteSet(index)
    BY <2>1, <2>2 DEF all, index
  <2>4. IsFiniteSet(all)
    BY <2>3, FS_Surjection
  <2> QED
    BY <2>4 DEF all
<1>7. Unread(from) \in SUBSET Range(rows)
  BY <1>3
<1>8. IsFiniteSet(Unread(from))
  BY <1>6, <1>7, FS_Subset
<1>9. ASSUME Unread(from) = {} PROVE sequence <= from
  <2>1. CASE rows = <<>>
    BY <1>2, <2>1 DEF RunOnTo
  <2>2. CASE rows # <<>>
    <3>1. n \in DOMAIN rows
      BY <1>1, <1>4, <2>2
    <3>2. sequence = rows[n].sequence /\ rows[n] \in Range(rows)
      BY <1>2, <2>2, <3>1 DEF RunOnTo, Range
    <3> QED
      BY <1>2, <1>3, <1>9, <3>2
  <2> QED
    BY <2>1, <2>2
<1> QED
  BY <1>2, <1>5, <1>7, <1>8, <1>9 DEF rows

\* Once its last change is left or read on, a batch is whole changes: every
\* row unread up to some sequence.
LEMMA WholeChanges ==
    ASSUME CapturedInv, Running, NEW from \in Nat
    PROVE  LET rows == Whole(BatchAfter(from))
           IN  /\ \E s \in Nat : rows = UpTo(Unread(from), s)
               /\ rows = {} => Unread(from) = {}
               /\ rows \in SUBSET Row /\ IsFiniteSet(rows)
<1> DEFINE unread == Unread(from)
           batch  == BatchAfter(from)
           rows   == Whole(batch)
           named  == Numbered(batch)
           last   == Max(named)
<1>1. /\ unread \in SUBSET Row /\ IsFiniteSet(unread) /\ sequence \in Nat
      /\ \A row \in Range(Rows) : row \in Row /\ row.sequence \in 1 .. sequence
  BY UnreadRows
<1>2. batch = Earliest(unread, Batch)
  BY DEF BatchAfter, Unread
<1>3. Batch \in Nat \ {0}
  BY CapturedAssumption
<1>4. /\ batch \subseteq unread /\ IsFiniteSet(batch)
      /\ \A r \in batch, q \in unread : Before(q, r) => q \in batch
      /\ unread # {} => batch # {}
      /\ Cardinality(batch) < Batch => batch = unread
  <2> HIDE DEF unread, batch
  <2> QED
    BY <1>1, <1>2, <1>3, EarliestAre
<1>5. \A r \in unread : r \in Range(Rows) /\ r.sequence > from /\ r.sequence \in 1 .. sequence
  BY <1>1 DEF Unread
<1>6. rows = IF Cardinality(batch) < Batch THEN batch
             ELSE IF named # {last} THEN {row \in batch : row.sequence < last}
             ELSE RowsOf(Range(Rows), last)
  BY DEF Whole
<1>7. \A r : r \in unread <=> r \in Range(Rows) /\ r.sequence > from
  BY DEF Unread
<1>8. \A r \in batch : r.sequence \in named
  BY DEF Numbered
<1>9. \A s \in named : \E r \in batch : r.sequence = s
  BY DEF Numbered
<1> HIDE DEF unread, batch, rows, named
<1>10. (\E s \in Nat : rows = UpTo(unread, s)) /\ (rows = {} => unread = {})
  <2>1. CASE Cardinality(batch) < Batch
    <3>1. rows = unread
      BY <1>4, <1>6, <2>1
    <3>2. unread = UpTo(unread, sequence)
      BY <1>5 DEF UpTo
    <3> QED
      BY <1>1, <3>1, <3>2
  <2>2. CASE ~ (Cardinality(batch) < Batch)
    <3>1. batch # {}
      BY <1>3, <2>2, FS_EmptySet
    <3>2. named \in SUBSET Nat /\ named # {} /\ \A s \in named : s <= sequence
      BY <1>1, <1>4, <1>5, <1>8, <1>9, <3>1
    <3>3. last \in named /\ \A s \in named : s <= last
      BY <1>1, <3>2, GreatestNumber
    <3> HIDE DEF last
    <3>4. last \in Nat /\ last > from /\ last \in 1 .. sequence
      <4>1. PICK r \in batch : r.sequence = last
        BY <1>9, <3>3
      <4> QED
        BY <1>1, <1>4, <1>5, <4>1
    <3>5. ASSUME NEW r \in unread, r.sequence < last PROVE r \in batch
      <4>1. PICK q \in batch : q.sequence = last
        BY <1>9, <3>3
      <4>2. Before(r, q)
        BY <3>5, <4>1 DEF Before
      <4> QED
        BY <1>4, <4>2
    <3>6. CASE named # {last}
      <4>1. rows = {row \in batch : row.sequence < last}
        BY <1>6, <2>2, <3>6
      <4>2. PICK s \in named : s # last
        BY <3>3, <3>6
      <4>3. PICK r \in batch : r.sequence = s
        BY <1>9
      <4>4. rows # {}
        <5>1. s < last
          BY <3>2, <3>3, <3>4, <4>2
        <5> QED
          BY <4>1, <4>3, <5>1
      <4>5. \A q \in unread : q.sequence < last <=> q.sequence <= last - 1
        BY <1>5, <3>4
      <4>6. rows = UpTo(unread, last - 1)
        BY <1>4, <3>5, <4>1, <4>5 DEF UpTo
      <4>7. last - 1 \in Nat
        BY <3>4
      <4> QED
        BY <4>4, <4>6, <4>7
    <3>7. CASE named = {last}
      <4>1. rows = RowsOf(Range(Rows), last)
        BY <1>6, <2>2, <3>7
      <4>2. PICK r \in batch : r.sequence = last
        BY <1>9, <3>3
      <4>3. r \in rows
        BY <1>4, <1>5, <4>1, <4>2 DEF RowsOf
      <4>4. \A q \in unread : q.sequence <= last => q.sequence = last
        <5>1. \A q \in unread : q.sequence < last => q.sequence = last
          BY <1>8, <3>5, <3>7
        <5> QED
          BY <1>5, <3>4, <5>1
      <4>5. \A q : q \in rows <=> q \in unread /\ q.sequence <= last
        <5>1. \A q : q \in rows <=> q \in Range(Rows) /\ q.sequence = last
          BY <4>1 DEF RowsOf
        <5>2. \A q : q \in rows => q \in unread /\ q.sequence <= last
          BY <1>7, <3>4, <5>1
        <5> QED
          BY <1>5, <4>4, <5>1, <5>2
      <4>6. rows = UpTo(unread, last)
        BY <4>5 DEF UpTo
      <4> QED
        BY <3>4, <4>3, <4>6
    <3> QED
      BY <3>6, <3>7
  <2> QED
    BY <2>1, <2>2
<1>11. rows \in SUBSET unread
  BY <1>10 DEF UpTo
<1>12. rows \in SUBSET Row /\ IsFiniteSet(rows)
  BY <1>1, <1>11, FS_Subset
<1> QED
  BY <1>10, <1>12 DEF rows, batch, unread

\* What fits of whole changes is whole changes, the first of them at least on
\* an empty page.
LEMMA FitsChanges ==
    ASSUME NEW page, IsFiniteSet(page), NEW rows \in SUBSET Row, IsFiniteSet(rows)
    PROVE  LET taken == Fits(page, rows)
           IN  /\ taken \subseteq rows
               /\ \A r \in taken, q \in rows : q.sequence <= r.sequence => q \in taken
               /\ page = {} /\ rows # {} => taken # {}
<1> DEFINE taken == Fits(page, rows)
           upTo(r) == page \union UpTo(rows, r.sequence)
           least == Min(Numbered(rows))
<1>1. \A r \in rows : r.sequence \in Nat
  BY DEF Row
<1>2. taken = {r \in rows : \/ page = {} /\ r.sequence = least
                            \/ Cardinality(upTo(r)) <= PageMost}
  BY DEF Fits
<1>3. rows # {} => /\ least \in Numbered(rows) /\ \A s \in Numbered(rows) : least <= s
                   /\ least \in Nat
  <2>1. Numbered(rows) \in SUBSET Nat /\ (rows # {} => Numbered(rows) # {})
    BY <1>1 DEF Numbered
  <2> QED
    BY <2>1, LeastNumberIs
<1> HIDE DEF least
<1>4. \A r \in rows : r.sequence \in Numbered(rows)
  BY DEF Numbered
<1>5. \A r \in rows : IsFiniteSet(upTo(r))
  <2>1. \A r \in rows : UpTo(rows, r.sequence) \in SUBSET rows
    BY DEF UpTo
  <2>2. \A r \in rows : IsFiniteSet(UpTo(rows, r.sequence))
    BY <2>1, FS_Subset
  <2> QED
    BY <2>2, FS_Union
<1>6. PageMost \in Nat
  BY CapturedAssumption
<1>7. ASSUME NEW r \in taken, NEW q \in rows, q.sequence <= r.sequence
      PROVE  q \in taken
  <2>1. r \in rows
    BY <1>2
  <2>2. CASE page = {} /\ r.sequence = least
    <3>1. q.sequence = least
      BY <1>1, <1>3, <1>4, <1>7, <2>1, <2>2
    <3> QED
      BY <1>2, <2>2, <3>1
  <2>3. CASE Cardinality(upTo(r)) <= PageMost
    <3>1. upTo(q) \in SUBSET upTo(r)
      BY <1>1, <1>7, <2>1 DEF UpTo
    <3>2. IsFiniteSet(upTo(r)) /\ IsFiniteSet(upTo(q))
      BY <1>5, <2>1
    <3>3. /\ Cardinality(upTo(q)) <= Cardinality(upTo(r))
          /\ Cardinality(upTo(q)) \in Nat /\ Cardinality(upTo(r)) \in Nat
      <4> HIDE DEF upTo
      <4> QED
        BY <3>1, <3>2, FS_Subset, FS_CardinalityType
    <3>4. Cardinality(upTo(q)) <= PageMost
      BY <1>6, <2>3, <3>3
    <3> QED
      BY <1>2, <3>4
  <2> QED
    BY <1>2, <2>2, <2>3
<1>8. ASSUME page = {}, rows # {} PROVE taken # {}
  <2>1. PICK r \in rows : r.sequence = least
    BY <1>3, <1>8 DEF Numbered
  <2> QED
    BY <1>2, <1>8, <2>1
<1>9. taken \subseteq rows
  BY <1>2
<1> HIDE DEF taken
<1> QED
  BY <1>7, <1>8, <1>9 DEF taken

\* What was read and is not published yet is every row committed between the
\* sequence published last and the one read last.
ReadFrom(t) ==
    /\ t.after \in Nat /\ t.after <= sequence
    /\ t.at \in {"pages", "publishes"} =>
          /\ t.head \in Nat /\ t.head <= sequence
          /\ t.from \in Nat /\ t.after <= t.from /\ t.from <= sequence
          /\ t.page = UpTo(Unread(t.after), t.from)
          /\ t.page = {} => t.from = t.after

TailFollows == ReadFrom(tail)

\* Rows taken leave the page every row up to a sequence, or there is none to
\* read and the tail waits.
TakenUpTo(rows, from) ==
    LET page == tail.page \union rows
    IN  /\ page = UpTo(Unread(tail.after), from)
        /\ from \in Nat /\ tail.from <= from /\ from <= sequence
        /\ page = {} => from = tail.after
        /\ \/ /\ tail' = [Down EXCEPT !.at = "waits", !.after = tail.after]
              /\ sequence <= tail.after
           \/ \E at \in {"pages", "publishes"} :
                 tail' = [tail EXCEPT !.page = page, !.from = from, !.at = at]

LEMMA BatchTaken ==
    ASSUME CapturedInv, Running, TailFollows, ReadsBatch
    PROVE  \E rows, from : TakenUpTo(rows, from)
<1> DEFINE rows  == Whole(BatchAfter(tail.from))
           page  == tail.page
           taken == Fits(page, rows)
           from  == IF taken = {} THEN tail.from ELSE Max(Numbered(taken))
           ends  == rows = {} \/ taken # rows \/ Cardinality(page \union taken) >= PageMost
           at    == IF ends THEN "publishes" ELSE "pages"
<1>1. /\ tail.at = "pages" /\ tail.head \in Nat /\ tail.head <= sequence
      /\ tail.from \in Nat /\ tail.after <= tail.from /\ tail.from <= sequence
      /\ tail.page = UpTo(Unread(tail.after), tail.from)
      /\ tail.page = {} => tail.from = tail.after
      /\ tail.after \in Nat
  BY DEF ReadsBatch, TailFollows, ReadFrom
<1>2. tail' = IF ends /\ page \union taken = {}
              THEN [Down EXCEPT !.at = "waits", !.after = tail.after]
              ELSE [tail EXCEPT !.page = page \union taken, !.from = from, !.at = at]
  BY DEF ReadsBatch, TakesBatch
<1>3. \/ /\ page \union taken = {}
         /\ tail' = [Down EXCEPT !.at = "waits", !.after = tail.after]
      \/ \E a \in {"pages", "publishes"} :
            tail' = [tail EXCEPT !.page = page \union taken, !.from = from, !.at = a]
  <2>1. at \in {"pages", "publishes"}
    OBVIOUS
  <2> HIDE DEF rows, page, taken, from, ends, at
  <2>2. CASE ends /\ page \union taken = {}
    BY <1>2, <2>2
  <2>3. CASE ~ (ends /\ page \union taken = {})
    <3>1. tail' = [tail EXCEPT !.page = page \union taken, !.from = from, !.at = at]
      BY <1>2, <2>3
    <3> QED
      BY <2>1, <3>1, Zenon
  <2> QED
    BY <2>2, <2>3
<1>4. /\ \E s \in Nat : rows = UpTo(Unread(tail.from), s)
      /\ rows = {} => Unread(tail.from) = {}
      /\ rows \in SUBSET Row /\ IsFiniteSet(rows)
  BY <1>1, WholeChanges
<1>5. /\ IsFiniteSet(Unread(tail.after)) /\ sequence \in Nat
      /\ \A row \in Range(Rows) : row \in Row /\ row.sequence \in 1 .. sequence
      /\ Unread(tail.after) = {} => sequence <= tail.after
  BY <1>1, UnreadRows
<1>6. IsFiniteSet(page)
  <2>1. page \in SUBSET Unread(tail.after)
    BY <1>1 DEF UpTo
  <2> QED
    BY <1>5, <2>1, FS_Subset
<1>7. /\ taken \subseteq rows
      /\ \A r \in taken, q \in rows : q.sequence <= r.sequence => q \in taken
      /\ page = {} /\ rows # {} => taken # {}
  <2> HIDE DEF rows, page
  <2> QED
    BY <1>4, <1>6, FitsChanges
<1> HIDE DEF rows, taken, ends, at
<1>8. \A r : r \in Unread(tail.from) <=> r \in Range(Rows) /\ r.sequence > tail.from
  BY DEF Unread
<1>9. \A r : r \in page <=> r \in Range(Rows) /\ r.sequence > tail.after
                          /\ r.sequence <= tail.from
  BY <1>1 DEF UpTo, Unread
<1>10. CASE taken = {}
  <2>1. from = tail.from /\ page \union taken = page
    BY <1>10
  <2>2. ASSUME page = {} PROVE sequence <= tail.after
    <3>1. rows = {} /\ tail.from = tail.after
      BY <1>1, <1>7, <1>10, <2>2
    <3> QED
      BY <1>4, <1>5, <3>1
  <2> HIDE DEF from
  <2>3. TakenUpTo(taken, from)
    <3> DEFINE all == page \union taken
    <3>1. /\ all = UpTo(Unread(tail.after), from)
          /\ from \in Nat /\ tail.from <= from /\ from <= sequence
          /\ all = {} => from = tail.after
      BY <1>1, <2>1
    <3>2. all = {} => sequence <= tail.after
      BY <2>1, <2>2
    <3> HIDE DEF taken
    <3> QED
      BY <1>3, <3>1, <3>2, Zenon DEF TakenUpTo
  <2> QED
    BY <2>3
<1>11. CASE taken # {}
  <2>1. from = Max(Numbered(taken))
    BY <1>11
  <2> HIDE DEF from
  <2>2. \A r \in taken : /\ r \in Range(Rows) /\ r.sequence > tail.from
                        /\ r.sequence \in 1 .. sequence
    BY <1>4, <1>5, <1>7, <1>8 DEF UpTo
  <2>3. Numbered(taken) \in SUBSET Nat /\ Numbered(taken) # {}
        /\ \A s \in Numbered(taken) : s <= sequence
    BY <1>5, <1>11, <2>2 DEF Numbered
  <2>4. from \in Numbered(taken) /\ \A s \in Numbered(taken) : s <= from
    BY <1>5, <2>1, <2>3, GreatestNumber
  <2>5. PICK r \in taken : r.sequence = from
    BY <2>4 DEF Numbered
  <2>6. from \in Nat /\ from > tail.from /\ from <= sequence
    BY <1>5, <2>2, <2>5
  <2>7. \A q : q \in taken <=> q \in Range(Rows) /\ q.sequence > tail.from
                            /\ q.sequence <= from
    <3>1. ASSUME NEW q \in taken
          PROVE  q \in Range(Rows) /\ q.sequence > tail.from /\ q.sequence <= from
      BY <2>2, <2>4 DEF Numbered
    <3>2. ASSUME NEW q \in Range(Rows), q.sequence > tail.from, q.sequence <= from
          PROVE  q \in taken
      <4>1. PICK s \in Nat : rows = UpTo(Unread(tail.from), s)
        BY <1>4
      <4>2. r \in rows /\ from <= s
        BY <1>7, <2>5, <4>1 DEF UpTo
      <4>3. q \in Unread(tail.from) /\ q.sequence \in Nat
        BY <1>5, <1>8, <3>2
      <4>4. q.sequence <= s
        BY <2>6, <3>2, <4>1, <4>2, <4>3
      <4>5. q \in rows
        BY <4>1, <4>3, <4>4 DEF UpTo
      <4> QED
        BY <1>7, <2>5, <3>2, <4>5
    <3> QED
      BY <3>1, <3>2
  <2>8. page \union taken = UpTo(Unread(tail.after), from)
    <3>1. \A q : q \in page \union taken <=>
                   q \in Range(Rows) /\ q.sequence > tail.after /\ q.sequence <= from
      <4>1. ASSUME NEW q \in Range(Rows)
            PROVE  (q.sequence > tail.after /\ q.sequence <= tail.from)
                      \/ (q.sequence > tail.from /\ q.sequence <= from)
                   <=> q.sequence > tail.after /\ q.sequence <= from
        <5>1. q.sequence \in Nat
          BY <1>5
        <5> QED
          BY <1>1, <2>6, <5>1
      <4> HIDE DEF page
      <4> QED
        BY <1>9, <2>7, <4>1
    <3> HIDE DEF page
    <3> QED
      BY <3>1 DEF UpTo, Unread
  <2>9. page \union taken # {}
    BY <1>11
  <2>10. TakenUpTo(taken, from)
    <3> DEFINE all == page \union taken
    <3>1. /\ all = UpTo(Unread(tail.after), from)
          /\ from \in Nat /\ tail.from <= from /\ from <= sequence
          /\ all # {}
      BY <1>1, <2>6, <2>8, <2>9
    <3>2. tail.from <= from /\ from <= sequence
      BY <3>1
    <3> HIDE DEF taken
    <3> QED
      BY <1>3, <3>1, <3>2, Zenon DEF TakenUpTo
  <2> QED
    BY <2>10
<1> QED
  BY <1>10, <1>11

\* The change published next is every row committed under the sequence that
\* follows, and leaves the rows after it.
PublishedNext(change) ==
    /\ change.sequence \in Nat /\ change.sequence <= tail.from
    /\ change.after < change.sequence
    /\ change.rows = RowsOf(Range(Rows), change.sequence)
    /\ Numbered(Range(Rows)) \intersect (change.after + 1 .. change.sequence - 1) = {}
    /\ tail.page \ change.rows = UpTo(Unread(change.sequence), tail.from)

LEMMA PublishesNext ==
    ASSUME CapturedInv, Running, TailFollows, tail.at = "publishes"
    PROVE  PublishedNext(Published)
<1> DEFINE at == Min(Numbered(tail.page))
<1>1. /\ tail.after \in Nat /\ tail.from \in Nat /\ tail.page # {}
      /\ tail.page = UpTo(Unread(tail.after), tail.from)
  BY DEF TailFollows, ReadFrom, CapturedInv, TailReads
<1>2. \A r : r \in tail.page <=> r \in Range(Rows) /\ r.sequence > tail.after
                               /\ r.sequence <= tail.from
  BY <1>1 DEF UpTo, Unread
<1>3. \A r \in Range(Rows) : r.sequence \in Nat
  BY <1>1, UnreadRows
<1>4. Numbered(tail.page) \in SUBSET Nat /\ Numbered(tail.page) # {}
  BY <1>1, <1>2, <1>3 DEF Numbered
<1>5. at \in Numbered(tail.page) /\ \A s \in Numbered(tail.page) : at <= s
  BY <1>4, LeastNumberIs
<1>6. /\ Published.after = tail.after /\ Published.sequence = at
      /\ Published.rows = RowsOf(tail.page, at)
  BY DEF Published
<1> HIDE DEF at
<1>7. at \in Nat /\ tail.after < at /\ at <= tail.from
  BY <1>1, <1>2, <1>3, <1>5 DEF Numbered
<1>8. \A r \in tail.page : at <= r.sequence
  BY <1>5 DEF Numbered
<1>9. RowsOf(tail.page, at) = RowsOf(Range(Rows), at)
  BY <1>2, <1>7 DEF RowsOf
<1>10. Numbered(Range(Rows)) \intersect (tail.after + 1 .. at - 1) = {}
  <2> SUFFICES ASSUME NEW r \in Range(Rows), r.sequence \in tail.after + 1 .. at - 1
               PROVE  FALSE
    BY DEF Numbered
  <2>1. r.sequence > tail.after /\ r.sequence <= tail.from /\ ~ (at <= r.sequence)
    BY <1>1, <1>7
  <2> QED
    BY <1>2, <1>8, <2>1
<1>11. tail.page \ RowsOf(tail.page, at) = UpTo(Unread(at), tail.from)
  <2>1. \A r \in Range(Rows) :
           (r.sequence > tail.after /\ r.sequence <= tail.from /\ r.sequence # at
                /\ at <= r.sequence)
              <=> r.sequence > at /\ r.sequence <= tail.from
    BY <1>1, <1>3, <1>7
  <2>2. \A r : r \in tail.page \ RowsOf(tail.page, at) <=>
                  r \in Range(Rows) /\ r.sequence > at /\ r.sequence <= tail.from
    BY <1>2, <1>8, <2>1 DEF RowsOf
  <2> QED
    BY <2>2 DEF UpTo, Unread
<1> QED
  BY <1>1, <1>6, <1>7, <1>9, <1>10, <1>11 DEF PublishedNext

LEMMA TailFollowsStep ==
    ASSUME CapturedInv, Running, TailFollows, [Next]_vars
    PROVE  TailFollows'
<1>1. TailReads /\ sequence \in Nat
  BY DEF CapturedInv, Types
<1>2. ASSUME UNCHANGED <<sequence, log>>, ReadFrom(tail') PROVE TailFollows'
  <2>1. Rows' = Rows
    BY <1>2 DEF Rows
  <2> QED
    BY <1>2, <2>1 DEF TailFollows, ReadFrom, Unread
<1>3. CASE UNCHANGED <<sequence, log, tail>>
  BY <1>2, <1>3 DEF TailFollows
<1>4. ASSUME NEW m \in Members, Commit(m) PROVE TailFollows'
  <2>1. /\ Rows' = Rows \o tx[m].rows /\ Rows \in Seq(Row) /\ tail' = tail
        /\ tx[m] \in Transaction /\ sequence' = tx[m].sequence
    BY <1>4, RowsAreRows, CommitAppends, EntryCommitted DEF Commit
  <2>2. NumberedAs(tx[m], sequence)
    BY <1>4 DEF Running, Commit
  <2>3. tx[m].rows \in Seq(Row) /\ tx[m].sequence \in Nat /\ tx[m].rows # <<>>
    BY <1>4, <2>1 DEF Transaction, Commit, Took
  <2>4. \A row \in Range(tx[m].rows) : row.sequence \in sequence + 1 .. tx[m].sequence
    BY <2>2 DEF NumberedAs, Range
  <2>5. Range(Rows') = Range(Rows) \union Range(tx[m].rows)
    BY <2>1, <2>3, RangeOfBoth
  <2>6. sequence <= sequence' /\ sequence' \in Nat
    <3>1. 1 \in DOMAIN tx[m].rows
      BY <2>3
    <3>2. tx[m].rows[1].sequence \in sequence + 1 .. tx[m].sequence
      BY <2>2, <3>1 DEF NumberedAs
    <3> QED
      BY <1>1, <2>1, <2>3, <3>2
  <2>7. ASSUME NEW after \in Nat, NEW from \in Nat, from <= sequence
        PROVE  UpTo(Unread(after), from)' = UpTo(Unread(after), from)
    BY <1>1, <2>3, <2>4, <2>5, <2>7 DEF UpTo, Unread
  <2> QED
    BY <1>1, <2>1, <2>6, <2>7 DEF TailFollows, ReadFrom
<1>5. ASSUME NEW a \in {"down", "waits", "reads"}, NEW f \in Nat, f <= sequence,
             tail' = [Down EXCEPT !.at = a, !.after = f]
      PROVE  ReadFrom(tail')
  BY <1>5 DEF Down, ReadFrom
<1>6. CASE TailRuns \/ TailStops
  <2>1. UNCHANGED <<sequence, log>>
    BY <1>6 DEF TailRuns, TailStops, TailStarts, TailWakes, ReadsHead, ReadsBatch,
                TailPublishes, Process, record
  <2> SUFFICES ReadFrom(tail')
    BY <1>2, <2>1
  <2>2. CASE TailStarts
    <3>1. tail' = [at |-> "waits", after |-> sequence, head |-> 0, from |-> 0, page |-> {}]
      BY <2>2 DEF TailStarts, Down
    <3>2. sequence <= sequence
      BY <1>1
    <3> QED
      BY <1>1, <3>1, <3>2 DEF ReadFrom
  <2>3. CASE TailStops
    BY <1>1, <2>3 DEF TailStops, Down, ReadFrom
  <2>4. CASE TailWakes
    <3>1. tail' = [at |-> "reads", after |-> tail.after, head |-> tail.head,
                   from |-> tail.from, page |-> tail.page]
      BY <1>1, <2>4 DEF TailWakes, TailReads
    <3> QED
      BY <3>1 DEF TailFollows, ReadFrom
  <2>5. CASE ReadsHead
    <3>1. tail' = [at |-> "pages", after |-> tail.after, head |-> sequence,
                   from |-> tail.after, page |-> {}]
      BY <1>1, <2>5 DEF ReadsHead, TailReads
    <3>2. tail.after \in Nat /\ tail.after <= sequence
      BY DEF TailFollows, ReadFrom
    <3>3. UpTo(Unread(tail.after), tail.after) = {}
      <4>1. \A row \in Range(Rows) : row.sequence \in Nat
        BY <1>1, UnreadRows
      <4> QED
        BY <3>2, <4>1 DEF UpTo, Unread
    <3> QED
      BY <1>1, <3>1, <3>2, <3>3 DEF ReadFrom
  <2>6. CASE ReadsBatch
    <3>1. PICK rows, from : TakenUpTo(rows, from)
      BY <2>6, BatchTaken
    <3>2. /\ tail.after \in Nat /\ tail.after <= sequence
          /\ tail.head \in Nat /\ tail.head <= sequence
          /\ tail.from \in Nat /\ tail.after <= tail.from
      BY <2>6 DEF ReadsBatch, TailFollows, ReadFrom
    <3> DEFINE page == tail.page \union rows
    <3>3. /\ page = UpTo(Unread(tail.after), from)
          /\ from \in Nat /\ tail.from <= from /\ from <= sequence
          /\ page = {} => from = tail.after
      BY <3>1 DEF TakenUpTo
    <3>4. CASE tail' = [Down EXCEPT !.at = "waits", !.after = tail.after]
      BY <1>5, <3>2, <3>4
    <3>5. ASSUME NEW at \in {"pages", "publishes"},
                 tail' = [tail EXCEPT !.page = page, !.from = from, !.at = at]
          PROVE  ReadFrom(tail')
      <4> HIDE DEF page
      <4>1. tail' = [at |-> at, after |-> tail.after, head |-> tail.head,
                     from |-> from, page |-> page]
        BY <1>1, <3>5 DEF TailReads
      <4> QED
        BY <1>1, <3>2, <3>3, <4>1 DEF ReadFrom
    <3> QED
      BY <3>1, <3>4, <3>5 DEF TakenUpTo
  <2>7. CASE TailPublishes
    <3>1. /\ PublishedNext(Published)
          /\ tail.from \in Nat /\ tail.from <= sequence
          /\ tail.head \in Nat /\ tail.head <= sequence
      BY <2>7, PublishesNext DEF TailPublishes, TailFollows, ReadFrom
    <3> DEFINE f    == Published.sequence
               rest == tail.page \ Published.rows
    <3>2. f \in Nat /\ f <= tail.from /\ rest = UpTo(Unread(f), tail.from)
      BY <3>1 DEF PublishedNext
    <3>3. /\ tail.at = "publishes"
          /\ tail' = IF rest # {} THEN [tail EXCEPT !.after = f, !.page = rest]
                     ELSE [Down EXCEPT !.after = f,
                                       !.at = IF f >= tail.head THEN "waits" ELSE "reads"]
      BY <2>7 DEF TailPublishes
    <3> HIDE DEF f, rest
    <3>4. CASE rest # {}
      <4>1. tail' = [at |-> "publishes", after |-> f, head |-> tail.head,
                     from |-> tail.from, page |-> rest]
        BY <1>1, <3>3, <3>4 DEF TailReads
      <4> QED
        BY <1>1, <3>1, <3>2, <3>4, <4>1 DEF ReadFrom
    <3>5. CASE rest = {}
      <4>1. f <= sequence
        BY <1>1, <3>1, <3>2
      <4> QED
        BY <1>5, <3>2, <3>3, <3>5, <4>1
    <3> QED
      BY <3>4, <3>5
  <2> QED
    BY <1>6, <2>2, <2>3, <2>4, <2>5, <2>6, <2>7 DEF TailRuns
<1>7. \/ UNCHANGED <<sequence, log, tail>> \/ TailRuns \/ TailStops
      \/ \E m \in Members : Commit(m)
  BY DEF Next, vars, record, member, Adopt, StartTakeOver, TakeOver, TakeOverFails, StepDown,
         Crash, Ends, Checkout, Write, NextChange, Writes, Refused, Rollback, RollsBack
<1> QED
  BY <1>3, <1>4, <1>6, <1>7

LEMMA TailFollowsHolds == Spec => []TailFollows
<1>1. Init => TailFollows
  BY DEF Init, Down, TailFollows, ReadFrom
<1> QED
  BY <1>1, CapturedInvHolds, RunningHolds, TailFollowsStep, PTL DEF Spec

\* A change is published with every row of its transaction, and after one its
\* follower was told of: nothing committed lies between, whatever the batches
\* and the pages cut.
THEOREM ChangesAreWhole == Spec => []PublishedWhole
<1>1. ASSUME CapturedInv, Running, TailFollows PROVE PublishedWhole
  <2> SUFFICES ASSUME tail.at = "publishes"
               PROVE  /\ Published.rows = RowsOf(Range(Rows), Published.sequence)
                      /\ Published.after < Published.sequence
                      /\ Numbered(Range(Rows)) \intersect
                            (Published.after + 1 .. Published.sequence - 1) = {}
    BY DEF PublishedWhole
  <2>1. PublishedNext(Published)
    BY <1>1, PublishesNext
  <2> QED
    BY <2>1 DEF PublishedNext
<1> QED
  BY <1>1, CapturedInvHolds, RunningHolds, TailFollowsHolds, PTL

\* The tail waits for a notice only where it has published up to the head it
\* read, however large a change is.
THEOREM TailWaitsAtTheHead == Spec => WaitsAtTheHead
<1> DEFINE Waits == tail.at \in {"pages", "publishes"} /\ tail'.at = "waits" =>
                        tail'.after >= tail.head
<1>1. ASSUME CapturedInv, Running, TailFollows, [Next]_vars,
             tail.at \in {"pages", "publishes"}, tail'.at = "waits"
      PROVE  tail'.after >= tail.head
  <2>1. \/ tail' = tail \/ TailStarts \/ TailStops \/ TailWakes \/ ReadsHead
        \/ ReadsBatch \/ TailPublishes
    BY <1>1 DEF Next, vars, record, member, Adopt, StartTakeOver, TakeOver, TakeOverFails,
                StepDown, Crash, Ends, Checkout, Write, NextChange, Writes, Refused, Rollback,
                RollsBack, Commit, TailRuns
  <2>2. CASE ReadsBatch
    <3>1. PICK rows, from : TakenUpTo(rows, from)
      BY <1>1, <2>2, BatchTaken
    <3>2. ~ \E at \in {"pages", "publishes"} : \E page :
              tail' = [tail EXCEPT !.page = page, !.from = from, !.at = at]
      BY <1>1 DEF CapturedInv, TailReads
    <3>3. tail' = [Down EXCEPT !.at = "waits", !.after = tail.after]
          /\ sequence <= tail.after
      BY <3>1, <3>2 DEF TakenUpTo
    <3>4. tail'.after = tail.after
      BY <3>3 DEF Down
    <3>5. /\ tail.after \in Nat /\ tail.head \in Nat /\ sequence \in Nat
          /\ tail.head <= sequence
      BY <1>1 DEF TailFollows, ReadFrom, CapturedInv, Types
    <3> QED
      BY <3>3, <3>4, <3>5
  <2>3. CASE TailPublishes
    <3> DEFINE f    == Published.sequence
               rest == tail.page \ Published.rows
    <3>1. /\ tail.at = "publishes"
          /\ tail' = IF rest # {} THEN [tail EXCEPT !.after = f, !.page = rest]
                     ELSE [Down EXCEPT !.after = f,
                                       !.at = IF f >= tail.head THEN "waits" ELSE "reads"]
      BY <2>3 DEF TailPublishes
    <3> HIDE DEF f, rest
    <3> QED
      BY <1>1, <3>1 DEF CapturedInv, TailReads, Down
  <2>4. CASE tail' = tail \/ TailStarts \/ TailStops \/ TailWakes \/ ReadsHead
    BY <1>1, <2>4 DEF TailStarts, TailStops, TailWakes, ReadsHead, Down, CapturedInv,
                      TailReads
  <2> QED
    BY <2>1, <2>2, <2>3, <2>4
<1>2. CapturedInv /\ Running /\ TailFollows /\ [Next]_vars => [Waits]_vars
  BY <1>1
<1> QED
  BY <1>2, CapturedInvHolds, RunningHolds, TailFollowsHolds, PTL DEF Spec, WaitsAtTheHead

=============================================================================

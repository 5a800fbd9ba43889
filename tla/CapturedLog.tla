----------------------------- MODULE CapturedLog -----------------------------
(***************************************************************************)
(* The change log a store captures by trigger and the thread that          *)
(* publishes it (crates/changes/src/captured.rs), as the street,           *)
(* instrument and configuration stores keep it.                            *)
(*                                                                         *)
(* Each row a transaction writes is appended under the partition's next    *)
(* sequence, one a transaction, taken from the head row under its lock;    *)
(* the street store takes further sequences of its own (`next_change`).    *)
(* The trigger refuses a transaction whose connection names an epoch other *)
(* than the head row's; one that names none is not fenced.                 *)
(*                                                                         *)
(* A member has one transaction at a time.  One without a lease that       *)
(* adopted nothing is the migration Job's.                                 *)
(***************************************************************************)
EXTENDS Integers, SequencesExt

CONSTANTS
    Members, Leased,  \* the store's processes, and those with a lease
    Partition,        \* the store's one partition
    Empty, Nobody,
    Batch,            \* the rows a read takes at a time
    PageMost,         \* the size of a page, in rows
    MaxEpoch,         \* bound: takeovers started
    MaxSequence,      \* bound: the sequences taken
    MaxRows           \* bound: the rows of a transaction, and those before it

None == <<>>     \* nobody holds the head row, and no transaction

ASSUME CapturedAssumption ==
    /\ Leased \subseteq Members
    /\ {Batch, PageMost, MaxEpoch, MaxSequence, MaxRows} \subseteq Nat \ {0}
    /\ None \notin Members

VARIABLES
    sequence,   \* the head row's, committed
    epoch,
    log,        \* the transactions committed, each with its captured rows
    tookOver,   \* {prefix}_writer_took_over
    lock,       \* who holds the head row
    mode,       \* where a process is in its life
    snap,       \* max(epoch) as its takeover's statement read it
    fence,      \* the epoch it adopted, 0 for none
    tx,         \* its transaction
    tail        \* the tail's thread: what it reads, and published last (after)

record == <<sequence, epoch, log, tookOver>>
member == <<mode, snap, fence>>
vars   == <<record, lock, member, tx, tail>>

Down == [at |-> "down", after |-> 0, head |-> 0, from |-> 0, page |-> {}]

Init ==
    /\ sequence = 0
    /\ epoch = 1
    /\ log = <<>>
    /\ tookOver = {}
    /\ lock = None
    /\ mode = [m \in Members |-> "standby"]
    /\ snap = [m \in Members |-> 0]
    /\ fence = [m \in Members |-> 0]
    /\ tx = [m \in Members |-> None]
    /\ tail = Down

-----------------------------------------------------------------------------
(* A member's life.                                                        *)

\* A process with no lease adopts the head row's epoch, once.
Adopt(m) ==
    /\ m \notin Leased
    /\ fence[m] = 0
    /\ fence' = [fence EXCEPT ![m] = epoch]
    /\ UNCHANGED <<record, lock, mode, snap, tx, tail>>

\* One with a lease starts its takeover: the statement reads the highest
\* epoch before it waits for the head row.
StartTakeOver(m) ==
    /\ m \in Leased /\ mode[m] = "standby"
    /\ epoch < MaxEpoch
    /\ mode' = [mode EXCEPT ![m] = "taking"]
    /\ snap' = [snap EXCEPT ![m] = epoch]
    /\ UNCHANGED <<record, lock, fence, tx, tail>>

Recorded(e) == \E t \in tookOver : t.epoch = e

TakeOver(m) ==
    LET raised == snap[m] + 1
    IN  /\ mode[m] = "taking" /\ lock = None /\ ~Recorded(raised)
        /\ epoch' = raised
        /\ tookOver' = tookOver \union {[epoch |-> raised, member |-> m]}
        /\ mode' = [mode EXCEPT ![m] = "writer"]
        /\ fence' = [fence EXCEPT ![m] = raised]
        /\ snap' = [snap EXCEPT ![m] = 0]
        /\ UNCHANGED <<sequence, log, lock, tx, tail>>

\* Mutant: a transaction that ends lets the head row go at the next.
UnlockedNever(m) == lock

Unlocked(m) == IF lock = m THEN None ELSE lock

\* The process ends, and its transaction rolls back.
Ends(m) ==
    /\ mode' = [mode EXCEPT ![m] = "standby"]
    /\ snap' = [snap EXCEPT ![m] = 0]
    /\ fence' = [fence EXCEPT ![m] = 0]
    /\ tx' = [tx EXCEPT ![m] = None]
    /\ lock' = Unlocked(m)
    /\ UNCHANGED <<record, tail>>

\* Another that read the same epoch recorded its takeover first.
TakeOverFails(m) == mode[m] = "taking" /\ lock = None /\ Recorded(snap[m] + 1) /\ Ends(m)

StepDown(m) == mode[m] = "writer" /\ epoch > fence[m] /\ Ends(m)

Crash(m) == (mode[m] # "standby" \/ fence[m] # 0 \/ tx[m] # None) /\ Ends(m)

-----------------------------------------------------------------------------
(* A transaction.                                                          *)

\* {prefix}_change, in order.
Rows == FlattenSeq([i \in DOMAIN log |-> log[i].rows])

\* A connection checked out names the epoch the process has adopted by then.
Checkout(m) ==
    /\ m \in Leased => mode[m] = "writer"
    /\ tx[m] = None
    /\ tx' = [tx EXCEPT ![m] = [named |-> fence[m], sequence |-> 0, ordinal |-> 0,
                               claimed |-> FALSE, rows |-> <<>>]]
    /\ UNCHANGED <<record, lock, member, tail>>

\* The head row names this transaction: it took its sequence.
Took(t) == t.rows # <<>>

\* The trigger's numbering of a row: the transaction's next ordinal, or the
\* partition's next sequence.
Numbers(t) ==
    IF Took(t) THEN [t EXCEPT !.ordinal = @ + 1]
    ELSE [t EXCEPT !.sequence = sequence + 1, !.ordinal = 0, !.claimed = FALSE]

Capture(t) ==
    LET n == Numbers(t)
    IN  [n EXCEPT !.rows = Append(@, [sequence |-> n.sequence, ordinal |-> n.ordinal,
                                      epoch |-> epoch])]

\* Mutant: a claim numbers on from a sequence its rows took already.
ClaimsAgain(t) ==
    [t EXCEPT !.sequence = IF Took(t) THEN @ + 1 ELSE sequence + 1,
              !.ordinal = IF Took(t) THEN @ ELSE -1, !.claimed = TRUE]

\* `next_change`: the sequence its rows took, if none claimed it, or the next.
Claim(t) ==
    IF Took(t) /\ ~t.claimed THEN [t EXCEPT !.claimed = TRUE]
    ELSE [t EXCEPT !.sequence = IF Took(t) THEN @ + 1 ELSE sequence + 1,
                   !.ordinal = -1, !.claimed = TRUE]

\* The account's chain, written with the claim, is captured under it.
CaptureClaimed(t) ==
    LET c == Claim(t)
        n == [c EXCEPT !.ordinal = @ + 1]
    IN  [n EXCEPT !.rows = Append(@, [sequence |-> n.sequence, ordinal |-> n.ordinal,
                                      epoch |-> epoch])]

\* The head row can be had: it is free, or its own.
Locks(m) == tx[m] # None /\ lock \in {None, m}

\* Mutant: an older epoch than the head row's is let through.
FencesNewer(m) == tx[m].named > epoch

Fenced(m) == tx[m].named # 0 /\ tx[m].named # epoch

Writes(m, t) ==
    /\ Locks(m) /\ ~Fenced(m)
    /\ Len(log) + Len(t.rows) <= MaxRows /\ t.sequence <= MaxSequence
    /\ lock' = m
    /\ tx' = [tx EXCEPT ![m] = t]
    /\ UNCHANGED <<record, member, tail>>

Write(m)      == tx[m] # None /\ Writes(m, Capture(tx[m]))
NextChange(m) == tx[m] # None /\ Writes(m, CaptureClaimed(tx[m]))

RollsBack(m) ==
    /\ tx' = [tx EXCEPT ![m] = None]
    /\ lock' = Unlocked(m)
    /\ UNCHANGED <<record, member, tail>>

Refused(m)  == Locks(m) /\ Fenced(m) /\ RollsBack(m)
Rollback(m) == tx[m] # None /\ RollsBack(m)

EntryOf(m) ==
    LET rows == tx[m].rows
    IN  [account |-> Empty, message |-> Empty, key |-> Empty, by |-> m, rows |-> rows,
         first |-> rows[1].sequence, last |-> tx[m].sequence, epoch |-> rows[1].epoch]

Commit(m) ==
    /\ tx[m] # None /\ Took(tx[m])
    /\ log' = Append(log, EntryOf(m))
    /\ sequence' = tx[m].sequence
    /\ tx' = [tx EXCEPT ![m] = None]
    /\ lock' = Unlocked(m)
    /\ UNCHANGED <<epoch, tookOver, member, tail>>

-----------------------------------------------------------------------------
(* The tail: `Tail::run`, and `Spec::read`, whose statements each see what *)
(* is committed as they start.                                             *)

RowsOf(rows, s) == {row \in rows : row.sequence = s}
UpTo(rows, s)   == {row \in rows : row.sequence <= s}
Numbered(rows)  == {row.sequence : row \in rows}

Process == <<record, lock, member, tx>>

\* It listens, and starts at the head.
TailStarts ==
    /\ UNCHANGED Process
    /\ tail.at = "down"
    /\ tail' = [Down EXCEPT !.at = "waits", !.after = sequence]

\* A read failed, or the process ended: it is started again.
TailStops ==
    /\ UNCHANGED Process
    /\ tail.at # "down"
    /\ tail' = Down

\* At a commit's notice, or every few seconds.
TailWakes ==
    /\ UNCHANGED Process
    /\ tail.at = "waits"
    /\ tail' = [tail EXCEPT !.at = "reads"]

ReadsHead ==
    /\ UNCHANGED Process
    /\ tail.at = "reads"
    /\ tail' = [tail EXCEPT !.at = "pages", !.head = sequence, !.from = tail.after]

Before(q, r) ==
    \/ q.sequence < r.sequence
    \/ q.sequence = r.sequence /\ q.ordinal < r.ordinal

\* ORDER BY sequence, ordinal LIMIT n.
Earliest(rows, n) == {r \in rows : Cardinality({q \in rows : Before(q, r)}) < n}

BatchAfter(from) == Earliest({row \in Range(Rows) : row.sequence > from}, Batch)

\* Mutant: the last change of a batch is taken for whole.
WholeWhenCut(batch) == batch

\* A batch that filled may have cut its last change: that one is left for the
\* next, unless it is the only one and the rest of it is read.
Whole(batch) ==
    LET last == Max(Numbered(batch))
    IN  IF Cardinality(batch) < Batch THEN batch
        ELSE IF Numbered(batch) # {last} THEN {row \in batch : row.sequence < last}
        ELSE RowsOf(Range(Rows), last)

\* Mutant: a change past a page's size is left for a page that never fits it.
FitsAlways(page, rows) ==
    {row \in rows : Cardinality(page \union UpTo(rows, row.sequence)) <= PageMost}

\* `Page::take`, change by change: at least one, then what fits.
Fits(page, rows) ==
    {row \in rows :
        \/ page = {} /\ row.sequence = Min(Numbered(rows))
        \/ Cardinality(page \union UpTo(rows, row.sequence)) <= PageMost}

\* A batch is empty, does not fit, or fills the page: the page ends with it.
TakesBatch(rows, taken) ==
    LET page == tail.page \union taken
        ends == rows = {} \/ taken # rows \/ Cardinality(page) >= PageMost
    IN  tail' = IF ends /\ page = {} THEN [Down EXCEPT !.at = "waits", !.after = tail.after]
                ELSE [tail EXCEPT !.page = page,
                                  !.from = IF taken = {} THEN @ ELSE Max(Numbered(taken)),
                                  !.at = IF ends THEN "publishes" ELSE "pages"]

ReadsBatch ==
    /\ UNCHANGED Process
    /\ tail.at = "pages"
    /\ \E rows \in {Whole(BatchAfter(tail.from))} : TakesBatch(rows, Fits(tail.page, rows))

\* The change published next.
Published ==
    LET at == Min(Numbered(tail.page))
    IN  [after |-> tail.after, sequence |-> at, rows |-> RowsOf(tail.page, at)]

TailPublishes ==
    LET at   == Published.sequence
        rest == tail.page \ Published.rows
    IN  /\ UNCHANGED Process
        /\ tail.at = "publishes"
        /\ tail' = IF rest # {} THEN [tail EXCEPT !.after = at, !.page = rest]
                   ELSE [Down EXCEPT !.after = at,
                                     !.at = IF at >= tail.head THEN "waits" ELSE "reads"]

TailRuns == TailStarts \/ TailWakes \/ ReadsHead \/ ReadsBatch \/ TailPublishes

-----------------------------------------------------------------------------

Next ==
    \/ \E m \in Members :
        \/ Adopt(m) \/ StartTakeOver(m) \/ TakeOver(m) \/ TakeOverFails(m)
        \/ StepDown(m) \/ Crash(m)
        \/ Checkout(m) \/ Write(m) \/ NextChange(m) \/ Refused(m) \/ Rollback(m) \/ Commit(m)
    \/ TailRuns \/ TailStops

Spec == Init /\ [][Next]_vars

-----------------------------------------------------------------------------
(* Properties.                                                             *)

\* Types; one transaction at most has taken a sequence, and holds the head row.
TypeOK ==
    /\ sequence \in Nat /\ epoch \in Nat \ {0}
    /\ lock \in Members \union {None}
    /\ mode \in [Members -> {"standby", "taking", "writer"}]
    /\ snap \in [Members -> 0 .. epoch] /\ fence \in [Members -> 0 .. epoch]
    /\ \A m \in Members : lock = m <=> tx[m] # None /\ Took(tx[m])
    /\ tail.at \in {"down", "waits", "reads", "pages", "publishes"}
    /\ tail.at = "publishes" <=> tail.page # {} /\ tail.at # "pages"

\* The sequences of the rows run on from 1 to the head, and the ordinals of
\* each from 0, whatever was rolled back, fenced, claimed or taken over: a
\* follower that lacks nothing finds no gap.
RowsRunOn ==
    LET rows == Rows
    IN  /\ sequence = IF rows = <<>> THEN 0 ELSE Last(rows).sequence
        /\ \A i \in DOMAIN rows :
              LET before == IF i = 1 THEN [sequence |-> 0, ordinal |-> 0] ELSE rows[i - 1]
              IN  \/ rows[i].sequence = before.sequence /\ rows[i].ordinal = before.ordinal + 1
                  \/ rows[i].sequence = before.sequence + 1 /\ rows[i].ordinal = 0

HolderOf(took, e) ==
    IF took = {} THEN Nobody ELSE (CHOOSE t \in took : t.epoch = e).member

\* The captured logs promise what the book's does: entries in order and never
\* rewritten, each under the epoch in force, a leased writer's only under the
\* epoch it raised itself.
Log == INSTANCE FencedLog WITH
    Partitions <- {Partition}, log <- [p \in {Partition} |-> log], term <- epoch,
    holder <- HolderOf(tookOver, epoch)
KeepsThePromise == Log!Spec

\* A change is published with every row committed under its sequence, and says
\* it follows a sequence after which nothing else was committed before it: a
\* follower that heard that one missed nothing, and one that did not knows.
PublishedWhole ==
    tail.at = "publishes" =>
        /\ Published.rows = RowsOf(Range(Rows), Published.sequence)
        /\ Published.after < Published.sequence
        /\ Numbered(Range(Rows)) \intersect (Published.after + 1 .. Published.sequence - 1) = {}

\* The tail waits only once it published up to the head it read, however large
\* a change is and wherever the batches and pages between were cut: what was
\* committed by then is not left for a notice that has passed.
WaitsAtTheHead ==
    [][tail.at \in {"pages", "publishes"} /\ tail'.at = "waits" =>
        tail'.after >= tail.head]_vars

=============================================================================

------------------------------ MODULE BookStore ------------------------------
(***************************************************************************)
(* The book's record in Postgres and the processes that write it           *)
(* (crates/bor/src/postgres.rs, crates/changes/src/lib.rs `Fence`).        *)
(*                                                                         *)
(* A member is a process of the `bor` component.  A leased member takes    *)
(* the partitions over, raising every head row's epoch, before it serves;  *)
(* a member with no lease adopts the epoch it finds.  A command runs in    *)
(* one transaction: it takes its partition's lock and head row, is         *)
(* admitted only under the head row's epoch, is answered as the first was  *)
(* where it is a duplicate, and otherwise appends one entry.               *)
(*                                                                         *)
(* The lease decides only who tries to write and when.  Here it is         *)
(* abstracted to a nondeterministic choice, so that every safety property  *)
(* below holds whatever the lease says: the epoch alone is the fence.      *)
(***************************************************************************)
EXTENDS Naturals, Sequences, FiniteSets

CONSTANTS
    Members,       \* the component's processes, by pod
    Leased,        \* the members configured with a lease
    Workers,       \* the threads of a process a command may run on
    Accounts,      \* the keys the store holds books under
    Partitions,    \* the partitions of the journal
    Control,       \* the control partition
    FirstPartition,\* first_partition_of: the partition an account is in
    Commands,      \* the commands sent, any of them any number of times
    Empty,         \* an empty message identifier or idempotency key
    MaxEpoch,      \* bound: takeovers started
    MaxCalls,      \* bound: calls in flight at once
    MaxEntries,    \* bound: entries of a partition's journal
    RecordCounts   \* how many records an entry may change

Threads == Members \X Workers
None    == <<>>     \* nobody holds the lock

ASSUME StoreAssumption ==
    /\ Leased \subseteq Members
    /\ Control \in Partitions
    /\ FirstPartition \in [Accounts -> Partitions]
    /\ \A c \in Commands : c.account \in Accounts
    /\ MaxEpoch \in Nat
    /\ MaxCalls \in Nat
    /\ MaxEntries \in Nat
    /\ RecordCounts \subseteq Nat \ {0}

VARIABLES
    sequence,  \* book_partition_head.sequence
    epoch,     \* book_partition_head.epoch
    journal,   \* book_entry, each partition's in order
    tookOver,  \* book_writer_took_over: its key, and who took over
    lock,      \* who holds a partition's lock and its head row
    mode,      \* where a process is in its life
    snap,      \* max(epoch) as a takeover's statement read it
    fence,     \* the epoch a process adopted, 0 for none
    fencedSeen,\* a commit of this process was refused by a newer epoch
    phase,     \* where a thread is in `act`
    asked,     \* the command a thread acts on
    head,      \* the head's number as a thread read it under the lock
    reply      \* the entry a thread answers with

record == <<sequence, epoch, journal, tookOver>>
member == <<mode, snap, fence, fencedSeen>>
thread == <<phase, asked, head, reply>>
vars   == <<record, lock, member, thread>>

-----------------------------------------------------------------------------
(* The journal read.                                                       *)

PartitionOf(c) == FirstPartition[c.account]

\* An entry is named by where it is: its partition and its place there.
EntryIds == UNION {{p} \X DOMAIN journal[p] : p \in Partitions}
EntryAt(id) == journal[id[1]][id[2]]

\* The command an entry was journalled for is the same, by its message ...
SameMessage(c, e) == c.message # Empty /\ e.message = c.message
\* ... or one under the same key of the same account.
SameKey(c, e) == c.key # Empty /\ e.account = c.account /\ e.key = c.key

HeldByMessage(c) == {id \in EntryIds : SameMessage(c, EntryAt(id))}
HeldByKey(c)     == {id \in EntryIds : SameKey(c, EntryAt(id))}

\* Mutant: the message's index is each partition's own.
UniqueInPartition(c) ==
    /\ \A id \in HeldByMessage(c) : id[1] # PartitionOf(c)
    /\ HeldByKey(c) = {}

\* The journal's unique indexes let the entry in.  The message's spans the
\* partitions: one another partition took meanwhile fails the insert.
Unique(c) == HeldByMessage(c) = {} /\ HeldByKey(c) = {}

\* The entry a thread journals its command as, `n` records changed: numbered
\* on from the head it read, under the epoch its process adopted.
EntryOf(t, n) ==
    LET c == asked[t]
    IN  [account |-> c.account, message |-> c.message, key |-> c.key,
         request |-> c.request, first |-> head[t] + 1, last |-> head[t] + n,
         epoch |-> fence[t[1]], by |-> t[1]]

-----------------------------------------------------------------------------
Init ==
    /\ sequence   = [p \in Partitions |-> 0]
    /\ epoch      = [p \in Partitions |-> 1]
    /\ journal    = [p \in Partitions |-> <<>>]
    /\ tookOver   = {}
    /\ lock       = [p \in Partitions |-> None]
    /\ mode       = [m \in Members |-> "standby"]
    /\ snap       = [m \in Members |-> 0]
    /\ fence      = [m \in Members |-> 0]
    /\ fencedSeen = [m \in Members |-> FALSE]
    /\ phase      = [t \in Threads |-> "idle"]
    /\ asked      = [t \in Threads |-> Empty]
    /\ head       = [t \in Threads |-> 0]
    /\ reply      = [t \in Threads |-> None]

-----------------------------------------------------------------------------
(* A member's life.                                                        *)

\* With no lease the member adopts the control partition's epoch and serves.
Adopt(m) ==
    /\ m \notin Leased
    /\ mode[m] = "standby"
    /\ mode' = [mode EXCEPT ![m] = "writer"]
    /\ fence' = [fence EXCEPT ![m] = epoch[Control]]
    /\ UNCHANGED <<record, lock, snap, fencedSeen, thread>>

\* With one, it takes the lease and starts its takeover's statement, whose
\* `SELECT max(epoch) + 1` reads the epochs committed as the statement
\* starts, before it waits for any head row.
StartTakeOver(m) ==
    /\ m \in Leased
    /\ mode[m] = "standby"
    /\ epoch[Control] < MaxEpoch
    /\ \E top \in {epoch[p] : p \in Partitions} :
        /\ \A p \in Partitions : epoch[p] <= top
        /\ snap' = [snap EXCEPT ![m] = top]
    /\ mode' = [mode EXCEPT ![m] = "taking"]
    /\ UNCHANGED <<record, lock, fence, fencedSeen, thread>>

EpochTaken(e) == \E t \in tookOver : t.epoch = e

\* Mutant: an epoch another takeover recorded is raised again.
TakeOverAnyEpoch(m) ==
    /\ mode[m] = "taking"
    /\ \A p \in Partitions : lock[p] = None
    /\ epoch' = [p \in Partitions |-> snap[m] + 1]
    /\ tookOver' = tookOver \union {[epoch |-> snap[m] + 1, member |-> m]}
    /\ fence' = [fence EXCEPT ![m] = snap[m] + 1]
    /\ mode' = [mode EXCEPT ![m] = "writer"]
    /\ UNCHANGED <<sequence, journal, lock, snap, fencedSeen, thread>>

\* Mutant: the heads are raised under a transaction that holds one.
TakeOverAtOnce(m) ==
    /\ mode[m] = "taking"
    /\ ~EpochTaken(snap[m] + 1)
    /\ epoch' = [p \in Partitions |-> snap[m] + 1]
    /\ tookOver' = tookOver \union {[epoch |-> snap[m] + 1, member |-> m]}
    /\ fence' = [fence EXCEPT ![m] = snap[m] + 1]
    /\ mode' = [mode EXCEPT ![m] = "writer"]
    /\ UNCHANGED <<sequence, journal, lock, snap, fencedSeen, thread>>

\* The statement updates every head row once no transaction holds one, and
\* records who took over under the new epoch's key, in one transaction.
TakeOver(m) ==
    /\ mode[m] = "taking"
    /\ \A p \in Partitions : lock[p] = None
    /\ ~EpochTaken(snap[m] + 1)
    /\ epoch' = [p \in Partitions |-> snap[m] + 1]
    /\ tookOver' = tookOver \union {[epoch |-> snap[m] + 1, member |-> m]}
    /\ fence' = [fence EXCEPT ![m] = snap[m] + 1]
    /\ mode' = [mode EXCEPT ![m] = "writer"]
    /\ UNCHANGED <<sequence, journal, lock, snap, fencedSeen, thread>>

\* A process ends: its transactions roll back, which frees their locks, and
\* its pod starts it again as a standby that knows nothing.
Ends(m) ==
    /\ mode' = [mode EXCEPT ![m] = "standby"]
    /\ snap' = [snap EXCEPT ![m] = 0]
    /\ fence' = [fence EXCEPT ![m] = 0]
    /\ fencedSeen' = [fencedSeen EXCEPT ![m] = FALSE]
    /\ lock' = [p \in Partitions |->
                  IF \E w \in Workers : lock[p] = <<m, w>> THEN None ELSE lock[p]]
    /\ phase' = [t \in Threads |-> IF t[1] = m THEN "idle" ELSE phase[t]]
    /\ asked' = [t \in Threads |-> IF t[1] = m THEN Empty ELSE asked[t]]
    /\ head' = [t \in Threads |-> IF t[1] = m THEN 0 ELSE head[t]]
    /\ reply' = [t \in Threads |-> IF t[1] = m THEN None ELSE reply[t]]
    /\ UNCHANGED record

\* The new epoch's key is taken: two takeovers read the same epochs, and the
\* second is rolled back and its process ends.
TakeOverFails(m) ==
    /\ mode[m] = "taking"
    /\ \A p \in Partitions : lock[p] = None
    /\ EpochTaken(snap[m] + 1)
    /\ Ends(m)

\* `Holding::keep`: the store's epoch moved past its own, or a commit of its
\* own was fenced.  Only a member with a lease watches.
StepDown(m) ==
    /\ m \in Leased
    /\ mode[m] = "writer"
    /\ epoch[Control] > fence[m] \/ fencedSeen[m]
    /\ Ends(m)

\* Any other end, at any point: a crash, a kill, a lease not renewed.
Crash(m) ==
    /\ mode[m] # "standby"
    /\ Ends(m)

-----------------------------------------------------------------------------
(* A command: `act`, on one thread of a member that serves.                *)

Ask(t, c) ==
    /\ mode[t[1]] = "writer"
    /\ phase[t] = "idle"
    /\ Cardinality({u \in Threads : phase[u] # "idle"}) < MaxCalls
    /\ phase' = [phase EXCEPT ![t] = "asked"]
    /\ asked' = [asked EXCEPT ![t] = c]
    /\ UNCHANGED <<record, lock, member, head, reply>>

\* The partition's lock and head row can be had by this thread.
Locks(t) ==
    /\ phase[t] = "asked"
    /\ lock[PartitionOf(asked[t])] = None

\* Mutant: an older epoch than the head's is let through.
AdmitsOlder(t) == fence[t[1]] <= epoch[PartitionOf(asked[t])]

\* Fence::admits, against the head row read under its lock.
Admits(t) == fence[t[1]] = epoch[PartitionOf(asked[t])]

\* The call ends with nothing applied; the transaction is rolled back.
Refused(t) ==
    /\ phase' = [phase EXCEPT ![t] = "idle"]
    /\ asked' = [asked EXCEPT ![t] = Empty]
    /\ head' = [head EXCEPT ![t] = 0]
    /\ UNCHANGED reply

Fenced(t) ==
    /\ Locks(t)
    /\ ~Admits(t)
    /\ fencedSeen' = [fencedSeen EXCEPT ![t[1]] =
            @ \/ (epoch[PartitionOf(asked[t])] > fence[t[1]] /\ fence[t[1]] # 0)]
    /\ Refused(t)
    /\ UNCHANGED <<record, lock, mode, snap, fence>>

AnswersWith(t, id) ==
    /\ phase' = [phase EXCEPT ![t] = "answering"]
    /\ reply' = [reply EXCEPT ![t] = id]
    /\ head' = [head EXCEPT ![t] = 0]
    /\ UNCHANGED asked

\* Mutant: the key answers whatever is asked under it.
DuplicateByKeyAlone(t) ==
    /\ Locks(t)
    /\ Admits(t)
    /\ \E id \in HeldByMessage(asked[t]) \union HeldByKey(asked[t]) : AnswersWith(t, id)
    /\ UNCHANGED <<record, lock, member>>

\* A command held already: by its message, whatever it asks now; by its key
\* only where it asks the same.
Duplicate(t) ==
    /\ Locks(t)
    /\ Admits(t)
    /\ \/ \E id \in HeldByMessage(asked[t]) : AnswersWith(t, id)
       \/ /\ HeldByMessage(asked[t]) = {}
          /\ \E id \in HeldByKey(asked[t]) :
                /\ EntryAt(id).request = asked[t].request
                /\ AnswersWith(t, id)
    /\ UNCHANGED <<record, lock, member>>

\* Another command under a key the account holds.
Conflict(t) ==
    /\ Locks(t)
    /\ Admits(t)
    /\ HeldByMessage(asked[t]) = {}
    /\ \E id \in HeldByKey(asked[t]) : EntryAt(id).request # asked[t].request
    /\ Refused(t)
    /\ UNCHANGED <<record, lock, member>>

\* Mutant: the lock is taken in the process' name, not the connection's.
ReplaysByProcess(t) ==
    /\ Locks(t)
    /\ Admits(t)
    /\ Unique(asked[t])
    /\ lock' = [lock EXCEPT ![PartitionOf(asked[t])] = t[1]]
    /\ phase' = [phase EXCEPT ![t] = "deciding"]
    /\ head' = [head EXCEPT ![t] = sequence[PartitionOf(asked[t])]]
    /\ UNCHANGED <<record, member, asked, reply>>

\* A command not held: its account is replayed and decided under the lock.
Replays(t) ==
    /\ Locks(t)
    /\ Admits(t)
    /\ Unique(asked[t])
    /\ lock' = [lock EXCEPT ![PartitionOf(asked[t])] = t]
    /\ phase' = [phase EXCEPT ![t] = "deciding"]
    /\ head' = [head EXCEPT ![t] = sequence[PartitionOf(asked[t])]]
    /\ UNCHANGED <<record, member, asked, reply>>

\* Mutant: the numbers a refused command was given are not given back.
RefusedKeepsNumber(t) ==
    /\ phase[t] = "deciding"
    /\ lock' = [lock EXCEPT ![PartitionOf(asked[t])] = None]
    /\ sequence' = [sequence EXCEPT ![PartitionOf(asked[t])] = @ + 1]
    /\ Refused(t)
    /\ UNCHANGED <<epoch, journal, tookOver, member>>

\* Mutant: a refused command's lock is held on.
RefusedKeepsLock(t) ==
    /\ phase[t] = "deciding"
    /\ Refused(t)
    /\ UNCHANGED <<record, lock, member>>

\* The rules refuse it, or the database fails it: rolled back.
DecisionRefused(t) ==
    /\ phase[t] = "deciding"
    /\ lock' = [lock EXCEPT ![PartitionOf(asked[t])] = None]
    /\ Refused(t)
    /\ UNCHANGED <<record, member>>

\* Decided: the entry is inserted and the head moved to its last number, in
\* the transaction that holds the head.
\* A commit whose own answer is lost is told to the caller as a failure.
Commit(t) ==
    /\ phase[t] = "deciding"
    /\ Unique(asked[t])
    /\ LET p == PartitionOf(asked[t]) IN
        /\ Len(journal[p]) < MaxEntries
        /\ \E n \in RecordCounts :
            LET e == EntryOf(t, n) IN
            /\ journal'  = [journal EXCEPT ![p] = Append(@, e)]
            /\ sequence' = [sequence EXCEPT ![p] = e.last]
        /\ lock' = [lock EXCEPT ![p] = None]
        /\ AnswersWith(t, <<p, Len(journal[p]) + 1>>) \/ Refused(t)
    /\ UNCHANGED <<epoch, tookOver, member>>

\* The caller hears the reply.  A process that ended before this point left
\* an entry committed whose caller never heard.
Answer(t) ==
    /\ phase[t] = "answering"
    /\ phase' = [phase EXCEPT ![t] = "idle"]
    /\ asked' = [asked EXCEPT ![t] = Empty]
    /\ reply' = [reply EXCEPT ![t] = None]
    /\ UNCHANGED <<record, lock, member, head>>

Act(t) ==
    \/ Fenced(t) \/ Duplicate(t) \/ Conflict(t) \/ Replays(t)
    \/ DecisionRefused(t) \/ Commit(t) \/ Answer(t)

Next ==
    \/ \E m \in Members :
        \/ Adopt(m) \/ StartTakeOver(m) \/ TakeOver(m) \/ TakeOverFails(m)
        \/ StepDown(m) \/ Crash(m)
    \/ \E t \in Threads : Act(t) \/ \E c \in Commands : Ask(t, c)

Spec == Init /\ [][Next]_vars

-----------------------------------------------------------------------------
(* What the record and its writers promise.                                *)

Entry == [account : Accounts, message : {c.message : c \in Commands},
          key : {c.key : c \in Commands}, request : {c.request : c \in Commands},
          first : Nat, last : Nat, epoch : Nat, by : Members]

\* Every variable holds what the code can put there.
TypeOK ==
    /\ sequence \in [Partitions -> Nat]
    /\ epoch \in [Partitions -> Nat]
    /\ journal \in [Partitions -> Seq(Entry)]
    /\ tookOver \in SUBSET [epoch : Nat, member : Leased]
    /\ lock \in [Partitions -> Threads \union {None}]
    /\ mode \in [Members -> {"standby", "taking", "writer"}]
    /\ snap \in [Members -> Nat]
    /\ fence \in [Members -> Nat]
    /\ fencedSeen \in [Members -> BOOLEAN]
    /\ phase \in [Threads -> {"idle", "asked", "deciding", "answering"}]
    /\ asked \in [Threads -> Commands \union {Empty}]
    /\ head \in [Threads -> Nat]
    /\ reply \in [Threads -> (Partitions \X Nat) \union {None}]

\* A partition's entries are numbered on from one another, from 1 to its
\* head's number: a rollback takes its numbers back with it, so a follower
\* that sees a hole has missed an entry ("no holes", postgres.rs and
\* changes/src/lib.rs).
NoHoles ==
    \A p \in Partitions :
        /\ sequence[p] = IF journal[p] = <<>> THEN 0 ELSE journal[p][Len(journal[p])].last
        /\ \A i \in DOMAIN journal[p] :
            /\ journal[p][i].first <= journal[p][i].last
            /\ journal[p][i].first = IF i = 1 THEN 1 ELSE journal[p][i - 1].last + 1

\* A command is applied once: no two entries were made for one message, or
\* for one key of one account, whoever wrote them, however often the command
\* was sent and wherever it was sent again after a takeover.
AppliedOnce ==
    \A a, b \in EntryIds :
        a # b => ~SameMessage(EntryAt(a), EntryAt(b)) /\ ~SameKey(EntryAt(a), EntryAt(b))

\* What a caller is answered with is in the record: the entry of its own
\* message, of its own key and request, or (a command naming neither) one
\* made for it.
AnsweredWith(c, e) ==
    \/ SameMessage(c, e)
    \/ SameKey(c, e) /\ e.request = c.request
    \/ /\ c.message = Empty /\ c.key = Empty
       /\ e.account = c.account /\ e.request = c.request
AnswerIsRecorded ==
    \A t \in Threads : phase[t] = "answering" =>
        reply[t] \in EntryIds /\ AnsweredWith(asked[t], EntryAt(reply[t]))

\* Epochs only rise along a partition's journal: once a takeover's entry is
\* in, no entry of the writer it deposed ever follows it.
EpochsInOrder ==
    \A p \in Partitions : \A i, j \in DOMAIN journal[p] :
        i < j => journal[p][i].epoch <= journal[p][j].epoch

\* Every epoch raised was raised once, on every partition together, and the
\* takeover recorded under it names the only member with a lease that ever
\* writes under it.
OneWriterPerEpoch ==
    /\ \A p, q \in Partitions : epoch[p] = epoch[q]
    /\ {t.epoch : t \in tookOver} = 2 .. epoch[Control]
    /\ \A t, u \in tookOver : t.epoch = u.epoch => t = u
    /\ \A id \in EntryIds : EntryAt(id).by \in Leased =>
        [epoch |-> EntryAt(id).epoch, member |-> EntryAt(id).by] \in tookOver

\* The journal is the record: an entry committed is never rewritten or lost,
\* and the epoch never falls.
RecordOnlyGrows ==
    [][\A p \in Partitions :
        /\ epoch'[p] >= epoch[p]
        /\ Len(journal'[p]) >= Len(journal[p])
        /\ \A i \in DOMAIN journal[p] : journal'[p][i] = journal[p][i]]_vars

\* The store keeps the promise FencedLog states.
Nobody == None
HolderOf(took, e) ==
    IF took = {} THEN Nobody ELSE (CHOOSE t \in took : t.epoch = e).member
Holder == HolderOf(tookOver, epoch[Control])
Log == INSTANCE FencedLog WITH
    log <- journal, term <- epoch[Control], holder <- Holder
KeepsThePromise == Log!Spec

-----------------------------------------------------------------------------
(* Progress.  A thread waiting for a lock waits in Postgres' queue, so a   *)
(* lock free again and again is had; and a thread that runs, runs on.      *)

Fairness ==
    \A t \in Threads :
        /\ SF_vars(Fenced(t) \/ Duplicate(t) \/ Conflict(t) \/ Replays(t))
        /\ WF_vars(DecisionRefused(t) \/ Commit(t))
        /\ WF_vars(Answer(t))

FairSpec == Spec /\ Fairness

\* Every call ends, and its thread is idle again: no lock is left held by a
\* call that was fenced, was a duplicate, conflicted or was refused.
CallsEnd == \A t \in Threads : []<>(phase[t] = "idle")

=============================================================================

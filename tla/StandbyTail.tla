----------------------------- MODULE StandbyTail -----------------------------
(***************************************************************************)
(* A standby of the book following its writer's change log: the writer's   *)
(* tail (crates/changes/src/lib.rs `publish`, crates/bor/src/writer.rs),   *)
(* published after commit, at most once, and only while followed; and the  *)
(* standby's `follow`, `verified` and `catch_up`                           *)
(* (crates/runtime/src/member.rs), which apply each page in order, read a  *)
(* page they missed from the writer, and verify every change by the        *)
(* journal's chain (crates/changes/src/integrity.rs).                      *)
(*                                                                         *)
(* A partition's entries are 1, 2, ...  An entry is intact, or broken (its *)
(* digest is not the one before it chained with its body), or undigested   *)
(* (kept before digests were); a digest is known by its entry's number.    *)
(***************************************************************************)
EXTENDS Naturals, Sequences

CONSTANTS
    Partitions,
    Kinds,         \* what an entry may be, of intact, broken and undigested
    PageSize,      \* the changes a page read holds
    MaxEntries,    \* bound: entries of a partition
    Nothing        \* nothing followed yet

ASSUME TailAssumption ==
    /\ Kinds \subseteq {"intact", "broken", "undigested"}
    /\ PageSize \in Nat \ {0}
    /\ MaxEntries \in Nat
    /\ Nothing \notin Nat

VARIABLES
    kept,        \* what each entry is to whoever reads it, the same throughout
    head,        \* the record: each partition's last entry
    unpublished, \* entries committed whose page is not yet published
    tail,        \* pages published and not yet heard, in order
    interest,    \* the writer: a follower asked lately
    at,          \* the standby: the sequence each partition is followed to
    chain,       \* the digest each partition's chain was followed to
    begun,       \* the sequence a partition was first heard at
    gap,         \* `gap_since` is set
    unanswered,  \* `unanswered_since` is set
    ready,       \* the member's readiness
    reading,     \* the page missed that is being read, or none
    refused,     \* entries refused as not following the one before
    failed       \* of which partitions a read failed, and whether past its first page

writer  == <<kept, head, unpublished, tail, interest>>
standby == <<at, chain, begun, gap, unanswered, ready, reading, refused, failed>>
vars    == <<writer, standby>>

NoRead == <<>>

Init ==
    /\ kept \in [Partitions -> [1 .. MaxEntries -> Kinds]]
    /\ head = [p \in Partitions |-> 0]
    /\ unpublished = {}
    /\ tail = <<>>
    /\ interest = FALSE
    /\ at = [p \in Partitions |-> Nothing]
    /\ chain = [p \in Partitions |-> Nothing]
    /\ begun = [p \in Partitions |-> Nothing]
    /\ gap = FALSE
    /\ unanswered = FALSE
    /\ ready = FALSE
    /\ reading = NoRead
    /\ refused = {}
    /\ failed = {}

-----------------------------------------------------------------------------
(* The writer.                                                             *)

\* An entry commits; its page is published by the thread that made it, after
\* its partition's lock is let go.
Commit(p) ==
    /\ head[p] < MaxEntries
    /\ head' = [head EXCEPT ![p] = @ + 1]
    /\ unpublished' = unpublished \union {<<p, head[p] + 1>>}
    /\ UNCHANGED <<kept, tail, interest, standby>>

\* Published, with the sequence it follows; withheld with no follower; and
\* delivered at most once.
Publish(e) ==
    /\ e \in unpublished
    /\ unpublished' = unpublished \ {e}
    /\ \/ /\ interest
          /\ tail' = Append(tail, [partition |-> e[1], after |-> e[2] - 1, head |-> e[2]])
       \/ UNCHANGED tail
    /\ UNCHANGED <<kept, head, interest, standby>>

\* Nobody's asking reached the writer for ten seconds: a standby asks every
\* second but while it reads.
InterestLapses ==
    /\ interest
    /\ unanswered \/ reading # NoRead
    /\ interest' = FALSE
    /\ UNCHANGED <<kept, head, unpublished, tail, standby>>

-----------------------------------------------------------------------------
(* The chain.                                                              *)

Broken(p, e)     == kept[p][e] = "broken"
Undigested(p, e) == kept[p][e] = "undigested"

\* Chain::follow: an entry follows with the digest of the one before it, and
\* as it is where it has none or the chain has none.
Follows(p, from, e) ==
    Undigested(p, e) \/ from = Nothing \/ (from = e - 1 /\ ~Broken(p, e))

\* The chain past an entry that follows: an undigested one restarts it.
ChainedTo(p, e) == IF Undigested(p, e) THEN Nothing ELSE e

\* `verified` follows the entries first .. last from `from`.
FollowsTo(p, from, first, last) ==
    /\ last >= first => Follows(p, from, first)
    /\ \A e \in first + 1 .. last : Follows(p, ChainedTo(p, e - 1), e)

-----------------------------------------------------------------------------
(* Standby: a page heard.                                                  *)

Page == Head(tail)

Hears ==
    /\ reading = NoRead
    /\ tail # <<>>
    /\ tail' = Tail(tail)
    /\ UNCHANGED <<kept, head, unpublished, interest, unanswered, ready, failed>>

Contiguous(p) == at[p] # Nothing => Page.head > at[p] /\ Page.after = at[p]

\* Mutant: a page in order is taken without being verified.
TakesUnverified ==
    /\ Hears
    /\ LET p == Page.partition IN
        /\ Contiguous(p)
        /\ at' = [at EXCEPT ![p] = Page.head]
        /\ chain' = [chain EXCEPT ![p] = ChainedTo(p, Page.head)]
        /\ begun' = [begun EXCEPT ![p] = IF at[p] = Nothing THEN Page.head ELSE @]
    /\ UNCHANGED <<gap, reading, refused>>

\* It follows the last, and verifies.
TakesPage ==
    /\ Hears
    /\ LET p == Page.partition IN
        /\ Contiguous(p)
        /\ Follows(p, chain[p], Page.head)
        /\ at' = [at EXCEPT ![p] = Page.head]
        /\ chain' = [chain EXCEPT ![p] = ChainedTo(p, Page.head)]
        /\ begun' = [begun EXCEPT ![p] = IF at[p] = Nothing THEN Page.head ELSE @]
    /\ UNCHANGED <<gap, reading, refused>>

\* It follows the last, and does not verify: not followed.
RefusesPage ==
    /\ Hears
    /\ LET p == Page.partition IN
        /\ Contiguous(p)
        /\ ~Follows(p, chain[p], Page.head)
        /\ refused' = refused \union {<<p, Page.head>>}
    /\ gap' = TRUE
    /\ UNCHANGED <<at, chain, begun, reading>>

\* Mutant: a page published late is followed too.
TakesLate ==
    /\ Hears
    /\ at[Page.partition] # Nothing
    /\ Page.head <= at[Page.partition]
    /\ at' = [at EXCEPT ![Page.partition] = Page.head]
    /\ UNCHANGED <<chain, begun, gap, reading, refused>>

\* Held already: one published late.
IgnoresPage ==
    /\ Hears
    /\ at[Page.partition] # Nothing
    /\ Page.head <= at[Page.partition]
    /\ UNCHANGED <<at, chain, begun, gap, reading, refused>>

\* Mutant: a partition never heard is read from where it is not held.
MissesUnheld ==
    /\ Hears
    /\ LET p == Page.partition IN
        /\ at[p] # Nothing => Page.head > at[p] /\ Page.after # at[p]
        /\ reading' = [partition |-> p, after |-> at[p]]
    /\ gap' = TRUE
    /\ UNCHANGED <<at, chain, begun, refused>>

\* It does not: a page was missed, to be read from the writer.
MissesPage ==
    /\ Hears
    /\ LET p == Page.partition IN
        /\ at[p] # Nothing
        /\ Page.head > at[p]
        /\ Page.after # at[p]
        /\ reading' = [partition |-> p, after |-> at[p]]
    /\ gap' = TRUE
    /\ UNCHANGED <<at, chain, begun, refused>>

-----------------------------------------------------------------------------
(* Standby: `catch_up`, a page at a time, with nothing heard meanwhile.    *)

\* The changes a read brings, and whether they verify as far as `n`.
ReadFrom == reading.after + 1
ReadTo   == LET end == reading.after + PageSize
            IN  IF end < head[reading.partition] THEN end ELSE head[reading.partition]
VerifiesTo(n) == FollowsTo(reading.partition, chain[reading.partition], ReadFrom, n)

\* A read reaches the writer, which notes the standby's interest.
Reads ==
    /\ reading # NoRead
    /\ interest' = TRUE
    /\ UNCHANGED <<kept, head, unpublished, tail, begun, unanswered, ready, failed>>

\* Mutant: the gap is said still once it is read.
ReadsAndForgets ==
    /\ Reads
    /\ VerifiesTo(ReadTo)
    /\ chain' = [chain EXCEPT ![reading.partition] = ChainedTo(reading.partition, ReadTo)]
    /\ IF ReadTo < head[reading.partition]
       THEN /\ reading' = [reading EXCEPT !.after = ReadTo]
            /\ UNCHANGED at
       ELSE /\ reading' = NoRead
            /\ at' = [at EXCEPT ![reading.partition] = ReadTo]
    /\ UNCHANGED <<gap, refused>>

\* Mutant: the chain is not followed through what a read brings.
ReadsUnchained ==
    /\ Reads
    /\ VerifiesTo(ReadTo)
    /\ IF ReadTo < head[reading.partition]
       THEN /\ reading' = [reading EXCEPT !.after = ReadTo]
            /\ UNCHANGED <<at, gap>>
       ELSE /\ reading' = NoRead
            /\ at' = [at EXCEPT ![reading.partition] = ReadTo]
            /\ gap' = FALSE
    /\ UNCHANGED <<chain, refused>>

\* A page read that verifies: on to the next, or caught up.
ReadsPage ==
    /\ Reads
    /\ VerifiesTo(ReadTo)
    /\ chain' = [chain EXCEPT ![reading.partition] = ChainedTo(reading.partition, ReadTo)]
    /\ IF ReadTo < head[reading.partition]
       THEN /\ reading' = [reading EXCEPT !.after = ReadTo]
            /\ UNCHANGED <<at, gap>>
       ELSE /\ reading' = NoRead
            /\ at' = [at EXCEPT ![reading.partition] = ReadTo]
            /\ gap' = FALSE
    /\ UNCHANGED refused

\* A page read that does not verify: followed up to there, and given up.
ReadsBroken ==
    /\ Reads
    /\ \E n \in reading.after .. ReadTo - 1 :
        /\ VerifiesTo(n) /\ ~VerifiesTo(n + 1)
        /\ chain' = [chain EXCEPT ![reading.partition] =
                         IF n < ReadFrom THEN @ ELSE ChainedTo(reading.partition, n)]
        /\ refused' = refused \union {<<reading.partition, n + 1>>}
    /\ reading' = NoRead
    /\ UNCHANGED <<at, gap>>

\* The read fails or times out, heard by the writer or not: given up.
ReadFails ==
    /\ reading # NoRead
    /\ reading' = NoRead
    /\ failed' = failed \union {<<reading.partition, reading.after # at[reading.partition]>>}
    /\ interest' \in {interest, TRUE}
    /\ UNCHANGED <<kept, head, unpublished, tail, at, chain, begun, gap, unanswered, ready, refused>>

-----------------------------------------------------------------------------
(* Standby: the writer asked, every second.                                *)

\* Ready while the lag, since a gap or an answer missed, is under its bound.
MarksReady(gapped, silent) == ready' \in IF gapped \/ silent THEN BOOLEAN ELSE {TRUE}

AskAnswered ==
    /\ reading = NoRead
    /\ interest' = TRUE
    /\ unanswered' = FALSE
    /\ MarksReady(gap, FALSE)
    /\ UNCHANGED <<kept, head, unpublished, tail, at, chain, begun, gap, reading, refused,
                   failed>>

AskUnanswered ==
    /\ reading = NoRead
    /\ unanswered' = TRUE
    /\ interest' \in {interest, TRUE}
    /\ MarksReady(gap, TRUE)
    /\ UNCHANGED <<kept, head, unpublished, tail, at, chain, begun, gap, reading, refused,
                   failed>>

Follow ==
    \/ TakesPage \/ RefusesPage \/ IgnoresPage \/ MissesPage
    \/ ReadsPage \/ ReadsBroken \/ ReadFails

Next ==
    \/ \E p \in Partitions : Commit(p)
    \/ \E e \in unpublished : Publish(e)
    \/ InterestLapses
    \/ Follow \/ AskAnswered \/ AskUnanswered

Spec == Init /\ [][Next]_vars

\* The standby's loop runs, and a commit's thread goes on to publish it.
FairSpec == Spec /\ WF_vars(Follow) /\ WF_vars(\E e \in unpublished : Publish(e))

-----------------------------------------------------------------------------
(* Properties.                                                             *)

Pages == [partition : Partitions, after : Nat, head : Nat]

TypeOK ==
    /\ kept \in [Partitions -> [1 .. MaxEntries -> Kinds]]
    /\ head \in [Partitions -> Nat]
    /\ unpublished \in SUBSET (Partitions \X Nat)
    /\ tail \in Seq(Pages)
    /\ at \in [Partitions -> Nat \union {Nothing}]
    /\ chain \in [Partitions -> Nat \union {Nothing}]
    /\ begun \in [Partitions -> Nat \union {Nothing}]
    /\ {interest, gap, unanswered, ready} \subseteq BOOLEAN
    /\ reading \in {NoRead} \union [partition : Partitions, after : Nat]
    /\ refused \in SUBSET (Partitions \X Nat)
    /\ failed \in SUBSET (Partitions \X BOOLEAN)

\* "one that does not verify is never taken" (member.rs:472): from where a
\* partition was first heard to where it is followed, whatever reads were
\* given up and pages heard again on the way, no broken entry was passed over
\* but one right after an undigested, which "restarts" the chain
\* (integrity.rs:75).
NeverTakesBroken ==
    \A p \in Partitions : at[p] # Nothing =>
        \A e \in begun[p] + 1 .. at[p] : Broken(p, e) => Undigested(p, e - 1)

\* A page published late, lost or missed never takes the standby back.
NeverFallsBack ==
    [][\A p \in Partitions : at[p] # Nothing => at'[p] # Nothing /\ at'[p] >= at[p]]_vars

\* An entry is known of and not followed: a page after it was heard, or it
\* was refused.
Behind(p) ==
    \/ reading # NoRead /\ reading.partition = p
    \/ \E e \in refused : e[1] = p /\ (at[p] = Nothing \/ at[p] < e[2])

\* The standby says it is behind while it is: `gap_since` is "behind since a
\* page was missed and not yet read" (member.rs:448-449), and one whose
\* change did not verify "stays behind, unready, saying so" (member.rs:473).
BehindIsSaid == \A p \in Partitions : Behind(p) => gap

\* What is refused is what is broken: an intact journal is never said to be
\* broken (integrity.rs:73-75).
OnlyBrokenRefused == \A e \in refused : Broken(e[1], e[2])

\* Unless a read of it failed past its first page, a partition is refused
\* nothing, in whatever order its pages come and are read, until an entry of
\* it is refused that is broken.
RefusedForTheBroken ==
    \A p \in Partitions : <<p, TRUE>> \notin failed =>
        \A e \in refused : e[1] = p => \E b \in refused : b[1] = p /\ Broken(p, b[2])

\* "A member that misses one catches up by the read" (changes/src/lib.rs:312),
\* unless a read fails or what it brings does not verify.
GapsAreRead == gap ~> (~gap \/ failed # {} \/ refused # {})

=============================================================================

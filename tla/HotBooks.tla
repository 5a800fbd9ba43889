------------------------------ MODULE HotBooks ------------------------------
(***************************************************************************)
(* The book's hot layer: what `Writer` (crates/bor/src/writer.rs) keeps of *)
(* the record in memory.  A command commits in the record, and only then,  *)
(* with nothing held, puts the book it made; a read that finds no book     *)
(* held loads one from the record and then puts that.  A book stands for   *)
(* its account's journal up to an entry, and is that entry's number here.  *)
(***************************************************************************)
EXTENDS Integers, SequencesExt

CONSTANTS
    Accounts,
    Threads,
    Bound,         \* the bytes of books held
    Cost,          \* a book's bytes, by how far into its journal it is
    AnswersLost,   \* the record may commit and its answer not arrive
    Elsewhere,     \* a member that took over may commit
    MaxEntries,    \* bound: entries of an account
    NoBook

ASSUME BooksAssumption ==
    /\ Accounts # {}
    /\ MaxEntries \in Nat
    /\ Cost \in [0 .. MaxEntries -> Nat \ {0}]
    /\ Bound \in Nat \ {0}
    /\ NoBook \notin Nat
    /\ {AnswersLost, Elsewhere} \subseteq BOOLEAN

VARIABLES
    head,    \* the record: each account's last entry
    held,    \* Books.held: the book held of each account
    size,    \* its bytes, as they were counted
    use,     \* Books.by_use: the accounts held, the least recently read first
    bytes,   \* Books.bytes
    step,    \* where each thread is
    account, \* the account it reads or commands
    book     \* the book it loaded or made

books  == <<held, size, use, bytes>>
thread == <<step, account, book>>
vars   == <<head, books, thread>>

Init ==
    /\ head    = [a \in Accounts |-> 0]
    /\ held    = [a \in Accounts |-> NoBook]
    /\ size    = [a \in Accounts |-> 0]
    /\ use     = <<>>
    /\ bytes   = 0
    /\ step    = [t \in Threads |-> "idle"]
    /\ account = [t \in Threads |-> CHOOSE a \in Accounts : TRUE]
    /\ book    = [t \in Threads |-> 0]

-----------------------------------------------------------------------------
(* Books.                                                                  *)

Total(accounts, sizes) == SumFunctionOnSet(sizes, accounts)

\* The longest end of the order that fits, when `total` bytes are held.
Fitting(order, sizes, total) ==
    LET Left(n) == total - Total(ToSet(SubSeq(order, 1, n)), sizes)
        drop    == CHOOSE n \in 0 .. Len(order) :
                     /\ Left(n) <= Bound \/ n = Len(order)
                     /\ \A i \in 0 .. n - 1 : Left(i) > Bound
    IN  [kept |-> SubSeq(order, drop + 1, Len(order)), bytes |-> Left(drop)]

\* The account's book is `b` now, read most recently, `given` bytes counted
\* back for the one it replaces; the least recently read are dropped until
\* the rest fits.
Keeps(a, b, given) ==
    LET sizes == [size EXCEPT ![a] = Cost[b]]
        fit   == Fitting(Append(RemoveFirst(use, a), a), sizes, bytes - given + Cost[b])
        stays == ToSet(fit.kept)
    IN  /\ held'  = [c \in Accounts |-> IF c \notin stays THEN NoBook
                                        ELSE IF c = a THEN b ELSE held[c]]
        /\ size'  = [c \in Accounts |-> IF c \in stays THEN sizes[c] ELSE 0]
        /\ use'   = fit.kept
        /\ bytes' = fit.bytes

\* Mutant: the book put replaces the one held, however far that reached.
PutAny(a, b) == Keeps(a, b, size[a])

\* Mutant: the bytes of the book replaced are not counted back.
PutLeaks(a, b) ==
    IF held[a] # NoBook /\ held[a] > b THEN UNCHANGED books ELSE Keeps(a, b, 0)

\* Mutant: the bytes of the book replaced are counted back twice.
PutForgetsTwice(a, b) ==
    IF held[a] # NoBook /\ held[a] > b THEN UNCHANGED books ELSE Keeps(a, b, 2 * size[a])

\* Books::put: a book held that reached further stays.
Put(a, b) ==
    IF held[a] # NoBook /\ held[a] > b THEN UNCHANGED books ELSE Keeps(a, b, size[a])

-----------------------------------------------------------------------------
(* Writer::act.                                                            *)

\* The record commits: the thread has the book the commit made.
Commits(t, a) ==
    /\ step[t] = "idle"
    /\ head[a] < MaxEntries
    /\ head' = [head EXCEPT ![a] = @ + 1]
    /\ step' = [step EXCEPT ![t] = "made"]
    /\ account' = [account EXCEPT ![t] = a]
    /\ book' = [book EXCEPT ![t] = head[a] + 1]
    /\ UNCHANGED books

\* The record commits, and says to this process that it failed.
CommitsUnheard(a) ==
    /\ AnswersLost
    /\ head[a] < MaxEntries
    /\ head' = [head EXCEPT ![a] = @ + 1]
    /\ UNCHANGED <<books, thread>>

\* A member that took over commits: this one is deposed, and may not know yet.
CommitsElsewhere(a) ==
    /\ Elsewhere
    /\ head[a] < MaxEntries
    /\ head' = [head EXCEPT ![a] = @ + 1]
    /\ UNCHANGED <<books, thread>>

-----------------------------------------------------------------------------
(* Writer::book.                                                           *)

\* Held: answered from memory, and read most recently.
ReadsHeld(t, a) ==
    /\ step[t] = "idle"
    /\ held[a] # NoBook
    /\ use' = Append(RemoveFirst(use, a), a)
    /\ UNCHANGED <<head, held, size, bytes, thread>>

\* Not held: the record will be read, with nothing locked.
Misses(t, a) ==
    /\ step[t] = "idle"
    /\ held[a] = NoBook
    /\ step' = [step EXCEPT ![t] = "missed"]
    /\ account' = [account EXCEPT ![t] = a]
    /\ UNCHANGED <<head, books, book>>

Loads(t) ==
    /\ step[t] = "missed"
    /\ step' = [step EXCEPT ![t] = "loaded"]
    /\ book' = [book EXCEPT ![t] = head[account[t]]]
    /\ UNCHANGED <<head, books, account>>

\* The book made or loaded is put.
Puts(t) ==
    /\ step[t] \in {"made", "loaded"}
    /\ Put(account[t], book[t])
    /\ step' = [step EXCEPT ![t] = "idle"]
    /\ book' = [book EXCEPT ![t] = 0]
    /\ UNCHANGED <<head, account>>

Next ==
    \/ \E t \in Threads :
        \/ Loads(t)
        \/ Puts(t)
        \/ \E a \in Accounts : Commits(t, a) \/ ReadsHeld(t, a) \/ Misses(t, a)
    \/ \E a \in Accounts : CommitsUnheard(a) \/ CommitsElsewhere(a)

Spec == Init /\ [][Next]_vars

-----------------------------------------------------------------------------
(* Properties.                                                             *)

\* Types; `bytes` is a usize, so no more is counted back than was counted.
TypeOK ==
    /\ head \in [Accounts -> 0 .. MaxEntries]
    /\ held \in [Accounts -> (0 .. MaxEntries) \union {NoBook}]
    /\ size \in [Accounts -> Nat]
    /\ use \in Seq(Accounts)
    /\ bytes \in Nat
    /\ step \in [Threads -> {"idle", "missed", "loaded", "made"}]
    /\ account \in [Threads -> Accounts]
    /\ book \in [Threads -> 0 .. MaxEntries]

\* What is counted is what is held: the order names each account held, once,
\* the bytes are theirs, no drift however puts, reads and evictions
\* interleave, and they stay within the bound (`while self.bytes > bound`).
CountedAsHeld ==
    /\ ToSet(use) = {a \in Accounts : held[a] # NoBook}
    /\ Len(use) = Cardinality(ToSet(use))
    /\ bytes = Total(ToSet(use), size)
    /\ \A a \in ToSet(use) : size[a] = Cost[held[a]]
    /\ bytes <= Bound

\* Two commits' books put in the other order than they committed in, or a
\* book loaded before a commit's was put, never take a held book back.
NeverTakenBack ==
    [][\A a \in Accounts :
        held[a] # NoBook /\ held'[a] # NoBook => held'[a] >= held[a]]_vars

\* "each account's book at its head held in memory" (writer.rs:3-4), and "a
\* book loaded from the record is held only if no later commit of the account
\* was held meanwhile" (writer.rs:13-15): once no commit's book is still to
\* be put, a book held is the record's.
HeldAtItsHead ==
    \A a \in Accounts :
        \/ held[a] \in {NoBook, head[a]}
        \/ \E t \in Threads : step[t] = "made" /\ account[t] = a

=============================================================================

--------------------------- MODULE HotBooksProofs ---------------------------
(***************************************************************************)
(* For any accounts, threads, bound and sizes: a held book is never taken  *)
(* back, whichever of two commits' books is put first, whatever was loaded *)
(* from the record meanwhile, and whatever is evicted between; and what is *)
(* counted (`use`, `size`, `bytes`) is what is held.                       *)
(*                                                                         *)
(* What is counted decides only which books are dropped, so the first      *)
(* argument needs nothing of it.                                           *)
(***************************************************************************)
EXTENDS HotBooks, FoldLemmas, TLAPS

\* Each book is of an entry of its account's journal: of those a thread has,
\* and of those held.
Entries == 0 .. MaxEntries

Reached ==
    /\ head \in [Accounts -> Entries]
    /\ held \in [Accounts -> Entries \union {NoBook}]
    /\ step \in [Threads -> {"idle", "missed", "loaded", "made"}]
    /\ account \in [Threads -> Accounts]
    /\ book \in [Threads -> Entries]

NoneBack ==
    \A a \in Accounts :
        held[a] # NoBook /\ held'[a] # NoBook => held'[a] >= held[a]

\* What is put of an account is its held book, or one that reached as far.
LEMMA PutsForward ==
    ASSUME Reached, NEW a \in Accounts, NEW b \in Entries, Put(a, b)
    PROVE  held' \in [Accounts -> Entries \union {NoBook}] /\ NoneBack
<1>0. MaxEntries \in Nat /\ NoBook \notin Nat
  BY BooksAssumption
<1>1. CASE UNCHANGED books
  BY <1>0, <1>1 DEF Reached, NoneBack, Entries, books
<1>2. CASE ~ (held[a] # NoBook /\ held[a] > b) /\ Keeps(a, b, size[a])
  <2>1. PICK stays : held' = [c \in Accounts |-> IF c \notin stays THEN NoBook
                                                 ELSE IF c = a THEN b ELSE held[c]]
    BY <1>2 DEF Keeps
  <2>2. held' \in [Accounts -> Entries \union {NoBook}]
    BY <2>1 DEF Reached
  <2>3. ASSUME NEW c \in Accounts, held[c] # NoBook, held'[c] # NoBook
        PROVE  held'[c] >= held[c]
    <3>1. held[c] \in Nat /\ b \in Nat
      BY <1>0, <2>3 DEF Reached, Entries
    <3>2. held'[c] = IF c = a THEN b ELSE held[c]
      BY <2>1, <2>3
    <3> QED
      BY <1>2, <2>3, <3>1, <3>2
  <2> QED
    BY <2>2, <2>3 DEF NoneBack
<1> QED
  BY <1>1, <1>2 DEF Put

LEMMA HotStep ==
    ASSUME Reached, [Next]_vars
    PROVE  Reached' /\ NoneBack
<1>0. MaxEntries \in Nat /\ NoBook \notin Nat
  BY BooksAssumption
<1>1. held' = held => NoneBack
  BY <1>0 DEF Reached, NoneBack, Entries
<1>2. \A a \in Accounts : head[a] < MaxEntries => head[a] + 1 \in Entries
  BY <1>0 DEF Reached, Entries
<1>3. ASSUME NEW t \in Threads, NEW a \in Accounts, Commits(t, a)
      PROVE  Reached' /\ NoneBack
  BY <1>1, <1>2, <1>3 DEF Commits, books, Reached
<1>4. ASSUME NEW a \in Accounts, CommitsUnheard(a) \/ CommitsElsewhere(a)
      PROVE  Reached' /\ NoneBack
  BY <1>1, <1>2, <1>4 DEF CommitsUnheard, CommitsElsewhere, books, thread, Reached
<1>5. ASSUME NEW t \in Threads, NEW a \in Accounts, ReadsHeld(t, a) \/ Misses(t, a)
      PROVE  Reached' /\ NoneBack
  BY <1>1, <1>5 DEF ReadsHeld, Misses, books, thread, Reached
<1>6. ASSUME NEW t \in Threads, Loads(t)
      PROVE  Reached' /\ NoneBack
  BY <1>1, <1>6 DEF Loads, books, Reached
<1>7. ASSUME NEW t \in Threads, Puts(t)
      PROVE  Reached' /\ NoneBack
  <2>1. held' \in [Accounts -> Entries \union {NoBook}] /\ NoneBack
    BY <1>7, PutsForward DEF Puts, Reached
  <2>2. /\ head' \in [Accounts -> Entries] /\ book' \in [Threads -> Entries]
        /\ account' \in [Threads -> Accounts]
        /\ step' \in [Threads -> {"idle", "missed", "loaded", "made"}]
    BY <1>0, <1>7 DEF Puts, Reached, Entries
  <2> QED
    BY <2>1, <2>2 DEF Reached
<1>8. CASE UNCHANGED vars
  BY <1>1, <1>8 DEF vars, books, thread, Reached
<1> QED
  BY <1>3, <1>4, <1>5, <1>6, <1>7, <1>8 DEF Next

(***************************************************************************)
(* Two commits' books put in the other order than they committed in, or a  *)
(* book loaded before a commit's was put, never take a held book back.     *)
(***************************************************************************)
THEOREM HeldNeverTakenBack == Spec => NeverTakenBack
<1>1. Init => Reached
  BY BooksAssumption DEF Init, Reached, Entries
<1>2. Reached /\ [Next]_vars => Reached' /\ [NoneBack]_vars
  BY HotStep
<1> QED
  BY <1>1, <1>2, PTL DEF Spec, NeverTakenBack, NoneBack

-----------------------------------------------------------------------------
(* What is counted.                                                        *)

Once(s) == \A i, j \in 1 .. Len(s) : s[i] = s[j] => i = j

\* The order of use without an account, which it names at most once.
LEMMA RemovedOnce ==
    ASSUME NEW S, NEW s \in Seq(S), Once(s), NEW a
    PROVE  /\ RemoveFirst(s, a) \in Seq(S) /\ Once(RemoveFirst(s, a))
           /\ ToSet(RemoveFirst(s, a)) = ToSet(s) \ {a}
<1>1. CASE \A i \in 1 .. Len(s) : s[i] # a
  <2>1. RemoveFirst(s, a) = s
    BY <1>1 DEF RemoveFirst
  <2>2. a \notin ToSet(s)
    BY <1>1 DEF ToSet
  <2> QED
    BY <2>1, <2>2
<1>2. CASE \E i \in 1 .. Len(s) : s[i] = a
  <2> DEFINE I == {i \in 1 .. Len(s) : s[i] = a}
             k == CHOOSE i \in I : \A j \in I : i <= j
             r == SubSeq(s, 1, k - 1) \o SubSeq(s, k + 1, Len(s))
  <2>1. I # {} /\ I \in SUBSET Nat
    BY <1>2
  <2>2. k \in I
    BY <2>1, LeastNumber
  <2>3. RemoveFirst(s, a) = r
    BY <1>2, <2>1 DEF RemoveFirst, RemoveAt, SelectInSeq, Min
  <2>4. k \in 1 .. Len(s) /\ s[k] = a
    BY <2>2
  <2> HIDE DEF k
  <2>5. /\ r \in Seq(S) /\ Len(r) = Len(s) - 1
        /\ \A i \in 1 .. Len(s) - 1 : r[i] = IF i < k THEN s[i] ELSE s[i + 1]
    <3> DEFINE u == SubSeq(s, 1, k - 1)
               v == SubSeq(s, k + 1, Len(s))
    <3>1. /\ u \in Seq(S) /\ Len(u) = k - 1
          /\ \A i \in 1 .. k - 1 : u[i] = s[i]
      BY <2>4
    <3>2. /\ v \in Seq(S) /\ Len(v) = Len(s) - k
          /\ \A i \in 1 .. Len(s) - k : v[i] = s[k + i]
      BY <2>4
    <3> HIDE DEF u, v
    <3>3. u \o v \in Seq(S) /\ Len(u \o v) = Len(s) - 1
      BY <2>4, <3>1, <3>2
    <3>4. ASSUME NEW i \in 1 .. Len(s) - 1
          PROVE  (u \o v)[i] = IF i < k THEN s[i] ELSE s[i + 1]
      BY <2>4, <3>1, <3>2
    <3> QED
      BY <3>3, <3>4 DEF u, v
  <2> HIDE DEF r
  <2>6. Once(r)
    BY <2>4, <2>5 DEF Once
  <2>7. ToSet(r) = ToSet(s) \ {a}
    <3>1. ASSUME NEW x \in ToSet(r)
          PROVE  x \in ToSet(s) \ {a}
      BY <2>4, <2>5 DEF Once, ToSet
    <3>2. ASSUME NEW x \in ToSet(s) \ {a}
          PROVE  x \in ToSet(r)
      <4>1. PICK i \in 1 .. Len(s) : x = s[i] /\ i # k
        BY <2>4 DEF ToSet
      <4> DEFINE j == IF i < k THEN i ELSE i - 1
      <4>2. j \in 1 .. Len(r) /\ r[j] = x
        BY <2>4, <2>5, <4>1
      <4> QED
        BY <2>5, <4>2 DEF ToSet
    <3> QED
      BY <3>1, <3>2
  <2> QED
    BY <2>3, <2>5, <2>6, <2>7
<1> QED
  BY <1>1, <1>2

\* The account read moved to the order's end.
LEMMA ReadLast ==
    ASSUME NEW s \in Seq(Accounts), Once(s), NEW a \in Accounts
    PROVE  LET order == Append(RemoveFirst(s, a), a)
           IN  /\ order \in Seq(Accounts) /\ Once(order)
               /\ ToSet(order) = ToSet(s) \union {a}
<1> DEFINE r == RemoveFirst(s, a)
<1>1. r \in Seq(Accounts) /\ Once(r) /\ ToSet(r) = ToSet(s) \ {a}
  BY RemovedOnce
<1> HIDE DEF r
<1>2. Append(r, a) \in Seq(Accounts) /\ Len(Append(r, a)) = Len(r) + 1
      /\ \A i \in 1 .. Len(r) + 1 : Append(r, a)[i] = IF i = Len(r) + 1 THEN a ELSE r[i]
  BY <1>1
<1>3. \A i \in 1 .. Len(r) : r[i] # a
  BY <1>1 DEF ToSet
<1>4. Once(Append(r, a))
  BY <1>1, <1>2, <1>3 DEF Once
<1>5. ToSet(Append(r, a)) = ToSet(s) \union {a}
  <2>1. ToSet(Append(r, a)) = ToSet(r) \union {a}
    BY <1>1, <1>2 DEF ToSet
  <2> QED
    BY <1>1, <2>1
<1> QED
  BY <1>2, <1>4, <1>5 DEF r

LEMMA TotalType ==
    ASSUME NEW S, IsFiniteSet(S), NEW sizes, \A x \in S : sizes[x] \in Nat
    PROVE  Total(S, sizes) \in Nat
BY SumNat DEF Total

LEMMA ToSetFinite ==
    ASSUME NEW S, NEW s \in Seq(S)
    PROVE  /\ IsFiniteSet(ToSet(s)) /\ ToSet(s) \in SUBSET S
           /\ Once(s) => Len(s) = Cardinality(ToSet(s))
<1> DEFINE n == Len(s)
<1>1. s \in [1 .. n -> S] /\ n \in Nat /\ IsFiniteSet(1 .. n) /\ Cardinality(1 .. n) = n
  <2>1. s \in [1 .. n -> S] /\ n \in Nat
    OBVIOUS
  <2> HIDE DEF n
  <2>2. IsFiniteSet(1 .. n) /\ Cardinality(1 .. n) = IF 1 > n THEN 0 ELSE n - 1 + 1
    BY <2>1, FS_Interval
  <2> QED
    BY <2>1, <2>2
<1>2. s \in Surjection(1 .. n, ToSet(s))
  BY <1>1 DEF Surjection, ToSet
<1>3. Once(s) => s \in Injection(1 .. n, ToSet(s))
  BY <1>1, <1>2 DEF Surjection, Injection, IsInjective, Once
<1>4. IsFiniteSet(ToSet(s)) /\ (Cardinality(ToSet(s)) = n <=> s \in Injection(1 .. n, ToSet(s)))
  <2> DEFINE T == ToSet(s)
             D == 1 .. n
  <2>1. IsFiniteSet(D) /\ Cardinality(D) = n /\ s \in Surjection(D, T)
    BY <1>1, <1>2
  <2> HIDE DEF D, T
  <2>2. IsFiniteSet(T) /\ (Cardinality(T) = Cardinality(D) <=> s \in Injection(D, T))
    BY <2>1, FS_Surjection
  <2> QED
    BY <2>1, <2>2 DEF D, T
<1> QED
  BY <1>1, <1>3, <1>4 DEF ToSet

\* What stays when the first n of an order are dropped.
LEMMA Dropped ==
    ASSUME NEW order \in Seq(Accounts), Once(order), NEW n \in 0 .. Len(order),
           NEW sizes, \A x \in ToSet(order) : sizes[x] \in Nat
    PROVE  LET kept == SubSeq(order, n + 1, Len(order))
               gone == SubSeq(order, 1, n)
           IN  /\ kept \in Seq(Accounts) /\ Once(kept) /\ ToSet(kept) \subseteq ToSet(order)
               /\ Total(ToSet(gone), sizes) \in Nat /\ Total(ToSet(kept), sizes) \in Nat
               /\ Total(ToSet(order), sizes)
                    = Total(ToSet(gone), sizes) + Total(ToSet(kept), sizes)
               /\ n = Len(order) => ToSet(kept) = {}
<1> DEFINE kept == SubSeq(order, n + 1, Len(order))
           gone == SubSeq(order, 1, n)
<1>1. /\ kept \in Seq(Accounts) /\ Len(kept) = Len(order) - n
      /\ \A i \in 1 .. Len(order) - n : kept[i] = order[n + i]
  OBVIOUS
<1>2. /\ gone \in Seq(Accounts) /\ Len(gone) = n
      /\ \A i \in 1 .. n : gone[i] = order[i]
  OBVIOUS
<1>3. Len(order) \in Nat /\ n \in Nat /\ n <= Len(order)
  OBVIOUS
<1> HIDE DEF kept, gone
<1>4. Once(kept)
  BY <1>1, <1>3 DEF Once
<1>5. ToSet(kept) = {order[i] : i \in n + 1 .. Len(order)}
  <2>1. ASSUME NEW i \in n + 1 .. Len(order)
        PROVE  i - n \in 1 .. Len(kept) /\ kept[i - n] = order[i]
    BY <1>1, <1>3
  <2>2. ASSUME NEW i \in 1 .. Len(kept)
        PROVE  n + i \in n + 1 .. Len(order) /\ kept[i] = order[n + i]
    BY <1>1, <1>3
  <2> QED
    BY <1>1, <2>1, <2>2 DEF ToSet
<1>6. ToSet(gone) = {order[i] : i \in 1 .. n}
  BY <1>2 DEF ToSet
<1>7. ToSet(order) = {order[i] : i \in 1 .. Len(order)}
  BY DEF ToSet
<1>8. ToSet(gone) \in SUBSET ToSet(order) /\ ToSet(kept) = ToSet(order) \ ToSet(gone)
  BY <1>3, <1>5, <1>6, <1>7 DEF Once
<1>9. IsFiniteSet(ToSet(order)) /\ IsFiniteSet(ToSet(gone)) /\ IsFiniteSet(ToSet(kept))
  BY <1>1, <1>2, ToSetFinite
<1>10. Total(ToSet(order), sizes) = Total(ToSet(gone), sizes) + Total(ToSet(kept), sizes)
  BY <1>8, <1>9, SumSplit DEF Total
<1>11. Total(ToSet(gone), sizes) \in Nat /\ Total(ToSet(kept), sizes) \in Nat
  BY <1>8, <1>9, TotalType
<1>12. n = Len(order) => ToSet(kept) = {}
  BY <1>3, <1>5
<1> QED
  BY <1>1, <1>4, <1>8, <1>10, <1>11, <1>12 DEF kept, gone

\* Books are dropped until the rest fits, and the bytes counted are the rest's.
LEMMA FitsBytes ==
    ASSUME NEW order \in Seq(Accounts), Once(order),
           NEW sizes, \A x \in ToSet(order) : sizes[x] \in Nat,
           NEW total, total = Total(ToSet(order), sizes)
    PROVE  LET fit == Fitting(order, sizes, total)
           IN  /\ fit.kept \in Seq(Accounts) /\ Once(fit.kept)
               /\ ToSet(fit.kept) \subseteq ToSet(order)
               /\ fit.bytes = Total(ToSet(fit.kept), sizes)
               /\ fit.bytes \in Nat /\ fit.bytes <= Bound
<1> DEFINE Left(n)  == total - Total(ToSet(SubSeq(order, 1, n)), sizes)
           fits(n)  == Left(n) <= Bound \/ n = Len(order)
           least(n) == fits(n) /\ \A i \in 0 .. n - 1 : Left(i) > Bound
           drop     == CHOOSE n \in 0 .. Len(order) : least(n)
           Rest(n)  == SubSeq(order, n + 1, Len(order))
<1>0. Len(order) \in Nat /\ Bound \in Nat
  BY BooksAssumption
<1>1. \A n \in 0 .. Len(order) :
        /\ Rest(n) \in Seq(Accounts) /\ Once(Rest(n)) /\ ToSet(Rest(n)) \subseteq ToSet(order)
        /\ Left(n) = Total(ToSet(Rest(n)), sizes) /\ Left(n) \in Nat
        /\ n = Len(order) => ToSet(Rest(n)) = {}
  BY Dropped
<1>2. \E n \in 0 .. Len(order) : least(n)
  <2> DEFINE N == {n \in 0 .. Len(order) : fits(n)}
  <2>1. Len(order) \in N
    BY <1>0
  <2>2. N \in SUBSET Nat
    OBVIOUS
  <2>3. PICK n \in N : \A m \in N : n <= m
    BY <2>1, <2>2, LeastNumber
  <2>4. ASSUME NEW i \in 0 .. n - 1
        PROVE  Left(i) > Bound
    <3>1. i \in 0 .. Len(order) /\ ~ (n <= i)
      BY <1>0
    <3>2. i \notin N /\ Left(i) \in Nat
      BY <1>1, <2>3, <3>1
    <3> HIDE DEF Left
    <3> QED
      BY <1>0, <3>1, <3>2
  <2> QED
    BY <2>4
<1>3. drop \in 0 .. Len(order) /\ least(drop)
  <2> HIDE DEF least
  <2> QED
    BY <1>2
<1>4. Fitting(order, sizes, total) = [kept |-> Rest(drop), bytes |-> Left(drop)]
  BY DEF Fitting
<1>5. Left(drop) <= Bound
  <2>1. CASE drop = Len(order)
    <3>1. Left(drop) = Total({}, sizes)
      BY <1>1, <1>3, <2>1
    <3>2. Total({}, sizes) = 0
      BY SumEmpty DEF Total
    <3> QED
      BY <1>0, <3>1, <3>2
  <2> QED
    BY <1>3, <2>1
<1> HIDE DEF drop, Left, Rest
<1> QED
  BY <1>1, <1>3, <1>4, <1>5

\* What the hot layer counts is what it holds: the inductive invariant.
Counted ==
    /\ size \in [Accounts -> Nat]
    /\ use \in Seq(Accounts) /\ Once(use)
    /\ ToSet(use) = {a \in Accounts : held[a] # NoBook}
    /\ bytes = Total(ToSet(use), size)
    /\ \A a \in Accounts : size[a] = IF a \in ToSet(use) THEN Cost[held[a]] ELSE 0
    /\ bytes <= Bound

\* The bytes counted back are those of the book replaced, and no more.
LEMMA CountedBack ==
    ASSUME Counted, NEW a \in Accounts, NEW cost \in Nat
    PROVE  bytes - size[a] + cost
             = Total(ToSet(use) \union {a}, [size EXCEPT ![a] = cost])
<1> DEFINE U     == ToSet(use)
           sizes == [size EXCEPT ![a] = cost]
<1>1. IsFiniteSet(U) /\ U \in SUBSET Accounts /\ size \in [Accounts -> Nat]
  BY ToSetFinite DEF Counted
<1>2. bytes = Total(U, size) /\ (a \notin U => size[a] = 0)
  BY DEF Counted
<1> HIDE DEF U
<1>3. \A x \in Accounts : sizes[x] = IF x = a THEN cost ELSE size[x]
  BY <1>1
<1> HIDE DEF sizes
<1>4. IsFiniteSet(U \ {a}) /\ IsFiniteSet(U \union {a}) /\ (U \union {a}) \ {a} = U \ {a}
  BY <1>1, FS_AddElement, FS_RemoveElement
<1>5. Total(U \union {a}, sizes) = cost + Total(U \ {a}, sizes)
  <2>1. \A x \in U \union {a} : sizes[x] \in Int
    BY <1>1, <1>3
  <2>2. sizes[a] = cost
    BY <1>3
  <2> QED
    BY <1>4, <2>1, <2>2, SumWithout DEF Total
<1>6. Total(U \ {a}, sizes) = Total(U \ {a}, size)
  BY <1>1, <1>3, <1>4, SumSame DEF Total
<1>7. Total(U, size) = size[a] + Total(U \ {a}, size)
  <2>1. CASE a \in U
    BY <1>1, <2>1, SumWithout DEF Total
  <2>2. CASE a \notin U
    <3>1. U \ {a} = U /\ Total(U, size) \in Nat
      BY <1>1, <2>2, TotalType
    <3> QED
      BY <1>2, <2>2, <3>1
  <2> QED
    BY <2>1, <2>2
<1>8. Total(U \ {a}, size) \in Nat /\ size[a] \in Nat
  BY <1>1, <1>4, TotalType
<1> QED
  BY <1>2, <1>5, <1>6, <1>7, <1>8 DEF U, sizes

LEMMA KeepsCounted ==
    ASSUME Reached, Counted, NEW a \in Accounts, NEW b \in Entries, Keeps(a, b, size[a])
    PROVE  Counted'
<1> DEFINE sizes == [size EXCEPT ![a] = Cost[b]]
           order == Append(RemoveFirst(use, a), a)
           total == bytes - size[a] + Cost[b]
           fit   == Fitting(order, sizes, total)
           stays == ToSet(fit.kept)
<1>1. /\ NoBook \notin Entries /\ \A n \in Entries : Cost[n] \in Nat
  BY BooksAssumption DEF Entries
<1>2. order \in Seq(Accounts) /\ Once(order) /\ ToSet(order) = ToSet(use) \union {a}
  BY ReadLast DEF Counted
<1>3. /\ held'  = [c \in Accounts |-> IF c \notin stays THEN NoBook
                                      ELSE IF c = a THEN b ELSE held[c]]
      /\ size'  = [c \in Accounts |-> IF c \in stays THEN sizes[c] ELSE 0]
      /\ use'   = fit.kept
      /\ bytes' = fit.bytes
  BY DEF Keeps
<1> HIDE DEF order
<1>4. total = Total(ToSet(order), sizes)
  BY <1>1, <1>2, CountedBack
<1>5. \A c \in Accounts : sizes[c] \in Nat /\ sizes[c] = IF c = a THEN Cost[b] ELSE size[c]
  BY <1>1 DEF Counted
<1> HIDE DEF sizes, total
<1>6. /\ fit.kept \in Seq(Accounts) /\ Once(fit.kept) /\ stays \subseteq ToSet(order)
      /\ fit.bytes = Total(stays, sizes) /\ fit.bytes \in Nat /\ fit.bytes <= Bound
  <2>1. \A x \in ToSet(order) : sizes[x] \in Nat
    BY <1>2, <1>5 DEF Counted, ToSet
  <2> QED
    BY <1>2, <1>4, <2>1, FitsBytes
<1>7. IsFiniteSet(stays) /\ stays \in SUBSET Accounts
  BY <1>6, ToSetFinite
<1>8. use' \in Seq(Accounts) /\ Once(use') /\ ToSet(use') = stays
  BY <1>3, <1>6
<1> HIDE DEF fit, stays
<1>9. size' \in [Accounts -> Nat]
  BY <1>3, <1>5
<1>10. stays = {c \in Accounts : held'[c] # NoBook}
  <2>1. \A c \in stays : c = a \/ held[c] # NoBook
    BY <1>2, <1>6 DEF Counted
  <2> QED
    BY <1>1, <1>3, <1>7, <2>1
<1>11. \A c \in Accounts : size'[c] = IF c \in stays THEN Cost[held'[c]] ELSE 0
  <2>1. \A c \in stays : c = a \/ (c # a /\ size[c] = Cost[held[c]])
    BY <1>2, <1>6, <1>7 DEF Counted
  <2> QED
    BY <1>3, <1>5, <2>1
<1>12. bytes' = Total(stays, size')
  <2>1. Total(stays, sizes) = Total(stays, size')
    BY <1>3, <1>7, SumSame DEF Total
  <2> QED
    BY <1>3, <1>6, <2>1
<1>13. bytes' <= Bound
  BY <1>3, <1>6
<1> QED
  BY <1>8, <1>9, <1>10, <1>11, <1>12, <1>13 DEF Counted, Once

LEMMA CountedStep ==
    ASSUME Reached, Counted, [Next]_vars
    PROVE  Counted'
<1>1. UNCHANGED books => Counted'
  BY DEF books, Counted, Once
<1>2. ASSUME NEW t \in Threads, NEW a \in Accounts, ReadsHeld(t, a)
      PROVE  Counted'
  <2>1. /\ use' \in Seq(Accounts) /\ Once(use') /\ ToSet(use') = ToSet(use)
    BY <1>2, ReadLast DEF ReadsHeld, Counted
  <2> QED
    BY <1>2, <2>1 DEF ReadsHeld, Counted, Once
<1>3. ASSUME NEW t \in Threads, Puts(t)
      PROVE  Counted'
  <2>1. account[t] \in Accounts /\ book[t] \in Entries
    BY DEF Reached
  <2> QED
    BY <1>1, <1>3, <2>1, KeepsCounted DEF Puts, Put
<1>4. ASSUME NEW t \in Threads, Loads(t) \/ \E a \in Accounts : Commits(t, a) \/ Misses(t, a)
      PROVE  Counted'
  BY <1>1, <1>4 DEF Commits, Misses, Loads
<1>5. ASSUME NEW a \in Accounts, CommitsUnheard(a) \/ CommitsElsewhere(a)
      PROVE  Counted'
  BY <1>1, <1>5 DEF CommitsUnheard, CommitsElsewhere
<1>6. UNCHANGED vars => Counted'
  BY <1>1 DEF vars
<1> QED
  BY <1>2, <1>3, <1>4, <1>5, <1>6 DEF Next

LEMMA HotInvariant == Spec => [](Reached /\ Counted)
<1>1. Init => Reached
  BY BooksAssumption DEF Init, Reached, Entries
<1>2. Init => Counted
  <2>1. Total({}, [a \in Accounts |-> 0]) = 0
    BY SumEmpty DEF Total
  <2>2. Len(<<>>) = 0 /\ ToSet(<<>>) = {} /\ <<>> \in Seq(Accounts)
    BY DEF ToSet
  <2> SUFFICES ASSUME Init PROVE Counted
    OBVIOUS
  <2>3. use = <<>> /\ bytes = 0 /\ size = [a \in Accounts |-> 0]
    BY DEF Init
  <2>4. {a \in Accounts : held[a] # NoBook} = {}
    BY DEF Init
  <2>5. Once(use)
    BY <2>2, <2>3 DEF Once
  <2>6. bytes <= Bound
    BY <2>3, BooksAssumption
  <2> QED
    BY <2>1, <2>2, <2>3, <2>4, <2>5, <2>6 DEF Counted
<1>3. Reached /\ Counted /\ [Next]_vars => (Reached /\ Counted)'
  BY HotStep, CountedStep
<1> QED
  BY <1>1, <1>2, <1>3, PTL DEF Spec

(***************************************************************************)
(* The types: above all that `bytes`, a usize the books put and dropped    *)
(* are counted into and back from, never goes below 0.                     *)
(***************************************************************************)
THEOREM TypeCorrect == Spec => []TypeOK
<1>1. Reached /\ Counted => TypeOK
  <2> SUFFICES ASSUME Reached, Counted PROVE TypeOK
    OBVIOUS
  <2>1. bytes \in Nat
    <3>1. IsFiniteSet(ToSet(use)) /\ ToSet(use) \in SUBSET Accounts
      BY ToSetFinite DEF Counted
    <3> QED
      BY <3>1, TotalType DEF Counted
  <2> QED
    BY <2>1 DEF Reached, Counted, TypeOK, Entries
<1> QED
  BY <1>1, HotInvariant, PTL

(***************************************************************************)
(* The order of use names each account held, once; the bytes counted are   *)
(* those books', however puts, reads and evictions interleave; and they    *)
(* stay within the bound: for any accounts, threads, bound and sizes, a    *)
(* book larger than the whole bound among them.                            *)
(***************************************************************************)
THEOREM CountsWhatItHolds == Spec => []CountedAsHeld
<1>1. Reached /\ Counted => CountedAsHeld
  <2> SUFFICES ASSUME Reached, Counted PROVE CountedAsHeld
    OBVIOUS
  <2>1. Len(use) = Cardinality(ToSet(use)) /\ ToSet(use) \in SUBSET Accounts
    BY ToSetFinite DEF Counted
  <2> QED
    BY <2>1 DEF Counted, CountedAsHeld
<1> QED
  BY <1>1, HotInvariant, PTL

=============================================================================

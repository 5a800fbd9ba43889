-------------------------- MODULE StandbyTailProofs -------------------------
(***************************************************************************)
(* What a standby is promised by StandbyTail, for any partitions, kinds of *)
(* entries, page size and number of entries, whatever the tail loses and   *)
(* whichever reads fail: no broken entry is taken but right after an       *)
(* undigested one, nothing takes it back, and the first refusal of a       *)
(* partition no read of which failed part way is of a broken entry.        *)
(*                                                                         *)
(* A read that failed part way leaves the chain past where the partition   *)
(* is followed to, and an undigested entry leaves no digest to tell where. *)
(* So the invariant is of an entry the chain was followed to, at or past   *)
(* where the partition, or the read of it, is (Verified): every entry up   *)
(* to it is good.  Where no read failed part way it is that very place     *)
(* (Steady), until a broken entry is refused.                              *)
(***************************************************************************)
EXTENDS StandbyTail, TLAPS

\* A page is one entry of the record, and says what it follows.
PagesKnown ==
    /\ \A e \in unpublished : e[2] >= 1 /\ e[2] <= head[e[1]]
    /\ \A i \in DOMAIN tail :
          /\ tail[i].head = tail[i].after + 1
          /\ tail[i].head <= head[tail[i].partition]

\* Not broken, or taken as it is by a chain that was restarted.
Good(p, e) == Broken(p, e) => Undigested(p, e - 1)

GoodUpTo(p, f) == \A e \in Nat : begun[p] < e /\ e <= f => Good(p, e)

\* Where a partition is followed to or, as it is read, where the read is.
Frontier(p) ==
    IF reading # NoRead /\ reading.partition = p THEN reading.after ELSE at[p]

Verified ==
    \A p \in Partitions : at[p] # Nothing =>
        /\ begun[p] # Nothing
        /\ \E f \in Nat : Frontier(p) <= f /\ chain[p] = ChainedTo(p, f) /\ GoodUpTo(p, f)

ReadOpen ==
    reading # NoRead =>
        /\ at[reading.partition] # Nothing
        /\ at[reading.partition] <= reading.after
        /\ reading.after < head[reading.partition]

TailInv == TypeOK /\ PagesKnown /\ Verified /\ ReadOpen

-----------------------------------------------------------------------------

LEMMA TailInvInit == Init => TailInv
<1> SUFFICES ASSUME Init PROVE TailInv
  OBVIOUS
<1>1. TypeOK
  <2>1. tail \in Seq(Pages)
    BY DEF Init
  <2> QED
    BY <2>1 DEF Init, TypeOK
<1>2. PagesKnown
  BY DEF Init, PagesKnown
<1>3. Verified
  BY DEF Init, Verified
<1>4. ReadOpen
  BY DEF Init, ReadOpen
<1> QED
  BY <1>1, <1>2, <1>3, <1>4 DEF TailInv

\* What the writer does leaves the standby as it is, and the record no
\* shorter.
LEMMA WriterKeeps ==
    ASSUME Verified, ReadOpen, TypeOK, UNCHANGED standby, kept' = kept,
           head' \in [Partitions -> Nat],
           \A p \in Partitions : head[p] <= head'[p]
    PROVE  Verified' /\ ReadOpen'
<1>1. Verified'
  BY DEF Verified, Frontier, GoodUpTo, Good, ChainedTo, Broken, Undigested, standby
<1>2. ReadOpen'
  BY DEF ReadOpen, standby, TypeOK, NoRead
<1> QED
  BY <1>1, <1>2

LEMMA CommitKeepsInv ==
    ASSUME TailInv, NEW p \in Partitions, Commit(p)
    PROVE  TailInv'
<1> USE DEF TailInv
<1>1. /\ head' \in [Partitions -> Nat]
      /\ head'[p] = head[p] + 1
      /\ \A q \in Partitions : head[q] <= head'[q]
  BY DEF Commit, TypeOK
<1>2. /\ unpublished' = unpublished \union {<<p, head[p] + 1>>}
      /\ tail' = tail /\ interest' = interest /\ kept' = kept /\ UNCHANGED standby
  BY DEF Commit
<1>3. TypeOK'
  BY <1>1, <1>2 DEF TypeOK, standby
<1>4. PagesKnown'
  <2>1. \A e \in unpublished' : e[2] >= 1 /\ e[2] <= head'[e[1]]
    BY <1>1, <1>2 DEF PagesKnown, TypeOK
  <2>2. \A i \in DOMAIN tail : tail[i] \in Pages
    BY DEF TypeOK
  <2>3. \A i \in DOMAIN tail' : /\ tail'[i].head = tail'[i].after + 1
                                /\ tail'[i].head <= head'[tail'[i].partition]
    <3> SUFFICES ASSUME NEW i \in DOMAIN tail
                 PROVE  /\ tail[i].head = tail[i].after + 1
                        /\ tail[i].head <= head'[tail[i].partition]
      BY <1>2
    <3>1. tail[i].partition \in Partitions /\ tail[i].head \in Nat
      BY <2>2 DEF Pages
    <3>2. /\ tail[i].head = tail[i].after + 1
          /\ tail[i].head <= head[tail[i].partition]
      BY DEF PagesKnown
    <3>3. /\ head[tail[i].partition] <= head'[tail[i].partition]
          /\ head[tail[i].partition] \in Nat /\ head'[tail[i].partition] \in Nat
      BY <1>1, <3>1 DEF TypeOK
    <3> QED
      BY <3>1, <3>2, <3>3
  <2> QED
    BY <2>1, <2>3 DEF PagesKnown
<1> QED
  BY <1>1, <1>2, <1>3, <1>4, WriterKeeps

LEMMA PublishKeepsInv ==
    ASSUME TailInv, NEW e \in unpublished, Publish(e)
    PROVE  TailInv'
<1> USE DEF TailInv
<1> DEFINE page == [partition |-> e[1], after |-> e[2] - 1, head |-> e[2]]
<1>1. /\ head' = head /\ unpublished' = unpublished \ {e}
      /\ interest' = interest /\ kept' = kept /\ UNCHANGED standby
      /\ tail' = Append(tail, page) \/ tail' = tail
  BY DEF Publish
<1>2. /\ page \in Pages /\ page.head = page.after + 1
      /\ page.head <= head[page.partition]
  BY DEF PagesKnown, TypeOK, Pages
<1>3. TypeOK'
  <2>1. tail \in Seq(Pages)
    BY DEF TypeOK
  <2>2. tail' \in Seq(Pages)
    <3> HIDE DEF page
    <3> QED
      BY <1>1, <1>2, <2>1
  <2> QED
    BY <1>1, <2>2 DEF TypeOK, standby
<1>4. PagesKnown'
  <2>1. \A i \in DOMAIN tail' : tail'[i] = page \/ (i \in DOMAIN tail /\ tail'[i] = tail[i])
    <3> HIDE DEF page
    <3>1. tail \in Seq(Pages)
      BY DEF TypeOK
    <3> QED
      BY <1>1, <1>2, <3>1
  <2> QED
    BY <1>1, <1>2, <2>1 DEF PagesKnown
<1> QED
  BY <1>1, <1>3, <1>4, WriterKeeps DEF TypeOK

-----------------------------------------------------------------------------
(* A page heard.                                                           *)

\* The page heard is an entry of the record, and what waits is what waited.
LEMMA HearsAPage ==
    ASSUME TailInv, Hears
    PROVE  /\ Page \in Pages /\ Page.head = Page.after + 1
           /\ Page.head <= head[Page.partition]
           /\ tail' \in Seq(Pages)
           /\ PagesKnown'
           /\ reading = NoRead
<1> USE DEF TailInv
<1>1. tail \in Seq(Pages) /\ tail # <<>> /\ tail' = Tail(tail) /\ Page = tail[1]
  BY DEF Hears, TypeOK, Page
<1>2. 1 \in DOMAIN tail /\ Page \in Pages /\ tail' \in Seq(Pages)
  BY <1>1
<1>3. \A i \in DOMAIN tail' : i + 1 \in DOMAIN tail /\ tail'[i] = tail[i + 1]
  BY <1>1
<1>4. head' = head /\ unpublished' = unpublished /\ reading = NoRead
  BY DEF Hears
<1>5. PagesKnown'
  BY <1>3, <1>4 DEF PagesKnown
<1> QED
  BY <1>1, <1>2, <1>4, <1>5 DEF PagesKnown

\* An entry that follows, from where the chain was followed to or before, is
\* good: undigested, not broken, or after an undigested.
LEMMA FollowsIsGood ==
    ASSUME TailAssumption, NEW p, NEW f \in Nat, GoodUpTo(p, f),
           NEW n \in Nat, n >= 1, n - 1 <= f, Follows(p, ChainedTo(p, f), n)
    PROVE  GoodUpTo(p, n)
<1> SUFFICES ASSUME NEW e \in Nat, begun[p] < e, e <= n
             PROVE  Good(p, e)
  BY DEF GoodUpTo
<1>1. CASE e <= f
  BY <1>1 DEF GoodUpTo
<1>2. CASE ~(e <= f)
  <2>1. e = n /\ f = n - 1
    BY <1>2
  <2>2. CASE Undigested(p, n)
    BY <2>1, <2>2 DEF Good, Broken, Undigested
  <2>3. CASE ~Undigested(p, f) /\ ~Undigested(p, n)
    <3>1. ChainedTo(p, f) # Nothing
      BY <2>3 DEF ChainedTo, TailAssumption
    <3> QED
      BY <2>1, <2>3, <3>1 DEF Follows, Good
  <2>4. CASE Undigested(p, f)
    BY <2>1, <2>4 DEF Good
  <2> QED
    BY <2>2, <2>3, <2>4
<1> QED
  BY <1>1, <1>2

LEMMA TakesPageKeepsInv ==
    ASSUME TailInv, TailAssumption, TakesPage
    PROVE  /\ TailInv'
           /\ \A p \in Partitions : at[p] # Nothing => at'[p] # Nothing /\ at'[p] >= at[p]
<1> USE DEF TailInv
<1>1. Hears
  BY DEF TakesPage
<1>0. PICK p \in Partitions, n \in Nat : p = Page.partition /\ n = Page.head
  BY <1>1, HearsAPage DEF Pages
<1>2. /\ p \in Partitions /\ n \in Nat /\ Page.after \in Nat
      /\ n = Page.after + 1 /\ n # Nothing
      /\ tail' \in Seq(Pages) /\ PagesKnown' /\ reading = NoRead
  BY <1>0, <1>1, HearsAPage DEF Pages, TailAssumption
<1>3. /\ Contiguous(p) /\ Follows(p, chain[p], n)
      /\ at' = [at EXCEPT ![p] = n]
      /\ chain' = [chain EXCEPT ![p] = ChainedTo(p, n)]
      /\ begun' = [begun EXCEPT ![p] = IF at[p] = Nothing THEN n ELSE @]
      /\ UNCHANGED <<gap, reading, refused>>
  BY <1>0 DEF TakesPage
<1>4. UNCHANGED <<kept, head, unpublished, interest, unanswered, ready, failed>>
  BY <1>1 DEF Hears
<1>5. TypeOK'
  <2>1. /\ at' \in [Partitions -> Nat \union {Nothing}]
        /\ chain' \in [Partitions -> Nat \union {Nothing}]
        /\ begun' \in [Partitions -> Nat \union {Nothing}]
    <3>1. ChainedTo(p, n) \in Nat \union {Nothing}
      BY DEF ChainedTo
    <3> QED
      BY <1>2, <1>3, <3>1 DEF TypeOK
  <2> QED
    BY <1>2, <1>3, <1>4, <2>1 DEF TypeOK
<1>6. Verified'
  <2>1. \A q, f : ChainedTo(q, f)' = ChainedTo(q, f) /\ (\A e : Good(q, e)' = Good(q, e))
    BY <1>4 DEF ChainedTo, Good, Broken, Undigested
  <2>2. \A q : Frontier(q)' = at'[q] /\ Frontier(q) = at[q]
    BY <1>2, <1>3 DEF Frontier
  <2> SUFFICES ASSUME NEW q \in Partitions, at'[q] # Nothing
               PROVE  /\ begun'[q] # Nothing
                      /\ \E f \in Nat : /\ at'[q] <= f /\ chain'[q] = ChainedTo(q, f)
                                        /\ GoodUpTo(q, f)'
    BY <2>1, <2>2 DEF Verified
  <2>3. CASE q # p
    <3>1. at'[q] = at[q] /\ chain'[q] = chain[q] /\ begun'[q] = begun[q]
      BY <1>2, <1>3, <2>3 DEF TypeOK
    <3>2. PICK f \in Nat : at[q] <= f /\ chain[q] = ChainedTo(q, f) /\ GoodUpTo(q, f)
      BY <2>2, <3>1 DEF Verified
    <3>3. GoodUpTo(q, f)'
      BY <2>1, <3>1, <3>2 DEF GoodUpTo
    <3> QED
      BY <3>1, <3>2, <3>3 DEF Verified
  <2>4. CASE q = p /\ at[p] = Nothing
    <3>1. at'[q] = n /\ chain'[q] = ChainedTo(q, n) /\ begun'[q] = n
      BY <1>2, <1>3, <2>4 DEF TypeOK
    <3>2. GoodUpTo(q, n)'
      BY <1>2, <3>1 DEF GoodUpTo
    <3> QED
      BY <1>2, <3>1, <3>2
  <2>5. CASE q = p /\ at[p] # Nothing
    <3>1. at'[q] = n /\ chain'[q] = ChainedTo(q, n) /\ begun'[q] = begun[q]
      BY <1>2, <1>3, <2>5 DEF TypeOK
    <3>2. PICK f \in Nat : at[p] <= f /\ chain[p] = ChainedTo(p, f) /\ GoodUpTo(p, f)
      BY <1>2, <2>2, <2>5 DEF Verified
    <3>3. at[p] = n - 1 /\ n >= 1
      <4>1. Page.after = at[p]
        BY <1>3, <2>5 DEF Contiguous
      <4> QED
        BY <1>2, <4>1
    <3>4. GoodUpTo(p, n)
      BY <1>2, <1>3, <3>2, <3>3, FollowsIsGood
    <3>5. GoodUpTo(p, n)'
      BY <2>1, <2>5, <3>1, <3>4 DEF GoodUpTo
    <3>6. begun[q] # Nothing
      BY <2>5 DEF Verified
    <3> QED
      BY <1>2, <2>5, <3>1, <3>5, <3>6
  <2> QED
    BY <2>3, <2>4, <2>5
<1>7. ReadOpen'
  BY <1>2, <1>3 DEF ReadOpen
<1>8. \A q \in Partitions : at[q] # Nothing => at'[q] # Nothing /\ at'[q] >= at[q]
  BY <1>0, <1>2, <1>3 DEF Contiguous, TypeOK
<1> QED
  BY <1>2, <1>5, <1>6, <1>7, <1>8

\* Hearing any other page moves nothing that is followed.
LEMMA OtherPageKeepsInv ==
    ASSUME TailInv, TailAssumption, RefusesPage \/ IgnoresPage \/ MissesPage
    PROVE  TailInv' /\ UNCHANGED at
<1> USE DEF TailInv
<1>1. Hears /\ UNCHANGED <<at, chain, begun>>
  BY DEF RefusesPage, IgnoresPage, MissesPage
<1>2. /\ Page \in Pages /\ Page.head <= head[Page.partition]
      /\ tail' \in Seq(Pages) /\ PagesKnown' /\ reading = NoRead
  BY <1>1, HearsAPage
<1>3. UNCHANGED <<kept, head, unpublished, interest, unanswered, ready, failed>>
  BY <1>1 DEF Hears
<1>4. /\ gap' \in BOOLEAN /\ refused' \in SUBSET (Partitions \X Nat)
      /\ \/ reading' = NoRead
         \/ /\ at[Page.partition] # Nothing /\ Page.head > at[Page.partition]
            /\ reading' = [partition |-> Page.partition, after |-> at[Page.partition]]
  <2>1. Page.partition \in Partitions /\ Page.head \in Nat
    BY <1>2 DEF Pages
  <2>2. CASE RefusesPage
    <3>1. gap' = TRUE /\ refused' = refused \union {<<Page.partition, Page.head>>}
          /\ reading' = reading
      BY <2>2 DEF RefusesPage
    <3> QED
      BY <1>2, <2>1, <3>1 DEF TypeOK
  <2>3. CASE IgnoresPage
    BY <1>2, <2>3 DEF IgnoresPage, TypeOK
  <2>4. CASE MissesPage
    BY <1>2, <2>4 DEF MissesPage, TypeOK
  <2> QED
    BY <2>2, <2>3, <2>4
<1>5. TypeOK'
  BY <1>1, <1>2, <1>3, <1>4 DEF TypeOK, Pages
<1>6. Verified'
  <2>1. \A q \in Partitions : Frontier(q)' = at[q] /\ Frontier(q) = at[q]
    BY <1>1, <1>2, <1>4 DEF Frontier, NoRead
  <2>2. \A q, f : /\ ChainedTo(q, f)' = ChainedTo(q, f)
                  /\ GoodUpTo(q, f)' = GoodUpTo(q, f)
    BY <1>1, <1>3 DEF ChainedTo, GoodUpTo, Good, Broken, Undigested
  <2> QED
    BY <1>1, <2>1, <2>2 DEF Verified
<1>7. ReadOpen'
  BY <1>1, <1>2, <1>3, <1>4 DEF ReadOpen, Verified, TypeOK, Pages, NoRead
<1> QED
  BY <1>1, <1>2, <1>5, <1>6, <1>7

-----------------------------------------------------------------------------
(* A page read.                                                            *)

\* Where a read goes to: past where it is, and within the record.
LEMMA ReadGoesOn ==
    ASSUME TailInv, TailAssumption, reading # NoRead
    PROVE  /\ reading \in [partition : Partitions, after : Nat]
           /\ ReadFrom = reading.after + 1
           /\ ReadTo \in Nat /\ reading.after < ReadTo /\ ReadTo <= head[reading.partition]
BY DEF TailInv, TypeOK, ReadOpen, ReadFrom, ReadTo, TailAssumption

\* What a read verified, up to an entry past where it is, is good: the chain
\* was followed there or past it, and each entry follows the one before.
LEMMA ReadVerifies ==
    ASSUME TailInv, TailAssumption, reading # NoRead,
           NEW n \in Nat, n > reading.after, VerifiesTo(n)
    PROVE  GoodUpTo(reading.partition, n)
<1> DEFINE p == reading.partition
<1>1. /\ p \in Partitions /\ reading.after \in Nat /\ ReadFrom = reading.after + 1
      /\ at[p] # Nothing /\ Frontier(p) = reading.after
  BY ReadGoesOn DEF TailInv, ReadOpen, Frontier
<1>2. PICK f \in Nat : reading.after <= f /\ chain[p] = ChainedTo(p, f) /\ GoodUpTo(p, f)
  BY <1>1 DEF TailInv, Verified
<1>3. GoodUpTo(p, ReadFrom)
  <2>1. Follows(p, ChainedTo(p, f), ReadFrom)
    BY <1>1, <1>2 DEF VerifiesTo, FollowsTo
  <2> QED
    BY <1>1, <1>2, <2>1, FollowsIsGood
<1>4. \A e \in Nat : ReadFrom < e /\ e <= n => Good(p, e)
  <2> SUFFICES ASSUME NEW e \in Nat, ReadFrom < e, e <= n
               PROVE  Good(p, e)
    OBVIOUS
  <2>1. e \in ReadFrom + 1 .. n /\ e - 1 \in Nat
    BY <1>1
  <2>2. Follows(p, ChainedTo(p, e - 1), e)
    BY <2>1 DEF VerifiesTo, FollowsTo
  <2>3. e - 1 # Nothing
    BY <2>1 DEF TailAssumption
  <2> QED
    BY <2>2, <2>3 DEF Follows, ChainedTo, Good, Broken, Undigested
<1> QED
  BY <1>1, <1>3, <1>4 DEF GoodUpTo

LEMMA ReadsPageKeepsInv ==
    ASSUME TailInv, TailAssumption, ReadsPage
    PROVE  /\ TailInv'
           /\ \A p \in Partitions : at[p] # Nothing => at'[p] # Nothing /\ at'[p] >= at[p]
<1> DEFINE p == reading.partition
           n == ReadTo
<1>1. /\ reading # NoRead /\ interest' = TRUE
      /\ UNCHANGED <<kept, head, unpublished, tail, begun, unanswered, ready, failed>>
      /\ VerifiesTo(n)
      /\ chain' = [chain EXCEPT ![p] = ChainedTo(p, n)] /\ UNCHANGED refused
      /\ \/ /\ n < head[p] /\ reading' = [reading EXCEPT !.after = n]
            /\ at' = at /\ gap' = gap
         \/ /\ reading' = NoRead /\ at' = [at EXCEPT ![p] = n] /\ gap' = FALSE
  BY DEF ReadsPage, Reads
<1>2. /\ p \in Partitions /\ reading.after \in Nat /\ n \in Nat /\ n # Nothing
      /\ reading.after < n /\ n <= head[p]
      /\ reading \in [partition : Partitions, after : Nat]
  BY <1>1, ReadGoesOn DEF TailAssumption
<1>3. at[p] # Nothing /\ at[p] \in Nat /\ at[p] <= reading.after /\ begun[p] # Nothing
  BY <1>1, <1>2 DEF TailInv, TypeOK, ReadOpen, Verified
<1>4. TypeOK'
  <2>1. ChainedTo(p, n) \in Nat \union {Nothing}
    BY <1>2 DEF ChainedTo
  <2>2. /\ chain' \in [Partitions -> Nat \union {Nothing}]
        /\ at' \in [Partitions -> Nat \union {Nothing}]
    <3> HIDE DEF p, n
    <3>1. chain \in [Partitions -> Nat \union {Nothing}] /\ at \in [Partitions -> Nat \union {Nothing}]
      BY DEF TailInv, TypeOK
    <3>2. chain' \in [Partitions -> Nat \union {Nothing}]
      BY <1>1, <1>2, <2>1, <3>1
    <3>3. at' = at \/ at' = [at EXCEPT ![p] = n]
      BY <1>1
    <3> QED
      BY <1>2, <3>1, <3>2, <3>3
  <2>3. reading' \in {NoRead} \union [partition : Partitions, after : Nat]
    BY <1>1, <1>2
  <2> QED
    BY <1>1, <2>2, <2>3 DEF TailInv, TypeOK
<1>5. PagesKnown'
  BY <1>1 DEF TailInv, PagesKnown
<1>6. \A q \in Partitions : at[q] # Nothing => at'[q] # Nothing /\ at'[q] >= at[q]
  <2>1. at' = at \/ at' = [at EXCEPT ![p] = n]
    BY <1>1
  <2>2. at \in [Partitions -> Nat \union {Nothing}]
    BY DEF TailInv, TypeOK
  <2> HIDE DEF p, n
  <2>3. \A q \in Partitions : at'[q] = at[q] \/ (q = p /\ at'[q] = n)
    BY <2>1, <2>2
  <2>4. n # Nothing /\ n >= at[p]
    BY <1>2, <1>3
  <2> QED
    BY <2>2, <2>3, <2>4, <1>3
<1>7. Verified'
  <2>1. \A q, f : /\ ChainedTo(q, f)' = ChainedTo(q, f)
                  /\ GoodUpTo(q, f)' = GoodUpTo(q, f)
    BY <1>1 DEF ChainedTo, GoodUpTo, Good, Broken, Undigested
  <2> SUFFICES ASSUME NEW q \in Partitions, at'[q] # Nothing
               PROVE  /\ begun[q] # Nothing
                      /\ \E f \in Nat : /\ Frontier(q)' <= f /\ chain'[q] = ChainedTo(q, f)
                                        /\ GoodUpTo(q, f)
    BY <1>1, <2>1 DEF Verified
  <2>2. CASE q # p
    <3>1. at'[q] = at[q] /\ chain'[q] = chain[q]
      BY <1>1, <1>2, <2>2 DEF TailInv, TypeOK
    <3>2. Frontier(q) = at[q] /\ Frontier(q)' = at[q]
      BY <1>1, <1>2, <2>2, <3>1 DEF Frontier
    <3> QED
      BY <3>1, <3>2 DEF TailInv, Verified
  <2>3. CASE q = p
    <3>1. chain'[q] = ChainedTo(q, n)
      BY <1>1, <1>2, <2>3 DEF TailInv, TypeOK
    <3>2. Frontier(q)' = n
      <4>1. CASE reading' = [reading EXCEPT !.after = n]
        <5>1. reading' # NoRead /\ reading'.partition = p /\ reading'.after = n
          BY <1>2, <4>1 DEF NoRead
        <5> QED
          BY <2>3, <5>1 DEF Frontier
      <4>2. CASE reading' = NoRead /\ at' = [at EXCEPT ![p] = n]
        BY <1>2, <2>3, <4>2 DEF Frontier, TailInv, TypeOK
      <4> QED
        BY <1>1, <4>1, <4>2
    <3>3. GoodUpTo(q, n)
      BY <1>1, <1>2, <2>3, ReadVerifies
    <3> QED
      BY <1>2, <1>3, <2>3, <3>1, <3>2, <3>3
  <2> QED
    BY <2>2, <2>3
<1>8. ReadOpen'
  <2>1. CASE reading' = NoRead
    BY <2>1 DEF ReadOpen
  <2>2. CASE n < head[p] /\ reading' = [reading EXCEPT !.after = n] /\ at' = at
    <3>1. reading'.partition = p /\ reading'.after = n
      BY <1>2, <2>2
    <3> QED
      BY <1>1, <1>2, <1>3, <2>2, <3>1 DEF ReadOpen
  <2> QED
    BY <1>1, <2>1, <2>2
<1> QED
  BY <1>4, <1>5, <1>6, <1>7, <1>8 DEF TailInv

LEMMA ReadsBrokenKeepsInv ==
    ASSUME TailInv, TailAssumption, ReadsBroken
    PROVE  TailInv' /\ UNCHANGED at
<1> DEFINE p == reading.partition
<1>1. PICK n \in reading.after .. ReadTo - 1 :
        /\ VerifiesTo(n)
        /\ chain' = [chain EXCEPT ![p] = IF n < ReadFrom THEN @ ELSE ChainedTo(p, n)]
        /\ refused' = refused \union {<<p, n + 1>>}
  BY DEF ReadsBroken
<1>2. /\ reading # NoRead /\ interest' = TRUE /\ reading' = NoRead
      /\ UNCHANGED <<kept, head, unpublished, tail, begun, unanswered, ready, failed, at, gap>>
  BY DEF ReadsBroken, Reads
<1>3. /\ p \in Partitions /\ reading.after \in Nat /\ n \in Nat /\ n # Nothing
      /\ ReadFrom = reading.after + 1 /\ n >= reading.after
  BY <1>1, <1>2, ReadGoesOn DEF TailAssumption
<1>4. TypeOK'
  <2>1. ChainedTo(p, n) \in Nat \union {Nothing}
    BY <1>3 DEF ChainedTo
  <2>2. /\ chain' \in [Partitions -> Nat \union {Nothing}]
        /\ refused' \in SUBSET (Partitions \X Nat)
    <3> HIDE DEF p
    <3> QED
      BY <1>1, <1>3, <2>1 DEF TailInv, TypeOK
  <2> QED
    BY <1>2, <2>2 DEF TailInv, TypeOK
<1>5. PagesKnown' /\ ReadOpen'
  BY <1>2 DEF TailInv, PagesKnown, ReadOpen
<1>6. Verified'
  <2>1. \A q, f : /\ ChainedTo(q, f)' = ChainedTo(q, f)
                  /\ GoodUpTo(q, f)' = GoodUpTo(q, f)
    BY <1>2 DEF ChainedTo, GoodUpTo, Good, Broken, Undigested
  <2>2. \A q \in Partitions : Frontier(q)' = at[q]
    BY <1>2 DEF Frontier
  <2> SUFFICES ASSUME NEW q \in Partitions, at[q] # Nothing
               PROVE  /\ begun[q] # Nothing
                      /\ \E f \in Nat : /\ at[q] <= f /\ chain'[q] = ChainedTo(q, f)
                                        /\ GoodUpTo(q, f)
    BY <1>2, <2>1, <2>2 DEF Verified
  <2>3. begun[q] # Nothing
    BY DEF TailInv, Verified
  <2>4. at[q] \in Nat /\ (q = p => at[q] <= reading.after)
    BY <1>2 DEF TailInv, TypeOK, ReadOpen
  <2>5. CASE chain'[q] = chain[q]
    <3>1. PICK f \in Nat : Frontier(q) <= f /\ chain[q] = ChainedTo(q, f) /\ GoodUpTo(q, f)
      BY DEF TailInv, Verified
    <3>2. at[q] <= f
      BY <1>3, <2>4, <3>1 DEF Frontier
    <3> QED
      BY <2>3, <2>5, <3>1, <3>2
  <2>6. CASE q = p /\ chain'[q] = ChainedTo(p, n) /\ n > reading.after
    <3>1. GoodUpTo(p, n)
      BY <1>1, <1>2, <1>3, <2>6, ReadVerifies
    <3> QED
      BY <1>3, <2>3, <2>4, <2>6, <3>1
  <2>7. chain'[q] = chain[q] \/ (q = p /\ chain'[q] = ChainedTo(p, n) /\ n > reading.after)
    BY <1>1, <1>3 DEF TailInv, TypeOK
  <2> QED
    BY <2>5, <2>6, <2>7
<1> QED
  BY <1>2, <1>4, <1>5, <1>6 DEF TailInv

\* A read given up, an asking, and interest that lapses follow nothing.
LEMMA OthersKeepInv ==
    ASSUME TailInv, ReadFails \/ AskAnswered \/ AskUnanswered \/ InterestLapses \/ UNCHANGED vars
    PROVE  TailInv' /\ UNCHANGED at
<1>1. /\ UNCHANGED <<kept, head, unpublished, tail, at, chain, begun, gap, refused>>
      /\ reading' = reading \/ reading' = NoRead
      /\ interest' \in BOOLEAN /\ unanswered' \in BOOLEAN /\ ready' \in BOOLEAN
  BY DEF TailInv, TypeOK, ReadFails, AskAnswered, AskUnanswered, InterestLapses, MarksReady,
         vars, writer, standby
<1>2. failed' \in SUBSET (Partitions \X BOOLEAN)
  <2>1. CASE failed' = failed
    BY <2>1 DEF TailInv, TypeOK
  <2>2. CASE ReadFails
    <3> DEFINE past == reading.after # at[reading.partition]
    <3>1. reading.partition \in Partitions
      BY <2>2 DEF ReadFails, TailInv, TypeOK
    <3>2. failed' = failed \union {<<reading.partition, past>>}
      BY <2>2 DEF ReadFails
    <3>3. past \in BOOLEAN
      OBVIOUS
    <3>4. failed \in SUBSET (Partitions \X BOOLEAN)
      BY DEF TailInv, TypeOK
    <3> HIDE DEF past
    <3> QED
      BY <3>1, <3>2, <3>3, <3>4
  <2> QED
    BY <2>1, <2>2 DEF AskAnswered, AskUnanswered, InterestLapses, vars, standby
<1>3. TypeOK'
  BY <1>1, <1>2 DEF TailInv, TypeOK
<1>4. PagesKnown' /\ ReadOpen'
  BY <1>1 DEF TailInv, PagesKnown, ReadOpen
<1>5. Verified'
  <2>1. \A q, f : /\ ChainedTo(q, f)' = ChainedTo(q, f)
                  /\ GoodUpTo(q, f)' = GoodUpTo(q, f)
    BY <1>1 DEF ChainedTo, GoodUpTo, Good, Broken, Undigested
  <2>2. \A q \in Partitions, f \in Nat :
          at[q] # Nothing /\ Frontier(q) <= f => Frontier(q)' <= f
    BY <1>1 DEF Frontier, TailInv, TypeOK, ReadOpen
  <2> SUFFICES ASSUME NEW q \in Partitions, at[q] # Nothing
               PROVE  /\ begun[q] # Nothing
                      /\ \E f \in Nat : /\ Frontier(q)' <= f /\ chain[q] = ChainedTo(q, f)
                                        /\ GoodUpTo(q, f)
    BY <1>1, <2>1 DEF Verified
  <2> QED
    BY <2>2 DEF TailInv, Verified
<1> QED
  BY <1>1, <1>3, <1>4, <1>5 DEF TailInv

-----------------------------------------------------------------------------

NoneFallsBack ==
    \A p \in Partitions : at[p] # Nothing => at'[p] # Nothing /\ at'[p] >= at[p]

LEMMA Standing ==
    ASSUME TailInv, UNCHANGED at
    PROVE  NoneFallsBack
BY DEF NoneFallsBack, TailInv, TypeOK

\* Every step keeps the invariant and takes no partition back.
LEMMA TailStep ==
    ASSUME TailInv, TailAssumption, [Next]_vars
    PROVE  TailInv' /\ NoneFallsBack
<1>1. CASE \E p \in Partitions : Commit(p)
  BY <1>1, CommitKeepsInv, Standing DEF Commit, standby
<1>2. CASE \E e \in unpublished : Publish(e)
  BY <1>2, PublishKeepsInv, Standing DEF Publish, standby
<1>3. CASE TakesPage
  BY <1>3, TakesPageKeepsInv DEF NoneFallsBack
<1>4. CASE RefusesPage \/ IgnoresPage \/ MissesPage
  BY <1>4, OtherPageKeepsInv, Standing
<1>5. CASE ReadsPage
  BY <1>5, ReadsPageKeepsInv DEF NoneFallsBack
<1>6. CASE ReadsBroken
  BY <1>6, ReadsBrokenKeepsInv, Standing
<1>7. CASE ReadFails \/ AskAnswered \/ AskUnanswered \/ InterestLapses \/ UNCHANGED vars
  BY <1>7, OthersKeepInv, Standing
<1> QED
  BY <1>1, <1>2, <1>3, <1>4, <1>5, <1>6, <1>7 DEF Next, Follow


\* What the standby follows was verified, whatever the writer publishes, the
\* record holds and the reads bring.
THEOREM TailInvHolds == Spec => []TailInv
<1>1. TailAssumption
  BY TailAssumption
<1>2. TailInv /\ [Next]_vars => TailInv'
  BY <1>1, TailStep
<1> QED
  BY TailInvInit, <1>2, PTL DEF Spec

\* The standby's state, the pages waiting and the page being read keep their
\* types.
THEOREM TailTypeOK == Spec => []TypeOK
<1>1. TailInv => TypeOK
  BY DEF TailInv
<1> QED
  BY <1>1, TailInvHolds, PTL

\* No broken entry is passed over but one right after an undigested, whatever
\* is lost, late, read in pages or given up half read: `follow` and `catch_up`
\* verify each entry from one the chain was followed to.
THEOREM BrokenNeverTaken == Spec => []NeverTakesBroken
<1>1. TailAssumption
  BY TailAssumption
<1>2. TailInv => NeverTakesBroken
  <2> SUFFICES ASSUME TailInv, NEW p \in Partitions, at[p] # Nothing,
                      NEW e \in begun[p] + 1 .. at[p]
               PROVE  Good(p, e)
    BY DEF NeverTakesBroken, Good
  <2>1. at[p] \in Nat /\ begun[p] \in Nat /\ at[p] <= Frontier(p) /\ Frontier(p) \in Nat
    BY DEF TailInv, TypeOK, Verified, ReadOpen, Frontier
  <2>2. PICK f \in Nat : Frontier(p) <= f /\ GoodUpTo(p, f)
    BY DEF TailInv, Verified
  <2> QED
    BY <2>1, <2>2 DEF GoodUpTo
<1> QED
  BY <1>2, TailInvHolds, PTL

\* Nothing published late, lost, missed or read in pages takes the standby
\* back.
THEOREM StandbyNeverFallsBack == Spec => NeverFallsBack
<1>1. TailAssumption
  BY TailAssumption
<1>2. TailInv /\ [Next]_vars => [NoneFallsBack]_vars
  BY <1>1, TailStep
<1>3. [NoneFallsBack]_vars
        => [\A p \in Partitions : at[p] # Nothing => at'[p] # Nothing /\ at'[p] >= at[p]]_vars
  BY DEF NoneFallsBack
<1> QED
  BY <1>2, <1>3, TailInvHolds, PTL DEF Spec, NeverFallsBack

-----------------------------------------------------------------------------
(* A partition no read of which failed past its first page.                *)

BrokenRefused(p) == \E b \in refused : b[1] = p /\ Broken(p, b[2])

\* Its chain is where it is followed to, or its read is, or was restarted; or
\* an entry of it was refused that is broken, as whenever one was refused.
Steady(p) ==
    /\ chain[p] \in {Nothing, Frontier(p)} \/ BrokenRefused(p)
    /\ \A e \in refused : e[1] = p => BrokenRefused(p)

AllSteady == \A p \in Partitions : <<p, TRUE>> \notin failed => Steady(p)

\* A partition of which nothing more is refused, its chain where it was.
LEMMA StaysSteady ==
    ASSUME NEW p, Steady(p), kept' = kept, chain'[p] = chain[p], Frontier(p)' = Frontier(p),
           refused \subseteq refused', \A e \in refused' : e[1] = p => e \in refused
    PROVE  Steady(p)'
BY DEF Steady, BrokenRefused, Broken

\* A partition of which a broken entry is refused.
LEMMA BrokenSteady ==
    ASSUME NEW p, BrokenRefused(p)'
    PROVE  Steady(p)'
BY DEF Steady

\* What is refused, of a partition whose chain is where it is followed to, is
\* broken.
LEMMA RefusedIsBroken ==
    ASSUME TailAssumption, NEW p, NEW f \in Nat, NEW from \in {Nothing, f},
           ~Follows(p, from, f + 1)
    PROVE  Broken(p, f + 1)
BY DEF Follows, TailAssumption

LEMMA TakesPageSteady ==
    ASSUME TailInv, TailAssumption, TakesPage, NEW q \in Partitions, Steady(q)
    PROVE  Steady(q)'
<1> DEFINE p == Page.partition
           n == Page.head
<1>1. Hears /\ at' = [at EXCEPT ![p] = n] /\ chain' = [chain EXCEPT ![p] = ChainedTo(p, n)]
      /\ UNCHANGED <<gap, reading, refused>>
  BY DEF TakesPage
<1>2. reading = NoRead /\ p \in Partitions /\ kept' = kept
  BY <1>1, HearsAPage DEF Pages, Hears
<1> HIDE DEF p, n
<1>3. CASE q # p
  <2>1. chain'[q] = chain[q] /\ Frontier(q)' = Frontier(q)
    BY <1>1, <1>2, <1>3 DEF TailInv, TypeOK, Frontier
  <2> QED
    BY <1>1, <1>2, <2>1, StaysSteady
<1>4. CASE q = p
  <2>1. chain'[q] = ChainedTo(p, n) /\ Frontier(q)' = n
    BY <1>1, <1>2, <1>4 DEF TailInv, TypeOK, Frontier
  <2>2. chain'[q] \in {Nothing, Frontier(q)'}
    BY <2>1 DEF ChainedTo
  <2> QED
    BY <1>1, <1>2, <2>2 DEF Steady, BrokenRefused, Broken
<1> QED
  BY <1>3, <1>4

LEMMA RefusesPageSteady ==
    ASSUME TailInv, TailAssumption, RefusesPage, NEW q \in Partitions, Steady(q)
    PROVE  Steady(q)'
<1> DEFINE p == Page.partition
           n == Page.head
<1>1. /\ Hears /\ Contiguous(p) /\ ~Follows(p, chain[p], n)
      /\ refused' = refused \union {<<p, n>>}
      /\ UNCHANGED <<at, chain, begun, reading>>
  BY DEF RefusesPage
<1>2. /\ p \in Partitions /\ Page.after \in Nat /\ n = Page.after + 1
      /\ reading = NoRead /\ kept' = kept
  BY <1>1, HearsAPage DEF Pages, Hears
<1>3. at[p] # Nothing => Page.after = at[p]
  BY <1>1 DEF Contiguous
<1> HIDE DEF p, n
<1>4. chain'[q] = chain[q] /\ Frontier(q)' = Frontier(q)
  BY <1>1 DEF Frontier
<1>5. CASE q # p
  <2>1. \A e \in refused' : e[1] = q => e \in refused
    BY <1>1, <1>5
  <2> QED
    BY <1>1, <1>2, <1>4, <2>1, StaysSteady
<1>6. CASE q = p /\ BrokenRefused(p)
  BY <1>1, <1>2, <1>6, BrokenSteady DEF BrokenRefused, Broken
<1>7. CASE q = p /\ chain[p] \in {Nothing, Frontier(p)}
  <2>1. chain[p] # Nothing
    BY <1>1 DEF Follows
  <2>2. chain[p] = Page.after
    BY <1>2, <1>3, <1>7, <2>1 DEF Frontier
  <2>3. Broken(p, n)
    BY <1>1, <1>2, <2>2, RefusedIsBroken
  <2>4. BrokenRefused(q)'
    <3>1. <<p, n>> \in refused' /\ <<p, n>>[1] = p /\ <<p, n>>[2] = n
      BY <1>1
    <3> QED
      BY <1>2, <1>7, <2>3, <3>1 DEF BrokenRefused, Broken
  <2> QED
    BY <2>4, BrokenSteady
<1> QED
  BY <1>5, <1>6, <1>7 DEF Steady

LEMMA ReadsPageSteady ==
    ASSUME TailInv, TailAssumption, ReadsPage, NEW q \in Partitions, Steady(q)
    PROVE  Steady(q)'
<1> DEFINE p == reading.partition
           n == ReadTo
<1>1. /\ reading # NoRead /\ kept' = kept
      /\ chain' = [chain EXCEPT ![p] = ChainedTo(p, n)] /\ refused' = refused
      /\ \/ reading' = [reading EXCEPT !.after = n] /\ at' = at
         \/ reading' = NoRead /\ at' = [at EXCEPT ![p] = n]
  BY DEF ReadsPage, Reads
<1>2. p \in Partitions /\ reading \in [partition : Partitions, after : Nat]
  BY <1>1, ReadGoesOn
<1>3. CASE q # p
  <2>1. chain'[q] = chain[q] /\ at'[q] = at[q]
    BY <1>1, <1>2, <1>3 DEF TailInv, TypeOK
  <2>2. Frontier(q) = at[q] /\ Frontier(q)' = at[q]
    BY <1>1, <1>2, <1>3, <2>1 DEF Frontier
  <2> QED
    BY <1>1, <2>1, <2>2, StaysSteady
<1>4. CASE q = p
  <2>1. chain'[q] = ChainedTo(q, n)
    BY <1>1, <1>2, <1>4 DEF TailInv, TypeOK
  <2>2. Frontier(q)' = n
    <3>1. CASE reading' = [reading EXCEPT !.after = n]
      <4>1. reading' # NoRead /\ reading'.partition = p /\ reading'.after = n
        BY <1>2, <3>1 DEF NoRead
      <4> QED
        BY <1>4, <4>1 DEF Frontier
    <3>2. CASE reading' = NoRead /\ at' = [at EXCEPT ![p] = n]
      BY <1>2, <1>4, <3>2 DEF Frontier, TailInv, TypeOK
    <3> QED
      BY <1>1, <3>1, <3>2
  <2>3. chain'[q] \in {Nothing, Frontier(q)'}
    BY <2>1, <2>2 DEF ChainedTo
  <2> QED
    BY <1>1, <2>3 DEF Steady, BrokenRefused, Broken
<1> QED
  BY <1>3, <1>4

LEMMA ReadsBrokenSteady ==
    ASSUME TailInv, TailAssumption, ReadsBroken, NEW q \in Partitions, Steady(q)
    PROVE  Steady(q)'
<1> DEFINE p == reading.partition
<1>1. PICK n \in reading.after .. ReadTo - 1 :
        /\ VerifiesTo(n) /\ ~VerifiesTo(n + 1)
        /\ chain' = [chain EXCEPT ![p] = IF n < ReadFrom THEN @ ELSE ChainedTo(p, n)]
        /\ refused' = refused \union {<<p, n + 1>>}
  BY DEF ReadsBroken
<1>2. reading # NoRead /\ reading' = NoRead /\ kept' = kept /\ at' = at
  BY DEF ReadsBroken, Reads
<1>3. /\ p \in Partitions /\ reading.after \in Nat /\ n \in Nat
      /\ ReadFrom = reading.after + 1 /\ n >= reading.after
  BY <1>1, <1>2, ReadGoesOn
<1>4. CASE q # p
  <2>1. chain'[q] = chain[q] /\ Frontier(q)' = Frontier(q)
    BY <1>1, <1>2, <1>3, <1>4 DEF TailInv, TypeOK, Frontier
  <2>2. \A e \in refused' : e[1] = q => e \in refused
    BY <1>1, <1>4
  <2> QED
    BY <1>1, <1>2, <2>1, <2>2, StaysSteady
<1>5. CASE q = p /\ BrokenRefused(p)
  BY <1>1, <1>2, <1>5, BrokenSteady DEF BrokenRefused, Broken
<1>6. CASE q = p /\ chain[p] \in {Nothing, Frontier(p)}
  <2>1. Broken(p, n + 1)
    <3>1. CASE n = reading.after
      <4>1. ~Follows(p, chain[p], n + 1)
        BY <1>1, <1>3, <3>1 DEF VerifiesTo, FollowsTo
      <4>2. chain[p] \in {Nothing, n}
        BY <1>2, <1>6, <3>1 DEF Frontier
      <4> QED
        BY <1>3, <4>1, <4>2, RefusedIsBroken
    <3>2. CASE n > reading.after
      <4>1. ~Follows(p, ChainedTo(p, n), n + 1)
        <5>1. /\ Follows(p, chain[p], ReadFrom)
              /\ \A e \in ReadFrom + 1 .. n : Follows(p, ChainedTo(p, e - 1), e)
          BY <1>1, <1>3, <3>2 DEF VerifiesTo, FollowsTo
        <5>2. \E e \in ReadFrom + 1 .. n + 1 : ~Follows(p, ChainedTo(p, e - 1), e)
          BY <1>1, <5>1 DEF VerifiesTo, FollowsTo
        <5>3. PICK e \in ReadFrom + 1 .. n + 1 : ~Follows(p, ChainedTo(p, e - 1), e)
          BY <5>2
        <5>4. e = n + 1
          BY <1>3, <5>1, <5>3
        <5>5. e - 1 = n
          BY <1>3, <5>4
        <5> QED
          BY <5>3, <5>4, <5>5
      <4>2. ChainedTo(p, n) \in {Nothing, n}
        BY DEF ChainedTo
      <4> QED
        BY <1>3, <4>1, <4>2, RefusedIsBroken
    <3> QED
      BY <1>3, <3>1, <3>2
  <2>2. BrokenRefused(q)'
    <3>1. <<p, n + 1>> \in refused' /\ <<p, n + 1>>[1] = p /\ <<p, n + 1>>[2] = n + 1
      BY <1>1
    <3> QED
      BY <1>2, <1>6, <2>1, <3>1 DEF BrokenRefused, Broken
  <2> QED
    BY <2>2, BrokenSteady
<1> QED
  BY <1>4, <1>5, <1>6 DEF Steady

LEMMA AllSteadyStep ==
    ASSUME TailInv, TailAssumption, AllSteady, [Next]_vars
    PROVE  AllSteady'
<1> SUFFICES ASSUME NEW q \in Partitions, <<q, TRUE>> \notin failed'
             PROVE  Steady(q)'
  BY DEF AllSteady
<1>0. failed \subseteq failed'
  BY DEF Next, Follow, Commit, Publish, InterestLapses, TakesPage, RefusesPage, IgnoresPage,
         MissesPage, Hears, ReadsPage, ReadsBroken, Reads, ReadFails, AskAnswered,
         AskUnanswered, standby, vars
<1>1. Steady(q)
  BY <1>0 DEF AllSteady
<1>2. CASE UNCHANGED <<kept, at, chain, reading, refused>>
  <2>1. Frontier(q)' = Frontier(q)
    BY <1>2 DEF Frontier
  <2> QED
    BY <1>1, <1>2, <2>1, StaysSteady
<1>3. CASE TakesPage
  BY <1>1, <1>3, TakesPageSteady
<1>4. CASE RefusesPage
  BY <1>1, <1>4, RefusesPageSteady
<1>5. CASE MissesPage
  <2> DEFINE p == Page.partition
  <2>1. /\ Hears /\ UNCHANGED <<at, chain, begun, refused>>
        /\ reading' = [partition |-> p, after |-> at[p]]
    BY <1>5 DEF MissesPage
  <2>2. reading = NoRead /\ kept' = kept
    BY <2>1, HearsAPage DEF Hears
  <2> HIDE DEF p
  <2>3. Frontier(q)' = Frontier(q)
    <3>1. reading'.partition = p /\ reading'.after = at[p]
      BY <2>1
    <3> QED
      BY <2>1, <2>2, <3>1 DEF Frontier
  <2> QED
    BY <1>1, <2>1, <2>2, <2>3, StaysSteady
<1>6. CASE ReadsPage
  BY <1>1, <1>6, ReadsPageSteady
<1>7. CASE ReadsBroken
  BY <1>1, <1>7, ReadsBrokenSteady
<1>8. CASE ReadFails
  <2>1. /\ reading # NoRead /\ reading' = NoRead
        /\ failed' = failed \union {<<reading.partition,
                                     reading.after # at[reading.partition]>>}
        /\ UNCHANGED <<kept, at, chain, refused>>
    BY <1>8 DEF ReadFails
  <2>2. reading.partition = q => reading.after = at[q]
    <3> SUFFICES ASSUME reading.partition = q, reading.after # at[q]
                 PROVE  FALSE
      OBVIOUS
    <3>1. (reading.after # at[reading.partition]) = TRUE
      OBVIOUS
    <3>2. <<q, TRUE>> \in failed'
      BY <2>1, <3>1
    <3> QED
      BY <3>2
  <2>3. Frontier(q)' = Frontier(q)
    BY <2>1, <2>2 DEF Frontier
  <2> QED
    BY <1>1, <2>1, <2>3, StaysSteady
<1> QED
  BY <1>2, <1>3, <1>4, <1>5, <1>6, <1>7, <1>8
     DEF Next, Follow, Commit, Publish, InterestLapses, IgnoresPage, Hears, AskAnswered,
         AskUnanswered, standby, writer, vars

\* Whatever is lost, late, read in pages or broken, the first entry refused of
\* a partition no read of which failed part way is broken: `catch_up` leaves
\* the chain where the partition is followed to.
THEOREM IntactNeverRefused == Spec => []RefusedForTheBroken
<1>1. TailAssumption
  BY TailAssumption
<1>2. Init => AllSteady
  BY DEF Init, AllSteady, Steady, Frontier, NoRead
<1>3. TailInv /\ AllSteady /\ [Next]_vars => AllSteady'
  BY <1>1, AllSteadyStep
<1>4. AllSteady => RefusedForTheBroken
  BY DEF AllSteady, Steady, BrokenRefused, RefusedForTheBroken
<1> QED
  BY <1>2, <1>3, <1>4, TailInvHolds, PTL DEF Spec

=============================================================================

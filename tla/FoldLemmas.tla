----------------------------- MODULE FoldLemmas -----------------------------
(***************************************************************************)
(* Lemmas the other proofs need of recursive definitions: the sums the     *)
(* models take with the folds of the community modules, over any finite    *)
(* set of indices, and the flattening of a sequence of sequences; and of   *)
(* the least and greatest of a set of numbers.                             *)
(*                                                                         *)
(* The library's induction rules take a predicate as a parameter.  Here an *)
(* induction is by the smallest counterexample instead: the least number,  *)
(* or the smallest finite set, of those a claim fails for.                 *)
(***************************************************************************)
EXTENDS Integers, SequencesExt, FiniteSetTheorems, TLAPS

LEMMA LeastNumber ==
    ASSUME NEW N \in SUBSET Nat, N # {}
    PROVE  \E n \in N : \A m \in N : n <= m
<1>1. PICK n \in N : \A m \in N : ~ (<<m, n>> \in OpToRel(<, Nat))
  BY WFMin, NatLessThanWellFounded
<1>2. \A m \in N : ~ (m < n)
  BY <1>1 DEF OpToRel
<1> QED
  BY <1>2

LEMMA GreatestNumber ==
    ASSUME NEW N \in SUBSET Nat, N # {}, NEW b \in Nat, \A n \in N : n <= b
    PROVE  Max(N) \in N /\ \A n \in N : n <= Max(N)
<1> DEFINE Bounds == {k \in Nat : \A n \in N : n <= k}
<1>1. PICK k \in Bounds : \A j \in Bounds : k <= j
  <2>1. Bounds \in SUBSET Nat /\ b \in Bounds
    OBVIOUS
  <2> HIDE DEF Bounds
  <2> QED
    BY <2>1, LeastNumber
<1>2. k \in N
  <2> SUFFICES ASSUME k \notin N PROVE FALSE
    OBVIOUS
  <2>1. \A n \in N : n <= k - 1 /\ k - 1 \in Nat
    OBVIOUS
  <2>2. k - 1 \in Bounds
    BY <2>1
  <2> QED
    BY <1>1, <2>2
<1>3. k \in N /\ \A n \in N : k >= n
  BY <1>2
<1>4. Max(N) \in N /\ \A n \in N : Max(N) >= n
  BY <1>3, Zenon DEF Max
<1> QED
  BY <1>4

LEMMA LeastNumberIs ==
    ASSUME NEW N \in SUBSET Nat, N # {}
    PROVE  Min(N) \in N /\ \A n \in N : Min(N) <= n
<1>1. PICK k \in N : \A n \in N : k <= n
  BY LeastNumber
<1> QED
  BY <1>1, Zenon DEF Min

LEMMA SmallestSet ==
    ASSUME NEW S, IsFiniteSet(S), NEW F \in SUBSET SUBSET S, F # {}
    PROVE  \E T \in F : \A U \in F : U \subseteq T => U = T
<1>1. F \subseteq FiniteSubsetsOf(S)
  BY FS_FiniteSubsetsOfFinite
<1>2. PICK T \in F : \A U \in F : ~ (<<U, T>> \in StrictSubsetOrdering(S))
  BY <1>1, WFMin, FS_StrictSubsetOrderingWellFounded
<1> QED
  BY <1>2 DEF StrictSubsetOrdering

-----------------------------------------------------------------------------
(* Sums.                                                                   *)

\* The element a fold takes next, and what it makes of each set of indices.
Taken(s) == CHOOSE x \in s : TRUE

SumsOf(sum, f, S) ==
    sum = [s \in SUBSET S |-> IF s = {} THEN 0 ELSE f[Taken(s)] + sum[s \ {Taken(s)}]]

LEMMA TakenIsIn == ASSUME NEW s, s # {} PROVE Taken(s) \in s
BY DEF Taken

\* The recursion has a solution: one for the sets of at most n elements
\* extends to those of n + 1.
LEMMA SumsExist ==
    ASSUME NEW S, IsFiniteSet(S), NEW f
    PROVE  \E sum : SumsOf(sum, f, S)
<1> DEFINE Small(n)  == {s \in SUBSET S : Cardinality(s) <= n}
           Solved(n) == \E sum : sum = [s \in Small(n) |->
                            IF s = {} THEN 0 ELSE f[Taken(s)] + sum[s \ {Taken(s)}]]
<1>1. \A s \in SUBSET S : /\ IsFiniteSet(s) /\ Cardinality(s) \in Nat
                          /\ Cardinality(s) = 0 <=> s = {}
                          /\ Cardinality(s) <= Cardinality(S)
                          /\ s # {} => /\ s \ {Taken(s)} \in SUBSET S
                                       /\ Cardinality(s \ {Taken(s)}) = Cardinality(s) - 1
  BY FS_Subset, FS_CardinalityType, FS_EmptySet, FS_RemoveElement, TakenIsIn
<1>2. ASSUME NEW n \in Nat, ~ Solved(n), \A m \in Nat : ~ Solved(m) => n <= m
      PROVE  FALSE
  <2>1. CASE n = 0
    <3> DEFINE sum == [s \in Small(0) |-> 0]
    <3>1. ASSUME NEW s \in Small(0)
          PROVE  s = {}
      <4>1. Cardinality(s) \in Nat /\ Cardinality(s) <= 0
        BY <1>1
      <4>2. Cardinality(s) = 0
        BY <4>1
      <4> QED
        BY <4>2, FS_Subset, FS_EmptySet
    <3>2. sum = [s \in Small(0) |-> IF s = {} THEN 0 ELSE f[Taken(s)] + sum[s \ {Taken(s)}]]
      BY <3>1
    <3>3. Solved(0)
      BY <3>2
    <3> HIDE DEF Solved
    <3> QED
      BY <1>2, <2>1, <3>3
  <2>2. CASE n # 0
    <3>1. Solved(n - 1)
      <4> HIDE DEF Solved
      <4>1. n - 1 \in Nat /\ ~ (n <= n - 1)
        BY <2>2
      <4> QED BY <1>2, <4>1
    <3>2. PICK less : less = [s \in Small(n - 1) |->
                IF s = {} THEN 0 ELSE f[Taken(s)] + less[s \ {Taken(s)}]]
      BY <3>1
    <3> DEFINE sum == [s \in Small(n) |-> IF s = {} THEN 0
                                          ELSE f[Taken(s)] + less[s \ {Taken(s)}]]
    <3>3. ASSUME NEW s \in Small(n), s # {}
          PROVE  sum[s \ {Taken(s)}] = less[s \ {Taken(s)}]
      <4> DEFINE r == s \ {Taken(s)}
      <4>1. r \in Small(n) /\ r \in Small(n - 1)
        BY <1>1, <3>3
      <4>2. less[r] = IF r = {} THEN 0 ELSE f[Taken(r)] + less[r \ {Taken(r)}]
        BY <3>2, <4>1
      <4> QED
        BY <4>1, <4>2
    <3>4. sum = [s \in Small(n) |-> IF s = {} THEN 0 ELSE f[Taken(s)] + sum[s \ {Taken(s)}]]
      BY <3>3
    <3>5. Solved(n)
      <4> HIDE DEF sum
      <4> QED BY <3>4
    <3> HIDE DEF Solved
    <3> QED
      BY <1>2, <3>5
  <2> QED
    BY <2>1, <2>2
<1>3. Solved(Cardinality(S))
  <2> DEFINE Unsolved == {n \in Nat : ~ Solved(n)}
  <2> HIDE DEF Solved
  <2>1. Cardinality(S) \notin Unsolved
    BY <1>2, LeastNumber
  <2> QED
    BY <2>1, FS_CardinalityType
<1>4. Small(Cardinality(S)) = SUBSET S
  BY <1>1
<1> QED
  BY <1>3, <1>4 DEF SumsOf

\* Two solutions agree where the summed functions do.
LEMMA SumsAgree ==
    ASSUME NEW S, NEW T, IsFiniteSet(T), T \subseteq S,
           NEW f, NEW g, \A x \in T : f[x] = g[x],
           NEW sum, SumsOf(sum, f, S), NEW tum, SumsOf(tum, g, T)
    PROVE  sum[T] = tum[T]
<1> DEFINE Apart == {s \in SUBSET T : sum[s] # tum[s]}
<1>1. ASSUME NEW s \in Apart, \A r \in Apart : r \subseteq s => r = s
      PROVE  FALSE
  <2>1. sum[s] = IF s = {} THEN 0 ELSE f[Taken(s)] + sum[s \ {Taken(s)}]
    BY DEF SumsOf
  <2>2. tum[s] = IF s = {} THEN 0 ELSE g[Taken(s)] + tum[s \ {Taken(s)}]
    BY DEF SumsOf
  <2>3. s # {}
    BY <2>1, <2>2
  <2>4. s \ {Taken(s)} \in SUBSET T /\ s \ {Taken(s)} # s /\ Taken(s) \in T
    BY <2>3, TakenIsIn
  <2>5. sum[s \ {Taken(s)}] = tum[s \ {Taken(s)}]
    BY <1>1, <2>4
  <2> QED
    BY <2>1, <2>2, <2>3, <2>4, <2>5
<1>2. Apart \in SUBSET SUBSET T
  OBVIOUS
<1> HIDE DEF Apart
<1>3. Apart = {}
  BY <1>1, <1>2, SmallestSet
<1> QED
  BY <1>3 DEF Apart

LEMMA SumIsOf ==
    ASSUME NEW S, IsFiniteSet(S), NEW f
    PROVE  \E sum : SumsOf(sum, f, S) /\ SumFunctionOnSet(f, S) = sum[S]
<1> DEFINE sum == CHOOSE iter : SumsOf(iter, f, S)
<1>1. SumFunctionOnSet(f, S) = sum[S]
  BY DEF SumFunctionOnSet, FoldFunctionOnSet, MapThenFoldSet, SumsOf, Taken
<1>2. SumsOf(sum, f, S)
  BY SumsExist
<1> QED
  BY <1>1, <1>2

LEMMA SumEmpty == ASSUME NEW f PROVE SumFunctionOnSet(f, {}) = 0
BY SumIsOf, FS_EmptySet DEF SumsOf

\* A sum is of the values at its indices, and of nothing else.
LEMMA SumSame ==
    ASSUME NEW S, IsFiniteSet(S), NEW f, NEW g, \A x \in S : f[x] = g[x]
    PROVE  SumFunctionOnSet(f, S) = SumFunctionOnSet(g, S)
BY SumIsOf, SumsAgree

LEMMA SumTaken ==
    ASSUME NEW S, IsFiniteSet(S), S # {}, NEW f
    PROVE  SumFunctionOnSet(f, S) = f[Taken(S)] + SumFunctionOnSet(f, S \ {Taken(S)})
<1> DEFINE T == S \ {Taken(S)}
<1>1. PICK sum : SumsOf(sum, f, S) /\ SumFunctionOnSet(f, S) = sum[S]
  BY SumIsOf
<1>2. PICK tum : SumsOf(tum, f, T) /\ SumFunctionOnSet(f, T) = tum[T]
  BY SumIsOf, FS_RemoveElement
<1>3. sum[T] = tum[T]
  BY <1>1, <1>2, SumsAgree, FS_RemoveElement
<1>4. sum[S] = f[Taken(S)] + sum[T]
  BY <1>1 DEF SumsOf
<1> QED
  BY <1>1, <1>2, <1>3, <1>4

LEMMA SumInt ==
    ASSUME NEW S, IsFiniteSet(S), NEW f, \A x \in S : f[x] \in Int
    PROVE  SumFunctionOnSet(f, S) \in Int
<1> DEFINE Bad == {T \in SUBSET S : SumFunctionOnSet(f, T) \notin Int}
<1>1. ASSUME NEW T \in Bad, \A U \in Bad : U \subseteq T => U = T
      PROVE  FALSE
  <2>0. T # {}
    <3>1. SumFunctionOnSet(f, {}) = 0
      BY SumEmpty
    <3> QED
      BY <3>1
  <2>1. T # {} /\ IsFiniteSet(T)
    BY <2>0, FS_Subset
  <2>2. Taken(T) \in T /\ T \ {Taken(T)} \notin Bad /\ T \ {Taken(T)} \in SUBSET S
    BY <1>1, <2>1, TakenIsIn
  <2>3. SumFunctionOnSet(f, T) = f[Taken(T)] + SumFunctionOnSet(f, T \ {Taken(T)})
    BY <2>1, SumTaken
  <2> QED
    BY <2>2, <2>3
<1>2. Bad \in SUBSET SUBSET S
  OBVIOUS
<1> HIDE DEF Bad
<1>3. Bad = {}
  BY <1>1, <1>2, SmallestSet
<1> QED
  BY <1>3 DEF Bad

\* Any element may be taken first.
LEMMA SumWithout ==
    ASSUME NEW S, IsFiniteSet(S), NEW f, \A x \in S : f[x] \in Int, NEW a \in S
    PROVE  SumFunctionOnSet(f, S) = f[a] + SumFunctionOnSet(f, S \ {a})
<1> DEFINE Sum(T) == SumFunctionOnSet(f, T)
           Bad    == {T \in SUBSET S : \E x \in T : Sum(T) # f[x] + Sum(T \ {x})}
<1>1. ASSUME NEW T \in Bad, \A U \in Bad : U \subseteq T => U = T
      PROVE  FALSE
  <2>0. PICK c \in T : Sum(T) # f[c] + Sum(T \ {c})
    OBVIOUS
  <2> DEFINE b == Taken(T)
             U == T \ {b}
             V == T \ {c}
             W == T \ {b, c}
  <2>1. T # {} /\ IsFiniteSet(T) /\ T \in SUBSET S /\ b \in T
    BY FS_Subset, TakenIsIn
  <2>2. Sum(T) = f[b] + Sum(U)
    BY <2>1, SumTaken
  <2>3. b # c
    BY <2>0, <2>2
  <2> HIDE DEF Sum, b
  <2>4. Sum(U) = f[c] + Sum(W)
    <3>1. U \ {c} = W /\ c \in U /\ U \notin Bad /\ U \in SUBSET S
      BY <1>1, <2>1, <2>3
    <3> QED BY <3>1
  <2>5. Sum(V) = f[b] + Sum(W)
    <3>1. V \ {b} = W /\ b \in V /\ V \notin Bad /\ V \in SUBSET S
      BY <1>1, <2>1, <2>3
    <3> QED BY <3>1
  <2>6. Sum(W) \in Int /\ f[b] \in Int /\ f[c] \in Int
    <3>1. IsFiniteSet(W) /\ W \in SUBSET S
      BY <2>1, FS_Subset
    <3> QED BY <2>1, <3>1, SumInt DEF Sum
  <2> QED
    BY <2>0, <2>2, <2>4, <2>5, <2>6
<1>2. Bad \in SUBSET SUBSET S
  OBVIOUS
<1> HIDE DEF Bad
<1>3. Bad = {}
  BY <1>1, <1>2, SmallestSet
<1> QED
  BY <1>3 DEF Bad

LEMMA SumAdded ==
    ASSUME NEW S, IsFiniteSet(S), NEW a, a \notin S,
           NEW f, \A x \in S \union {a} : f[x] \in Int
    PROVE  SumFunctionOnSet(f, S \union {a}) = f[a] + SumFunctionOnSet(f, S)
<1>1. IsFiniteSet(S \union {a}) /\ (S \union {a}) \ {a} = S
  BY FS_AddElement
<1> QED
  BY <1>1, SumWithout

\* Indices whose values are 0 may be left out.
LEMMA SumOfPart ==
    ASSUME NEW S, IsFiniteSet(S), NEW T \in SUBSET S,
           NEW f, \A x \in S : f[x] \in Int, \A x \in S \ T : f[x] = 0
    PROVE  SumFunctionOnSet(f, S) = SumFunctionOnSet(f, T)
<1> DEFINE Bad == {U \in SUBSET S : T \subseteq U
                      /\ SumFunctionOnSet(f, U) # SumFunctionOnSet(f, T)}
<1>1. ASSUME NEW U \in Bad, \A V \in Bad : V \subseteq U => V = U
      PROVE  FALSE
  <2>1. PICK a \in U : a \notin T
    OBVIOUS
  <2>2. U \ {a} \notin Bad /\ U \ {a} \in SUBSET S /\ T \subseteq U \ {a}
    BY <1>1, <2>1
  <2>3. SumFunctionOnSet(f, U) = f[a] + SumFunctionOnSet(f, U \ {a})
    BY FS_Subset, SumWithout
  <2>4. SumFunctionOnSet(f, U \ {a}) \in Int /\ f[a] = 0
    BY <2>1, FS_Subset, SumInt
  <2> QED
    BY <2>2, <2>3, <2>4
<1>2. Bad \in SUBSET SUBSET S
  OBVIOUS
<1> HIDE DEF Bad
<1>3. Bad = {}
  BY <1>1, <1>2, SmallestSet
<1> QED
  BY <1>3 DEF Bad

LEMMA SumNat ==
    ASSUME NEW S, IsFiniteSet(S), NEW f, \A x \in S : f[x] \in Nat
    PROVE  SumFunctionOnSet(f, S) \in Nat
<1> DEFINE Bad == {T \in SUBSET S : SumFunctionOnSet(f, T) \notin Nat}
<1>1. ASSUME NEW T \in Bad, \A U \in Bad : U \subseteq T => U = T
      PROVE  FALSE
  <2>0. T # {}
    <3>1. SumFunctionOnSet(f, {}) = 0
      BY SumEmpty
    <3> QED
      BY <3>1
  <2>1. T # {} /\ IsFiniteSet(T)
    BY <2>0, FS_Subset
  <2>2. Taken(T) \in T /\ T \ {Taken(T)} \notin Bad /\ T \ {Taken(T)} \in SUBSET S
    BY <1>1, <2>1, TakenIsIn
  <2>3. SumFunctionOnSet(f, T) = f[Taken(T)] + SumFunctionOnSet(f, T \ {Taken(T)})
    BY <2>1, SumTaken
  <2> QED
    BY <2>2, <2>3
<1>2. Bad \in SUBSET SUBSET S
  OBVIOUS
<1> HIDE DEF Bad
<1>3. Bad = {}
  BY <1>1, <1>2, SmallestSet
<1> QED
  BY <1>3 DEF Bad

\* The difference of two sums is the sum of the differences.
LEMMA SumDifference ==
    ASSUME NEW S, IsFiniteSet(S), NEW f, NEW g, NEW h,
           \A x \in S : f[x] \in Int /\ g[x] \in Int /\ h[x] = f[x] - g[x]
    PROVE  SumFunctionOnSet(h, S) = SumFunctionOnSet(f, S) - SumFunctionOnSet(g, S)
<1> DEFINE Bad == {T \in SUBSET S : SumFunctionOnSet(h, T)
                      # SumFunctionOnSet(f, T) - SumFunctionOnSet(g, T)}
<1>1. ASSUME NEW T \in Bad, \A U \in Bad : U \subseteq T => U = T
      PROVE  FALSE
  <2> DEFINE a == Taken(T)
             U == T \ {a}
  <2>0. T # {}
    <3>1. /\ SumFunctionOnSet(f, {}) = 0 /\ SumFunctionOnSet(g, {}) = 0
          /\ SumFunctionOnSet(h, {}) = 0
      BY SumEmpty
    <3> QED
      BY <3>1
  <2>1. T # {} /\ IsFiniteSet(T) /\ IsFiniteSet(U)
    <3>1. T \in SUBSET S /\ U \in SUBSET S
      OBVIOUS
    <3> QED
      BY <2>0, <3>1, FS_Subset
  <2>2. a \in T /\ U \notin Bad /\ U \in SUBSET S
    BY <1>1, <2>1, TakenIsIn
  <2>3. /\ SumFunctionOnSet(f, T) = f[a] + SumFunctionOnSet(f, U)
        /\ SumFunctionOnSet(g, T) = g[a] + SumFunctionOnSet(g, U)
        /\ SumFunctionOnSet(h, T) = h[a] + SumFunctionOnSet(h, U)
    BY <2>1, SumTaken
  <2>4. SumFunctionOnSet(f, U) \in Int /\ SumFunctionOnSet(g, U) \in Int
    BY <2>1, <2>2, SumInt
  <2>5. SumFunctionOnSet(h, U) = SumFunctionOnSet(f, U) - SumFunctionOnSet(g, U)
    BY <2>2
  <2>6. f[a] \in Int /\ g[a] \in Int /\ h[a] = f[a] - g[a]
    BY <2>2
  <2> HIDE DEF a, U
  <2> QED
    BY <2>3, <2>4, <2>5, <2>6
<1>2. Bad \in SUBSET SUBSET S
  OBVIOUS
<1> HIDE DEF Bad
<1>3. Bad = {}
  BY <1>1, <1>2, SmallestSet
<1> QED
  BY <1>3 DEF Bad

LEMMA SumSplit ==
    ASSUME NEW S, IsFiniteSet(S), NEW T \in SUBSET S,
           NEW f, \A x \in S : f[x] \in Int
    PROVE  SumFunctionOnSet(f, S) = SumFunctionOnSet(f, T) + SumFunctionOnSet(f, S \ T)
<1> DEFINE g == [x \in S |-> IF x \in T THEN f[x] ELSE 0]
           h == [x \in S |-> IF x \in T THEN 0 ELSE f[x]]
<1>1. IsFiniteSet(T) /\ IsFiniteSet(S \ T) /\ S \ T \in SUBSET S
  BY FS_Subset
<1>2. \A x \in S : /\ g[x] \in Int /\ h[x] \in Int /\ h[x] = f[x] - g[x]
                   /\ IF x \in T THEN g[x] = f[x] /\ h[x] = 0 ELSE g[x] = 0 /\ h[x] = f[x]
  OBVIOUS
<1> HIDE DEF g, h
<1>3. SumFunctionOnSet(h, S) = SumFunctionOnSet(f, S) - SumFunctionOnSet(g, S)
  BY <1>2, SumDifference
<1>4. SumFunctionOnSet(g, S) = SumFunctionOnSet(f, T)
  <2>1. SumFunctionOnSet(g, S) = SumFunctionOnSet(g, T)
    BY <1>2, SumOfPart
  <2>2. SumFunctionOnSet(g, T) = SumFunctionOnSet(f, T)
    BY <1>1, <1>2, SumSame
  <2> QED
    BY <2>1, <2>2
<1>5. SumFunctionOnSet(h, S) = SumFunctionOnSet(f, S \ T)
  <2>1. SumFunctionOnSet(h, S) = SumFunctionOnSet(h, S \ T)
    BY <1>1, <1>2, SumOfPart
  <2>2. SumFunctionOnSet(h, S \ T) = SumFunctionOnSet(f, S \ T)
    BY <1>1, <1>2, SumSame
  <2> QED
    BY <2>1, <2>2
<1>6. SumFunctionOnSet(f, S) \in Int /\ SumFunctionOnSet(f, T) \in Int
  BY <1>1, SumInt
<1> QED
  BY <1>3, <1>4, <1>5, <1>6

-----------------------------------------------------------------------------
(* Recursions over numbered nodes whose parts are numbered after them: a   *)
(* solution for the last k nodes extends to those of the last k + 1.       *)

SumsUp(sum, n, own, kids) ==
    sum = [o \in 1 .. n |-> own[o] + SumFunctionOnSet(sum, kids[o])]

HoldsUp(holds, n, own, kids) ==
    holds = [o \in 1 .. n |-> o \in own /\ \A c \in kids[o] : holds[c]]

LEMMA SumsUpExist ==
    ASSUME NEW n \in Nat, NEW kids, NEW own,
           \A o \in 1 .. n : kids[o] \subseteq o + 1 .. n
    PROVE  \E sum : SumsUp(sum, n, own, kids)
<1> DEFINE Tops(k)   == {o \in 1 .. n : o > n - k}
           Solved(k) == \E sum : sum = [o \in Tops(k) |->
                                          own[o] + SumFunctionOnSet(sum, kids[o])]
<1>1. Solved(0)
  <2>1. Tops(0) = {}
    OBVIOUS
  <2> DEFINE sum == [o \in Tops(0) |-> 0]
  <2>2. sum = [o \in Tops(0) |-> own[o] + SumFunctionOnSet(sum, kids[o])]
    BY <2>1
  <2> QED
    BY <2>2
<1>2. ASSUME NEW k \in Nat, Solved(k)
      PROVE  Solved(k + 1)
  <2>1. PICK less : less = [o \in Tops(k) |-> own[o] + SumFunctionOnSet(less, kids[o])]
    BY <1>2
  <2> DEFINE sum == [o \in Tops(k + 1) |-> own[o] + SumFunctionOnSet(less, kids[o])]
  <2>2. ASSUME NEW o \in Tops(k + 1)
        PROVE  SumFunctionOnSet(less, kids[o]) = SumFunctionOnSet(sum, kids[o])
    <3>1. IsFiniteSet(kids[o]) /\ kids[o] \subseteq Tops(k) /\ kids[o] \subseteq Tops(k + 1)
      <4>1. o \in 1 .. n /\ kids[o] \subseteq o + 1 .. n /\ IsFiniteSet(o + 1 .. n)
        BY FS_Interval
      <4> QED
        BY <4>1, FS_Subset
    <3>2. \A c \in kids[o] : less[c] = own[c] + SumFunctionOnSet(less, kids[c])
      BY <2>1, <3>1
    <3>3. \A c \in kids[o] : sum[c] = own[c] + SumFunctionOnSet(less, kids[c])
      BY <3>1
    <3>4. \A c \in kids[o] : less[c] = sum[c]
      BY <3>2, <3>3
    <3> HIDE DEF sum
    <3> QED
      BY <3>1, <3>4, SumSame
  <2>3. sum = [o \in Tops(k + 1) |-> own[o] + SumFunctionOnSet(sum, kids[o])]
    BY <2>2
  <2> HIDE DEF sum
  <2> QED
    BY <2>3
<1> HIDE DEF Solved
<1>3. Solved(n)
  <2> DEFINE Unsolved == {k \in Nat : ~ Solved(k)}
  <2>1. ASSUME NEW k \in Unsolved, \A m \in Unsolved : k <= m
        PROVE  FALSE
    <3>1. k # 0 /\ k - 1 \in Nat /\ ~ (k <= k - 1)
      BY <1>1
    <3>2. Solved(k - 1)
      BY <2>1, <3>1
    <3> QED
      BY <1>2, <3>1, <3>2
  <2>2. n \notin Unsolved
    BY <2>1, LeastNumber
  <2> QED
    BY <2>2
<1>4. Tops(n) = 1 .. n
  OBVIOUS
<1> QED
  BY <1>3, <1>4 DEF Solved, SumsUp

LEMMA HoldsUpExist ==
    ASSUME NEW n \in Nat, NEW kids, NEW own,
           \A o \in 1 .. n : kids[o] \subseteq o + 1 .. n
    PROVE  \E holds : HoldsUp(holds, n, own, kids)
<1> DEFINE Tops(k)   == {o \in 1 .. n : o > n - k}
           Solved(k) == \E holds : holds = [o \in Tops(k) |->
                                          o \in own /\ \A c \in kids[o] : holds[c]]
<1>1. Solved(0)
  <2>1. Tops(0) = {}
    OBVIOUS
  <2> DEFINE holds == [o \in Tops(0) |-> TRUE]
  <2>2. holds = [o \in Tops(0) |-> o \in own /\ \A c \in kids[o] : holds[c]]
    BY <2>1
  <2> QED
    BY <2>2
<1>2. ASSUME NEW k \in Nat, Solved(k)
      PROVE  Solved(k + 1)
  <2>1. PICK less : less = [o \in Tops(k) |-> o \in own /\ \A c \in kids[o] : less[c]]
    BY <1>2
  <2> DEFINE holds == [o \in Tops(k + 1) |-> o \in own /\ \A c \in kids[o] : less[c]]
  <2>2. ASSUME NEW o \in Tops(k + 1)
        PROVE  \A c \in kids[o] : less[c] = holds[c]
    <3>1. kids[o] \subseteq Tops(k) /\ kids[o] \subseteq Tops(k + 1)
      OBVIOUS
    <3>2. \A c \in kids[o] : less[c] = (c \in own /\ \A d \in kids[c] : less[d])
      BY <2>1, <3>1
    <3>3. \A c \in kids[o] : holds[c] = (c \in own /\ \A d \in kids[c] : less[d])
      BY <3>1
    <3> QED
      BY <3>2, <3>3
  <2>3. holds = [o \in Tops(k + 1) |-> o \in own /\ \A c \in kids[o] : holds[c]]
    <3>1. \A o \in Tops(k + 1) : (\A c \in kids[o] : less[c]) = (\A c \in kids[o] : holds[c])
      <4> HIDE DEF holds
      <4> QED
        BY <2>2
    <3> QED
      BY <3>1
  <2> HIDE DEF holds
  <2> QED
    BY <2>3
<1> HIDE DEF Solved
<1>3. Solved(n)
  <2> DEFINE Unsolved == {k \in Nat : ~ Solved(k)}
  <2>1. ASSUME NEW k \in Unsolved, \A m \in Unsolved : k <= m
        PROVE  FALSE
    <3>1. k # 0 /\ k - 1 \in Nat /\ ~ (k <= k - 1)
      BY <1>1
    <3>2. Solved(k - 1)
      BY <2>1, <3>1
    <3> QED
      BY <1>2, <3>1, <3>2
  <2>2. n \notin Unsolved
    BY <2>1, LeastNumber
  <2> QED
    BY <2>2
<1>4. Tops(n) = 1 .. n
  OBVIOUS
<1> QED
  BY <1>3, <1>4 DEF Solved, HoldsUp

-----------------------------------------------------------------------------
(* A sequence of sequences, flattened.                                      *)

\* What FlattenSeq flattens to: each sequence after those before it.
Flattens(flat, n, s) ==
    flat = [i \in 1 .. n |-> IF i = 1 THEN s[i] ELSE flat[i - 1] \o s[i]]

LEMMA FlatExists ==
    ASSUME NEW n \in Nat, NEW s
    PROVE  \E flat : Flattens(flat, n, s)
<1> DEFINE Unsolved == {k \in Nat : ~ \E flat : Flattens(flat, k, s)}
<1>1. ASSUME NEW k \in Unsolved, \A m \in Unsolved : k <= m
      PROVE  FALSE
  <2>1. CASE k = 0
    <3> DEFINE flat == [i \in 1 .. 0 |-> s[i]]
    <3>1. flat = [i \in 1 .. k |-> IF i = 1 THEN s[i] ELSE flat[i - 1] \o s[i]]
      BY <2>1
    <3> QED
      BY <3>1 DEF Flattens
  <2>2. CASE k # 0
    <3>1. k - 1 \in Nat /\ ~ (k <= k - 1)
      BY <2>2
    <3>2. PICK less : Flattens(less, k - 1, s)
      BY <1>1, <3>1
    <3>3. less = [i \in 1 .. k - 1 |-> IF i = 1 THEN s[i] ELSE less[i - 1] \o s[i]]
      BY <3>2 DEF Flattens
    <3> DEFINE flat == [i \in 1 .. k |-> IF i = 1 THEN s[i] ELSE less[i - 1] \o s[i]]
    <3>4. ASSUME NEW i \in 1 .. k - 1
          PROVE  flat[i] = less[i]
      <4>1. less[i] = IF i = 1 THEN s[i] ELSE less[i - 1] \o s[i]
        BY <3>3
      <4>2. i \in 1 .. k
        BY <3>1
      <4> QED
        BY <4>1, <4>2
    <3>5. \A i \in 1 .. k : i # 1 => i - 1 \in 1 .. k - 1
      BY <3>1
    <3>6. \A i \in 1 .. k : i # 1 => less[i - 1] = flat[i - 1]
      <4> HIDE DEF flat
      <4> QED
        BY <3>4, <3>5
    <3>7. flat = [i \in 1 .. k |-> IF i = 1 THEN s[i] ELSE flat[i - 1] \o s[i]]
      BY <3>6
    <3> HIDE DEF flat
    <3> QED
      BY <3>7 DEF Flattens
  <2> QED
    BY <2>1, <2>2
<1>2. n \notin Unsolved
  <2>1. Unsolved \in SUBSET Nat
    OBVIOUS
  <2> HIDE DEF Unsolved
  <2> QED
    BY <1>1, <2>1, LeastNumber
<1> QED
  BY <1>2

LEMMA FlattenIs ==
    ASSUME NEW n \in Nat \ {0}, NEW s, Len(s) = n
    PROVE  \E flat : Flattens(flat, n, s) /\ FlattenSeq(s) = flat[n]
<1> DEFINE Solves(flat) == flat = [i \in 1 .. Len(s) |->
                              IF i = 1 THEN s[i] ELSE flat[i - 1] \o s[i]]
           flatten == CHOOSE flat : Solves(flat)
<1>1. FlattenSeq(s) = IF Len(s) = 0 THEN s ELSE flatten[Len(s)]
  BY Zenon DEF FlattenSeq
<1>2. PICK flat : Flattens(flat, n, s)
  BY FlatExists
<1>3. Solves(flat)
  BY <1>2 DEF Flattens
<1>4. Solves(flatten)
  <2> HIDE DEF Solves
  <2> QED
    BY <1>3
<1>5. Flattens(flatten, n, s)
  BY <1>4 DEF Flattens
<1> HIDE DEF flatten
<1> QED
  BY <1>1, <1>5

\* Flattened, a sequence more comes after those there are.
LEMMA FlattenMore ==
    ASSUME NEW S, NEW n \in Nat, NEW s \in [1 .. n -> Seq(S)],
           NEW t \in [1 .. n + 1 -> Seq(S)], \A i \in 1 .. n : t[i] = s[i]
    PROVE  FlattenSeq(s) \in Seq(S) /\ FlattenSeq(t) = FlattenSeq(s) \o t[n + 1]
<1>1. s \in Seq(Seq(S)) /\ t \in Seq(Seq(S)) /\ Len(s) = n /\ Len(t) = n + 1
  OBVIOUS
<1>2. PICK tf : Flattens(tf, n + 1, t) /\ FlattenSeq(t) = tf[n + 1]
  BY <1>1, FlattenIs
<1>3. \A i \in 1 .. n + 1 : tf[i] = IF i = 1 THEN t[i] ELSE tf[i - 1] \o t[i]
  BY <1>2 DEF Flattens
<1>4. CASE n = 0
  <2>1. s = <<>>
    BY <1>1, <1>4
  <2>2. FlattenSeq(s) = <<>>
    BY <2>1 DEF FlattenSeq
  <2>3. FlattenSeq(t) = t[n + 1] /\ t[n + 1] \in Seq(S)
    BY <1>2, <1>3, <1>4
  <2> QED
    BY <2>2, <2>3
<1>5. CASE n # 0
  <2>1. PICK sf : Flattens(sf, n, s) /\ FlattenSeq(s) = sf[n]
    BY <1>1, <1>5, FlattenIs
  <2>2. \A i \in 1 .. n : sf[i] = IF i = 1 THEN s[i] ELSE sf[i - 1] \o s[i]
    BY <2>1 DEF Flattens
  <2> DEFINE Apart == {i \in 1 .. n : ~ (sf[i] \in Seq(S) /\ tf[i] = sf[i])}
  <2>3. ASSUME NEW i \in Apart, \A j \in Apart : i <= j
        PROVE  FALSE
    <3>1. CASE i = 1
      <4>1. sf[1] = s[1] /\ tf[1] = t[1] /\ s[1] = t[1] /\ s[1] \in Seq(S)
        BY <1>3, <1>5, <2>2
      <4> QED
        BY <2>3, <3>1, <4>1
    <3>2. CASE i # 1
      <4>1. i - 1 \in 1 .. n /\ ~ (i <= i - 1)
        BY <3>2
      <4>2. sf[i - 1] \in Seq(S) /\ tf[i - 1] = sf[i - 1]
        BY <2>3, <4>1
      <4>3. sf[i] = sf[i - 1] \o s[i] /\ tf[i] = tf[i - 1] \o t[i] /\ s[i] \in Seq(S)
        <5>1. i \in 1 .. n /\ i \in 1 .. n + 1
          OBVIOUS
        <5> QED
          BY <1>3, <2>2, <3>2, <5>1, Zenon
      <4>4. s[i] = t[i] /\ sf[i] \in Seq(S)
        BY <4>2, <4>3
      <4> QED
        BY <2>3, <4>2, <4>3, <4>4
    <3> QED
      BY <3>1, <3>2
  <2>4. Apart = {}
    <3>1. Apart \in SUBSET Nat
      OBVIOUS
    <3> HIDE DEF Apart
    <3> QED
      BY <2>3, <3>1, LeastNumber
  <2>5. n \in 1 .. n
    BY <1>5
  <2>6. sf[n] \in Seq(S) /\ tf[n] = sf[n]
    BY <2>4, <2>5
  <2>7. tf[n + 1] = tf[n] \o t[n + 1]
    <3>1. n + 1 \in 1 .. n + 1 /\ n + 1 # 1 /\ (n + 1) - 1 = n
      BY <1>5
    <3>2. tf[n + 1] = tf[(n + 1) - 1] \o t[n + 1]
      BY <1>3, <3>1, Zenon
    <3> QED
      BY <3>1, <3>2
  <2> QED
    BY <1>2, <2>1, <2>6, <2>7
<1> QED
  BY <1>4, <1>5

LEMMA RangeOfBoth ==
    ASSUME NEW S, NEW before \in Seq(S), NEW rows \in Seq(S)
    PROVE  Range(before \o rows) = Range(before) \union Range(rows)
<1> DEFINE l == Len(before)
           k == Len(rows)
           both == before \o rows
<1>1. /\ l \in Nat /\ k \in Nat /\ DOMAIN before = 1 .. l /\ DOMAIN rows = 1 .. k
      /\ DOMAIN both = 1 .. l + k
      /\ \A i \in 1 .. l : both[i] = before[i]
      /\ \A i \in l + 1 .. l + k : both[i] = rows[i - l]
  OBVIOUS
<1> HIDE DEF l, k, both
<1>2. ASSUME NEW i \in 1 .. l + k
      PROVE  both[i] \in Range(before) \union Range(rows)
  <2>1. CASE i <= l
    BY <1>1, <2>1 DEF Range
  <2>2. CASE i > l
    <3>1. i \in l + 1 .. l + k /\ i - l \in 1 .. k
      BY <1>1, <2>2
    <3> QED
      BY <1>1, <3>1 DEF Range
  <2> QED
    BY <1>1, <2>1, <2>2
<1>3. ASSUME NEW i \in 1 .. l PROVE before[i] \in Range(both)
  <2>1. i \in 1 .. l + k
    BY <1>1
  <2> QED
    BY <1>1, <2>1 DEF Range
<1>4. ASSUME NEW i \in 1 .. k PROVE rows[i] \in Range(both)
  <2>1. i + l \in 1 .. l + k /\ i + l \in l + 1 .. l + k /\ (i + l) - l = i
    BY <1>1
  <2>2. both[i + l] = rows[i]
    BY <1>1, <2>1
  <2> QED
    BY <1>1, <2>1, <2>2 DEF Range
<1>5. Range(both) = Range(before) \union Range(rows)
  BY <1>1, <1>2, <1>3, <1>4 DEF Range
<1> QED
  BY <1>5 DEF both

=============================================================================

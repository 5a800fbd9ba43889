--------------------------- MODULE BookStoreProofs ---------------------------
(***************************************************************************)
(* Theorems of BookStore, for any set of members, threads, accounts,       *)
(* partitions and commands and any bounds.                                 *)
(***************************************************************************)
EXTENDS BookStore, TLAPS

-----------------------------------------------------------------------------
(* The inductive invariant, a part at a time.                              *)

\* Only a member with a lease takes over; only a writer's thread is in a call.
Roles ==
    /\ \A m \in Members : mode[m] = "taking" => m \in Leased
    /\ \A t \in Threads : phase[t] # "idle" =>
        asked[t] \in Commands /\ mode[t[1]] = "writer"

Typed == TypeOK /\ Roles

\* A partition's lock is held by the one thread deciding there, and the head
\* it read stays as it was for as long as it decides.
Locked ==
    /\ \A t \in Threads : phase[t] = "deciding" =>
        /\ lock[PartitionOf(asked[t])] = t
        /\ head[t] = sequence[PartitionOf(asked[t])]
        /\ fence[t[1]] = epoch[PartitionOf(asked[t])]
    /\ \A p \in Partitions : lock[p] # None =>
        phase[lock[p]] = "deciding" /\ PartitionOf(asked[lock[p]]) = p

\* Every epoch above the first was raised on all partitions together by the
\* takeover recorded under it, and a writer's own is one of them.
Raised ==
    /\ \A p \in Partitions : epoch[p] = epoch[Control]
    /\ epoch[Control] >= 1
    /\ \A e \in Nat : EpochTaken(e) <=> e \in 2 .. epoch[Control]
    /\ \A t, u \in tookOver : t.epoch = u.epoch => t = u
    /\ \A m \in Members : mode[m] = "taking" => snap[m] \in 1 .. epoch[Control]
    /\ \A m \in Members : mode[m] = "writer" => fence[m] \in 1 .. epoch[Control]
    /\ \A m \in Leased : mode[m] = "writer" =>
        [epoch |-> fence[m], member |-> m] \in tookOver

\* Every entry was made under an epoch in force then, by a member that, where
\* it has a lease, had raised it.
Written ==
    \A p \in Partitions : \A i \in 1 .. Len(journal[p]) :
        /\ journal[p][i].epoch <= epoch[Control]
        /\ journal[p][i].by \in Leased =>
            [epoch |-> journal[p][i].epoch, member |-> journal[p][i].by] \in tookOver

-----------------------------------------------------------------------------

\* An entry's name is a partition and a place in its journal.
LEMMA EntryIdsAre ==
    ASSUME TypeOK
    PROVE  /\ EntryIds \subseteq Partitions \X Nat
           /\ \A p, i : <<p, i>> \in EntryIds <=> p \in Partitions /\ i \in 1 .. Len(journal[p])
           /\ \A id \in EntryIds : id = <<id[1], id[2]>>
<1>1. \A p \in Partitions : DOMAIN journal[p] = 1 .. Len(journal[p]) /\ Len(journal[p]) \in Nat
  BY DEF TypeOK
<1>2. \A id \in EntryIds : \E p \in Partitions : id \in {p} \X (1 .. Len(journal[p]))
  BY <1>1 DEF EntryIds
<1>3. \A p \in Partitions : \A i \in 1 .. Len(journal[p]) : <<p, i>> \in EntryIds
  BY <1>1 DEF EntryIds
<1> QED
  BY <1>1, <1>2, <1>3

\* What a commit journals is an entry, put at the end of its partition.
LEMMA CommitAppends ==
    ASSUME Typed, NEW t \in Threads, Commit(t)
    PROVE  \E n \in RecordCounts :
             LET p == PartitionOf(asked[t]) IN
             /\ p \in Partitions
             /\ EntryOf(t, n) \in Entry
             /\ EntryOf(t, n).last \in Nat
             /\ journal' = [journal EXCEPT ![p] = Append(journal[p], EntryOf(t, n))]
             /\ sequence' = [sequence EXCEPT ![p] = EntryOf(t, n).last]
<1> DEFINE p == PartitionOf(asked[t])
<1>1. asked[t] \in Commands /\ t[1] \in Members /\ t \in Threads
  BY DEF Commit, Typed, Roles, Threads
<1>2. p \in Partitions
  BY <1>1, StoreAssumption DEF PartitionOf
<1>3. PICK n \in RecordCounts :
        /\ journal' = [journal EXCEPT ![p] = Append(journal[p], EntryOf(t, n))]
        /\ sequence' = [sequence EXCEPT ![p] = EntryOf(t, n).last]
  BY DEF Commit
<1>4. EntryOf(t, n) \in Entry
  BY <1>1, StoreAssumption DEF EntryOf, Entry, Typed, TypeOK
<1>5. EntryOf(t, n).last \in Nat
  BY <1>4 DEF Entry
<1> QED
  BY <1>2, <1>3, <1>4, <1>5

\* No process runs yet, and no call is made.
LEMMA InitTyped == Init => Typed
  BY StoreAssumption DEF Init, Typed, TypeOK, Roles, Threads, None

\* A process that ends leaves no thread in a call.
LEMMA EndsTyped ==
    ASSUME Typed, NEW m \in Members, Ends(m)
    PROVE  Typed'
  BY StoreAssumption DEF Typed, TypeOK, Roles, Ends, record, Threads, None

\* What a takeover reads is the epoch of a partition.
LEMMA ReadsAnEpoch ==
    ASSUME NEW m \in Members, StartTakeOver(m)
    PROVE  \E p \in Partitions : snap' = [snap EXCEPT ![m] = epoch[p]]
<1>1. PICK top \in {epoch[p] : p \in Partitions} : snap' = [snap EXCEPT ![m] = top]
  BY DEF StartTakeOver
<1>2. PICK p \in Partitions : top = epoch[p]
  BY <1>1
<1> QED
  BY <1>1, <1>2

\* Each step keeps every variable to what the code can put there, and threads
\* in calls to writers: one case per action.
LEMMA StepTyped == Typed /\ [Next]_vars => Typed'
<1> SUFFICES ASSUME Typed, [Next]_vars PROVE Typed'
  OBVIOUS
<1> USE StoreAssumption DEF Typed, TypeOK, Roles, record, member, thread
<1>1. ASSUME NEW m \in Members, Adopt(m) PROVE Typed'
  BY <1>1 DEF Adopt, Threads
<1>2. ASSUME NEW m \in Members, StartTakeOver(m) PROVE Typed'
  <2>1. PICK p \in Partitions : snap' = [snap EXCEPT ![m] = epoch[p]]
    BY <1>2, ReadsAnEpoch
  <2>2. m \in Leased /\ mode' = [mode EXCEPT ![m] = "taking"] /\ mode[m] = "standby"
    BY <1>2 DEF StartTakeOver
  <2>3. UNCHANGED <<record, lock, fence, fencedSeen, thread>>
    BY <1>2 DEF StartTakeOver
  <2>4. Roles'
    BY <2>2, <2>3 DEF Threads
  <2> QED
    BY <2>1, <2>2, <2>3, <2>4 DEF Threads
<1>3. ASSUME NEW m \in Members, TakeOver(m) PROVE Typed'
  BY <1>3 DEF TakeOver, Threads
<1>4. ASSUME NEW m \in Members, TakeOverFails(m) \/ StepDown(m) \/ Crash(m) PROVE Typed'
  BY <1>4, EndsTyped DEF TakeOverFails, StepDown, Crash
<1>5. ASSUME NEW t \in Threads, NEW c \in Commands, Ask(t, c) PROVE Typed'
  BY <1>5 DEF Ask, Threads
<1>6. ASSUME NEW t \in Threads, Fenced(t) PROVE Typed'
  BY <1>6 DEF Fenced, Refused, Locks, Threads
<1>7. ASSUME NEW t \in Threads, Duplicate(t) PROVE Typed'
  <2>1. PICK id \in EntryIds : AnswersWith(t, id)
    BY <1>7 DEF Duplicate, HeldByMessage, HeldByKey
  <2>2. id \in Partitions \X Nat
    BY EntryIdsAre
  <2> QED
    BY <1>7, <2>1, <2>2 DEF Duplicate, AnswersWith, Locks, Threads
<1>8. ASSUME NEW t \in Threads, Conflict(t) PROVE Typed'
  BY <1>8 DEF Conflict, Refused, Locks, Threads
<1>9. ASSUME NEW t \in Threads, Replays(t) PROVE Typed'
  BY <1>9 DEF Replays, Locks, PartitionOf, Threads
<1>10. ASSUME NEW t \in Threads, DecisionRefused(t) PROVE Typed'
  BY <1>10 DEF DecisionRefused, Refused, Threads
<1>11. ASSUME NEW t \in Threads, Commit(t) PROVE Typed'
  <2> DEFINE p == PartitionOf(asked[t])
  <2>1. PICK n \in RecordCounts :
          /\ p \in Partitions
          /\ EntryOf(t, n) \in Entry
          /\ EntryOf(t, n).last \in Nat
          /\ journal' = [journal EXCEPT ![p] = Append(journal[p], EntryOf(t, n))]
          /\ sequence' = [sequence EXCEPT ![p] = EntryOf(t, n).last]
    BY <1>11, CommitAppends
  <2>2. journal' \in [Partitions -> Seq(Entry)]
    BY <2>1
  <2>3. sequence' \in [Partitions -> Nat]
    BY <2>1
  <2>4. /\ phase' \in [Threads -> {"idle", "asked", "deciding", "answering"}]
        /\ asked' \in [Threads -> Commands \union {Empty}]
        /\ head' \in [Threads -> Nat]
        /\ reply' \in [Threads -> (Partitions \X Nat) \union {None}]
    <3>1. <<p, Len(journal[p]) + 1>> \in Partitions \X Nat
      BY <2>1
    <3>2. AnswersWith(t, <<p, Len(journal[p]) + 1>>) \/ Refused(t)
      BY <1>11 DEF Commit
    <3> HIDE DEF p
    <3>3. CASE Refused(t)
      BY <3>3 DEF Refused
    <3>4. ASSUME NEW id \in Partitions \X Nat, AnswersWith(t, id) PROVE /\ phase' \in [Threads -> {"idle", "asked", "deciding", "answering"}]
               /\ asked' \in [Threads -> Commands \union {Empty}]
               /\ head' \in [Threads -> Nat]
               /\ reply' \in [Threads -> (Partitions \X Nat) \union {None}]
      BY <3>4 DEF AnswersWith
    <3> QED
      BY <3>1, <3>2, <3>3, <3>4
  <2>5. Roles'
    BY <1>11 DEF Commit, AnswersWith, Refused
  <2>6. lock' \in [Partitions -> Threads \union {None}]
    BY <1>11 DEF Commit
  <2> QED
    BY <1>11, <2>2, <2>3, <2>4, <2>5, <2>6 DEF Commit
<1>12. ASSUME NEW t \in Threads, Answer(t) PROVE Typed'
  BY <1>12 DEF Answer, Threads
<1>13. CASE UNCHANGED vars
  BY <1>13 DEF vars
<1> QED
  BY <1>1, <1>2, <1>3, <1>4, <1>5, <1>6, <1>7, <1>8, <1>9, <1>10, <1>11, <1>12, <1>13
  DEF Next, Act

\* Every variable holds what the code can put there, whatever the instance.
THEOREM TypeCorrect == Spec => []TypeOK
<1>1. Spec => []Typed
  BY InitTyped, StepTyped, PTL DEF Spec
<1> QED
  BY <1>1, PTL DEF Typed

-----------------------------------------------------------------------------
(* The lock and the head under it.                                         *)

\* A free lock is not a thread's.
LEMMA NoneIsNoThread == None \notin Threads
  BY DEF None, Threads

\* No lock is held at first.
LEMMA InitLocked == Init => Locked
  BY DEF Init, Locked

\* A process that ends frees its own threads' locks and no other's.
LEMMA EndsLocked ==
    ASSUME Typed, Locked, NEW m \in Members, Ends(m)
    PROVE  Locked'
<1> USE DEF Typed, TypeOK, Roles
<1>1. \A t \in Threads : phase'[t] = "deciding" =>
        t[1] # m /\ phase[t] = "deciding" /\ asked'[t] = asked[t] /\ head'[t] = head[t]
  BY DEF Ends
<1>2. \A p \in Partitions : lock[p] \in Threads /\ lock[p][1] # m => lock'[p] = lock[p]
  BY DEF Ends, Threads
<1>3. \A p \in Partitions : lock'[p] # None =>
        lock'[p] = lock[p] /\ lock[p] \in Threads /\ lock[p][1] # m
  BY DEF Ends, Threads
<1>4. \A t \in Threads : phase[t] = "deciding" =>
        PartitionOf(asked[t]) \in Partitions /\ fence'[t[1]] = IF t[1] = m THEN 0 ELSE fence[t[1]]
  BY StoreAssumption DEF PartitionOf, Ends, Threads
<1>5. UNCHANGED <<sequence, epoch>>
  BY DEF Ends, record
<1>6. ASSUME NEW p \in Partitions, lock'[p] # None
      PROVE  phase'[lock'[p]] = "deciding" /\ PartitionOf(asked'[lock'[p]]) = p
  BY <1>3, <1>6 DEF Locked, Ends
<1>7. ASSUME NEW t \in Threads, phase'[t] = "deciding"
      PROVE  /\ lock'[PartitionOf(asked'[t])] = t
             /\ head'[t] = sequence'[PartitionOf(asked'[t])]
             /\ fence'[t[1]] = epoch'[PartitionOf(asked'[t])]
  BY <1>1, <1>2, <1>4, <1>5, <1>7 DEF Locked
<1> QED
  BY <1>6, <1>7 DEF Locked, PartitionOf

\* Only the thread that holds a partition's lock moves its head, and a
\* takeover waits for every lock: what a thread read under its lock stays so.
LEMMA StepLocked == Typed /\ Locked /\ [Next]_vars => Locked'
<1> SUFFICES ASSUME Typed, Locked, [Next]_vars PROVE Locked'
  OBVIOUS
<1> USE StoreAssumption, NoneIsNoThread DEF Typed, TypeOK, Roles, record, member, thread
<1>a. \A t \in Threads : phase[t] # "idle" => PartitionOf(asked[t]) \in Partitions
  BY DEF PartitionOf
<1>1. ASSUME NEW m \in Members, Adopt(m) PROVE Locked'
  <2>1. \A t \in Threads : phase[t] = "deciding" => fence'[t[1]] = fence[t[1]]
    BY <1>1 DEF Adopt, Threads
  <2> QED
    BY <1>1, <2>1 DEF Adopt, Locked, PartitionOf
<1>2. ASSUME NEW m \in Members, StartTakeOver(m) PROVE Locked'
  BY <1>2 DEF StartTakeOver, Locked, PartitionOf
<1>3. ASSUME NEW m \in Members, TakeOver(m) PROVE Locked'
  <2>1. ASSUME NEW t \in Threads, phase[t] = "deciding" PROVE FALSE
    <3>1. lock[PartitionOf(asked[t])] = t
      BY <2>1 DEF Locked
    <3>2. lock[PartitionOf(asked[t])] = None
      BY <1>3, <1>a, <2>1 DEF TakeOver
    <3> QED
      BY <3>1, <3>2, NoneIsNoThread
  <2> QED
    BY <1>3, <2>1 DEF TakeOver, Locked
<1>4. ASSUME NEW m \in Members, TakeOverFails(m) \/ StepDown(m) \/ Crash(m) PROVE Locked'
  BY <1>4, EndsLocked DEF TakeOverFails, StepDown, Crash
<1>5. ASSUME NEW t \in Threads, NEW c \in Commands, Ask(t, c) PROVE Locked'
  BY <1>5 DEF Ask, Locked, PartitionOf
<1>6. ASSUME NEW t \in Threads, Fenced(t) PROVE Locked'
  BY <1>6 DEF Fenced, Refused, Locks, Locked, PartitionOf
<1>7. ASSUME NEW t \in Threads, Duplicate(t) PROVE Locked'
  <2>1. PICK id \in EntryIds : AnswersWith(t, id)
    BY <1>7 DEF Duplicate, HeldByMessage, HeldByKey
  <2> QED
    BY <1>7, <2>1 DEF Duplicate, AnswersWith, Locks, Locked, PartitionOf
<1>8. ASSUME NEW t \in Threads, Conflict(t) PROVE Locked'
  BY <1>8 DEF Conflict, Refused, Locks, Locked, PartitionOf
<1>9. ASSUME NEW t \in Threads, Replays(t) PROVE Locked'
  BY <1>9, <1>a DEF Replays, Locks, Admits, Locked, PartitionOf
<1>10. ASSUME NEW t \in Threads, DecisionRefused(t) PROVE Locked'
  BY <1>10, <1>a DEF DecisionRefused, Refused, Locked, PartitionOf
<1>11. ASSUME NEW t \in Threads, Commit(t) PROVE Locked'
  <2> DEFINE p == PartitionOf(asked[t])
  <2>1. /\ p \in Partitions
        /\ phase[t] = "deciding"
        /\ lock' = [lock EXCEPT ![p] = None]
        /\ \A q \in Partitions : q # p => sequence'[q] = sequence[q]
        /\ UNCHANGED <<epoch, fence>>
    BY <1>11, <1>a, CommitAppends DEF Commit
  <2>2. \A u \in Threads : u # t =>
          phase'[u] = phase[u] /\ asked'[u] = asked[u] /\ head'[u] = head[u]
    BY <1>11 DEF Commit, AnswersWith, Refused
  <2>3. phase'[t] # "deciding"
    BY <1>11 DEF Commit, AnswersWith, Refused
  <2>4. \A u \in Threads : u # t /\ phase[u] = "deciding" => PartitionOf(asked[u]) # p
    BY <2>1 DEF Locked
  <2>5. \A u \in Threads : PartitionOf(asked[u])' = PartitionOf(asked'[u])
    BY DEF PartitionOf
  <2>6. ASSUME NEW q \in Partitions, lock'[q] # None
        PROVE  phase'[lock'[q]] = "deciding" /\ PartitionOf(asked'[lock'[q]]) = q
    <3>1. q # p /\ lock'[q] = lock[q]
      BY <2>1, <2>6
    <3>2. lock[q] \in Threads /\ phase[lock[q]] = "deciding" /\ PartitionOf(asked[lock[q]]) = q
      BY <2>6, <3>1 DEF Locked
    <3>3. lock[q] # t
      BY <3>1, <3>2
    <3> QED
      BY <2>2, <3>1, <3>2, <3>3 DEF PartitionOf
  <2>7. ASSUME NEW u \in Threads, phase'[u] = "deciding"
        PROVE  /\ lock'[PartitionOf(asked'[u])] = u
               /\ head'[u] = sequence'[PartitionOf(asked'[u])]
               /\ fence'[u[1]] = epoch'[PartitionOf(asked'[u])]
    <3>1. u # t /\ phase[u] = "deciding" /\ asked'[u] = asked[u] /\ head'[u] = head[u]
      BY <2>2, <2>3, <2>7
    <3>2. /\ PartitionOf(asked[u]) \in Partitions /\ PartitionOf(asked[u]) # p
          /\ lock[PartitionOf(asked[u])] = u
          /\ head[u] = sequence[PartitionOf(asked[u])]
          /\ fence[u[1]] = epoch[PartitionOf(asked[u])]
      BY <1>a, <2>4, <3>1 DEF Locked
    <3>3. /\ lock'[PartitionOf(asked[u])] = lock[PartitionOf(asked[u])]
          /\ sequence'[PartitionOf(asked[u])] = sequence[PartitionOf(asked[u])]
      BY <1>a, <2>1, <3>2 DEF Typed, TypeOK
    <3> QED
      BY <2>1, <3>1, <3>2, <3>3
  <2> QED
    BY <2>6, <2>7 DEF Locked, PartitionOf
<1>12. ASSUME NEW t \in Threads, Answer(t) PROVE Locked'
  BY <1>12 DEF Answer, Locked, PartitionOf
<1>13. CASE UNCHANGED vars
  BY <1>13 DEF vars, Locked, PartitionOf
<1> QED
  BY <1>1, <1>2, <1>3, <1>4, <1>5, <1>6, <1>7, <1>8, <1>9, <1>10, <1>11, <1>12, <1>13
  DEF Next, Act

-----------------------------------------------------------------------------
(* The epochs and who raised them.                                         *)

\* An epoch is raised by the takeover that read the last one, and no other:
\* the key of its record keeps out one that read an older.
LEMMA TakeOverRaises ==
    ASSUME Typed, Raised, NEW m \in Members, TakeOver(m)
    PROVE  /\ epoch' = [p \in Partitions |-> epoch[Control] + 1]
           /\ tookOver' = tookOver \union {[epoch |-> epoch[Control] + 1, member |-> m]}
           /\ fence' = [fence EXCEPT ![m] = epoch[Control] + 1]
           /\ m \in Leased
<1>1. snap[m] \in 1 .. epoch[Control] /\ m \in Leased /\ snap[m] \in Nat /\ epoch[Control] \in Nat
  BY StoreAssumption DEF TakeOver, Raised, Typed, TypeOK, Roles
<1>2. ~EpochTaken(snap[m] + 1)
  BY DEF TakeOver
<1>3. snap[m] + 1 \notin 2 .. epoch[Control]
  BY <1>1, <1>2 DEF Raised
<1>4. snap[m] = epoch[Control]
  BY <1>1, <1>3
<1> QED
  BY <1>1, <1>4 DEF TakeOver

\* Nothing but a takeover touches the epochs.
LEMMA OnlyTakeOverRaises ==
    ASSUME [Next]_vars
    PROVE  UNCHANGED <<epoch, tookOver>> \/ \E m \in Members : TakeOver(m)
  BY DEF Next, Act, vars, record, Adopt, StartTakeOver, TakeOverFails, StepDown, Crash,
         Ends, Ask, Fenced, Duplicate, Conflict, Replays, DecisionRefused, Commit, Answer

\* A member that writes was writing, adopted the epoch or took over.
LEMMA WhoWrites ==
    ASSUME Typed, [Next]_vars, NEW m \in Members
    PROVE  \/ mode'[m] = mode[m] /\ fence'[m] = fence[m] /\ snap'[m] = snap[m]
           \/ mode'[m] = "standby"
           \/ Adopt(m)
           \/ StartTakeOver(m)
           \/ TakeOver(m)
<1> USE DEF Typed, TypeOK, Roles
<1>1. ASSUME NEW n \in Members,
             Adopt(n) \/ StartTakeOver(n) \/ TakeOver(n) \/ TakeOverFails(n) \/ StepDown(n) \/ Crash(n)
      PROVE  \/ n = m
             \/ mode'[m] = mode[m] /\ fence'[m] = fence[m] /\ snap'[m] = snap[m]
  BY <1>1 DEF Adopt, StartTakeOver, TakeOver, TakeOverFails, StepDown, Crash, Ends
<1>2. TakeOverFails(m) \/ StepDown(m) \/ Crash(m) => mode'[m] = "standby"
  BY DEF TakeOverFails, StepDown, Crash, Ends
<1>3. (\E t \in Threads : Act(t) \/ \E c \in Commands : Ask(t, c)) \/ UNCHANGED vars
        => UNCHANGED <<mode, fence, snap>>
  BY DEF Act, vars, member, Ask, Fenced, Duplicate, Conflict, Replays, DecisionRefused,
         Commit, Answer
<1> QED
  BY <1>1, <1>2, <1>3 DEF Next

\* Every partition starts under epoch 1, which nobody took over.
LEMMA InitRaised == Init => Raised
  BY StoreAssumption DEF Init, Raised, EpochTaken

\* The one step that raises the epochs raises them all by one, and records it.
LEMMA StepRaised == Typed /\ Raised /\ [Next]_vars => Raised'
<1> SUFFICES ASSUME Typed, Raised, [Next]_vars PROVE Raised'
  OBVIOUS
<1> USE StoreAssumption DEF Typed, TypeOK, Roles
<1>a. epoch[Control] \in Nat \ {0}
  BY DEF Raised
<1>1. ASSUME NEW n \in Members, TakeOver(n) PROVE Raised'
  <2> DEFINE new == [epoch |-> epoch[Control] + 1, member |-> n]
  <2>1. /\ epoch' = [p \in Partitions |-> epoch[Control] + 1]
        /\ tookOver' = tookOver \union {new}
        /\ fence' = [fence EXCEPT ![n] = epoch[Control] + 1]
        /\ n \in Leased
        /\ mode' = [mode EXCEPT ![n] = "writer"]
        /\ snap' = snap
    BY <1>1, TakeOverRaises DEF TakeOver
  <2>2. \A t \in tookOver : t.epoch \in 2 .. epoch[Control] /\ t.epoch # new.epoch
    BY <1>a DEF Raised, EpochTaken
  <2>3. \A e \in Nat : EpochTaken(e)' <=> e \in 2 .. epoch'[Control]
    <3>1. \A e \in Nat : EpochTaken(e)' <=> EpochTaken(e) \/ e = new.epoch
      BY <2>1 DEF EpochTaken
    <3> QED
      BY <1>a, <2>1, <3>1 DEF Raised
  <2>4. \A t, u \in tookOver' : t.epoch = u.epoch => t = u
    BY <2>1, <2>2 DEF Raised
  <2>5. \A m \in Members : mode'[m] = "taking" => snap'[m] \in 1 .. epoch'[Control]
    BY <1>a, <2>1 DEF Raised
  <2>6. \A m \in Members : mode'[m] = "writer" => fence'[m] \in 1 .. epoch'[Control]
    BY <1>a, <2>1 DEF Raised
  <2>7. \A m \in Leased : mode'[m] = "writer" =>
          [epoch |-> fence'[m], member |-> m] \in tookOver'
    BY <1>a, <2>1 DEF Raised
  <2> QED
    BY <1>a, <2>1, <2>3, <2>4, <2>5, <2>6, <2>7 DEF Raised
<1>2. CASE UNCHANGED <<epoch, tookOver>> /\ \A n \in Members : ~TakeOver(n)
  <2>1. ASSUME NEW m \in Members, mode'[m] = "taking" PROVE snap'[m] \in 1 .. epoch'[Control]
    <3>1. CASE StartTakeOver(m)
      <4>1. snap'[m] \in {epoch[p] : p \in Partitions}
        BY <3>1 DEF StartTakeOver
      <4>2. snap'[m] = epoch[Control]
        BY <4>1 DEF Raised
      <4> QED
        BY <1>2, <1>a, <4>2
    <3>2. CASE mode[m] = "taking" /\ snap'[m] = snap[m]
      BY <1>2, <3>2 DEF Raised
    <3>3. Adopt(m) => mode'[m] = "writer"
      BY DEF Adopt
    <3>4. ~TakeOver(m)
      BY <1>2
    <3> QED
      BY <2>1, <3>1, <3>2, <3>3, <3>4, WhoWrites
  <2>2. ASSUME NEW m \in Members, mode'[m] = "writer"
        PROVE  /\ fence'[m] \in 1 .. epoch'[Control]
               /\ m \in Leased => [epoch |-> fence'[m], member |-> m] \in tookOver'
    <3>1. \/ mode[m] = "writer" /\ fence'[m] = fence[m]
          \/ m \notin Leased /\ fence'[m] = epoch[Control]
      BY <1>2, <2>2, WhoWrites DEF Adopt, StartTakeOver
    <3> QED
      BY <1>2, <1>a, <3>1 DEF Raised
  <2>3. \A e \in Nat : EpochTaken(e)' <=> EpochTaken(e)
    BY <1>2 DEF EpochTaken
  <2> QED
    BY <1>2, <2>1, <2>2, <2>3 DEF Raised
<1> QED
  BY <1>1, <1>2, OnlyTakeOverRaises

-----------------------------------------------------------------------------
(* The journal.                                                            *)

\* Nothing but a commit touches the journal or the head's number.
LEMMA OnlyCommitWrites ==
    ASSUME [Next]_vars
    PROVE  UNCHANGED <<journal, sequence>> \/ \E t \in Threads : Commit(t)
  BY DEF Next, Act, vars, record, Adopt, StartTakeOver, TakeOver, TakeOverFails, StepDown,
         Crash, Ends, Ask, Fenced, Duplicate, Conflict, Replays, DecisionRefused, Answer

\* What a step that writes makes of the journal: one entry at one
\* partition's end, numbered on from its head, under the epoch in force, by a
\* writer, and of a command held nowhere before it.
Appends(p, e) ==
    /\ p \in Partitions
    /\ e \in Entry
    /\ e.first = sequence[p] + 1
    /\ e.last >= e.first
    /\ e.epoch = epoch[Control]
    /\ e.by \in Leased => [epoch |-> e.epoch, member |-> e.by] \in tookOver
    /\ \A id \in EntryIds : ~SameMessage(e, EntryAt(id)) /\ ~SameKey(e, EntryAt(id))
    /\ journal' = [journal EXCEPT ![p] = Append(journal[p], e)]
    /\ sequence' = [sequence EXCEPT ![p] = e.last]
    /\ UNCHANGED <<epoch, tookOver>>

\* A commit is an append, by the thread that holds the lock.
LEMMA CommitIsAppend ==
    ASSUME Typed, Locked, Raised, NEW t \in Threads, Commit(t)
    PROVE  \E p, e : Appends(p, e)
<1> DEFINE p == PartitionOf(asked[t])
<1>1. PICK n \in RecordCounts :
        /\ p \in Partitions
        /\ EntryOf(t, n) \in Entry
        /\ EntryOf(t, n).last \in Nat
        /\ journal' = [journal EXCEPT ![p] = Append(journal[p], EntryOf(t, n))]
        /\ sequence' = [sequence EXCEPT ![p] = EntryOf(t, n).last]
  BY CommitAppends
<1> DEFINE e == EntryOf(t, n)
<1>2. /\ phase[t] = "deciding"
      /\ t[1] \in Members
      /\ mode[t[1]] = "writer"
      /\ head[t] \in Nat
      /\ sequence[p] \in Nat
  BY <1>1 DEF Commit, Typed, TypeOK, Roles, Threads
<1>3. head[t] = sequence[p] /\ fence[t[1]] = epoch[p]
  BY <1>2 DEF Locked
<1>4. e.first = sequence[p] + 1 /\ e.last >= e.first
  BY <1>1, <1>2, <1>3, StoreAssumption DEF EntryOf
<1>5. e.epoch = epoch[Control] /\ e.epoch = fence[t[1]] /\ e.by = t[1]
  BY <1>1, <1>3 DEF EntryOf, Raised
<1>6. e.by \in Leased => [epoch |-> e.epoch, member |-> e.by] \in tookOver
  BY <1>2, <1>5 DEF Raised
<1>7. /\ e.message = asked[t].message
      /\ e.key = asked[t].key
      /\ e.account = asked[t].account
  BY DEF EntryOf
<1>8. \A id \in EntryIds : ~SameMessage(asked[t], EntryAt(id)) /\ ~SameKey(asked[t], EntryAt(id))
  BY DEF Commit, Unique, HeldByMessage, HeldByKey
<1>9. \A id \in EntryIds : ~SameMessage(e, EntryAt(id)) /\ ~SameKey(e, EntryAt(id))
  <2> HIDE DEF e
  <2> QED
    BY <1>7, <1>8 DEF SameMessage, SameKey
<1>10. UNCHANGED <<epoch, tookOver>>
  BY DEF Commit
<1>11. Appends(p, e)
  <2> HIDE DEF p
  <2> QED
    BY <1>1, <1>4, <1>5, <1>6, <1>9, <1>10 DEF Appends
<1> QED
  BY <1>11

\* The entries after it: the same ones where they were, and the new one.
LEMMA AfterAppend ==
    ASSUME TypeOK, NEW p, NEW e, Appends(p, e)
    PROVE  /\ Len(journal[p]) \in Nat
           /\ Len(journal'[p]) = Len(journal[p]) + 1
           /\ journal'[p][Len(journal[p]) + 1] = e
           /\ \A q \in Partitions : q # p => journal'[q] = journal[q]
           /\ \A q \in Partitions : \A i \in 1 .. Len(journal[q]) :
                i \in 1 .. Len(journal'[q]) /\ journal'[q][i] = journal[q][i]
           /\ \A q \in Partitions : \A i \in 1 .. Len(journal'[q]) :
                i \in 1 .. Len(journal[q]) \/ (q = p /\ i = Len(journal[p]) + 1)
<1>1. /\ p \in Partitions
      /\ e \in Entry
      /\ journal[p] \in Seq(Entry)
      /\ journal'[p] = Append(journal[p], e)
      /\ \A q \in Partitions : q # p => journal'[q] = journal[q]
  BY DEF TypeOK, Appends
<1>2. /\ Len(journal[p]) \in Nat
      /\ Len(journal'[p]) = Len(journal[p]) + 1
      /\ journal'[p][Len(journal[p]) + 1] = e
      /\ \A i \in 1 .. Len(journal[p]) : journal'[p][i] = journal[p][i]
  BY <1>1
<1>3. ASSUME NEW q \in Partitions, NEW i \in 1 .. Len(journal[q])
      PROVE  i \in 1 .. Len(journal'[q]) /\ journal'[q][i] = journal[q][i]
  BY <1>1, <1>2
<1>4. ASSUME NEW q \in Partitions, NEW i \in 1 .. Len(journal'[q])
      PROVE  i \in 1 .. Len(journal[q]) \/ (q = p /\ i = Len(journal[p]) + 1)
  BY <1>1, <1>2
<1> QED
  BY <1>1, <1>2, <1>3, <1>4


\* An empty journal has no holes, no repeats and no epoch out of order.
LEMMA InitWritten == Init => NoHoles /\ Written /\ EpochsInOrder /\ AppliedOnce
  BY DEF Init, NoHoles, Written, EpochsInOrder, AppliedOnce, EntryIds

\* An entry numbered on from the head leaves no hole.
LEMMA AppendNoHoles ==
    ASSUME TypeOK, NoHoles, NEW p, NEW e, Appends(p, e)
    PROVE  NoHoles'
<1> DEFINE n == Len(journal[p])
<1>1. \A q \in Partitions : journal[q] \in Seq(Entry) /\ DOMAIN journal[q] = 1 .. Len(journal[q])
  BY DEF TypeOK
<1>2. \A q \in Partitions : journal'[q] \in Seq(Entry) /\ DOMAIN journal'[q] = 1 .. Len(journal'[q])
  BY <1>1 DEF Appends, TypeOK
<1>3. ASSUME NEW q \in Partitions, q # p
      PROVE  journal'[q] = journal[q] /\ sequence'[q] = sequence[q]
  BY <1>3 DEF Appends, TypeOK
<1>4. /\ p \in Partitions
      /\ n \in Nat
      /\ Len(journal'[p]) = n + 1
      /\ journal'[p] # <<>>
      /\ journal'[p][n + 1] = e
      /\ sequence'[p] = e.last
  <2>1. p \in Partitions /\ n \in Nat /\ Len(journal'[p]) = n + 1 /\ journal'[p][n + 1] = e
    BY AfterAppend DEF Appends
  <2>2. sequence'[p] = e.last
    BY <2>1 DEF Appends, TypeOK
  <2> QED
    BY <2>1, <2>2
<1>5. e.first <= e.last /\ e.first = IF n = 0 THEN 1 ELSE journal[p][n].last + 1
  <2>1. e.first = sequence[p] + 1 /\ e.last >= e.first /\ e \in Entry
    BY DEF Appends
  <2>2. sequence[p] = IF journal[p] = <<>> THEN 0 ELSE journal[p][n].last
    BY <1>4 DEF NoHoles
  <2>3. n = 0 <=> journal[p] = <<>>
    BY <1>1, <1>4
  <2> QED
    BY <2>1, <2>2, <2>3 DEF Entry
<1>6. ASSUME NEW i \in 1 .. n
      PROVE  /\ journal'[p][i].first <= journal'[p][i].last
             /\ journal'[p][i].first = IF i = 1 THEN 1 ELSE journal'[p][i - 1].last + 1
  <2>1. i # 1 => i - 1 \in 1 .. n
    BY <1>4
  <2>2. journal'[p][i] = journal[p][i] /\ (i # 1 => journal'[p][i - 1] = journal[p][i - 1])
    BY <1>4, <2>1, AfterAppend
  <2>3. /\ journal[p][i].first <= journal[p][i].last
        /\ journal[p][i].first = IF i = 1 THEN 1 ELSE journal[p][i - 1].last + 1
    BY <1>1, <1>4 DEF NoHoles
  <2> QED
    BY <2>2, <2>3
<1>7. /\ journal'[p][n + 1].first <= journal'[p][n + 1].last
      /\ journal'[p][n + 1].first = IF n + 1 = 1 THEN 1 ELSE journal'[p][(n + 1) - 1].last + 1
  <2>1. n # 0 => n \in 1 .. n /\ journal'[p][n] = journal[p][n]
    BY <1>4, AfterAppend
  <2> QED
    BY <1>4, <1>5, <2>1
<1> HIDE DEF n
<1>8. ASSUME NEW q \in Partitions
      PROVE  /\ sequence'[q] = IF journal'[q] = <<>> THEN 0 ELSE journal'[q][Len(journal'[q])].last
             /\ \A i \in DOMAIN journal'[q] :
                  /\ journal'[q][i].first <= journal'[q][i].last
                  /\ journal'[q][i].first = IF i = 1 THEN 1 ELSE journal'[q][i - 1].last + 1
  <2>1. CASE q = p
    BY <1>2, <1>4, <1>6, <1>7, <2>1
  <2>2. CASE q # p
    BY <1>3, <2>2 DEF NoHoles
  <2> QED
    BY <2>1, <2>2
<1> QED
  BY <1>8 DEF NoHoles

\* The entry appended is its writer's, under an epoch in force when it wrote.
LEMMA AppendWritten ==
    ASSUME TypeOK, Written, NEW p, NEW e, Appends(p, e)
    PROVE  Written'
<1>1. UNCHANGED <<epoch, tookOver>>
  BY DEF Appends
<1>2. /\ e.epoch <= epoch[Control]
      /\ e.by \in Leased => [epoch |-> e.epoch, member |-> e.by] \in tookOver
  BY StoreAssumption DEF Appends, TypeOK
<1>3. ASSUME NEW q \in Partitions, NEW i \in 1 .. Len(journal'[q])
      PROVE  \/ journal'[q][i] = e
             \/ i \in 1 .. Len(journal[q]) /\ journal'[q][i] = journal[q][i]
  BY AfterAppend
<1> QED
  BY <1>1, <1>2, <1>3 DEF Written

\* The entry appended is under the epoch in force, which none before exceeds.
LEMMA AppendEpochsInOrder ==
    ASSUME TypeOK, Written, EpochsInOrder, NEW p, NEW e, Appends(p, e)
    PROVE  EpochsInOrder'
<1>1. \A q \in Partitions : DOMAIN journal[q] = 1 .. Len(journal[q]) /\ Len(journal[q]) \in Nat
  BY DEF TypeOK
<1>2. \A q \in Partitions : DOMAIN journal'[q] = 1 .. Len(journal'[q]) /\ Len(journal'[q]) \in Nat
  BY DEF Appends, TypeOK
<1>3. ASSUME NEW q \in Partitions, NEW i \in 1 .. Len(journal'[q]), NEW j \in 1 .. Len(journal'[q]),
             i < j
      PROVE  journal'[q][i].epoch <= journal'[q][j].epoch
  <2>1. CASE j \in 1 .. Len(journal[q])
    <3>1. i \in 1 .. Len(journal[q])
      BY <1>1, <1>3, <2>1
    <3>2. journal'[q][i] = journal[q][i] /\ journal'[q][j] = journal[q][j]
      BY <2>1, <3>1, AfterAppend
    <3> QED
      BY <1>1, <1>3, <2>1, <3>1, <3>2 DEF EpochsInOrder
  <2>2. CASE q = p /\ j = Len(journal[p]) + 1
    <3>1. i \in 1 .. Len(journal[q])
      BY <1>1, <1>3, <2>2
    <3>2. journal'[q][i] = journal[q][i] /\ journal'[q][j] = e
      BY <2>2, <3>1, AfterAppend
    <3> QED
      BY <3>1, <3>2 DEF Written, Appends
  <2> QED
    BY <2>1, <2>2, AfterAppend
<1> QED
  BY <1>2, <1>3 DEF EpochsInOrder

\* The unique indexes keep the entry appended from repeating a command.
LEMMA AppendAppliedOnce ==
    ASSUME TypeOK, AppliedOnce, NEW p, NEW e, Appends(p, e)
    PROVE  AppliedOnce'
<1> DEFINE new == <<p, Len(journal[p]) + 1>>
<1>1. \A id \in EntryIds' : id \in EntryIds \/ id = new
  <2>1. \A q \in Partitions : DOMAIN journal'[q] = 1 .. Len(journal'[q])
    BY DEF Appends, TypeOK
  <2>2. ASSUME NEW id \in EntryIds' PROVE id \in EntryIds \/ id = new
    <3>1. PICK q \in Partitions : id \in {q} \X (1 .. Len(journal'[q]))
      BY <2>1 DEF EntryIds
    <3>2. PICK i \in 1 .. Len(journal'[q]) : id = <<q, i>>
      BY <3>1
    <3> QED
      BY <3>2, AfterAppend, EntryIdsAre
  <2> QED
    BY <2>2
<1>2. ASSUME NEW id \in EntryIds PROVE journal'[id[1]][id[2]] = journal[id[1]][id[2]]
  <2>1. id[1] \in Partitions /\ id[2] \in 1 .. Len(journal[id[1]])
    BY EntryIdsAre
  <2> QED
    BY <2>1, AfterAppend
<1>3. new[1] = p /\ new[2] = Len(journal[p]) + 1 /\ journal'[p][Len(journal[p]) + 1] = e
  BY AfterAppend
<1>4. \A id \in EntryIds :
        /\ ~SameMessage(e, journal[id[1]][id[2]])
        /\ ~SameKey(e, journal[id[1]][id[2]])
  BY DEF Appends, EntryAt
<1>5. \A a, b \in EntryIds : a # b =>
        /\ ~SameMessage(journal[a[1]][a[2]], journal[b[1]][b[2]])
        /\ ~SameKey(journal[a[1]][a[2]], journal[b[1]][b[2]])
  BY DEF AppliedOnce, EntryAt
<1>6. ASSUME NEW a \in EntryIds', NEW b \in EntryIds', a # b
      PROVE  /\ ~SameMessage(journal'[a[1]][a[2]], journal'[b[1]][b[2]])
             /\ ~SameKey(journal'[a[1]][a[2]], journal'[b[1]][b[2]])
  <2> HIDE DEF new
  <2>1. CASE a \in EntryIds /\ b \in EntryIds
    BY <1>2, <1>5, <1>6, <2>1 DEF SameMessage, SameKey
  <2>2. CASE a = new /\ b \in EntryIds
    BY <1>2, <1>3, <1>4, <2>2 DEF SameMessage, SameKey
  <2>3. CASE a \in EntryIds /\ b = new
    BY <1>2, <1>3, <1>4, <2>3 DEF SameMessage, SameKey
  <2> QED
    BY <1>1, <1>6, <2>1, <2>2, <2>3
<1> QED
  BY <1>6 DEF AppliedOnce, EntryAt, SameMessage, SameKey

-----------------------------------------------------------------------------
(* The invariant whole.                                                    *)

Inv ==
    /\ Typed /\ Locked /\ Raised
    /\ NoHoles /\ Written /\ EpochsInOrder /\ AppliedOnce

\* Every step leaves the journal as it is or appends one entry to it.
LEMMA WritesAppend ==
    ASSUME Inv, [Next]_vars
    PROVE  UNCHANGED <<journal, sequence>> \/ \E p, e : Appends(p, e)
  BY OnlyCommitWrites, CommitIsAppend DEF Inv

\* No step lowers a partition's epoch.
LEMMA EpochsRise ==
    ASSUME Inv, [Next]_vars
    PROVE  /\ epoch[Control] \in Nat
           /\ epoch'[Control] \in Nat
           /\ epoch'[Control] >= epoch[Control]
           /\ \A p \in Partitions : epoch'[p] >= epoch[p]
           /\ tookOver \subseteq tookOver'
<1>1. epoch[Control] \in Nat /\ \A p \in Partitions : epoch[p] = epoch[Control]
  BY StoreAssumption DEF Inv, Typed, TypeOK, Raised
<1>2. CASE UNCHANGED <<epoch, tookOver>>
  BY <1>1, <1>2
<1>3. ASSUME NEW m \in Members, TakeOver(m)
      PROVE  /\ epoch' = [p \in Partitions |-> epoch[Control] + 1]
             /\ tookOver \subseteq tookOver'
  BY <1>3, TakeOverRaises DEF Inv
<1>4. CASE \E m \in Members : TakeOver(m)
  BY <1>1, <1>3, <1>4, StoreAssumption
<1> QED
  BY <1>2, <1>4, OnlyTakeOverRaises

\* What is in the journal stays there, and stays what it is.
LEMMA JournalStays ==
    ASSUME Inv, [Next]_vars, NEW p \in Partitions
    PROVE  /\ Len(journal[p]) \in Nat
           /\ Len(journal'[p]) >= Len(journal[p])
           /\ \A i \in 1 .. Len(journal[p]) :
                i \in 1 .. Len(journal'[p]) /\ journal'[p][i] = journal[p][i]
<1>1. TypeOK /\ TypeOK' /\ Len(journal[p]) \in Nat /\ Len(journal'[p]) \in Nat
  <2>1. TypeOK /\ TypeOK'
    BY StepTyped DEF Inv, Typed
  <2>2. journal[p] \in Seq(Entry) /\ journal'[p] \in Seq(Entry)
    BY <2>1 DEF TypeOK, Entry
  <2> QED
    BY <2>1, <2>2
<1>2. CASE UNCHANGED <<journal, sequence>>
  BY <1>1, <1>2
<1>3. ASSUME NEW q, NEW e, Appends(q, e)
      PROVE  /\ Len(journal'[p]) >= Len(journal[p])
             /\ \A i \in 1 .. Len(journal[p]) :
                  i \in 1 .. Len(journal'[p]) /\ journal'[p][i] = journal[p][i]
  BY <1>1, <1>3, AfterAppend
<1> QED
  BY <1>1, <1>2, <1>3, WritesAppend

\* The invariant holds at first.
LEMMA InitInv == Init => Inv
  BY InitTyped, InitLocked, InitRaised, InitWritten DEF Inv

\* The invariant is inductive: its parts, each from those it rests on.
LEMMA StepInv == Inv /\ [Next]_vars => Inv'
<1> SUFFICES ASSUME Inv, [Next]_vars PROVE Inv'
  OBVIOUS
<1>1. Typed' /\ Locked' /\ Raised'
  BY StepTyped, StepLocked, StepRaised DEF Inv
<1>2. CASE UNCHANGED <<journal, sequence>>
  <2>1. NoHoles' /\ EpochsInOrder' /\ AppliedOnce'
    <3>1. NoHoles'
      BY <1>2 DEF Inv, NoHoles
    <3>2. EpochsInOrder'
      BY <1>2 DEF Inv, EpochsInOrder
    <3>3. EntryIds' = EntryIds
      BY <1>2 DEF EntryIds
    <3>4. \A a, b \in EntryIds : a # b =>
            /\ ~SameMessage(journal[a[1]][a[2]], journal[b[1]][b[2]])
            /\ ~SameKey(journal[a[1]][a[2]], journal[b[1]][b[2]])
      BY DEF Inv, AppliedOnce, EntryAt
    <3>5. \A a, b \in EntryIds' : a # b =>
            /\ ~SameMessage(journal'[a[1]][a[2]], journal'[b[1]][b[2]])
            /\ ~SameKey(journal'[a[1]][a[2]], journal'[b[1]][b[2]])
      BY <1>2, <3>3, <3>4
    <3>6. AppliedOnce'
      BY <3>5 DEF AppliedOnce, EntryAt, SameMessage, SameKey
    <3> QED
      BY <3>1, <3>2, <3>6
  <2>2. ASSUME NEW p \in Partitions, NEW i \in 1 .. Len(journal[p])
        PROVE  journal[p][i].epoch \in Nat
    <3>1. journal[p] \in Seq(Entry)
      BY DEF Inv, Typed, TypeOK
    <3>2. journal[p][i] \in Entry
      BY <3>1
    <3> QED
      BY <3>2 DEF Entry
  <2>3. Written'
    <3>1. epoch[Control] \in Nat /\ epoch'[Control] \in Nat /\ epoch'[Control] >= epoch[Control]
      BY EpochsRise
    <3>2. tookOver \subseteq tookOver'
      BY EpochsRise
    <3>3. ASSUME NEW p \in Partitions, NEW i \in 1 .. Len(journal[p])
          PROVE  /\ journal[p][i].epoch <= epoch'[Control]
                 /\ journal[p][i].by \in Leased =>
                      [epoch |-> journal[p][i].epoch, member |-> journal[p][i].by] \in tookOver'
      BY <2>2, <3>1, <3>2 DEF Inv, Written
    <3> QED
      BY <1>2, <3>3 DEF Written
  <2> QED
    BY <1>1, <2>1, <2>3 DEF Inv
<1>3. ASSUME NEW p, NEW e, Appends(p, e) PROVE Inv'
  BY <1>1, <1>3, AppendNoHoles, AppendWritten, AppendEpochsInOrder, AppendAppliedOnce
  DEF Inv, Typed
<1> QED
  BY <1>2, <1>3, WritesAppend

\* The invariant holds of every state.
LEMMA InvHolds == Spec => []Inv
  BY InitInv, StepInv, PTL DEF Spec

-----------------------------------------------------------------------------
(* What follows from it.                                                   *)

\* A partition's numbers have no holes: a refused command gives back what it
\* was given, whichever thread or member takes the lock next.
THEOREM NumbersHaveNoHoles == Spec => []NoHoles
  BY InvHolds, PTL DEF Inv

\* No command is applied twice, however often it is sent, wherever it is
\* sent again, and whoever took over in between.
THEOREM CommandsAppliedOnce == Spec => []AppliedOnce
  BY InvHolds, PTL DEF Inv

\* No entry of a deposed writer follows one of the writer that deposed it.
THEOREM DeposedNeverFollows == Spec => []EpochsInOrder
  BY InvHolds, PTL DEF Inv

\* The epoch is the same on every partition, raised once for each takeover
\* recorded, and the member recorded under it is its only writer with a lease.
THEOREM EpochNamesItsWriter == Spec => []OneWriterPerEpoch
<1>1. Inv => OneWriterPerEpoch
  <2> SUFFICES ASSUME Inv PROVE OneWriterPerEpoch
    OBVIOUS
  <2>1. \A t \in tookOver : t.epoch \in Nat
    BY DEF Inv, Typed, TypeOK
  <2>2. epoch[Control] \in Nat
    BY StoreAssumption DEF Inv, Typed, TypeOK
  <2>3. {t.epoch : t \in tookOver} = 2 .. epoch[Control]
    <3>1. ASSUME NEW t \in tookOver PROVE t.epoch \in 2 .. epoch[Control]
      BY <2>1 DEF Inv, Raised, EpochTaken
    <3>2. ASSUME NEW e \in 2 .. epoch[Control] PROVE \E t \in tookOver : t.epoch = e
      BY <2>2 DEF Inv, Raised, EpochTaken
    <3> QED
      BY <3>1, <3>2
  <2>4. \A id \in EntryIds : EntryAt(id).by \in Leased =>
          [epoch |-> EntryAt(id).epoch, member |-> EntryAt(id).by] \in tookOver
    <3> SUFFICES ASSUME NEW id \in EntryIds
                 PROVE  EntryAt(id).by \in Leased =>
                          [epoch |-> EntryAt(id).epoch, member |-> EntryAt(id).by] \in tookOver
      OBVIOUS
    <3>1. id[1] \in Partitions /\ id[2] \in 1 .. Len(journal[id[1]])
      BY EntryIdsAre DEF Inv, Typed
    <3> QED
      BY <3>1 DEF Inv, Written, EntryAt
  <2> QED
    BY <2>3, <2>4 DEF OneWriterPerEpoch, Inv, Raised
<1> QED
  BY <1>1, InvHolds, PTL

\* No step rewrites or loses a committed entry, or lowers an epoch.
THEOREM CommittedStays == Spec => RecordOnlyGrows
<1>1. Inv /\ [Next]_vars => [\A p \in Partitions :
        /\ epoch'[p] >= epoch[p]
        /\ Len(journal'[p]) >= Len(journal[p])
        /\ \A i \in DOMAIN journal[p] : journal'[p][i] = journal[p][i]]_vars
  <2> SUFFICES ASSUME Inv, [Next]_vars, NEW p \in Partitions
               PROVE  /\ epoch'[p] >= epoch[p]
                      /\ Len(journal'[p]) >= Len(journal[p])
                      /\ \A i \in DOMAIN journal[p] : journal'[p][i] = journal[p][i]
    OBVIOUS
  <2>1. DOMAIN journal[p] = 1 .. Len(journal[p])
    BY DEF Inv, Typed, TypeOK
  <2> QED
    BY <2>1, EpochsRise, JournalStays
<1> QED
  BY <1>1, InvHolds, PTL DEF Spec, RecordOnlyGrows

-----------------------------------------------------------------------------
(* What a caller is answered with.                                         *)

\* An entry a caller can be answered with stays in the record, unchanged.
LEMMA EntryStays ==
    ASSUME Inv, [Next]_vars, NEW id \in EntryIds
    PROVE  id \in EntryIds' /\ journal'[id[1]][id[2]] = journal[id[1]][id[2]]
<1>1. /\ id[1] \in Partitions
      /\ id[2] \in 1 .. Len(journal[id[1]])
      /\ id = <<id[1], id[2]>>
  BY EntryIdsAre DEF Inv, Typed
<1>2. id[2] \in 1 .. Len(journal'[id[1]]) /\ journal'[id[1]][id[2]] = journal[id[1]][id[2]]
  BY <1>1, JournalStays
<1>3. DOMAIN journal'[id[1]] = 1 .. Len(journal'[id[1]])
  <2>1. TypeOK'
    BY StepTyped DEF Inv, Typed
  <2>2. journal'[id[1]] \in Seq(Entry)
    BY <1>1, <2>1 DEF TypeOK, Entry
  <2> QED
    BY <2>2
<1>4. id \in {id[1]} \X DOMAIN journal'[id[1]]
  BY <1>1, <1>2, <1>3
<1> QED
  BY <1>1, <1>2, <1>4 DEF EntryIds

\* A thread is answering after a step only where it was before, or where it
\* was just answered with an entry.
LEMMA WhoAnswers ==
    ASSUME Inv, [Next]_vars, NEW t \in Threads, phase'[t] = "answering"
    PROVE  /\ asked'[t] = asked[t]
           /\ \/ phase[t] = "answering" /\ reply'[t] = reply[t]
              \/ Duplicate(t)
              \/ Commit(t) /\ AnswersWith(t, <<PartitionOf(asked[t]), Len(journal[PartitionOf(asked[t])]) + 1>>)
<1> USE DEF Inv, Typed, TypeOK
<1>1. ASSUME NEW m \in Members, Adopt(m) \/ StartTakeOver(m) \/ TakeOver(m)
      PROVE  asked'[t] = asked[t] /\ phase[t] = "answering" /\ reply'[t] = reply[t]
  BY <1>1 DEF Adopt, StartTakeOver, TakeOver, thread
<1>2. ASSUME NEW m \in Members, Ends(m)
      PROVE  asked'[t] = asked[t] /\ phase[t] = "answering" /\ reply'[t] = reply[t]
  BY <1>2 DEF Ends
<1>3. ASSUME NEW u \in Threads, NEW c \in Commands, Ask(u, c)
      PROVE  asked'[t] = asked[t] /\ phase[t] = "answering" /\ reply'[t] = reply[t]
  BY <1>3 DEF Ask
<1>4. ASSUME NEW u \in Threads,
             Fenced(u) \/ Conflict(u) \/ Replays(u) \/ DecisionRefused(u) \/ Answer(u)
      PROVE  asked'[t] = asked[t] /\ phase[t] = "answering" /\ reply'[t] = reply[t]
  BY <1>4 DEF Fenced, Conflict, Replays, DecisionRefused, Answer, Refused
<1>5. ASSUME NEW u \in Threads, Duplicate(u)
      PROVE  asked'[t] = asked[t] /\ (u = t \/ (phase[t] = "answering" /\ reply'[t] = reply[t]))
  <2>1. PICK id \in EntryIds : AnswersWith(u, id)
    BY <1>5 DEF Duplicate, HeldByMessage, HeldByKey
  <2> QED
    BY <2>1 DEF AnswersWith
<1>6. ASSUME NEW u \in Threads, Commit(u)
      PROVE  \/ asked'[t] = asked[t] /\ phase[t] = "answering" /\ reply'[t] = reply[t]
             \/ /\ u = t
                /\ asked'[t] = asked[t]
                /\ AnswersWith(t, <<PartitionOf(asked[t]), Len(journal[PartitionOf(asked[t])]) + 1>>)
  <2> DEFINE id == <<PartitionOf(asked[u]), Len(journal[PartitionOf(asked[u])]) + 1>>
  <2>1. AnswersWith(u, id) \/ Refused(u)
    BY <1>6 DEF Commit
  <2> HIDE DEF id
  <2>2. CASE u # t
    BY <2>1, <2>2 DEF AnswersWith, Refused
  <2>3. CASE u = t
    <3>1. AnswersWith(t, id) /\ asked'[t] = asked[t]
      BY <2>1, <2>3 DEF AnswersWith, Refused
    <3> QED
      BY <2>3, <3>1 DEF id
  <2> QED
    BY <2>2, <2>3
<1>7. CASE UNCHANGED vars
  BY <1>7 DEF vars, thread
<1>8. \A m \in Members : TakeOverFails(m) \/ StepDown(m) \/ Crash(m) => Ends(m)
  BY DEF TakeOverFails, StepDown, Crash
<1> QED
  BY <1>1, <1>2, <1>3, <1>4, <1>5, <1>6, <1>7, <1>8 DEF Next, Act

\* A thread is answered with an entry of its own command, found or just made.
LEMMA StepAnswers == Inv /\ AnswerIsRecorded /\ [Next]_vars => AnswerIsRecorded'
<1> SUFFICES ASSUME Inv, AnswerIsRecorded, [Next]_vars,
                    NEW t \in Threads, phase'[t] = "answering"
             PROVE  /\ reply'[t] \in EntryIds'
                    /\ AnsweredWith(asked'[t], journal'[reply'[t][1]][reply'[t][2]])
  BY DEF AnswerIsRecorded, EntryAt, AnsweredWith, SameMessage, SameKey
<1>1. asked'[t] = asked[t]
  BY WhoAnswers
<1>2. ASSUME NEW id \in EntryIds, reply'[t] = id, AnsweredWith(asked[t], EntryAt(id))
      PROVE  /\ reply'[t] \in EntryIds'
             /\ AnsweredWith(asked'[t], journal'[reply'[t][1]][reply'[t][2]])
  BY <1>1, <1>2, EntryStays DEF EntryAt
<1>3. CASE phase[t] = "answering" /\ reply'[t] = reply[t]
  BY <1>2, <1>3 DEF AnswerIsRecorded
<1>4. CASE Duplicate(t)
  <2>1. PICK id \in EntryIds : AnswersWith(t, id) /\ AnsweredWith(asked[t], EntryAt(id))
    BY <1>4 DEF Duplicate, HeldByMessage, HeldByKey, AnsweredWith
  <2>2. reply'[t] = id
    BY <2>1 DEF AnswersWith, Inv, Typed, TypeOK
  <2> QED
    BY <1>2, <2>1, <2>2
<1>5. CASE /\ Commit(t)
           /\ AnswersWith(t, <<PartitionOf(asked[t]), Len(journal[PartitionOf(asked[t])]) + 1>>)
  <2> DEFINE p == PartitionOf(asked[t])
  <2> DEFINE i == Len(journal[p]) + 1
  <2>1. PICK n \in RecordCounts :
          /\ p \in Partitions
          /\ EntryOf(t, n) \in Entry
          /\ journal' = [journal EXCEPT ![p] = Append(journal[p], EntryOf(t, n))]
    BY <1>5, CommitAppends DEF Inv
  <2>2. journal[p] \in Seq(Entry) /\ journal'[p] = Append(journal[p], EntryOf(t, n))
    BY <2>1 DEF Inv, Typed, TypeOK
  <2>3. i \in DOMAIN journal'[p] /\ journal'[p][i] = EntryOf(t, n)
    BY <2>1, <2>2
  <2>4. reply'[t] = <<p, i>>
    <3>1. AnswersWith(t, <<p, i>>)
      BY <1>5
    <3> HIDE DEF i, p
    <3> QED
      BY <3>1 DEF AnswersWith, Inv, Typed, TypeOK
  <2>5. /\ EntryOf(t, n).message = asked[t].message
        /\ EntryOf(t, n).key = asked[t].key
        /\ EntryOf(t, n).account = asked[t].account
        /\ EntryOf(t, n).request = asked[t].request
    BY DEF EntryOf
  <2>6. AnsweredWith(asked[t], EntryOf(t, n))
    BY <2>5 DEF AnsweredWith, SameMessage, SameKey
  <2>7. <<p, i>> \in EntryIds'
    BY <2>1, <2>3 DEF EntryIds
  <2> HIDE DEF p, i
  <2> QED
    BY <1>1, <2>3, <2>4, <2>6, <2>7
<1> QED
  BY <1>3, <1>4, <1>5, WhoAnswers

\* A caller is answered with an entry of its own command that is in the record.
THEOREM AnswersAreRecorded == Spec => []AnswerIsRecorded
<1>1. Init => AnswerIsRecorded
  BY DEF Init, AnswerIsRecorded
<1> QED
  BY <1>1, StepAnswers, InvHolds, PTL DEF Spec

-----------------------------------------------------------------------------
(* BookStore implements FencedLog.                                         *)

\* The takeover recorded under the epoch in force names the holder.
LEMMA HolderIs ==
    ASSUME NEW took, NEW t \in took, \A u \in took : u.epoch = t.epoch => u = t
    PROVE  HolderOf(took, t.epoch) = t.member
<1>1. took # {}
  OBVIOUS
<1>2. (CHOOSE u \in took : u.epoch = t.epoch) = t
  OBVIOUS
<1> QED
  BY <1>1, <1>2 DEF HolderOf

\* The store starts as the promise does.
LEMMA InitPromise == Init => Log!Init
  BY StoreAssumption DEF Init, Log!Init, Holder, HolderOf, Nobody

\* Every step of the store is one of the promise's, or a stutter of it.
LEMMA StepPromise == Inv /\ Inv' /\ [Next]_vars => [Log!Next]_Log!vars
<1> SUFFICES ASSUME Inv, Inv', [Next]_vars PROVE [Log!Next]_Log!vars
  OBVIOUS
<1>1. ASSUME NEW m \in Members, TakeOver(m) PROVE Log!Next
  <2> DEFINE new == [epoch |-> epoch[Control] + 1, member |-> m]
  <2>1. /\ epoch' = [p \in Partitions |-> epoch[Control] + 1]
        /\ tookOver' = tookOver \union {new}
    BY <1>1, TakeOverRaises DEF Inv
  <2>2. epoch'[Control] = epoch[Control] + 1
    BY <2>1, StoreAssumption
  <2>3. new \in tookOver' /\ new.epoch = epoch'[Control]
    BY <2>1, <2>2
  <2>4. \A u \in tookOver' : u.epoch = epoch'[Control] => u = new
    BY <2>3 DEF Inv, Raised
  <2>5. new.member = m /\ \A u \in tookOver' : u.epoch = new.epoch => u = new
    BY <2>3, <2>4
  <2> HIDE DEF new
  <2>6. Holder' = m
    BY <2>3, <2>5, HolderIs DEF Holder
  <2>7. journal' = journal
    BY <1>1 DEF TakeOver
  <2> QED
    BY <2>2, <2>6, <2>7 DEF Log!Next, Log!Raise
<1>2. ASSUME NEW p, NEW e, Appends(p, e) PROVE Log!Next
  <2>1. /\ p \in Partitions
        /\ journal' = [journal EXCEPT ![p] = Append(journal[p], e)]
        /\ e.first = sequence[p] + 1
        /\ e.last >= e.first
        /\ e.epoch = epoch[Control]
        /\ e.by \in Leased => [epoch |-> e.epoch, member |-> e.by] \in tookOver
        /\ \A id \in EntryIds : ~SameMessage(e, EntryAt(id)) /\ ~SameKey(e, EntryAt(id))
        /\ UNCHANGED <<epoch, tookOver>>
    BY <1>2 DEF Appends
  <2>2. /\ journal[p] \in Seq(Entry)
        /\ Len(journal'[p]) > Len(journal[p])
        /\ journal'[p][Len(journal[p]) + 1] = e
    BY <1>2, <2>1, AfterAppend DEF Inv, Typed, TypeOK
  <2>3. e.first = Log!End(p) + 1
    BY <2>1, <2>2 DEF Log!End, Inv, NoHoles
  <2>4. ASSUME e.by \in Leased PROVE e.by = Holder
    <3> DEFINE t == [epoch |-> e.epoch, member |-> e.by]
    <3>1. t \in tookOver /\ t.epoch = epoch[Control] /\ t.member = e.by
      BY <2>1, <2>4
    <3>2. \A u \in tookOver : u.epoch = t.epoch => u = t
      BY <3>1 DEF Inv, Raised
    <3> HIDE DEF t
    <3> QED
      BY <3>1, <3>2, HolderIs DEF Holder
  <2>5. ASSUME NEW q \in Partitions, NEW i \in DOMAIN journal[q]
        PROVE  ~Log!SameCommand(journal[q][i], e)
    <3>1. <<q, i>> \in EntryIds
      BY DEF EntryIds
    <3>2. ~SameMessage(e, journal[q][i]) /\ ~SameKey(e, journal[q][i])
      BY <2>1, <3>1 DEF EntryAt
    <3> QED
      BY <3>2 DEF Log!SameCommand, SameMessage, SameKey
  <2>6. Holder' = Holder
    BY <2>1 DEF Holder
  <2>7. Log!Made(p, e)
    BY <2>1, <2>3, <2>4, <2>5, <2>6 DEF Log!Made, Log!InLog
  <2> QED
    BY <2>1, <2>2, <2>7 DEF Log!Next
<1>3. CASE UNCHANGED <<journal, sequence>> /\ UNCHANGED <<epoch, tookOver>>
  <2>1. Holder' = Holder
    BY <1>3 DEF Holder
  <2> QED
    BY <1>3, <2>1 DEF Log!vars
<1> QED
  BY <1>1, <1>2, <1>3, WritesAppend, OnlyTakeOverRaises

\* The store's processes, transactions, locks and takeovers keep the promise
\* of FencedLog: every step is one of its steps or changes nothing it shows.
THEOREM StoreKeepsThePromise == Spec => KeepsThePromise
<1>1. Inv /\ [Next]_vars => Inv'
  BY StepInv
<1> QED
  BY <1>1, InitPromise, StepPromise, InvHolds, PTL DEF Spec, KeepsThePromise, Log!Spec

=============================================================================

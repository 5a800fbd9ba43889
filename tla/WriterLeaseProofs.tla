-------------------------- MODULE WriterLeaseProofs -------------------------
(***************************************************************************)
(* What WriterLease promises for any members, settings and faults: a lease *)
(* is never taken before it lapsed, and a writer that cannot renew stops.  *)
(*                                                                         *)
(* The argument is one of ages.  What a standby has seen is no older, by   *)
(* more than a request, than the lease's last renewal (SeenSince), and     *)
(* what it is about to write over has lapsed (PutLapsed).  A writer that   *)
(* sleeps was within its deadline when it began to, and each request since *)
(* adds no more than a renew (Clocked).                                    *)
(***************************************************************************)
EXTENDS WriterLease, TLAPS

Types ==
    /\ holder \in Members \union {Absent, Released, Gone}
    /\ knows \subseteq Members
    /\ role \in [Members -> {"down", "standby", "writer", "stopping"}]
    /\ step \in [Members -> {"sleep", "get", "put", "written",
                             "taking", "release", "released"}]
    /\ elapsed \in [Members -> Nat]
    /\ seenFor \in [Members -> 0 .. Duration + Renew]
    /\ unrenewed \in [Members -> 0 .. LongestUnrenewed]
    /\ renewAge \in 0 .. Duration

\* What a member in each role may await, and that it is not overdue.
InStep ==
    \A m \in Members :
        /\ role[m] = "down" => step[m] = "sleep"
        /\ role[m] = "stopping" => step[m] \notin {"sleep", "taking"}
        /\ role[m] = "standby" => step[m] \notin {"taking", "release", "released"}
        /\ role[m] = "writer" => step[m] \notin {"release", "released"}
        /\ role[m] # "down" => elapsed[m] <= Limit(m)

\* What a member has seen, it first saw no longer before the last renewal
\* than its request took.
SeenSince == \A m \in knows : seenFor[m] <= renewAge + Renew

\* A member that writes over another's lease as it read it saw it lapse.
PutLapsed ==
    \A m \in Members :
        step[m] = "put" /\ m \in knows /\ Theirs(m) => renewAge + Renew >= Duration

\* For how long a writer in a step may have slept, and asked, since a look left
\* it within its deadline, when it began that step.
Before(s) == CASE s = "sleep"              -> 0
               [] s \in {"put", "written"} -> 2 * Renew
               [] OTHER                    -> Renew

\* How long a writer has gone unrenewed, by the step it is in.
Clocked ==
    \A m \in Members :
        Serving(m) => unrenewed[m] < RenewDeadline + Before(step[m]) + elapsed[m]

LeaseInv == Types /\ InStep /\ SeenSince /\ PutLapsed /\ Clocked

-----------------------------------------------------------------------------
(* Types, and when a lease is taken.                                       *)

LEMMA Settings ==
    /\ LookEvery \in 0 .. Renew
    /\ RenewDeadline \in Nat /\ 0 < RenewDeadline /\ RenewDeadline <= Duration
    /\ Renew \in Nat /\ Duration \in Nat /\ 0 < Renew /\ Renew < Duration
    /\ LongestUnrenewed = RenewDeadline + 3 * Renew
    /\ \A s : Before(s) \in 0 .. 2 * Renew
  BY LeaseAssumption DEF LookEvery, RenewDeadline, LongestUnrenewed, Before

LEMMA LeaseInvInit == Init => LeaseInv
<1> SUFFICES ASSUME Init PROVE LeaseInv
  OBVIOUS
<1>1. Types
  BY Settings DEF Init, Types
<1>2. InStep
  BY DEF Init, InStep
<1>3. SeenSince /\ PutLapsed /\ Clocked
  BY DEF Init, SeenSince, PutLapsed, Clocked, Serving, Writing
<1> QED
  BY <1>1, <1>2, <1>3 DEF LeaseInv

\* A process that ends frees nobody to take its lease.
LEMMA ExitsKeepsInv ==
    ASSUME LeaseInv, NEW m \in Members, Exits(m)
    PROVE  LeaseInv'
<1> USE DEF LeaseInv
<1>1. /\ role' = [role EXCEPT ![m] = "down"]
      /\ step' = [step EXCEPT ![m] = "sleep"] /\ elapsed' = [elapsed EXCEPT ![m] = 0]
      /\ seenFor' = [seenFor EXCEPT ![m] = 0] /\ unrenewed' = [unrenewed EXCEPT ![m] = 0]
      /\ holder' = IF holder = m THEN Gone ELSE holder
      /\ knows' = knows \ {m} /\ renewAge' = renewAge
  BY DEF Exits, Awaits
<1>2. Types'
  BY <1>1, Settings DEF Types
<1>3. InStep'
  BY <1>1, Settings DEF InStep, Types, Limit, Interval, Writing
<1>4. SeenSince'
  BY <1>1 DEF SeenSince, Types
<1>5. PutLapsed'
  <2> SUFFICES ASSUME NEW n \in Members, step'[n] = "put", n \in knows', Theirs(n)'
               PROVE  renewAge' + Renew >= Duration
    BY DEF PutLapsed
  <2>1. n # m /\ step[n] = "put" /\ n \in knows
    BY <1>1 DEF Types
  <2>2. Theirs(n)
    BY <1>1, <2>1, LeaseAssumption DEF Theirs
  <2> QED
    BY <1>1, <2>1, <2>2 DEF PutLapsed
<1>6. Clocked'
  BY <1>1 DEF Clocked, Serving, Writing, Types
<1> QED
  BY <1>2, <1>3, <1>4, <1>5, <1>6

\* A write is seen by nobody but its writer.
LEMMA WriteKeepsInv ==
    ASSUME LeaseInv, NEW m \in Members, NEW who \in {m, Released}, Write(m, who),
           NEW what \in {"written", "released"}, step' = [step EXCEPT ![m] = what],
           step[m] = "put" \/ step[m] = "release",
           what = "written" <=> step[m] = "put",
           UNCHANGED <<role, elapsed, unrenewed>>
    PROVE  LeaseInv'
<1> USE DEF LeaseInv
<1>1. /\ holder' = who /\ renewAge' = 0 /\ knows' = {m}
      /\ seenFor' = [n \in Members |-> 0]
  BY DEF Write
<1>2. Types'
  BY <1>1, Settings DEF Types
<1>3. InStep'
  BY <1>1, Settings DEF InStep, Types, Limit, Interval, Writing
<1>4. SeenSince'
  BY <1>1, Settings DEF SeenSince
<1>5. PutLapsed'
  BY <1>1 DEF PutLapsed, Types
<1>6. Before(what) = Before(step[m])
  BY DEF Before
<1>7. Clocked'
  BY <1>6 DEF Clocked, Serving, Writing, Types
<1> QED
  BY <1>2, <1>3, <1>4, <1>5, <1>7

\* A member's step that leaves the lease as it is: it goes on from `r` and
\* awaits `s`, having seen the lease for `f`.
LEMMA StepKeepsInv ==
    ASSUME LeaseInv, NEW m \in Members, UNCHANGED <<holder, renewAge>>,
           NEW r \in {"standby", "writer", "stopping"}, NEW e \in Nat,
           NEW s \in {"sleep", "get", "put", "written", "taking", "release"},
           NEW f \in 0 .. Duration + Renew, NEW u \in 0 .. LongestUnrenewed,
           role' = [role EXCEPT ![m] = r], step' = [step EXCEPT ![m] = s],
           elapsed' = [elapsed EXCEPT ![m] = e], unrenewed' = [unrenewed EXCEPT ![m] = u],
           seenFor' = [seenFor EXCEPT ![m] = f],
           knows' \subseteq knows \union {m}, m \in knows' => f <= renewAge + Renew,
           s = "put" /\ m \in knows' /\ Theirs(m) => renewAge + Renew >= Duration,
           r = "stopping" => s \notin {"sleep", "taking"},
           r = "standby" => s \notin {"taking", "release"},
           r = "writer" => s # "release",
           e <= Limit(m)',
           r # "standby" /\ s # "taking" => u < RenewDeadline + Before(s) + e
    PROVE  LeaseInv'
<1> USE DEF LeaseInv
<1>1. Types'
  BY Settings DEF Types
<1>2. InStep'
  <2> SUFFICES ASSUME NEW n \in Members
               PROVE  /\ role'[n] = "down" => step'[n] = "sleep"
                      /\ role'[n] = "stopping" => step'[n] \notin {"sleep", "taking"}
                      /\ role'[n] = "standby" =>
                            step'[n] \notin {"taking", "release", "released"}
                      /\ role'[n] = "writer" => step'[n] \notin {"release", "released"}
                      /\ role'[n] # "down" => elapsed'[n] <= Limit(n)'
    BY DEF InStep
  <2>1. CASE n = m
    BY <2>1 DEF Types
  <2>2. CASE n # m
    <3>1. /\ role'[n] = role[n] /\ step'[n] = step[n] /\ elapsed'[n] = elapsed[n]
      BY <2>2 DEF Types
    <3>2. Limit(n)' = Limit(n)
      BY <3>1 DEF Limit, Interval, Writing
    <3> QED
      BY <3>1, <3>2 DEF InStep
  <2> QED
    BY <2>1, <2>2
<1>3. SeenSince'
  BY DEF SeenSince, Types
<1>4. PutLapsed'
  BY DEF PutLapsed, Types, Theirs
<1>5. Clocked'
  BY DEF Clocked, Serving, Writing, Types
<1> QED
  BY <1>1, <1>2, <1>3, <1>4, <1>5

\* How long a member awaits what it awaits, by what that is.
LEMMA Limits ==
    ASSUME LeaseInv, NEW m \in Members
    PROVE  /\ step[m] = "sleep" /\ role[m] \in {"writer", "stopping"} => Limit(m) = Renew
           /\ step[m] = "sleep" /\ role[m] \in {"down", "standby"} => Limit(m) = LookEvery
           /\ step[m] # "sleep" => Limit(m) = Renew
           /\ Limit(m) <= Renew
           /\ Limit(m) \in Nat
  BY Settings DEF Limit, Interval, Writing

LEMMA NextLimits ==
    ASSUME NEW m \in Members
    PROVE  /\ step'[m] = "sleep" /\ role'[m] \in {"writer", "stopping"} => Limit(m)' = Renew
           /\ step'[m] = "sleep" /\ role'[m] \in {"down", "standby"} => Limit(m)' = LookEvery
           /\ step'[m] # "sleep" => Limit(m)' = Renew
           /\ Limit(m)' \in Nat
  BY Settings DEF Limit, Interval, Writing

\* What a member keeps of itself in a step.
LEMMA Kept ==
    ASSUME LeaseInv, NEW m \in Members
    PROVE  /\ unrenewed[m] \in 0 .. LongestUnrenewed
           /\ Serving(m) => unrenewed[m] < RenewDeadline + Before(step[m]) + elapsed[m]
           /\ seenFor[m] \in 0 .. Duration + Renew
           /\ elapsed[m] \in Nat /\ renewAge \in Nat
           /\ role = [role EXCEPT ![m] = role[m]]
           /\ seenFor = [seenFor EXCEPT ![m] = seenFor[m]]
           /\ unrenewed = [unrenewed EXCEPT ![m] = unrenewed[m]]
           /\ m \in knows => seenFor[m] <= renewAge + Renew
           /\ step[m] \in {"get", "put", "written"} =>
                role[m] \in {"standby", "writer", "stopping"} /\ elapsed[m] <= Renew
<1>1. step[m] \in {"get", "put", "written"} =>
        role[m] \in {"standby", "writer", "stopping"} /\ elapsed[m] <= Renew
  BY Limits DEF LeaseInv, InStep, Types
<1> QED
  BY <1>1, Settings DEF LeaseInv, Types, SeenSince, Clocked

LEMMA LooksKeepsInv ==
    ASSUME LeaseInv, NEW m \in Members, Looks(m)
    PROVE  LeaseInv'
<1>1. /\ role[m] \in {"standby", "writer"} /\ UNCHANGED <<lease, role, seenFor, unrenewed>>
      /\ step' = [step EXCEPT ![m] = "get"] /\ elapsed' = [elapsed EXCEPT ![m] = 0]
  BY DEF Looks, Awaits
<1>2. 0 <= Limit(m)'
  BY NextLimits
<1>3. role[m] = "writer" => unrenewed[m] < RenewDeadline + Before("get") + 0
  <2>1. step[m] = "sleep" /\ elapsed[m] \in Nat /\ (role[m] = "writer" => elapsed[m] <= Renew)
    BY Limits, Kept DEF Looks, LeaseInv, InStep
  <2>2. role[m] = "writer" => unrenewed[m] < RenewDeadline + Before("sleep") + elapsed[m]
    BY <2>1, Kept DEF Serving, Writing
  <2> QED
    BY <2>1, <2>2, Kept, Settings DEF Before
<1> QED
  BY <1>1, <1>2, <1>3, Kept, StepKeepsInv DEF lease

LEMMA AnsweredKeepsInv ==
    ASSUME LeaseInv, NEW m \in Members, Answered(m)
    PROVE  LeaseInv'
<1> DEFINE then == CASE role[m] = "standby"  -> "taking"
                     [] role[m] = "stopping" -> "release"
                     [] OTHER                -> "sleep"
           now == IF role[m] = "standby" THEN "writer" ELSE role[m]
<1>1. role[m] \in {"standby", "writer", "stopping"}
  BY Kept DEF Answered
<1>2. /\ UNCHANGED <<lease, seenFor>> /\ role' = [role EXCEPT ![m] = now]
      /\ unrenewed' = [unrenewed EXCEPT ![m] = 0]
      /\ step' = [step EXCEPT ![m] = then] /\ elapsed' = [elapsed EXCEPT ![m] = 0]
  BY DEF Answered, Awaits, LeaseInv, Types
<1>3. /\ then \in {"taking", "release", "sleep"} /\ now \in {"writer", "stopping"}
      /\ now = "stopping" => then = "release"
      /\ now = "writer" => then # "release"
  BY <1>1
<1>4. /\ 0 <= Limit(m)' /\ 0 \in 0 .. LongestUnrenewed
      /\ 0 < RenewDeadline + Before(then) + 0
  BY NextLimits, Settings
<1> HIDE DEF then, now
<1> QED
  BY <1>2, <1>3, <1>4, Kept, StepKeepsInv DEF lease

LEMMA StartsKeepsInv ==
    ASSUME LeaseInv, NEW m \in Members, Starts(m)
    PROVE  LeaseInv'
<1>1. /\ role' = [role EXCEPT ![m] = "standby"] /\ UNCHANGED <<lease, seenFor, unrenewed>>
      /\ step' = [step EXCEPT ![m] = "sleep"]
      /\ elapsed' = [elapsed EXCEPT ![m] = LookEvery]
  BY DEF Starts, LeaseInv, Types, InStep
<1>2. role'[m] = "standby" /\ step'[m] = "sleep"
  BY <1>1 DEF LeaseInv, Types
<1>3. LookEvery <= Limit(m)' /\ LookEvery \in Nat
  BY <1>2, NextLimits, Settings
<1> QED
  BY <1>1, <1>3, Kept, StepKeepsInv DEF lease

LEMMA ServesKeepsInv ==
    ASSUME LeaseInv, NEW m \in Members, Serves(m)
    PROVE  LeaseInv'
<1>1. /\ role[m] = "writer" /\ UNCHANGED <<lease, role, seenFor>>
      /\ step' = [step EXCEPT ![m] = "sleep"] /\ elapsed' = [elapsed EXCEPT ![m] = 0]
      /\ unrenewed' = [unrenewed EXCEPT ![m] = 0]
  BY DEF Serves, Awaits, LeaseInv, Types, InStep
<1>2. /\ 0 <= Limit(m)' /\ 0 \in 0 .. LongestUnrenewed
      /\ 0 < RenewDeadline + Before("sleep") + 0
  BY NextLimits, Settings
<1> QED
  BY <1>1, <1>2, Kept, StepKeepsInv DEF lease

LEMMA StopKeepsInv ==
    ASSUME LeaseInv, NEW m \in Members, Stop(m)
    PROVE  LeaseInv'
<1> DEFINE now == IF step[m] = "sleep" THEN "release" ELSE step[m]
           age == IF step[m] = "sleep" THEN 0 ELSE elapsed[m]
<1>1. /\ step[m] \in {"sleep", "get", "put", "written"}
      /\ UNCHANGED <<lease, seenFor, unrenewed>>
      /\ role' = [role EXCEPT ![m] = "stopping"]
  BY DEF Stop, LeaseInv, Types, InStep
<1>2. step' = [step EXCEPT ![m] = now] /\ elapsed' = [elapsed EXCEPT ![m] = age]
  BY DEF Stop, Awaits, LeaseInv, Types
<1>3. /\ step'[m] = now /\ now \in {"release", "get", "put", "written"} /\ age \in Nat
      /\ now = "put" => step[m] = "put"
  BY <1>1, <1>2 DEF LeaseInv, Types
<1>4. age <= Limit(m)'
  BY <1>1, <1>3, NextLimits, Kept, Settings
<1>5. now = "put" /\ m \in knows /\ Theirs(m) => renewAge + Renew >= Duration
  BY <1>3 DEF LeaseInv, PutLapsed
<1>6. unrenewed[m] < RenewDeadline + Before(now) + age
  <2>1. unrenewed[m] < RenewDeadline + Before(step[m]) + elapsed[m]
    BY <1>1, Kept DEF Stop, Serving, Writing
  <2>2. step[m] = "sleep" => elapsed[m] <= Renew
    BY Limits DEF Stop, LeaseInv, InStep
  <2> QED
    BY <2>1, <2>2, Kept, Settings DEF Before
<1> HIDE DEF now, age
<1> QED
  BY <1>1, <1>2, <1>3, <1>4, <1>5, <1>6, Kept, StepKeepsInv DEF lease

\* A writer whose look says another's ends; a standby sleeps on.
LEMMA HeldKeepsInv ==
    ASSUME LeaseInv, NEW m \in Members, NEW seen \in SUBSET {m}, HeldByAnother(m, seen),
           step[m] \in {"get", "put"}, step[m] = "put" => seen = {}
    PROVE  LeaseInv'
<1>1. CASE Writing(m)
  BY <1>1, ExitsKeepsInv DEF HeldByAnother
<1>2. CASE ~Writing(m)
  <2> DEFINE f == IF m \in seen THEN SeenFor(m) ELSE seenFor[m]
  <2>1. /\ UNCHANGED <<holder, renewAge, role, unrenewed>>
        /\ knows' = knows \union seen /\ seenFor' = [seenFor EXCEPT ![m] = f]
        /\ step' = [step EXCEPT ![m] = "sleep"] /\ elapsed' = [elapsed EXCEPT ![m] = 0]
    BY <1>2 DEF HeldByAnother, Awaits, LeaseInv, Types
  <2>2. role[m] = "standby"
    BY <1>2, Kept DEF Writing
  <2>3. /\ f \in 0 .. Duration + Renew
        /\ m \in knows' => f <= renewAge + Renew
    BY <2>1, Kept, Settings DEF SeenFor
  <2>4. 0 <= Limit(m)'
    BY NextLimits
  <2> HIDE DEF f
  <2> QED
    BY <2>1, <2>2, <2>3, <2>4, Kept, StepKeepsInv
<1> QED
  BY <1>1, <1>2

LEMMA TriesKeepsInv ==
    ASSUME LeaseInv, NEW m \in Members, Tries(m)
    PROVE  LeaseInv'
<1>1. /\ step[m] = "get" /\ UNCHANGED <<holder, renewAge, role, unrenewed>>
      /\ knows' = knows \union {m} /\ seenFor' = [seenFor EXCEPT ![m] = SeenFor(m)]
      /\ step' = [step EXCEPT ![m] = "put"] /\ elapsed' = [elapsed EXCEPT ![m] = 0]
  BY DEF Tries, Awaits
<1>2. SeenFor(m) \in 0 .. Duration + Renew /\ SeenFor(m) <= renewAge + Renew
  BY <1>1, Kept, Settings DEF SeenFor
<1>3. Theirs(m) => renewAge + Renew >= Duration
  <2>1. Theirs(m) => UnchangedFor(m) >= Duration
    BY DEF Tries, MayTake
  <2>2. Theirs(m) => m \in knows /\ seenFor[m] - elapsed[m] >= Duration
    BY <2>1, Settings DEF UnchangedFor
  <2> QED
    BY <2>2, Kept, Settings
<1>4. 0 <= Limit(m)'
  BY NextLimits
<1>5. Writing(m) => unrenewed[m] < RenewDeadline + Before("put") + 0
  <2>1. Writing(m) => unrenewed[m] < RenewDeadline + Before("get") + elapsed[m]
    BY <1>1, Kept DEF Serving
  <2> QED
    BY <1>1, <2>1, Kept, Settings DEF Before
<1> QED
  BY <1>1, <1>2, <1>3, <1>4, <1>5, Kept, StepKeepsInv DEF Writing

LEMMA MissedKeepsInv ==
    ASSUME LeaseInv, NEW m \in Members, NEW known \in SUBSET knows, Missed(m, known),
           step[m] \in {"get", "put", "written"}
    PROVE  LeaseInv'
<1>1. CASE Writing(m) /\ unrenewed[m] >= RenewDeadline
  BY <1>1, ExitsKeepsInv DEF Missed
<1>2. CASE ~(Writing(m) /\ unrenewed[m] >= RenewDeadline)
  <2> DEFINE then == IF role[m] = "stopping" THEN "release" ELSE "sleep"
  <2>1. /\ UNCHANGED <<holder, renewAge, role, seenFor, unrenewed>> /\ knows' = known
        /\ step' = [step EXCEPT ![m] = then] /\ elapsed' = [elapsed EXCEPT ![m] = 0]
    BY <1>2 DEF Missed, Awaits
  <2>2. /\ then \in {"sleep", "release"}
        /\ role[m] = "stopping" => then = "release"
        /\ role[m] # "stopping" => then = "sleep"
    OBVIOUS
  <2>3. 0 <= Limit(m)'
    BY NextLimits
  <2>4. Writing(m) => unrenewed[m] < RenewDeadline + Before(then) + 0
    BY <1>2, Kept, Settings
  <2> HIDE DEF then
  <2> QED
    BY <2>1, <2>2, <2>3, <2>4, Kept, StepKeepsInv DEF Writing
<1> QED
  BY <1>1, <1>2

LEMMA MemberKeepsInv ==
    ASSUME LeaseInv, NEW m \in Members, Progress(m) \/ RequestFails(m) \/ Crash(m) \/ Stop(m)
    PROVE  LeaseInv'
<1>1. CASE Looks(m)
  BY <1>1, LooksKeepsInv
<1>2. CASE Waits(m)
  <2>1. HeldByAnother(m, {m}) /\ step[m] = "get" /\ {m} \in SUBSET {m}
    BY <1>2 DEF Waits
  <2> QED
    BY <2>1, HeldKeepsInv
<1>3. CASE Tries(m)
  BY <1>3, TriesKeepsInv
<1>4. CASE Applies(m)
  <2>1. /\ step[m] = "put" /\ step' = [step EXCEPT ![m] = "written"] /\ Write(m, m)
        /\ UNCHANGED <<role, elapsed, unrenewed>>
    BY <1>4 DEF Applies
  <2> QED
    BY <2>1, WriteKeepsInv
<1>5. CASE Conflicts(m)
  <2>1. HeldByAnother(m, {}) /\ step[m] = "put" /\ {} \in SUBSET {m}
    BY <1>5 DEF Conflicts
  <2> QED
    BY <2>1, HeldKeepsInv
<1>6. CASE Answered(m)
  BY <1>6, AnsweredKeepsInv
<1>7. CASE Starts(m)
  BY <1>7, StartsKeepsInv
<1>8. CASE Serves(m)
  BY <1>8, ServesKeepsInv
<1>9. CASE Releases(m)
  <2>1. /\ step[m] = "release" /\ step' = [step EXCEPT ![m] = "released"]
        /\ Write(m, Released) /\ UNCHANGED <<role, elapsed, unrenewed>>
    BY <1>9 DEF Releases
  <2> QED
    BY <2>1, WriteKeepsInv
<1>10. CASE Stops(m)
  BY <1>10, ExitsKeepsInv DEF Stops
<1>11. CASE RequestFails(m)
  <2> DEFINE known == IF step[m] = "written" THEN knows \ {m} ELSE knows
  <2>1. /\ Missed(m, known) /\ step[m] \in {"get", "put", "written"}
        /\ known \in SUBSET knows
    BY <1>11 DEF RequestFails
  <2> QED
    BY <2>1, MissedKeepsInv
<1>12. CASE Crash(m)
  BY <1>12, ExitsKeepsInv DEF Crash
<1>13. CASE Stop(m)
  BY <1>13, StopKeepsInv
<1> QED
  BY <1>1, <1>2, <1>3, <1>4, <1>5, <1>6, <1>7, <1>8, <1>9, <1>10, <1>11, <1>12, <1>13
     DEF Progress

LEMMA TickKeepsInv ==
    ASSUME LeaseInv, Tick
    PROVE  LeaseInv'
<1> USE DEF LeaseInv
<1>1. /\ holder' = holder /\ knows' = knows /\ role' = role /\ step' = step
      /\ renewAge' = IF renewAge < Duration THEN renewAge + 1 ELSE renewAge
      /\ \A m \in Members :
            role[m] # "down" /\ step[m] # "taking" => elapsed[m] < Limit(m)
      /\ elapsed' = [m \in Members |->
            IF role[m] = "down" \/ step[m] = "taking" THEN 0 ELSE elapsed[m] + 1]
  BY DEF Tick
<1>2. /\ seenFor' \in [Members -> 0 .. Duration + Renew]
      /\ \A m \in Members :
            /\ seenFor'[m] <= Duration + Renew
            /\ seenFor'[m] = seenFor[m] \/ seenFor'[m] = seenFor[m] + 1
  BY Settings DEF Tick, Types
<1>3. unrenewed' \in [Members -> 0 .. LongestUnrenewed]
  BY Settings DEF Tick, Types, LongestUnrenewed
<1>4. renewAge' \in 0 .. Duration /\ renewAge <= renewAge'
  BY <1>1, Settings DEF Types
<1>5. Types'
  BY <1>1, <1>2, <1>3, <1>4 DEF Types
<1>6. InStep'
  <2>1. \A m \in Members : Limit(m)' = Limit(m)
    BY <1>1 DEF Limit, Interval, Writing
  <2>2. \A m \in Members : Limit(m) \in Nat
    BY Limits
  <2>3. \A m \in Members : role'[m] # "down" => elapsed'[m] <= Limit(m)'
    BY <1>1, <2>1, <2>2 DEF Types
  <2> QED
    BY <1>1, <2>3 DEF InStep
<1>7. SeenSince'
  <2> SUFFICES ASSUME NEW m \in knows PROVE seenFor'[m] <= renewAge' + Renew
    BY <1>1 DEF SeenSince
  <2>1. m \in Members /\ seenFor[m] \in Nat /\ seenFor[m] <= renewAge + Renew
    BY Settings DEF Types, SeenSince
  <2>2. renewAge' = Duration \/ renewAge' = renewAge + 1
    BY <1>1, Settings DEF Types
  <2> QED
    BY <1>2, <1>4, <2>1, <2>2, Settings DEF Types
<1>8. Clocked'
  <2> SUFFICES ASSUME NEW m \in Members, Serving(m)'
               PROVE  unrenewed'[m] < RenewDeadline + Before(step'[m]) + elapsed'[m]
    BY DEF Clocked
  <2>1. Serving(m) /\ step'[m] = step[m] /\ elapsed'[m] = elapsed[m] + 1
    BY <1>1 DEF Serving, Writing
  <2>2. unrenewed'[m] <= unrenewed[m] + 1
    BY <2>1, Settings DEF Tick, Types
  <2>3. unrenewed[m] < RenewDeadline + Before(step[m]) + elapsed[m]
    BY <2>1 DEF Clocked
  <2>4. unrenewed[m] \in Nat /\ unrenewed'[m] \in Nat /\ elapsed[m] \in Nat
    BY <1>3, Settings DEF Types
  <2> QED
    BY <2>1, <2>2, <2>3, <2>4, Settings
<1>9. PutLapsed'
  <2>1. \A m \in Members : Theirs(m)' = Theirs(m)
    BY <1>1 DEF Theirs
  <2> QED
    BY <1>1, <1>4, <2>1, Settings DEF PutLapsed, Types
<1> QED
  BY <1>5, <1>6, <1>7, <1>8, <1>9

LEMMA LeaseStep == LeaseInv /\ [Next]_vars => LeaseInv'
<1>1. ASSUME LeaseInv, UNCHANGED vars
      PROVE  LeaseInv'
  <2>1. /\ \A m \in Members : Limit(m)' = Limit(m) /\ Theirs(m)' = Theirs(m)
        /\ UNCHANGED <<holder, renewAge, knows, role, step, elapsed, seenFor, unrenewed>>
    BY <1>1 DEF vars, lease, member, Limit, Interval, Writing, Theirs
  <2> QED
    BY <1>1, <2>1
       DEF LeaseInv, Types, InStep, SeenSince, PutLapsed, Clocked, Serving, Writing
<1> QED
  BY <1>1, TickKeepsInv, MemberKeepsInv DEF Next

LEMMA LeaseInvHolds == Spec => []LeaseInv
<1> QED
  BY LeaseInvInit, LeaseStep, PTL DEF Spec

\* The lease, its members' steps and their timers have their types, and none
\* awaits what its role never does.
THEOREM LeaseTypeOK == Spec => []TypeOK
<1>1. LeaseInv => TypeOK
  <2> SUFFICES ASSUME LeaseInv PROVE TypeOK
    OBVIOUS
  <2>1. Types /\ InStep
    BY DEF LeaseInv
  <2>2. \A m \in Members : role[m] = "down" \/ elapsed[m] \in 0 .. Limit(m)
    BY <2>1, Limits DEF Types, InStep, LeaseInv
  <2> QED
    BY <2>1, <2>2 DEF TypeOK, Types, InStep
<1> QED
  BY <1>1, LeaseInvHolds, PTL

\* No member takes another's lease before it went unrenewed for its duration,
\* less a request: what a look saw, and how long ago, is what a write is
\* allowed by.
THEOREM LeaseNeverTakenEarly == Spec => NeverTakenEarly
<1>1. LeaseInv /\ [Next]_vars
        => [\A m \in Members : Theirs(m) /\ holder' = m => renewAge + Renew >= Duration]_vars
  <2> SUFFICES ASSUME LeaseInv, Next, NEW m \in Members, Theirs(m), holder' = m
               PROVE  renewAge + Renew >= Duration
    OBVIOUS
  <2>1. holder # m
    BY DEF Theirs
  <2>2. Applies(m)
    <3>1. m \notin {Absent, Released, Gone}
      BY LeaseAssumption
    <3>2. \A n \in Members : Exits(n) => holder' # m
      BY <2>1, <3>1 DEF Exits
    <3>3. ~Tick
      BY <2>1 DEF Tick
    <3>4. PICK n \in Members : Progress(n) \/ RequestFails(n) \/ Crash(n) \/ Stop(n)
      BY <3>3 DEF Next
    <3> QED
      BY <2>1, <3>1, <3>2, <3>4
         DEF Progress, Looks, Waits, Tries, Applies, Conflicts, Answered, RequestFails,
             Starts, Serves, Crash, Stop, Releases, Stops, Missed, HeldByAnother, Write,
             lease
  <2> QED
    BY <2>2 DEF Applies, LeaseInv, PutLapsed
<1> QED
  BY <1>1, LeaseInvHolds, PTL DEF Spec, NeverTakenEarly

\* Whatever requests fail, answers are lost or stops are asked for, a writer
\* that cannot renew is stopped by a sleep and two requests past its deadline.
THEOREM UnrenewedStops == Spec => []StopsUnrenewed
<1>1. LeaseInv => StopsUnrenewed
  <2> SUFFICES ASSUME LeaseInv, NEW m \in Members, Serving(m)
               PROVE  unrenewed[m] < LongestUnrenewed
    BY DEF StopsUnrenewed
  <2>1. elapsed[m] <= Renew
    <3>1. elapsed[m] <= Limit(m)
      BY DEF LeaseInv, InStep, Serving, Writing
    <3> QED
      BY <3>1, Limits, Kept, Settings
  <2> QED
    BY <2>1, Kept, Settings
<1> QED
  BY <1>1, LeaseInvHolds, PTL

=============================================================================

---------------------------- MODULE WriterLease ----------------------------
(***************************************************************************)
(* The members of one component and the Kubernetes Lease that says which   *)
(* of them writes: `Elector` (crates/runtime/src/lease.rs) taking, keeping *)
(* and releasing it, driven by `wait_to_write`, `keep` and `release`       *)
(* (crates/runtime/src/member.rs).                                         *)
(*                                                                         *)
(* Time is counted in ticks, and every instant kept is its age.  A request *)
(* of the API is answered, or fails, within a renew of being made          *)
(* (`KubeLeases::in_cluster`); one it took is applied before its asker     *)
(* gives up on it.  Taking the store over takes as long as it takes.  The  *)
(* lease's versions are modelled by who has seen the last: `knows`.  A     *)
(* process never pauses between two of its steps: what a paused writer     *)
(* does is the epoch's to refuse (BookStore), not the lease's.             *)
(***************************************************************************)
EXTENDS Naturals, FiniteSets

CONSTANTS
    Members,
    Duration,     \* settings.duration
    Renew,        \* settings.renew, a request's time out too
    MaxFaults,    \* bound: crashes, planned stops and failed requests
    Unbounded,    \* ... or as many as there are
    Absent,       \* no Lease was ever made
    Released,     \* a Lease that names nobody
    Gone          \* a holder whose process ended

ASSUME LeaseAssumption ==
    /\ Renew \in Nat \ {0} /\ Duration \in Nat /\ Renew < Duration   \* Settings::check
    /\ MaxFaults \in Nat \union {Unbounded}
    /\ {Absent, Released, Gone} \intersect Members = {}

VARIABLES
    holder,    \* the Lease's holderIdentity
    renewAge,  \* its renewTime
    knows,     \* members whose `observed` is the Lease as it is
    role,      \* "down", "standby", "writer", or "stopping" (a writer asked to stop)
    step,      \* what the member awaits
    elapsed,   \* for how long
    seenFor,   \* how long ago `observed` was first seen
    unrenewed, \* keep's `last_renewed.elapsed()`
    faults

lease  == <<holder, renewAge, knows>>
member == <<role, step, elapsed, seenFor, unrenewed>>
vars   == <<lease, member, faults>>

Init ==
    /\ holder = Absent
    /\ renewAge = 0
    /\ knows = {}
    /\ role = [m \in Members |-> "down"]
    /\ step = [m \in Members |-> "sleep"]
    /\ elapsed = [m \in Members |-> 0]
    /\ seenFor = [m \in Members |-> 0]
    /\ unrenewed = [m \in Members |-> 0]
    /\ faults = 0

-----------------------------------------------------------------------------
(* Settings.                                                               *)

\* Settings::renew_deadline.
RenewDeadline == IF Duration - Renew > Renew THEN Duration - Renew ELSE Renew

\* Settings::look_every; a renew between a writer's looks.
LookEvery == Renew \div 2

Writing(m) == role[m] \in {"writer", "stopping"}

Interval(m) == IF Writing(m) THEN Renew ELSE LookEvery

\* How long a member awaits what it awaits: its sleep, or a request.
Limit(m) == IF step[m] = "sleep" THEN Interval(m) ELSE Renew

\* How long a writer may go unrenewed: its deadline is looked at only as a look
\* ends, after the sleep before it and its two requests.
LongestUnrenewed == RenewDeadline + 3 * Renew

-----------------------------------------------------------------------------
(* What members share.                                                     *)

Fault == IF MaxFaults = Unbounded THEN UNCHANGED faults
         ELSE faults < MaxFaults /\ faults' = faults + 1

Awaits(m, what) ==
    /\ step' = [step EXCEPT ![m] = what]
    /\ elapsed' = [elapsed EXCEPT ![m] = 0]

\* The process ends, to come back as a member of another name.
Exits(m) ==
    /\ role' = [role EXCEPT ![m] = "down"]
    /\ Awaits(m, "sleep")
    /\ seenFor' = [seenFor EXCEPT ![m] = 0]
    /\ unrenewed' = [unrenewed EXCEPT ![m] = 0]
    /\ holder' = IF holder = m THEN Gone ELSE holder
    /\ knows' = knows \ {m}
    /\ UNCHANGED renewAge

\* The lease is `who`'s: a new version, which `others` have not seen.
Write(m, who) ==
    /\ holder' = who
    /\ renewAge' = 0
    /\ knows' = {m}
    /\ seenFor' = [n \in Members |-> 0]

\* How long ago a look that read the Lease first saw it as it is: one that
\* changed is timed from before the request that read it.
SeenFor(m) == IF m \in knows THEN seenFor[m] ELSE elapsed[m]

\* Mutant: a look missed leaves the deadline for the next.
MissedSleepsOn(m, known) ==
    /\ Awaits(m, IF role[m] = "stopping" THEN "release" ELSE "sleep")
    /\ knows' = known
    /\ UNCHANGED <<holder, renewAge, role, seenFor, unrenewed>>

\* Mutant: a writer asked to stop while it looked sleeps on.
MissedSleeps(m, known) ==
    IF Writing(m) /\ unrenewed[m] >= RenewDeadline THEN Exits(m)
    ELSE /\ Awaits(m, "sleep")
         /\ knows' = known
         /\ UNCHANGED <<holder, renewAge, role, seenFor, unrenewed>>

\* A look ended and left the member where it was: it sleeps; a writer past
\* its deadline stops; one asked to stop has the elector, and releases.
Missed(m, known) ==
    IF Writing(m) /\ unrenewed[m] >= RenewDeadline THEN Exits(m)
    ELSE /\ Awaits(m, IF role[m] = "stopping" THEN "release" ELSE "sleep")
         /\ knows' = known
         /\ UNCHANGED <<holder, renewAge, role, seenFor, unrenewed>>

\* Mutant: a writer told another holds it waits its turn.
HeldSleeps(m, seen) ==
    /\ Awaits(m, IF role[m] = "stopping" THEN "release" ELSE "sleep")
    /\ knows' = knows \union seen
    /\ seenFor' = [seenFor EXCEPT ![m] = IF m \in seen THEN SeenFor(m) ELSE @]
    /\ UNCHANGED <<holder, renewAge, role, unrenewed>>

\* A look said another holds it: a standby sleeps, a writer steps down.
HeldByAnother(m, seen) ==
    IF Writing(m) THEN Exits(m)
    ELSE /\ Awaits(m, "sleep")
         /\ knows' = knows \union seen
         /\ seenFor' = [seenFor EXCEPT ![m] = IF m \in seen THEN SeenFor(m) ELSE @]
         /\ UNCHANGED <<holder, renewAge, role, unrenewed>>

-----------------------------------------------------------------------------
(* Elector::look.                                                          *)

Looks(m) ==
    /\ role[m] \in {"standby", "writer"}
    /\ step[m] = "sleep"
    /\ elapsed[m] >= Interval(m)
    /\ Awaits(m, "get")
    /\ UNCHANGED <<lease, role, seenFor, unrenewed, faults>>

Theirs(m) == holder \notin {m, Absent, Released}

\* For how long, at this look's start, the Lease had been seen as it is.
UnchangedFor(m) == IF m \in knows /\ seenFor[m] > elapsed[m] THEN seenFor[m] - elapsed[m] ELSE 0

\* Mutant: a lease is lapsed once it was not renewed for a renew.
LapsesEarly(m) == Theirs(m) => UnchangedFor(m) >= Renew

\* Mutant: a lease held is never taken.
NeverLapses(m) == ~Theirs(m)

\* Free, this member's own, or unchanged for its duration.
MayTake(m) == Theirs(m) => UnchangedFor(m) >= Duration

\* The Lease read, and another's: this member waits.
Waits(m) ==
    /\ step[m] = "get"
    /\ ~MayTake(m)
    /\ HeldByAnother(m, {m})
    /\ UNCHANGED faults

\* The Lease read, and to be written as it was read.
Tries(m) ==
    /\ step[m] = "get"
    /\ MayTake(m)
    /\ seenFor' = [seenFor EXCEPT ![m] = SeenFor(m)]
    /\ knows' = knows \union {m}
    /\ Awaits(m, "put")
    /\ UNCHANGED <<holder, renewAge, role, unrenewed, faults>>

\* The Lease is as it was read, and is written; the answer is on its way.
Applies(m) ==
    /\ step[m] = "put"
    /\ m \in knows
    /\ step' = [step EXCEPT ![m] = "written"]
    /\ Write(m, m)
    /\ UNCHANGED <<role, elapsed, unrenewed, faults>>

\* Someone wrote it first.
Conflicts(m) ==
    /\ step[m] = "put"
    /\ m \notin knows
    /\ HeldByAnother(m, {})
    /\ UNCHANGED faults

\* The answer arrives: a standby has taken the lease, a writer renewed it.
Answered(m) ==
    /\ step[m] = "written"
    /\ role' = [role EXCEPT ![m] = IF @ = "standby" THEN "writer" ELSE @]
    /\ unrenewed' = [unrenewed EXCEPT ![m] = 0]
    /\ Awaits(m, CASE role[m] = "standby"  -> "taking"
                   [] role[m] = "stopping" -> "release"
                   [] OTHER                -> "sleep")
    /\ UNCHANGED <<lease, seenFor, faults>>

\* A request failed, or its answer was lost: a record it wrote is not known.
RequestFails(m) ==
    /\ step[m] \in {"get", "put", "written"}
    /\ Missed(m, IF step[m] = "written" THEN knows \ {m} ELSE knows)
    /\ Fault

-----------------------------------------------------------------------------
(* The member.                                                             *)

\* A process starts, and looks at once.
Starts(m) ==
    /\ role[m] = "down"
    /\ role' = [role EXCEPT ![m] = "standby"]
    /\ elapsed' = [elapsed EXCEPT ![m] = LookEvery]
    /\ UNCHANGED <<lease, step, seenFor, unrenewed, faults>>

\* The store is taken over, however long that took; `keep` begins, renewed as of now.
Serves(m) ==
    /\ step[m] = "taking"
    /\ Awaits(m, "sleep")
    /\ unrenewed' = [unrenewed EXCEPT ![m] = 0]
    /\ UNCHANGED <<lease, role, seenFor, faults>>

\* Killed; or stepped down for an epoch past its own or a commit fenced, or
\* its store not taken over.
Crash(m) ==
    /\ role[m] # "down"
    /\ Exits(m)
    /\ Fault

\* Asked to stop while it serves: it releases the lease once no look has it.
Stop(m) ==
    /\ role[m] = "writer"
    /\ step[m] # "taking"
    /\ role' = [role EXCEPT ![m] = "stopping"]
    /\ IF step[m] = "sleep" THEN Awaits(m, "release") ELSE UNCHANGED <<step, elapsed>>
    /\ UNCHANGED <<lease, seenFor, unrenewed>>
    /\ Fault

\* Elector::release: the Lease is written with no holder, if it is as this
\* member last wrote it; the answer is on its way.
Releases(m) ==
    /\ step[m] = "release"
    /\ holder = m
    /\ m \in knows
    /\ Write(m, Released)
    /\ step' = [step EXCEPT ![m] = "released"]
    /\ UNCHANGED <<role, elapsed, unrenewed, faults>>

\* Released, or not: the process ends.
Stops(m) ==
    /\ \/ step[m] = "released"
       \/ step[m] = "release"
    /\ Exits(m)
    /\ UNCHANGED faults

\* A tick passes where nothing is overdue; a take-over is never.
Tick ==
    /\ \A m \in Members :
          role[m] # "down" /\ step[m] # "taking" => elapsed[m] < Limit(m)
    /\ elapsed' = [m \in Members |->
                    IF role[m] = "down" \/ step[m] = "taking" THEN 0 ELSE elapsed[m] + 1]
    /\ seenFor' = [m \in Members |->
                    IF role[m] = "standby" /\ m \in knows /\ seenFor[m] < Duration + Renew
                    THEN seenFor[m] + 1 ELSE seenFor[m]]
    /\ unrenewed' = [m \in Members |->
                    IF Writing(m) /\ step[m] # "taking" /\ unrenewed[m] < LongestUnrenewed
                    THEN unrenewed[m] + 1 ELSE unrenewed[m]]
    /\ renewAge' = IF renewAge < Duration THEN renewAge + 1 ELSE renewAge
    /\ UNCHANGED <<holder, knows, role, step, faults>>

Progress(m) ==
    \/ Looks(m) \/ Waits(m) \/ Tries(m) \/ Applies(m) \/ Conflicts(m) \/ Answered(m)
    \/ Starts(m) \/ Serves(m) \/ Releases(m) \/ Stops(m)

Next ==
    \/ Tick
    \/ \E m \in Members : Progress(m) \/ RequestFails(m) \/ Crash(m) \/ Stop(m)

Spec == Init /\ [][Next]_vars

\* Time passes, a pod is restarted, and a process goes on: a request is answered
\* or given up, and a take-over ends.
FairSpec == Spec /\ WF_vars(Tick) /\ \A m \in Members : WF_vars(Progress(m))

-----------------------------------------------------------------------------
(* Properties.                                                             *)

\* Types, and what a member in each role may await: one asked to stop is on
\* its way to releasing its lease.
TypeOK ==
    /\ holder \in Members \union {Absent, Released, Gone}
    /\ knows \subseteq Members
    /\ role \in [Members -> {"down", "standby", "writer", "stopping"}]
    /\ step \in [Members -> {"sleep", "get", "put", "written",
                             "taking", "release", "released"}]
    /\ \A m \in Members :
        /\ role[m] = "down" \/ elapsed[m] \in 0 .. Limit(m)
        /\ role[m] = "stopping" => step[m] \notin {"sleep", "taking"}
        /\ role[m] = "standby" => step[m] \notin {"taking", "release", "released"}
    /\ seenFor \in [Members -> 0 .. Duration + Renew]
    /\ unrenewed \in [Members -> 0 .. LongestUnrenewed]
    /\ renewAge \in 0 .. Duration

Serving(m) == Writing(m) /\ step[m] # "taking"

\* "A holder steps down before its lease ends ... so a standby taking the
\* lapsed lease never overlaps it" (lease.rs:20-22): no two members write
\* unasked to stop.
NoOverlap ==
    \A m, n \in Members :
        role[m] = "writer" /\ role[n] = "writer" /\ Serving(m) /\ Serving(n) => m = n

\* How far an overlap goes: whatever requests fail, answers are lost or stops
\* are asked for meanwhile, a writer that cannot renew has stopped writing by a
\* sleep and two requests past its deadline (member.rs:360).
StopsUnrenewed == \A m \in Members : Serving(m) => unrenewed[m] < LongestUnrenewed

\* A lease is taken from a holder only once it went unrenewed for its
\* duration, less the request that saw it last (lease.rs:16-20): expiry is
\* observed, and "two members taking an expired lease at once cannot both
\* succeed".
NeverTakenEarly ==
    [][\A m \in Members :
        Theirs(m) /\ holder' = m => renewAge + Renew >= Duration]_vars

\* A writer whose lease is another's, or nobody's, learns it and ends, or takes
\* the lease again: no overlap is for good.
OverlapEnds ==
    \A m \in Members : (Serving(m) /\ holder # m) ~> (~Serving(m) \/ holder = m)

\* A member that waits for its lease to lapse does not wait on a holder that
\* has gone, one that releases it hands it over, and one whose lease lapsed as
\* it took the store over ends: the faults over, some member goes on to write.
SomeoneWrites == []<>(\E m \in Members : Serving(m) /\ role[m] = "writer")

=============================================================================

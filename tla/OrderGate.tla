----------------------------- MODULE OrderGate ------------------------------
(***************************************************************************)
(* The gate an order is released through (crates/bor/src/order_decide.rs): *)
(* the verdicts compliance plugins record on its versions (`record_check`),*)
(* the approvals required and given (`decide_approval`), the release       *)
(* (`release_order`), made at once or at the verdict it waits for, and the *)
(* changes that make a new version of the order or take it back            *)
(* (`request_order_change`).                                               *)
(*                                                                         *)
(* One order.  Its versions are 1, 2, ...; in the journal each is the      *)
(* sequence of the entry that set its terms.  A plugin answers when it     *)
(* will, on the version it read.  Once released, whether it is working is  *)
(* OrderPath's: here it is "released".                                     *)
(***************************************************************************)
EXTENDS OrderTable, Naturals

CONSTANTS
    Plugins,      \* the compliance plugins covering the account
    MaxVersion    \* bound: the versions the order goes through

ASSUME GateAssumption == MaxVersion \in Nat \ {0}

VARIABLES
    state,
    version,    \* OrderHeld.version
    balanced,   \* the allocation sums to the quantity ordered
    checks,     \* OrderHeld.checks
    overridden, \* OrderHeld.overridden_version, 0 where no block was overridden
    approval,   \* the condition approval required
    awaiting,   \* the condition awaiting check
    asked,      \* OrderHeld.release_requested
    waits       \* the account's waits_for_compliance

vars == <<state, version, balanced, checks, overridden, approval, awaiting, asked, waits>>

\* The versions a check may name: `record_check` takes any number, one that is
\* no version of the order yet included.
Versions == 1 .. MaxVersion

\* A warning is told apart from a pass by nothing here.
Verdicts == {"pass", "block", "refuse"}

\* Proposed, or recorded as released.
Init ==
    /\ state \in {"proposed", "released"}
    /\ version = 1
    /\ balanced \in BOOLEAN
    /\ checks = {}
    /\ overridden = 0
    /\ approval = FALSE
    /\ awaiting = FALSE
    /\ asked = FALSE
    /\ waits \in BOOLEAN

-----------------------------------------------------------------------------
(* The gate.                                                               *)

\* A verdict stands on the order's version.
VerdictOnVersion(held) == \E c \in held : c.version = version

\* A block on it that nobody overrode.
BlockStands(held) ==
    /\ overridden # version
    /\ \E c \in held : c.version = version /\ c.verdict = "block"

Gate(held) == balanced /\ ~BlockStands(held) /\ ~approval

\* Mutant: released with the release still asked for.
ReleasedStillAsked ==
    /\ state' = "released"
    /\ awaiting' = FALSE
    /\ asked' = asked

Released ==
    /\ state' = "released"
    /\ awaiting' = FALSE
    /\ asked' = FALSE

EndsAs(s) ==
    /\ state' = s
    /\ approval' = FALSE
    /\ awaiting' = FALSE
    /\ asked' = FALSE

-----------------------------------------------------------------------------
(* `release_order`.                                                        *)

Terms == <<version, balanced, waits>>

ReleaseNow ==
    /\ StartsFrom(Rows.r1, state) /\ Gate(checks)
    /\ ~waits \/ VerdictOnVersion(checks)
    /\ Released
    /\ UNCHANGED <<Terms, checks, overridden, approval>>

\* No verdict on this version yet: it stays proposed, for as long as it takes.
ReleaseAtTheVerdict ==
    /\ StartsFrom(Rows.r1, state) /\ Gate(checks)
    /\ waits /\ ~VerdictOnVersion(checks)
    /\ awaiting' = TRUE /\ asked' = TRUE
    /\ UNCHANGED <<Terms, state, checks, overridden, approval>>

-----------------------------------------------------------------------------
(* `record_check`.                                                         *)

\* Mutant: a verdict on an earlier version answers for this one.
AnswersForAny(v) == awaiting

\* The verdict awaited.
Answers(v) == v = version /\ awaiting


\* The release asked for goes through the gate, the verdict among its checks.
GoesThrough(held) == asked /\ state = "proposed" /\ Gate(held)

RecordCheck(plugin, v, verdict) ==
    LET held    == checks \union {[plugin |-> plugin, version |-> v, verdict |-> verdict]}
        refuses == verdict = "refuse" /\ state = "proposed"
    IN  /\ checks' = held
        /\ UNCHANGED <<Terms, overridden>>
        /\ \/ refuses /\ EndsAs("refused")
           \/ /\ ~refuses /\ Answers(v) /\ GoesThrough(held)
              /\ Released
              /\ UNCHANGED approval
           \/ /\ ~refuses /\ Answers(v) /\ ~GoesThrough(held)
              /\ awaiting' = FALSE
              /\ UNCHANGED <<state, approval, asked>>
           \/ /\ ~refuses /\ ~Answers(v)
              /\ UNCHANGED <<state, approval, awaiting, asked>>

-----------------------------------------------------------------------------
(* `decide_approval`.                                                      *)

Approval(required) ==
    /\ state = "proposed"
    /\ approval' = required
    /\ UNCHANGED <<Terms, state, checks, overridden, awaiting, asked>>

RequireApproval == Approval(TRUE)
Approve         == Approval(FALSE)

\* Mutant: the override is of the version to come.
OverridesNext == version + 1

Overrides == version

Override ==
    /\ state = "proposed"
    /\ overridden' = Overrides
    /\ UNCHANGED <<Terms, state, checks, approval, awaiting, asked>>

Reject ==
    /\ state = "proposed"
    /\ EndsAs("refused")
    /\ UNCHANGED <<Terms, checks, overridden>>

-----------------------------------------------------------------------------
(* `request_order_change`, and the ends of an order.                       *)

NewVersion ==
    /\ version < MaxVersion
    /\ version' = version + 1
    /\ UNCHANGED <<state, checks, overridden, approval, asked, waits>>

\* An order partly worked may be amended until it is filled.
Amend ==
    /\ state \in {"proposed", "released"}
    /\ NewVersion
    /\ UNCHANGED <<balanced, awaiting>>

\* Mutant: another change of the quantity is no longer awaited.
AwaitsThisAlone(increases) == increases /\ waits /\ state = "released"

\* An increase of a released order waits for compliance on the new version,
\* and nothing but a verdict ends a wait there was.
AwaitsAfter(increases) == awaiting \/ (increases /\ waits /\ state = "released")

ChangeQuantity(increases) ==
    /\ state \in {"proposed", "released"}
    /\ NewVersion
    /\ balanced' \in BOOLEAN
    /\ awaiting' = AwaitsAfter(increases)

\* With nothing committed or filled (OrderPath).
Recall ==
    /\ StartsFrom(Rows.r5, state)
    /\ state' = "proposed" /\ asked' = FALSE
    /\ UNCHANGED <<Terms, checks, overridden, approval, awaiting>>

\* Withdrawn, cancelled or expired.
EndsOtherwise ==
    /\ \E row \in {"i1", "i3", "i4", "i7"} :
          StartsFrom(Rows[row], state) /\ \E s \in Rows[row].to : EndsAs(s)
    /\ UNCHANGED <<Terms, checks, overridden>>

\* A deployment admin's act on the account.
SetWaits ==
    /\ waits' = ~waits
    /\ UNCHANGED <<state, version, balanced, checks, overridden, approval, awaiting, asked>>

-----------------------------------------------------------------------------

Checks == \E plugin \in Plugins, v \in Versions, verdict \in Verdicts :
              RecordCheck(plugin, v, verdict)

Next ==
    \/ ReleaseNow \/ ReleaseAtTheVerdict
    \/ Checks
    \/ RequireApproval \/ Approve \/ Override \/ Reject
    \/ Amend \/ Recall \/ EndsOtherwise \/ SetWaits
    \/ \E increases \in BOOLEAN : ChangeQuantity(increases)

Spec == Init /\ [][Next]_vars

\* Some plugin answers an order that awaits its check.
FairSpec ==
    /\ Spec
    /\ WF_vars(awaiting /\ \E plugin \in Plugins, verdict \in Verdicts :
                              RecordCheck(plugin, version, verdict))

-----------------------------------------------------------------------------
(* Properties.                                                             *)

\* Types; no block is overridden of a version to come.
TypeOK ==
    /\ state \in {"proposed", "released"} \union Ended
    /\ version \in Versions
    /\ checks \subseteq [plugin : Plugins, version : Versions, verdict : Verdicts]
    /\ overridden \in 0 .. version
    /\ balanced \in BOOLEAN /\ approval \in BOOLEAN /\ awaiting \in BOOLEAN
    /\ asked \in BOOLEAN /\ waits \in BOOLEAN

\* An order is released past its whole gate on the version it is then at,
\* whether by the release or by the verdict one waited for, whatever was
\* amended, required or recorded on other versions between the two: nothing
\* unbalanced, blocked, unapproved or, where the account waits, unanswered.
NeverReleasedUngated ==
    [][state = "proposed" /\ state' = "released" =>
        /\ Gate(checks')
        /\ waits => VerdictOnVersion(checks')]_vars

\* A verdict releases only an order somebody asked to release, and not one
\* recalled, refused or released since.
AskedWhileProposed == asked => state = "proposed"

\* What waits for compliance, a release or an increase, waits through every
\* amendment, change of quantity and verdict on other versions: the wait ends
\* with the order, at a verdict on the version it is then at, or where a
\* release is made for an account that waits no more.
AwaitsUntilAnswered ==
    [][awaiting /\ ~awaiting' =>
        \/ state' \in Ended
        \/ VerdictOnVersion(checks')
        \/ state = "proposed" /\ ~waits]_vars


=============================================================================

-------------------------- MODULE OrderGateProofs ---------------------------
(***************************************************************************)
(* What OrderGate's properties are for any plugins and any number of       *)
(* versions.  The invariant is its types with AskedWhileProposed; what a   *)
(* step releases, and where it lets a wait end, then follows from each     *)
(* action alone.                                                           *)
(***************************************************************************)
EXTENDS OrderGate, TLAPS

GateInv == TypeOK /\ AskedWhileProposed

\* Every action, for a step's cases to name.
LEMMA Steps ==
    Next => \/ ReleaseNow \/ ReleaseAtTheVerdict
            \/ \E plugin \in Plugins, v \in Versions, verdict \in Verdicts :
                  RecordCheck(plugin, v, verdict)
            \/ RequireApproval \/ Approve \/ Override \/ Reject
            \/ Amend \/ Recall \/ EndsOtherwise \/ SetWaits
            \/ \E increases \in BOOLEAN : ChangeQuantity(increases)
BY DEF Next, Checks

\* An order ends otherwise than by compliance cancelled or expired.
LEMMA OtherEnds == EndsOtherwise => \E s \in {"cancelled", "expired"} : EndsAs(s)
BY DEF EndsOtherwise, Rows, Row

\* The invariant holds of a proposal and of a recorded order.
LEMMA GateInvInit == Init => GateInv
<1> SUFFICES ASSUME Init
             PROVE  GateInv
  OBVIOUS
<1>1. TypeOK
  <2>1. checks = {} /\ version = 1 /\ overridden = 0
    BY DEF Init
  <2>2. /\ checks \subseteq [plugin : Plugins, version : Versions, verdict : Verdicts]
        /\ version \in Versions /\ overridden \in 0 .. version
    BY <2>1, GateAssumption DEF Versions
  <2>3. balanced \in BOOLEAN /\ waits \in BOOLEAN /\ state \in {"proposed", "released"}
    BY DEF Init
  <2>4. approval = FALSE /\ awaiting = FALSE /\ asked = FALSE
    BY DEF Init
  <2> QED
    BY <2>2, <2>3, <2>4 DEF TypeOK
<1>2. AskedWhileProposed
  BY DEF Init, AskedWhileProposed
<1> QED
  BY <1>1, <1>2 DEF GateInv

\* A check keeps the invariant, whichever of its four ends it comes to.
LEMMA CheckKeepsInv ==
    ASSUME GateInv,
           NEW plugin \in Plugins, NEW v \in Versions, NEW verdict \in Verdicts,
           RecordCheck(plugin, v, verdict)
    PROVE  GateInv'
<1> DEFINE held == checks \union {[plugin |-> plugin, version |-> v, verdict |-> verdict]}
           refuses == verdict = "refuse" /\ state = "proposed"
<1>1. /\ checks' = held
      /\ version' = version /\ overridden' = overridden
      /\ balanced' = balanced /\ waits' = waits
  BY DEF RecordCheck, Terms
<1>2. \/ refuses /\ EndsAs("refused")
      \/ ~refuses /\ Answers(v) /\ Released /\ approval' = approval
      \/ /\ ~refuses /\ Answers(v) /\ awaiting' = FALSE
         /\ state' = state /\ approval' = approval /\ asked' = asked
      \/ /\ ~refuses /\ ~Answers(v)
         /\ state' = state /\ approval' = approval /\ awaiting' = awaiting /\ asked' = asked
  BY DEF RecordCheck
<1>3. TypeOK'
  <2>1. checks' \subseteq [plugin : Plugins, version : Versions, verdict : Verdicts]
    BY <1>1 DEF GateInv, TypeOK
  <2> QED
    BY <2>1, <1>1, <1>2 DEF GateInv, TypeOK, EndsAs, Released, Ended
<1>4. AskedWhileProposed'
  BY <1>2 DEF GateInv, AskedWhileProposed, EndsAs, Released
<1> QED
  BY <1>3, <1>4 DEF GateInv

\* Every step keeps the invariant.
LEMMA GateInvNext == GateInv /\ [Next]_vars => GateInv'
<1> SUFFICES ASSUME GateInv, [Next]_vars
             PROVE  GateInv'
  OBVIOUS
<1>0. TypeOK /\ AskedWhileProposed
  BY DEF GateInv
<1>1. CASE ReleaseNow
  BY <1>0, <1>1 DEF ReleaseNow, Released, Terms, GateInv, TypeOK, AskedWhileProposed
<1>2. CASE ReleaseAtTheVerdict
  <2>1. state = "proposed"
    BY <1>2 DEF ReleaseAtTheVerdict, StartsFrom, Rows, Row
  <2> QED
    BY <2>1, <1>0, <1>2 DEF ReleaseAtTheVerdict, Terms, GateInv, TypeOK, AskedWhileProposed
<1>3. CASE \E plugin \in Plugins, v \in Versions, verdict \in Verdicts :
              RecordCheck(plugin, v, verdict)
  BY <1>3, CheckKeepsInv
<1>4. CASE RequireApproval \/ Approve \/ Override \/ SetWaits
  <2>1. /\ state' = state /\ asked' = asked /\ awaiting' = awaiting
        /\ checks' = checks /\ version' = version
    BY <1>4 DEF RequireApproval, Approve, Approval, Override, SetWaits, Terms
  <2>2. overridden' \in 0 .. version
    BY <1>0, <1>4 DEF RequireApproval, Approve, Approval, Override, Overrides, SetWaits,
                      TypeOK, Versions
  <2>3. balanced' = balanced /\ approval' \in BOOLEAN /\ waits' \in BOOLEAN
    BY <1>0, <1>4 DEF RequireApproval, Approve, Approval, Override, SetWaits, Terms, TypeOK
  <2> QED
    BY <2>1, <2>2, <2>3, <1>0 DEF GateInv, TypeOK, AskedWhileProposed
<1>5. CASE Reject \/ EndsOtherwise
  <2>1. /\ \E s \in Ended : EndsAs(s)
        /\ UNCHANGED <<Terms, checks, overridden>>
    BY <1>5, OtherEnds DEF Reject, EndsOtherwise, Ended
  <2> QED
    BY <2>1, <1>0 DEF EndsAs, Terms, GateInv, TypeOK, AskedWhileProposed
<1>6. CASE Amend \/ \E increases \in BOOLEAN : ChangeQuantity(increases)
  <2>1. NewVersion /\ balanced' \in BOOLEAN /\ awaiting' \in BOOLEAN
    BY <1>0, <1>6 DEF Amend, ChangeQuantity, AwaitsAfter, TypeOK
  <2>2. version' \in Versions /\ overridden' \in 0 .. version'
    BY <2>1, <1>0, GateAssumption DEF NewVersion, TypeOK, Versions
  <2> QED
    BY <2>1, <2>2, <1>0 DEF NewVersion, GateInv, TypeOK, AskedWhileProposed
<1>7. CASE Recall
  BY <1>0, <1>7 DEF Recall, Terms, GateInv, TypeOK, AskedWhileProposed
<1>8. CASE UNCHANGED vars
  BY <1>0, <1>8 DEF vars, GateInv, TypeOK, AskedWhileProposed
<1> QED
  BY <1>1, <1>2, <1>3, <1>4, <1>5, <1>6, <1>7, <1>8, Steps

\* GateInv is an invariant of the gate.
THEOREM GateInvHolds == Spec => []GateInv
BY GateInvInit, GateInvNext, PTL DEF Spec

\* Types, and no block is overridden of a version before it is made.
THEOREM GateTypeOK == Spec => []TypeOK
BY GateInvHolds, PTL DEF GateInv

\* A release is asked for only of an order still proposed.
THEOREM AskedIsProposed == Spec => []AskedWhileProposed
BY GateInvHolds, PTL DEF GateInv

\* A step that releases a proposed order is past the whole gate on its version.
LEMMA ReleasePassesTheGate ==
    ASSUME GateInv, [Next]_vars, state = "proposed", state' = "released"
    PROVE  Gate(checks') /\ (waits => VerdictOnVersion(checks'))
<1> USE DEF GateInv, TypeOK
<1>1. CASE ReleaseNow
  BY <1>1 DEF ReleaseNow, Terms
<1>2. CASE \E plugin \in Plugins, v \in Versions, verdict \in Verdicts :
              RecordCheck(plugin, v, verdict)
  <2>1. PICK plugin \in Plugins, v \in Versions, verdict \in Verdicts :
               RecordCheck(plugin, v, verdict)
    BY <1>2
  <2>2. /\ v = version
        /\ Gate(checks')
        /\ checks' = checks \union {[plugin |-> plugin, version |-> v, verdict |-> verdict]}
    BY <2>1 DEF RecordCheck, EndsAs, Answers, GoesThrough
  <2>3. [plugin |-> plugin, version |-> v, verdict |-> verdict] \in checks'
    BY <2>2
  <2>4. VerdictOnVersion(checks')
    BY <2>2, <2>3 DEF VerdictOnVersion
  <2> QED
    BY <2>2, <2>4
<1>3. CASE ReleaseAtTheVerdict \/ RequireApproval \/ Approve \/ Override \/ SetWaits
  BY <1>3 DEF ReleaseAtTheVerdict, RequireApproval, Approve, Approval, Override, SetWaits
<1>4. CASE Reject \/ Recall \/ EndsOtherwise
  <2>1. state' # "released"
    BY <1>4, OtherEnds DEF Reject, Recall, EndsAs
  <2> QED
    BY <2>1
<1>5. CASE Amend \/ \E increases \in BOOLEAN : ChangeQuantity(increases)
  BY <1>5 DEF Amend, ChangeQuantity, NewVersion
<1>6. CASE UNCHANGED vars
  BY <1>6 DEF vars
<1> QED
  BY <1>1, <1>2, <1>3, <1>4, <1>5, <1>6, Steps

\* No order is ever released but through the whole gate, whatever happened
\* between its release being asked for and the verdict that made it.
THEOREM NeverUngated == Spec => NeverReleasedUngated
<1>1. GateInv /\ [Next]_vars =>
        [state = "proposed" /\ state' = "released" =>
            /\ Gate(checks')
            /\ waits => VerdictOnVersion(checks')]_vars
  BY ReleasePassesTheGate
<1> QED
  BY <1>1, GateInvHolds, PTL DEF Spec, NeverReleasedUngated

\* A step that ends a wait ends the order, or leaves it answered, or releases
\* it for an account that waits no more.
LEMMA WaitEndsAnswered ==
    ASSUME GateInv, [Next]_vars, awaiting, ~awaiting'
    PROVE  state' \in Ended \/ VerdictOnVersion(checks') \/ (state = "proposed" /\ ~waits)
<1>0. awaiting \in BOOLEAN
  BY DEF GateInv, TypeOK
<1>1. CASE ReleaseNow
  <2>1. state = "proposed" /\ checks' = checks
    BY <1>1 DEF ReleaseNow, StartsFrom, Rows, Row
  <2> QED
    BY <2>1, <1>1 DEF ReleaseNow
<1>2. CASE \E plugin \in Plugins, v \in Versions, verdict \in Verdicts :
              RecordCheck(plugin, v, verdict)
  <2>1. PICK plugin \in Plugins, v \in Versions, verdict \in Verdicts :
               RecordCheck(plugin, v, verdict)
    BY <1>2
  <2>2. state' \in Ended \/ Answers(v)
    BY <2>1, <1>0 DEF RecordCheck, EndsAs, Ended
  <2>3. [plugin |-> plugin, version |-> v, verdict |-> verdict] \in checks'
    BY <2>1 DEF RecordCheck
  <2> QED
    BY <2>2, <2>3 DEF Answers, VerdictOnVersion
<1>3. CASE Reject \/ EndsOtherwise
  BY <1>3, OtherEnds DEF Reject, EndsAs, Ended
<1>4. CASE \/ ReleaseAtTheVerdict \/ RequireApproval \/ Approve \/ Override \/ SetWaits
           \/ Recall \/ Amend \/ UNCHANGED vars
  BY <1>4 DEF ReleaseAtTheVerdict, RequireApproval, Approve, Approval, Override, SetWaits,
              Recall, Amend, vars
<1>5. CASE \E increases \in BOOLEAN : ChangeQuantity(increases)
  BY <1>5 DEF ChangeQuantity, AwaitsAfter
<1> QED
  BY <1>1, <1>2, <1>3, <1>4, <1>5, Steps

\* What waits for compliance waits until the version it is then at is answered,
\* whatever amends the order and whichever versions are answered meanwhile.
THEOREM WaitsForItsVersion == Spec => AwaitsUntilAnswered
<1>1. GateInv /\ [Next]_vars =>
        [awaiting /\ ~awaiting' =>
            \/ state' \in Ended
            \/ VerdictOnVersion(checks')
            \/ state = "proposed" /\ ~waits]_vars
  BY WaitEndsAnswered
<1> QED
  BY <1>1, GateInvHolds, PTL DEF Spec, AwaitsUntilAnswered

=============================================================================

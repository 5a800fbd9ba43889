\* The chart's settings, at a tick a second: renewed every 2 for 6; and at most two faults.
CONSTANTS
    m1 = m1
    m2 = m2
    Members = {m1, m2}
    Duration = 6
    Renew = 2
    MaxFaults = 2
    Unbounded = Unbounded
    Absent = Absent
    Released = Released
    Gone = Gone
SPECIFICATION FairSpec
INVARIANTS TypeOK StopsUnrenewed
PROPERTIES NeverTakenEarly OverlapEnds SomeoneWrites

\* The chart's settings, and no fault at all.
CONSTANTS
    m1 = m1
    m2 = m2
    Members = {m1, m2}
    Duration = 6
    Renew = 2
    MaxFaults = 0
    Unbounded = Unbounded
    Absent = Absent
    Released = Released
    Gone = Gone
SPECIFICATION Spec
INVARIANTS NoOverlap

\* Two leased members and one without, two sequences. What is taken is bounded, so the run may stop at its bound.
CONSTANTS
    n1 = n1
    n2 = n2
    j = j
    Members = {n1, n2, j}
    Leased = {n1, n2}
    Partition = P
    Empty = Empty
    Nobody = Nobody
    Batch = 2
    PageMost = 2
    MaxEpoch = 3
    MaxSequence = 2
    MaxRows = 3
SPECIFICATION Spec
INVARIANTS TypeOK RowsRunOn PublishedWhole
PROPERTIES KeepsThePromise WaitsAtTheHead
CHECK_DEADLOCK FALSE

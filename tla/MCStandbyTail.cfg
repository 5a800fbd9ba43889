\* One partition of entries of every kind; pages lost, late and read in parts, and reads that fail. Entries are bounded, so the run may stop at its bound.
CONSTANTS
    P0 = P0
    Control = Control
    Partitions = {P0}
    Kinds = {"intact", "broken", "undigested"}
    PageSize = 2
    MaxEntries = 4
    Nothing = Nothing
SPECIFICATION FairSpec
INVARIANTS TypeOK NeverTakesBroken RefusedForTheBroken
PROPERTIES NeverFallsBack GapsAreRead
CHECK_DEADLOCK FALSE

\* Two partitions, with entries that are broken. Entries are bounded, so the run may stop at its bound.
CONSTANTS
    P0 = P0
    Control = Control
    Partitions = {P0, Control}
    Kinds = {"intact", "broken"}
    PageSize = 2
    MaxEntries = 3
    Nothing = Nothing
SPECIFICATION Spec
INVARIANTS BehindIsSaid
CHECK_DEADLOCK FALSE

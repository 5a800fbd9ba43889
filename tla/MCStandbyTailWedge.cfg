\* An intact journal, whose reads may fail. Entries are bounded, so the run may stop at its bound.
CONSTANTS
    P0 = P0
    Control = Control
    Partitions = {P0}
    Kinds = {"intact"}
    PageSize = 1
    MaxEntries = 4
    Nothing = Nothing
SPECIFICATION Spec
INVARIANTS OnlyBrokenRefused
CHECK_DEADLOCK FALSE

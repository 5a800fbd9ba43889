\* The shapes of MCOrderPath, the venue events that tell states apart. What is minted is bounded, so the run may stop at its bound.
CONSTANTS
    Tifs = {"day", "immediate"}
    Events = {"acknowledged", "replaced", "cancelled", "rejected", "unknown"}
    Ordered = {2}
    Parts = {1, 2}
    Changes = {"cancel"}
    Shapes <- MCShapes
    MaxRoots = 1
    MaxAsks = 1
SPECIFICATION Spec
INVARIANTS TypeOK NothingLiveIsEnded FilledByItsFacts PositionFollowsFills
PROPERTIES EndedStays LateIsFlagged
CHECK_DEADLOCK FALSE

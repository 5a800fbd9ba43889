\* One order filled away from any placement, and its fill corrected. What is minted is bounded, so the run may stop at its bound.
CONSTANTS
    Tifs = {"day"}
    Events = {}
    Ordered = {2}
    Parts = {1, 2}
    Changes = {}
    Shapes <- MCShapes
    MaxRoots = 1
    MaxAsks = 1
SPECIFICATION Spec
INVARIANTS PositionIsFills
CHECK_DEADLOCK FALSE

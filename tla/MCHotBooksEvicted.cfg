\* Two accounts whose books do not fit together. Entries are bounded, so the run may stop at its bound.
CONSTANTS
    Accounts = {a, b}
    Threads = {t1, t2, t3}
    Bound = 6
    Cost <- MCCost
    AnswersLost = FALSE
    Elsewhere = FALSE
    MaxEntries = 3
    NoBook = NoBook
SPECIFICATION Spec
INVARIANTS HeldAtItsHead
CHECK_DEADLOCK FALSE

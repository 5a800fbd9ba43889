\* Two accounts whose books do not fit together, three threads, and every commit the process may not hear of. Entries are bounded, so the run may stop at its bound.
CONSTANTS
    Accounts = {a, b}
    Threads = {t1, t2, t3}
    Bound = 6
    Cost <- MCCost
    AnswersLost = TRUE
    Elsewhere = TRUE
    MaxEntries = 3
    NoBook = NoBook
SPECIFICATION Spec
INVARIANTS TypeOK CountedAsHeld
PROPERTIES NeverTakenBack
CHECK_DEADLOCK FALSE

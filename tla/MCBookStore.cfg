\* Two members with a lease and one without, one thread each: takeovers that race, a writer that never steps down, crashes, and commands sent again to the member that took over. Entries and epochs are bounded, so the run may stop at its bounds.
CONSTANTS
    n1 = n1
    n2 = n2
    n3 = n3
    a1 = a1
    ctl = ctl
    m1 = m1
    k1 = k1
    r1 = r1
    r2 = r2
    P0 = P0
    Control = Control
    Empty = Empty
    Members = {n1, n2, n3}
    Leased = {n1, n2}
    Workers = {w1}
    Accounts <- MCAccounts
    Partitions <- MCPartitions
    FirstPartition <- MCFirstPartition
    Commands <- MCCommands
    MaxEpoch = 3
    MaxCalls = 2
    MaxEntries = 2
    RecordCounts = {2}
SPECIFICATION FairSpec
INVARIANTS TypeOK NoHoles AppliedOnce AnswerIsRecorded EpochsInOrder OneWriterPerEpoch
PROPERTIES RecordOnlyGrows KeepsThePromise CallsEnd
CHECK_DEADLOCK FALSE

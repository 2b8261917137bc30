SPECIFICATION FairSpec
CONSTANTS
    t1 = t1
    t2 = t2
    Threads = {t1, t2}
    None = None
    NumSlots = 2
    MaxBufferedDocs = 2
    MaxBlock = 2
    Partitions = 2
    RamBuffer = TRUE
    Jobs = {"add", "delete", "commit", "rollback"}
    MaxOps = 3
    MaxFailures = 0
INVARIANTS TypeOK DeleteOrder
PROPERTIES EveryCallReturns
\* A thread stuck for ever, alone or with the others, is what EveryCallReturns
\* forbids: it is reported there.
CHECK_DEADLOCK FALSE

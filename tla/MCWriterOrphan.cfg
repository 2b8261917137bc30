SPECIFICATION FairSpec
CONSTANTS
    t1 = t1
    t2 = t2
    Threads = {t1, t2}
    None = None
    NumSlots = 2
    MaxBufferedDocs = 2
    MaxBlock = 2
    Partitions = 2
    RamBuffer = FALSE
    Jobs = {"add", "flush"}
    MaxOps = 3
    MaxFailures = 1
PROPERTIES EveryCallReturns
CHECK_DEADLOCK FALSE

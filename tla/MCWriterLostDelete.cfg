SPECIFICATION Spec
CONSTANTS
    t1 = t1
    t2 = t2
    Threads = {t1, t2}
    None = None
    NumSlots = 2
    MaxBufferedDocs = 2
    MaxBlock = 1
    Partitions = 1
    RamBuffer = FALSE
    Jobs = {"add", "update", "delete", "commit"}
    MaxOps = 4
    MaxFailures = 0
SYMMETRY ThreadSymmetry
PROPERTIES DeletesComplete

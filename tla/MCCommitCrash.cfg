SPECIFICATION Spec
CONSTANTS
    None = None
    r1 = r1
    r2 = r2
    d1 = d1
    d2 = d2
    Setups <- CrashSetups
SYMMETRY Symmetry
INVARIANTS
    EveryCrashOpens
    NamesAreFresh
    NewestCommitKept
    OnlyEmptiedSegmentsLeak
    FilesInUseExist
    AcceptedDeletesHeld

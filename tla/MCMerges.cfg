SPECIFICATION Spec
CONSTANTS
    Threads = {t1, t2}
    None = None
    Documents = {d1, d2, d3, d4}
    MaxThreadCount = 1
    BigMerge = 1
    MaxMerges = 3
    Setups <- AllSetups
SYMMETRY Symmetry
CHECK_DEADLOCK FALSE
INVARIANTS
    TypeOK
    EveryClaimHasAMerge
    SleepersHaveAborted
    NoMergeRegisteredWhileBlocked
    OnlyMaxThreadCountProceed
PROPERTIES
    CloseLeavesNoMerge
    MergesAreAtomic

SPECIFICATION FairSpec
CONSTANTS
    f1 = f1
    f2 = f2
    r1 = r1
    r2 = r2
    Files = {f1, f2}
    Readers = {r1, r2}
    ClassLen <- TwoClasses
    Setups <- AllSetups
\* The readers may stop calling: their calls are bounded.
CHECK_DEADLOCK FALSE
INVARIANTS
    ReadsReturnTheAskedPages
    SlotsAccountedFor
    EachPageFetchedOnce
PROPERTIES
    PinnedPagesStay
    EvictionIsWarranted
    ReadersReturn

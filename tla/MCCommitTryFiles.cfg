SPECIFICATION Spec
CONSTANTS
    None = None
    r1 = r1
    r2 = r2
    d1 = d1
    d2 = d2
    Setups <- TrySetups
SYMMETRY Symmetry
CHECK_DEADLOCK FALSE
INVARIANT FilesInUseExist

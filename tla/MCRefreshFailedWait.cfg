SPECIFICATION Spec
CONSTANTS
    None = None
    Closed = Closed
    Reopen = Reopen
    t1 = t1
    w1 = w1
    g1 = g1
    Threads = {t1}
    Waiters = {w1}
    Getters = {g1}
    MaxGen = 3
    Setups <- FailedWaitSetups
CHECK_DEADLOCK FALSE
INVARIANT TrueMeansSearchable

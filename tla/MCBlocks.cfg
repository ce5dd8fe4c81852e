\* A heap without a block for the sweep is a panic: the run stops there.
SPECIFICATION Spec
CONSTANTS
    t1 = t1
    t2 = t2
    Threads = {t1, t2}
    HeadShare = 2
    Crews <- MCCrews
    None = None
INVARIANTS
    OneHolder
    LiveKept
    FreeFlagExact
SYMMETRY SameThreads
CHECK_DEADLOCK FALSE

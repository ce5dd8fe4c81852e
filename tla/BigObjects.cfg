\* Two threads, one size.
SPECIFICATION Spec
CONSTANTS
    Threads = {t1, t2}
    Sizes = {1}
    HeapEnd = 4
    None = None
INVARIANTS
    ReachableKept
CHECK_DEADLOCK FALSE

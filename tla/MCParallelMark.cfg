\* Two threads; every object moves, some move, one moves.
SPECIFICATION Spec
CONSTANTS
    t1 = t1
    t2 = t2
    o1 = o1
    o2 = o2
    o3 = o3
    r1 = r1
    r2 = r2
    g = g
    Null = Null
    Threads = {t1, t2}
    Objects = {o1, o2, o3}
    Words = {1, 2}
    RootsOf <- MCRootsOf
    GlobalRoots <- MCGlobalRoots
    Heaps <- MCHeaps
    Movers <- MCMovers
INVARIANTS
    EvacuatedOnce
    MarkComplete
PROPERTIES
    KeepsItsObject
    MarkingEnds

\* Liveness is checked with the rest: every thread by its name, no symmetry.
CONSTANTS
    t1 = t1
    t2 = t2
    t3 = t3
    Threads = {t1, t2, t3}
    NoThread = NoThread
    Recursive = TRUE
    SeqMod = 3
    MaxBroadcasts = 2
    MaxCalls = 5
SPECIFICATION FairSpec
CHECK_DEADLOCK FALSE
INVARIANTS
    NoLostBroadcast
PROPERTIES
    ImplementsMonitor
    EveryCallReturns

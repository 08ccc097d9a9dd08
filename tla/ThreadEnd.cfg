\* A host thread and two created ones; a slot that is allocated twice.
CONSTANTS
    h = h
    c1 = c1
    c2 = c2
    Threads = {h, c1, c2}
    Hosts = {h}
    NoThread = NoThread
    SlotCount = 1
    MaxPasses = 2
    MaxAllocs = 2
SPECIFICATION FairSpec
CHECK_DEADLOCK FALSE
INVARIANTS
    EachValueOnce
    DrainedBeforeFinished
    FreedByTheLast
PROPERTIES
    JoinsReturn

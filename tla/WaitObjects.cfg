\* Three threads that wait, signal and reset; an object of every kind on
\* either back end.
CONSTANTS
    t1 = t1
    t2 = t2
    t3 = t3
    auto = auto
    nauto = nauto
    manual = manual
    nmanual = nmanual
    sem = sem
    nsem = nsem
    j = j
    k = k
    Waiters = {t1, t2}
    Signallers = {t2, t3}
    AutoEvents = {auto, nauto}
    ManualEvents = {manual, nmanual}
    Semaphores = {sem, nsem}
    Jobs = {j, k}
    Ntsync = {nauto, nmanual, nsem}
    NoObject = NoObject
    Menus <- MenusDef
    MaximumCount = 2
    MaxPosted = 2
    MaxRelease = 2
SPECIFICATION FairSpec
CHECK_DEADLOCK FALSE
INVARIANTS
    NoLostWakeUp
PROPERTIES
    JoinedAllHaveFinished
    ImplementsDispatcher
    SignalsArrive

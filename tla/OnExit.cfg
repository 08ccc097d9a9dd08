CONSTANTS
    process = process
    dll = dll
    t1 = t1
    t2 = t2
    f1 = f1
    f2 = f2
    f3 = f3
    Threads = {t1, t2}
    Tables = {process, dll}
    Functions = {f1, f2, f3}
    Process = process
    Nests <- OneWay
    MaxExecutes = 2
SPECIFICATION FairSpec
CHECK_DEADLOCK FALSE
INVARIANTS
    EachRunsOnce
PROPERTIES
    NewestFirst
    EveryExecutionReturns
    ProcessFunctionsRun

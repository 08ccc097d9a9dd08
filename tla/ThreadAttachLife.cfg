\* One host thread and one created thread, each with a second life in a later
\* key destructor; a list of one image, and TLS blocks that may not be
\* allocated.
CONSTANTS
    h1 = h1
    c1 = c1
    a = a
    b = b
    Threads = {h1, c1}
    Hosts = {h1}
    Images = {a, b}
    TlsImages = {a}
    NoThread = NoThread
    NoImage = NoImage
    MaxImages = 1
    TlsAllocMayFail = TRUE
    MaxLoads = 2
    MaxLateCalls = 1
SPECIFICATION FairSpec
CHECK_DEADLOCK FALSE
INVARIANTS
    GenerationMeansAttached
    LeavesNothingBehind
    RoomToAttach
PROPERTIES
    NoRepeatedArrival
    NobodyIsStuck

\* The same threads, with room for both images.
CONSTANTS
    h1 = h1
    c1 = c1
    a = a
    b = b
    Threads = {h1, c1}
    Hosts = {h1}
    Images = {a, b}
    TlsImages = {a}
    NoThread = NoThread
    NoImage = NoImage
    MaxImages = 2
    TlsAllocMayFail = TRUE
    MaxLoads = 2
    MaxLateCalls = 1
SPECIFICATION Spec
CHECK_DEADLOCK FALSE
INVARIANT
    SkipsOnlyOnceAttached

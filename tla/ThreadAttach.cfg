\* Two host threads and one the DLLs may create; two images, loaded by one
\* or two calls of load_dll on any host thread.
CONSTANTS
    h1 = h1
    h2 = h2
    c1 = c1
    a = a
    b = b
    Threads = {h1, h2, c1}
    Hosts = {h1, h2}
    Images = {a, b}
    TlsImages = {a}
    NoThread = NoThread
    NoImage = NoImage
    MaxImages = 2
    TlsAllocMayFail = FALSE
    MaxLoads = 2
    MaxLateCalls = 0
SPECIFICATION Spec
SYMMETRY Symmetry
CHECK_DEADLOCK FALSE
INVARIANTS
    NoDanglingImage
    ArrivalsAreMatched
    DependenciesFirst

\* Three threads and two of each address; callbacks that two may share.
CONSTANTS
    Callers = {t1, t2, t3}
    Sessions = {s1, s2}
    Worlds = {w1, w2}
    HostCallbacks = {c1, c2}
    Nothing = Nothing
    f = f
    g = g
    Threads = {t1, t2, t3}
    Shapes = {a1, a2}
    Handlers = {f, g}
    Choices <- ChoicesDef
    Slots = {constraint_reader, shape_loader_return}
    None = None
    PageSize = 2
    Granularity = 4
    MaxAddress = 20
    UserPages <- UserPagesDef
    Addresses = {0, 1, 4, 5, 8, 11, 12, 19}
    Sizes = {0, 1, 2, 4}
    MaxOthers = 1
SPECIFICATION Spec
INVARIANTS
    ContactsReachTheirSession
    NoContactIsDropped
    EveryCallbackFindsItsTarget
    CallbacksAreTheirOwn
    MappingsAreRecorded
    CommittedPagesWork
PROPERTIES
    OthersKeepTheirs

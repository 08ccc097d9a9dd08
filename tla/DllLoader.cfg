CONSTANTS
    app = app
    mid = mid
    side = side
    base = base
    absent = absent
    f = f
    g = g
    Modules = {app, mid, side, base, absent}
    Present = {app, mid, side, base}
    Exports <- SharedExports
    Imports <- SharedImports
    Roots = {app}
    MaxExports = 3
    MaxImages = 4
    MaxLoads = 3
SPECIFICATION FairSpec
CHECK_DEADLOCK FALSE
INVARIANTS
    ImportersSeeTheirSiblings
    NoDanglingImports
    OneImagePerFile
    LoadsAreAllOrNothing
PROPERTY
    EveryLoadEnds

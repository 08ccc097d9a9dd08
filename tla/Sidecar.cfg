\* A game process with two threads and another program on the same files,
\* and an update of the DLL; or a thread in every prologue of MCUnwind.
CONSTANTS
    game = game
    other = other
    one = one
    two = two
    three = three
    Processes = {game, other}
    Threads = {one, two, three}
    In <- InDef
    KindsOf <- KindsOfDef
    NoFile = NoFile
    NoImage = NoImage
    Nobody = Nobody
    MaxVersion = 2
    MaxMapped = 2
    Lacking = {1}
    Infos <- MCInfos
    Layouts <- MCLayouts
    Nowhere = Nowhere
    MaxMove = 16
SPECIFICATION SidecarSpec
\* A thread that reached the end of the body it runs does nothing more.
CHECK_DEADLOCK FALSE
INVARIANTS
    WholeImages
    CallsLand
    UnwindsAtEveryPc
    EveryPcHasItsDescription
PROPERTIES
    InitEnds

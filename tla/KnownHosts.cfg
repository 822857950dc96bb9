SPECIFICATION Spec
CONSTANTS
    Procs = {p1, p2}
    h1 = h1
    h2 = h2
    x = x
    y = y
    Hosts = {h1, h2}
    Prints = {x, y}
    AnyHost = AnyHost
    Embedded <- MCEmbedded
    MaxInitial = 1
    MaxCommands = 3
SYMMETRY Symmetry
CHECK_DEADLOCK FALSE
INVARIANTS
    TypeOK
    RevocationHolds
PROPERTIES
    LinesKept

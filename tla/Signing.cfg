SPECIFICATION Spec
CONSTANTS
    None = None
    Procs = {p1, p2}
    Files = {f}
    Keys = {a, b}
    Principals = {w1, w2}
    Namespaces = {git, other}
    GitNs = git
    Scopes = {other}
    MaxEntries = 2
SYMMETRY Symmetry
INVARIANTS
    TypeOK
    SignsWithNamedKey
    PairMatches
    FoundVerifies

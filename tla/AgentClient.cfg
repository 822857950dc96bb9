SPECIFICATION Spec
CONSTANTS
    None = None
    Clients = {c1, c2}
    Keys = {k1}
    Commands = {"add", "remove", "removeAll", "clear", "lock", "unlock", "sign"}
SYMMETRY Symmetry
INVARIANTS
    TypeOK
    AddReportTrue
    DenialFinal
    SignFailureExplained
    RemoveAllNamesThem
PROPERTIES
    ConfirmKept

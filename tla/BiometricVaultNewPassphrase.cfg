SPECIFICATION Spec
CONSTANTS
    None = None
    Procs = {p1, p2}
    Keys = {k1}
    Passphrases = {a, b}
    Commands = {"enroll", "change"}
    Platforms = {"linux"}
CHECK_DEADLOCK FALSE
SYMMETRY Symmetry
INVARIANTS
    NewPassphraseFromUser

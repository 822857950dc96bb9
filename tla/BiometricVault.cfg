SPECIFICATION Spec
CONSTANTS
    None = None
    Procs = {p1, p2}
    Keys = {k1}
    Passphrases = {a, b}
    Commands = {"load", "loadEnroll", "enroll", "forget", "change", "connect", "sign"}
    Platforms = {"linux", "macos", "windows"}
CHECK_DEADLOCK FALSE
SYMMETRY Symmetry
INVARIANTS
    TypeOK
    VaultOnceValid
    HealSoundUnlessRaced
    UnlockedKeyOpens
    ReportsTrue
PROPERTIES
    EnrolmentKept
    PromiseSpec

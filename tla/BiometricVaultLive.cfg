SPECIFICATION Spec
CONSTANTS
    None = None
    Procs = {p1, p2}
    Keys = {k1}
    Passphrases = {a}
    Commands = {"load", "loadEnroll", "enroll", "forget", "change", "connect", "sign"}
    Platforms = {"linux"}
CHECK_DEADLOCK FALSE
PROPERTIES
    ReaderReleased
    AutoUnlockTerminates

SPECIFICATION Spec
CONSTANTS
    RemoteCodes = {0, 1, 128}
    Modes = {"exec", "testHuman", "testJson"}
CHECK_DEADLOCK FALSE
INVARIANTS
    TypeOK
    ExecZeroMeansSuccess
    LatePromptOnlyIfVouched
    TestZeroMeansNoRefusal
    RefusedKeyNotMissing
PROPERTIES
    Terminates

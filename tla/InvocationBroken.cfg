SPECIFICATION Spec
CONSTANTS
    Options = {"user", "identity", "algorithms"}
    Goals = {"run", "noCommand"}
CHECK_DEADLOCK FALSE
INVARIANTS
    BrokenConfigIsUsageError

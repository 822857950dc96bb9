SPECIFICATION Spec
CONSTANTS
    Options = {"user", "identity", "algorithms"}
    Goals = {"run", "noCommand"}
CHECK_DEADLOCK FALSE
INVARIANTS
    TypeOK
    Precedence
    ShowPredictsSession
    NoneOpensNothing
PROPERTIES
    EndsRight

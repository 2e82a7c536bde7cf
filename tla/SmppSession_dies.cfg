CONSTANTS
    CloseMayFail = FALSE
    Users = {u}
    Pool = {p}
    Parser = parser
SPECIFICATION Spec
INVARIANT ExceptionsAreRaised
CHECK_DEADLOCK FALSE

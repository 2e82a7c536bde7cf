CONSTANTS
    CloseMayFail = TRUE
    Users = {u}
    Pool = {p}
    Parser = parser
SPECIFICATION Spec
INVARIANTS TypeOK TerminatedOnce AliveHasParts ToldIsDown
PROPERTIES ImplementsSessionLife LostEnds ParserStops
CHECK_DEADLOCK FALSE

CONSTANTS
    Byte = {0, 1}
    Inputs <- AllInputs
    Capacities = {1, 2}
    MIN_CAPACITY = 2
    DEFAULT_CAPACITY = 3
    MaxArray = 5
SPECIFICATION Spec
INVARIANTS TypeOK FindIsFirst
PROPERTY ImplementsByteSequence

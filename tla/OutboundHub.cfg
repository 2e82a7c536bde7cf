CONSTANTS
    b1 = b1
    b2 = b2
    Browsers = {b1, b2}
    Threads = {t1, t2}
    Nobody = nobody
    Lengths = {3, 4, 5}
    SingleLength = 3
    PartLength = 2
    Bytes = 4
    IntLimit = 4
    MaxMessages <- FourAndOne
SPECIFICATION Spec
INVARIANTS TypeOK PartsAsAnnounced RefsDiffer DisposedIsRemoved LeftIsDisposed
PROPERTY GoneIsDisposed
CHECK_DEADLOCK FALSE

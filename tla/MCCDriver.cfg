SPECIFICATION Spec
CONSTANTS
    d = d
    s = s
    k1 = k1
    k2 = k2
    t1 = t1
    t2 = t2
    Databases = {d}
    Connections = {k1, k2}
    Statements = {s}
    Streams = {t1, t2}
    MaxHandles = 6
    MaxReaders = 2
SYMMETRY Swaps
VIEW WhatIsHeld
INVARIANTS HandlesOwned NothingOrphaned
PROPERTIES PoisonFreezes
CHECK_DEADLOCK FALSE

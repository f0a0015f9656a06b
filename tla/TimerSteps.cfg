SPECIFICATION StepsSpec
CONSTANTS
    Conns = {c1, c2}
    ConnCount = 3
    KeepAlive = 3
    GranulesPerMs = 2
    Interrupts = FALSE
INVARIANTS TypeOK
PROPERTIES CallsAreAtomic
CHECK_DEADLOCK FALSE

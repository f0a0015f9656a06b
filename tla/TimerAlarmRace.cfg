SPECIFICATION StepsSpec
CONSTANTS
    Conns = {c1, c2}
    ConnCount = 2
    KeepAlive = 3
    GranulesPerMs = 2
    Interrupts = TRUE
INVARIANTS HandlerHasTimer
CHECK_DEADLOCK FALSE

SPECIFICATION FairSpec
CONSTANTS
    Conns = {c1, c2, c3}
    ConnCount = 3
    KeepAlive = 5
    GranulesPerMs = 3
    MinGap = 3
INVARIANTS PacedTypeOK TimerHasHead NoLostTimer OnTime SettimeSucceeds
PROPERTIES QueueSpec TimersServed

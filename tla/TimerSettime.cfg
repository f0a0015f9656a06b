SPECIFICATION SpacedSpec
CONSTANTS
    Conns = {c1, c2, c3}
    ConnCount = 3
    KeepAlive = 3
    GranulesPerMs = 2
    MinGap = 2
SYMMETRY Symmetry
INVARIANTS SettimeSucceeds

SPECIFICATION KASpec
CONSTANTS
    Peers = {p1, p2}
    ConnCount = 2
    MaxFd = 3
    Backlog = 1
    Rounds = 1
    MaxInits = 1
    NoPeer = NoPeer
    PeersReset = TRUE
    CloseFails = TRUE
    MaxSends = 2
    Handlers = {"shttp_keep_alive_signal_handler", "shttp_signal_handler"}
SYMMETRY Symmetry
INVARIANTS KeptHaveTimers NoTimerLimit FirstReplyToAsker
CHECK_DEADLOCK FALSE

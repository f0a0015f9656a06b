SPECIFICATION KASpec
CONSTANTS
    Peers = {p1, p2}
    ConnCount = 2
    MaxFd = 3
    Backlog = 1
    Rounds = 1
    MaxInits = 1
    NoPeer = NoPeer
    PeersReset = TRUE
    CloseFails = FALSE
    MaxSends = 1
    Handlers = {"shttp_keep_alive_signal_handler"}
INVARIANTS HandlerFindsConnection
CHECK_DEADLOCK FALSE

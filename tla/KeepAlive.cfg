SPECIFICATION KAFairSpec
CONSTANTS
    Peers = {p1, p2, p3}
    ConnCount = 2
    MaxFd = 3
    Backlog = 1
    Rounds = 1
    MaxInits = 2
    NoPeer = NoPeer
    PeersReset = FALSE
    CloseFails = FALSE
    MaxSends = 1
    Handlers = {"shttp_keep_alive_signal_handler"}
INVARIANTS KATypeOK TimersOwnTheirSlots CloseFindsConnection
PROPERTIES IdleClosed
CHECK_DEADLOCK FALSE

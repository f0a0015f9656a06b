SPECIFICATION FairSpec
CONSTANTS
    Peers = {p1, p2, p3}
    ConnCount = 2
    MaxFd = 3
    Backlog = 1
    Rounds = 2
    MaxInits = 1
    PeersReset = TRUE
    CloseFails = FALSE
    NoPeer = NoPeer
INVARIANTS TypeOK TableMatchesKernel ReplyToAsker
PROPERTIES RequestsRead

\* Threads and timers are fair, a peer may stay stalled.
CONSTANTS
    d1 = d1
    d2 = d2
    d3 = d3
    NoSock = NoSock
    NumSlots = 2
    Socks <- MCSocks2
    RescheduleMayFail = FALSE
SPECIFICATION FairSpec
PROPERTY StalledPeerHoldsItsOwnSlotOnly

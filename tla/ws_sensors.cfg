\* Two slots (the default of Kconfig) and three descriptors: both slots and
\* an upgrade in progress at once, and every descriptor is reused.
\* No symmetry: the run checks liveness and refinement.
CONSTANTS
    d1 = d1
    d2 = d2
    d3 = d3
    NoSock = NoSock
    NumSlots = 2
    Socks <- MCSocks3
    RescheduleMayFail = TRUE
SPECIFICATION FairPeersSpec
INVARIANTS DrivenSlotOwnsSocket NoDescriptorLeak HeldSlotIsDriven WsInv
PROPERTIES ImplementsService SlotsKeepBeingServed DeadPeerIsReleased

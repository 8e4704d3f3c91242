\* Three events waiting: a connection, its loss and the next one together.
CONSTANTS
    MaxEvents = 3
    RequestMayFail = TRUE
SPECIFICATION FairAttemptsSpec
INVARIANTS NoLostReadyChange ConnectedIsTrue LinkIsNoticed WifiInv
PROPERTIES ImplementsStation PollEnds ReadyIsFollowed FlagSettles

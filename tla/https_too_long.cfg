\* As https_request; one request is enough.
CONSTANTS
    c1 = c1
    c2 = c2
    Contexts <- MCContexts
    NoFd = NoFd
    DnsAttempts = 2
    MaxRequests = 1
    ListLengths = {0, 57, 513}
    TokenLengths = {250, 502}
    Room = 845
    SendSize = 4
    RecvSize = 3
CHECK_DEADLOCK FALSE
SPECIFICATION Spec
INVARIANT RequestFits

\* Two TLS contexts (prj.conf), four requests: two can be abandoned and two more find
\* every context taken.
CONSTANTS
    c1 = c1
    c2 = c2
    Contexts <- MCContexts
    NoFd = NoFd
    DnsAttempts = 2
    MaxRequests = 4
    ListLengths = {0, 57, 513}
    TokenLengths = {250, 502}
    Room = 845
    SendSize = 4
    RecvSize = 3
CHECK_DEADLOCK FALSE
SPECIFICATION FairSpec
INVARIANTS OnlyAbandonedRequestsLeak AnswerIsFresh HttpsInv
PROPERTIES RequestProgresses ImplementsCloudRequest RequestEnds

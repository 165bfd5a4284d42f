SPECIFICATION FairSpec
CONSTANTS
    Clients = {c1, c2, c3}
    Requests = {q1, q2}
    Limiters = {l1, l2}
    NoClient = NoClient
    NoLimiter = NoLimiter
    TokenTime = 2
    BucketSize = 4
    ActiveInterval = 6
    MaxClients = 2
    MaxStall = 2
INVARIANTS
    TypeOK
    UsesTheOneInTheMap
    IInv
PROPERTIES
    NeverForgets
    InactiveLeave

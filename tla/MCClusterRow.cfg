SPECIFICATION FairSpec
CONSTANTS
    Clusters = {c1, c2}
    Requests = {t1, t2}
    NoCluster = NoCluster
    NoRequest = NoRequest
    MaxRetries = 2
INVARIANTS
    TypeOK
    OwnCertificate
    DeadlocksTakeADelete
    ThresholdsOfOnePatch
    IInv
PROPERTIES
    RequestsEnd
CHECK_DEADLOCK FALSE

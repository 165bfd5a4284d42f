SPECIFICATION FairSpec
CONSTANTS
    Replicas = {r1}
    Clusters = {i1, i2}
    Fingerprints = {f1}
    Names = {n1}
    Auths = {a1, a2}
    NoCluster = NoCluster
    NoAuth = NoAuth
    MaxRetries = 2
    None = None
INVARIANTS
    IInv
    AuthenticatedAsItself
    JoinedIsTrusted
PROPERTIES
    RevokedForGood
    RevokedInTheEnd
    AuthsEnd

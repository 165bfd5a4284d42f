SPECIFICATION AccessSpec
CONSTANTS
    Names = {n1}
    Certs = {c1, c2}
    Tokens = {k1, k2}
    Joins = {j1, j2}
    NoName = NoName
    NoToken = NoToken
    NoAsk = NoAsk
    MaxRetries = 2
    Replicas = {r1}
    Fingerprints = {c1, c2}
    FingerprintOf <- MCFingerprintOf
    Auths = {a1}
    NoCluster = NoCluster
    NoAuth = NoAuth
    None = None
SYMMETRY Symmetry
CONSTRAINT Bound
INVARIANTS
    OnlyEnrolled
PROPERTIES
    ImplementsMtlsAuth

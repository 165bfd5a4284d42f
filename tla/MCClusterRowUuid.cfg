SPECIFICATION Spec
CONSTANTS
    Clusters = {c1}
    Requests = {t1, t2}
    NoCluster = NoCluster
    NoRequest = NoRequest
    MaxRetries = 1
PROPERTIES
    UuidPersists
CHECK_DEADLOCK FALSE

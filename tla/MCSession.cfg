SPECIFICATION FairSpec
CONSTANTS
    Identities = {i1}
    Requests = {q1, q2, q3}
    NoIdentity = NoIdentity
    NoRequest = NoRequest
    MaxRetries = 2
INVARIANTS
    TypeOK
    IInv
    NeverConflicts
    NoLateEntry
PROPERTIES
    OneSession
    RequestsEnd
CHECK_DEADLOCK FALSE

SPECIFICATION FairSpec
CONSTANTS
    Names = {n1, n2}
    Certs = {c1}
    Tokens = {k1, k2}
    Joins = {j1, j2}
    NoName = NoName
    NoToken = NoToken
    NoAsk = NoAsk
    MaxRetries = 2
INVARIANTS
    IInv
    HoldersJoin
PROPERTIES
    OneClusterPerToken
    JoinsEnd
CHECK_DEADLOCK FALSE

SPECIFICATION FairSpec
CONSTANTS
    Members = {m1, m2}
    Conns = {c1, c2}
    Requests = {q1}
    NoConn = NoConn
    NoMember = NoMember
    NoRow = NoRow
    MaxHeartbeats = 1
INVARIANTS
    TypeOK
    WaitersServed
    TunnelServed
    IInv
PROPERTIES
    AtMostOnce
    TakenDownByItsOwn
    RequestsEnd
    HandlersEnd

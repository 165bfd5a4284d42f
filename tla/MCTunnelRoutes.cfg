SPECIFICATION Spec
CONSTANTS
    Members = {m1}
    Conns = {c1, c2}
    Requests = {q1}
    NoConn = NoConn
    NoMember = NoMember
    NoRow = NoRow
    MaxHeartbeats = 0
SYMMETRY Symmetry
PROPERTIES
    ResponsesReachWaiters

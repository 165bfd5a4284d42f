SPECIFICATION Spec
CONSTANTS
    Names = {n1}
    Certs = {c1}
    Tokens = {k1, k2}
    Joins = {j1}
    NoName = NoName
    NoToken = NoToken
    NoAsk = NoAsk
    MaxRetries = 1
PROPERTIES
    ConsumesCheckedToken
CHECK_DEADLOCK FALSE

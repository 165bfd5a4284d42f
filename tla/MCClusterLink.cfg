SPECIFICATION Spec
CONSTANTS
    Clusters = {c1, c2}
    Names = {}
    Sagas = {s1, s2}
    NoSaga = NoSaga
    NoLink = NoLink
SYMMETRY Symmetry
INVARIANTS
    EndsAgree
    IInv
PROPERTIES
    CleanupIsOwn
CHECK_DEADLOCK FALSE
